----------------------------- MODULE ChatTurn -----------------------------
(***************************************************************************)
(* A conversation on the chat page: the stream() generator of POST /chat   *)
(* (backend/app/api/v1/chat.py), the events it sends, the reader in        *)
(* frontend/lib/api.ts and the handlers of frontend/app/page.tsx, which    *)
(* patch the last turn on the screen whichever question it belongs to.     *)
(***************************************************************************)
EXTENDS AnswerGuard

CONSTANTS
    Vocabulary,   \* spans the language model writes, one per token event
    MaxSpans,     \* bound: spans of one draft
    MaxRequests,  \* bound: questions asked
    Contexts      \* what retrieval returns: the (act, section) pairs of the
                  \* statute chunks, and result.should_answer

ASSUME ChatAssumption ==
    /\ Vocabulary \subseteq Spans
    /\ MaxSpans \in Nat
    /\ MaxRequests \in Nat
    /\ Contexts \subseteq [allowed : SUBSET (Acts \X Numbers), answers : BOOLEAN]

Requests == 1 .. MaxRequests

NoContext == [allowed |-> {}, answers |-> FALSE]

Verdicts == {"none", "ok", "stripped", "refused"}

VARIABLES
    server,     \* server[r]: the next step of the generator of question r
    context,    \* context[r]: what retrieval returned for r
    draft,      \* draft[r]: pieces, what the model has written for r
    wire,       \* wire[r]: events sent and not yet dispatched
    reader,     \* reader[r]: the read loop of streamChat
    turns,      \* what is on the screen: a question and its answer each
    busy        \* the page's busy flag

serverVars == <<server, context, draft>>
vars == <<server, context, draft, wire, reader, turns, busy>>

Event(type, text, verdict) ==
    [type |-> type, text |-> text, verdict |-> verdict]

Events == [type : {"meta", "token", "validation", "done", "error"},
           text : Answers, verdict : Verdicts]

\* request says which question the turn was opened for.  Nothing in the page
\* reads it: the page knows its turns by position only.
Turns == [request : Requests, text : Answers, verdict : Verdicts,
          done : BOOLEAN, error : BOOLEAN]

NewTurn(r) == [request |-> r, text |-> <<>>, verdict |-> "none",
               done |-> FALSE, error |-> FALSE]

TypeOK ==
    /\ server \in [Requests ->
         {"none", "retrieve", "refuse", "judge", "generate", "store",
          "finish", "closed", "dead"}]
    /\ context \in [Requests -> Contexts \cup {NoContext}]
    /\ draft \in [Requests -> Seq(Vocabulary)]
    /\ wire \in [Requests -> Seq(Events)]
    /\ reader \in [Requests ->
         {"none", "reading", "aborted", "stopped", "lost", "ended"}]
    /\ turns \in Seq(Turns)
    /\ busy \in BOOLEAN

Init ==
    /\ server = [r \in Requests |-> "none"]
    /\ context = [r \in Requests |-> NoContext]
    /\ draft = [r \in Requests |-> <<>>]
    /\ wire = [r \in Requests |-> <<>>]
    /\ reader = [r \in Requests |-> "none"]
    /\ turns = <<>>
    /\ busy = FALSE

-----------------------------------------------------------------------------
(* stream().                                                               *)

Emit(r, event) == wire' = [wire EXCEPT ![r] = Append(@, event)]

ServerGoto(r, step) == server' = [server EXCEPT ![r] = step]

\* An exception of retrieval; a request refused before the stream begins
\* reaches the page the same way.
RetrieveFails(r) ==
    /\ server[r] = "retrieve"
    /\ Emit(r, Event("error", <<>>, "none"))
    /\ ServerGoto(r, "closed")
    /\ UNCHANGED <<context, draft, reader, turns, busy>>

Retrieve(r) ==
    /\ server[r] = "retrieve"
    /\ \E c \in Contexts :
         /\ context' = [context EXCEPT ![r] = c]
         /\ ServerGoto(r, IF c.answers THEN "generate" ELSE "refuse")
    /\ Emit(r, Event("meta", <<>>, "none"))
    /\ UNCHANGED <<draft, reader, turns, busy>>

\* Low confidence: a fixed text is streamed and then validated as refused.
Refuse(r) ==
    /\ server[r] = "refuse"
    /\ Emit(r, Event("token", RefusalText, "none"))
    /\ ServerGoto(r, "judge")
    /\ UNCHANGED <<context, draft, reader, turns, busy>>

RefuseVerdict(r) ==
    /\ server[r] = "judge"
    /\ Emit(r, Event("validation", RefusalText, "refused"))
    /\ ServerGoto(r, "store")
    /\ UNCHANGED <<context, draft, reader, turns, busy>>

GenerateToken(r) ==
    /\ server[r] = "generate"
    /\ Len(draft[r]) < MaxSpans
    /\ \E span \in Vocabulary :
         /\ draft' = [draft EXCEPT ![r] = Append(@, span)]
         /\ Emit(r, Event("token", <<span>>, "none"))
    /\ UNCHANGED <<server, context, reader, turns, busy>>

\* The provider raises, perhaps after some tokens: no validation is sent.
GenerateFails(r) ==
    /\ server[r] = "generate"
    /\ Emit(r, Event("error", <<>>, "none"))
    /\ ServerGoto(r, "closed")
    /\ UNCHANGED <<context, draft, reader, turns, busy>>

\* Mutated form: the verdict is sent only when the guard changed something.
ValidateDraftIfChanged(r) ==
    /\ server[r] = "generate"
    /\ LET report == Validate(draft[r], context[r].allowed)
       IN  IF report.verdict = "ok" THEN UNCHANGED wire
           ELSE Emit(r, Event("validation", report.answer, report.verdict))
    /\ ServerGoto(r, "store")
    /\ UNCHANGED <<context, draft, reader, turns, busy>>

\* The model has finished: upgrade, verify, and send what may be shown.
ValidateDraft(r) ==
    /\ server[r] = "generate"
    /\ LET report == Validate(draft[r], context[r].allowed)
       IN  Emit(r, Event("validation", report.answer, report.verdict))
    /\ ServerGoto(r, "store")
    /\ UNCHANGED <<context, draft, reader, turns, busy>>

\* The answer is inserted into messages.  Its conversation_id references a
\* row of conversations that nothing has inserted (_get_or_create_conversation
\* is not called), so the insert fails, and its exception is swallowed.
Store(r) ==
    /\ server[r] = "store"
    /\ ServerGoto(r, "finish")
    /\ UNCHANGED <<context, draft, wire, reader, turns, busy>>

Finish(r) ==
    /\ server[r] = "finish"
    /\ Emit(r, Event("done", <<>>, "none"))
    /\ ServerGoto(r, "closed")
    /\ UNCHANGED <<context, draft, reader, turns, busy>>

Open == {"retrieve", "refuse", "judge", "generate", "store", "finish"}

\* The process ends, or the response is cut: the reader sees the end of the
\* body and no error event.
ServerDies(r) ==
    /\ server[r] \in Open
    /\ ServerGoto(r, "dead")
    /\ UNCHANGED <<context, draft, wire, reader, turns, busy>>

\* The client has gone, so the generator is cancelled at an await.
Cancelled(r) ==
    /\ server[r] \in Open
    /\ reader[r] # "reading"
    /\ ServerGoto(r, "closed")
    /\ UNCHANGED <<context, draft, wire, reader, turns, busy>>

-----------------------------------------------------------------------------
(* The page.                                                               *)

Reading(r) == reader[r] = "reading"

\* The next question: requests are numbered in the order they are sent.
Send(r) ==
    /\ ~busy
    /\ server[r] = "none"
    /\ \A q \in Requests : q < r => server[q] # "none"
    /\ busy' = TRUE
    /\ turns' = Append(turns, NewTurn(r))
    /\ reader' = [reader EXCEPT ![r] = "reading"]
    /\ ServerGoto(r, "retrieve")
    /\ UNCHANGED <<context, draft, wire>>

\* Mutated forms: the verdict arrives and the streamed text stays; the event's
\* name is stored for the verdict it carries.
PatchedKeepsText(turn, event) ==
    CASE event.type = "token" -> [turn EXCEPT !.text = @ \o event.text]
      [] event.type = "validation" -> [turn EXCEPT !.verdict = event.verdict]
      [] event.type = "done"  -> [turn EXCEPT !.done = TRUE]
      [] event.type = "error" -> [turn EXCEPT !.error = TRUE]
      [] event.type = "meta"  -> turn

PatchedWithName(turn, event) ==
    CASE event.type = "token" -> [turn EXCEPT !.text = @ \o event.text]
      [] event.type = "validation" ->
           [turn EXCEPT !.text = event.text, !.verdict = event.type]
      [] event.type = "done"  -> [turn EXCEPT !.done = TRUE]
      [] event.type = "error" -> [turn EXCEPT !.error = TRUE]
      [] event.type = "meta"  -> turn

\* patchLast and the onToken updater.
Patched(turn, event) ==
    CASE event.type = "token" -> [turn EXCEPT !.text = @ \o event.text]
      [] event.type = "validation" ->
           [turn EXCEPT !.text = event.text, !.verdict = event.verdict]
      [] event.type = "done"  -> [turn EXCEPT !.done = TRUE]
      [] event.type = "error" -> [turn EXCEPT !.error = TRUE]
      [] event.type = "meta"  -> turn

PatchLast(event) ==
    turns' = [turns EXCEPT ![Len(turns)] = Patched(@, event)]

Dispatch(r) ==
    /\ Reading(r)
    /\ wire[r] # <<>>
    /\ PatchLast(Head(wire[r]))
    /\ wire' = [wire EXCEPT ![r] = Tail(@)]
    /\ UNCHANGED <<serverVars, reader, busy>>

\* Mutated form: Stop hands the composer back at once.
StopUnlocks(r) ==
    /\ busy /\ Reading(r)
    /\ reader' = [reader EXCEPT ![r] = "aborted"]
    /\ busy' = FALSE
    /\ UNCHANGED <<serverVars, wire, turns>>

\* Stop; the pending read is rejected with an AbortError some time later.
Stop(r) ==
    /\ busy /\ Reading(r)
    /\ reader' = [reader EXCEPT ![r] = "aborted"]
    /\ UNCHANGED <<serverVars, wire, turns, busy>>

\* Mutated form: the screen is cleared and the stream is left running.
ResetKeepsReading ==
    /\ turns # <<>>
    /\ turns' = <<>>
    /\ UNCHANGED <<serverVars, wire, reader, busy>>

\* New conversation.
Reset ==
    /\ turns # <<>>
    /\ turns' = <<>>
    /\ reader' = [r \in Requests |->
                    IF Reading(r) THEN "aborted" ELSE reader[r]]
    /\ UNCHANGED <<serverVars, wire, busy>>

\* Offered on every finished turn; it always drops the last one.
Regenerate ==
    /\ ~busy
    /\ \E i \in DOMAIN turns : turns[i].done
    /\ turns' = SubSeq(turns, 1, Len(turns) - 1)
    /\ UNCHANGED <<serverVars, wire, reader, busy>>

\* Mutated form: the finally block only clears the flag.
ClosedSilently(failed) ==
    /\ busy' = FALSE
    /\ turns' = IF turns = <<>> THEN turns
                ELSE [turns EXCEPT ![Len(turns)].error = @ \/ failed]

\* The finally block of send: a turn that is still empty gets an error.
Closed(failed) ==
    /\ busy' = FALSE
    /\ turns' = IF turns = <<>> THEN turns
                ELSE [turns EXCEPT ![Len(turns)].error =
                        @ \/ failed \/ Blank(turns[Len(turns)].text)]

\* Mutated form: the end of the body counts only after a done or an error.
StreamEndsInOrder(r) ==
    /\ Reading(r)
    /\ wire[r] = <<>>
    /\ server[r] = "closed"
    /\ reader' = [reader EXCEPT ![r] = "ended"]
    /\ Closed(FALSE)
    /\ UNCHANGED <<serverVars, wire>>

\* The read loop has come to the end of the body.
StreamEnds(r) ==
    /\ Reading(r)
    /\ wire[r] = <<>>
    /\ server[r] \in {"closed", "dead"}
    /\ reader' = [reader EXCEPT ![r] = "ended"]
    /\ Closed(FALSE)
    /\ UNCHANGED <<serverVars, wire>>

\* The read is rejected after an abort: no error is shown.
AbortSettles(r) ==
    /\ reader[r] = "aborted"
    /\ reader' = [reader EXCEPT ![r] = "stopped"]
    /\ wire' = [wire EXCEPT ![r] = <<>>]
    /\ Closed(FALSE)
    /\ UNCHANGED serverVars

\* The connection breaks: the exception's message is shown.
ConnectionLost(r) ==
    /\ Reading(r)
    /\ reader' = [reader EXCEPT ![r] = "lost"]
    /\ wire' = [wire EXCEPT ![r] = <<>>]
    /\ Closed(TRUE)
    /\ UNCHANGED serverVars

-----------------------------------------------------------------------------
(* A generator that has begun goes on by itself, and so does the read      *)
(* loop.  The reader's clicks and the faults are not fair.                 *)

ServerStep(r) ==
    \/ Retrieve(r) \/ Refuse(r) \/ RefuseVerdict(r) \/ GenerateToken(r)
    \/ ValidateDraft(r) \/ Store(r) \/ Finish(r)

ServerFault(r) ==
    RetrieveFails(r) \/ GenerateFails(r) \/ ServerDies(r) \/ Cancelled(r)

PageStep(r) == Dispatch(r) \/ StreamEnds(r) \/ AbortSettles(r)

Next ==
    \/ \E r \in Requests :
         \/ ServerStep(r) \/ ServerFault(r) \/ PageStep(r)
         \/ Send(r) \/ Stop(r) \/ ConnectionLost(r)
    \/ Reset \/ Regenerate

Fairness ==
    \A r \in Requests : WF_vars(ServerStep(r)) /\ WF_vars(PageStep(r))

Spec == Init /\ [][Next]_vars /\ Fairness

-----------------------------------------------------------------------------
(* Properties of the conversation.                                         *)

LastTurn == turns[Len(turns)]

\* A stream that is read patches its own turn: the last turn on the screen
\* is the one its question opened, and no other stream is read.
ReaderOwnsLastTurn ==
    \A r \in Requests :
        Reading(r) =>
            /\ busy
            /\ turns # <<>> /\ LastTurn.request = r
            /\ \A q \in Requests : reader[q] \in {"reading", "aborted"} => q = r

\* The answer text that question r may show: a part of its own draft until
\* the verdict has come, and the validated answer from then on.
MayShow(r, text, verdict) ==
    IF ~context[r].answers
    THEN verdict \in {"none", "refused"} /\ text \in {<<>>, RefusalText}
    ELSE IF verdict = "none"
    THEN \E n \in 0 .. Len(draft[r]) : text = SubSeq(draft[r], 1, n)
    ELSE LET report == Validate(draft[r], context[r].allowed)
         IN  text = report.answer /\ verdict = report.verdict

\* Every turn shows what the server has sent for its own question, in order,
\* and the validated text supersedes whatever streamed (page.tsx:67-69).
ShowsOwnAnswer ==
    \A i \in DOMAIN turns :
        MayShow(turns[i].request, turns[i].text, turns[i].verdict)

\* No turn that is over is left on "Retrieving...": it has text or an error
\* (page.tsx:80-91).
NoSilentTurn ==
    \A i \in DOMAIN turns :
        i < Len(turns) \/ ~busy => ~Blank(turns[i].text) \/ turns[i].error

\* Text stays on the screen without a verdict only if the turn shows an
\* error, the reader stopped it, or the server died under it.
UnvalidatedIsExplained ==
    \A i \in DOMAIN turns :
        (i < Len(turns) \/ ~busy) /\ turns[i].verdict = "none" =>
            \/ turns[i].error
            \/ reader[turns[i].request] = "stopped"
            \/ server[turns[i].request] = "dead"

\* A question never leaves the page busy for ever.
QuestionEnds == busy ~> ~busy

\* The abstract conversation.
TurnState(i) ==
    IF busy /\ i = Len(turns) THEN "pending"
    ELSE IF turns[i].verdict = "none" THEN "unvalidated" ELSE "validated"

Board == INSTANCE ChatBoard
         WITH board <- [i \in DOMAIN turns |-> TurnState(i)], waiting <- busy

\* The page and the stream implement ChatBoard: a turn that is over changes
\* no more, whatever arrives late.
ImplementsBoard == Board!BoardSpec

-----------------------------------------------------------------------------
(* Properties of the guard, for every answer on the screen that the model  *)
(* wrote and the guard let through.                                        *)

Judged == {i \in DOMAIN turns : /\ turns[i].verdict # "none"
                                /\ context[turns[i].request].answers}

Passed == {i \in Judged : turns[i].verdict # "refused"}

DraftOf(i)   == draft[turns[i].request]
AllowedOf(i) == context[turns[i].request].allowed

\* An exactly written citation on the screen names a retrieved section.
CitationsRetrieved ==
    \A i \in Passed :
        ExactCitationsRetrieved(turns[i].text, DraftOf(i), AllowedOf(i))

\* No quotation the sources do not support is on the screen once validated.
NoMisquotation == \A i \in Judged : ~Misquotes(turns[i].text)

\* An answer over retrieved sections mentions at least one of them.
AnswersGrounded == \A i \in Passed : Grounded(turns[i].text, AllowedOf(i))

\* The guard's edits destroy no support: its output for a draft with exactly
\* written citations passes the guard again, unchanged.
GuardIsStable ==
    \A i \in Passed : Stable(turns[i].text, DraftOf(i), AllowedOf(i))

\* Upgrading turns an acceptable draft into a refusal only by rewriting a
\* reference inside a quotation (guards.py:160 against 245-257).
RefusedForQuotationOnly ==
    \A i \in Judged : UpgradeHarmsQuotationsOnly(DraftOf(i), AllowedOf(i))

-----------------------------------------------------------------------------
(* What the repository says of the program and the program does not do.    *)

\* guards.py:285-287, the text shown when guard 2 refuses: the draft "put
\* wording in quotation marks that does not match the statute as written".
HonestQuotesPass ==
    \A i \in Judged : HonestQuotes(DraftOf(i), AllowedOf(i))

\* test_guards.py, test_right_number_but_wrong_act_is_invented: a citation
\* whose (Act, section) pair was not retrieved is reported as invented.
WrongActIsInvented ==
    \A i \in Judged :
        Cited(DraftOf(i)) \ AllowedOf(i)
            \subseteq Validate(DraftOf(i), AllowedOf(i)).invented

=============================================================================
