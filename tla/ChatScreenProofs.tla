-------------------------- MODULE ChatScreenProofs --------------------------
(***************************************************************************)
(* What is left on the screen when a question is over, however it ended:   *)
(* the turn shows its own answer, it is not silent, and if it has no       *)
(* verdict the screen or the way it ended says why.                        *)
(***************************************************************************)
EXTENDS ChatTurnProofs

-----------------------------------------------------------------------------
(* Common to the three.                                                    *)

\* The last turn while a stream is read, and the step that patches it.
LEMMA DispatchTurns ==
    ASSUME PageInv, NEW r \in Requests, Dispatch(r), NEW n, n = Len(turns)
    PROVE  /\ UNCHANGED <<server, draft, context, reader, busy>> /\ busy
           /\ turns # <<>> /\ n \in DOMAIN turns
           /\ turns[n] \in Turns /\ turns[n].request = r
           /\ DOMAIN turns' = DOMAIN turns /\ Len(turns') = n /\ turns' # <<>>
           /\ turns'[n] = Patched(turns[n], Head(wire[r]))
           /\ turns'[n] \in Turns /\ turns'[n].request = r
           /\ \A i \in DOMAIN turns : i # n => turns'[i] = turns[i]
<1> DEFINE e == Head(wire[r])
<1>1. /\ UNCHANGED <<server, draft, context, reader, busy>> /\ busy
      /\ turns # <<>> /\ turns[n].request = r /\ turns[n] \in Turns
      /\ turns' = [turns EXCEPT ![n] = Patched(turns[n], e)]
  BY DEF Dispatch, serverVars, PatchLast, PageInv, TypeOK, OneReader,
     Attached, Reading, LastTurn
<1>2. Patched(turns[n], e) \in Turns /\ Patched(turns[n], e).request = r
  BY <1>1, DispatchIndex, PatchedType
<1> QED BY <1>1, <1>2, LastReplaced DEF PageInv, TypeOK

\* What the finally block leaves of the turns, and of the last one's error.
LEMMA ClosedTurns ==
    ASSUME PageInv, NEW failed \in BOOLEAN, Closed(failed)
    PROVE  /\ DOMAIN turns' = DOMAIN turns /\ Len(turns') = Len(turns)
           /\ \A i \in DOMAIN turns :
                /\ turns'[i].request = turns[i].request
                /\ turns'[i].text = turns[i].text
                /\ turns'[i].verdict = turns[i].verdict
                /\ turns'[i].error = IF i = Len(turns)
                                     THEN \/ turns[i].error \/ failed
                                          \/ Blank(turns[i].text)
                                     ELSE turns[i].error
<1> DEFINE n == Len(turns)
           x == turns[n].error \/ failed \/ Blank(turns[n].text)
<1>1. CASE turns = <<>>
  BY <1>1 DEF Closed
<1>2. CASE turns # <<>>
  <2>1. /\ turns \in Seq(Turns) /\ n \in DOMAIN turns /\ turns[n] \in Turns
    BY <1>2 DEF PageInv, TypeOK
  <2>2. turns' = [turns EXCEPT ![n] = [turns[n] EXCEPT !.error = x]]
    BY <1>2 DEF Closed
  <2>3. /\ [turns[n] EXCEPT !.error = x].text = turns[n].text
        /\ [turns[n] EXCEPT !.error = x].request = turns[n].request
        /\ [turns[n] EXCEPT !.error = x].verdict = turns[n].verdict
        /\ [turns[n] EXCEPT !.error = x].error = x
    BY <2>1 DEF Turns
  <2>4. DOMAIN turns' = DOMAIN turns /\ Len(turns') = n
    BY <2>1, <2>2
  <2>5. \A i \in DOMAIN turns :
          turns'[i] = IF i = n THEN [turns[n] EXCEPT !.error = x]
                      ELSE turns[i]
    BY <2>1, <2>2
  <2>6. x = (turns[n].error \/ failed \/ Blank(turns[n].text))
    OBVIOUS
  <2> HIDE DEF x
  <2> QED BY <2>3, <2>4, <2>5, <2>6
<1> QED BY <1>1, <1>2

\* One more turn at the end of the screen.
LEMMA SendTurns ==
    ASSUME PageInv, NEW r \in Requests, Send(r)
    PROVE  /\ ~busy /\ busy' /\ UNCHANGED <<context, draft, wire>>
           /\ turns' # <<>> /\ Len(turns') = Len(turns) + 1
           /\ DOMAIN turns' = 1 .. Len(turns) + 1
           /\ DOMAIN turns = 1 .. Len(turns) /\ Len(turns) \in Nat
           /\ turns'[Len(turns) + 1] = NewTurn(r)
           /\ LastTurn' = NewTurn(r)
           /\ \A i \in DOMAIN turns : turns'[i] = turns[i]
           /\ \A i \in DOMAIN turns' :
                \/ i \in DOMAIN turns
                \/ i = Len(turns) + 1 /\ turns'[i] = NewTurn(r)
           /\ server[r] = "none" /\ server'[r] = "retrieve"
           /\ reader'[r] = "reading"
           /\ \A q \in Requests \ {r} : /\ server'[q] = server[q]
                                        /\ reader'[q] = reader[q]
<1>1. turns \in Seq(Turns) /\ turns' = Append(turns, NewTurn(r))
  BY DEF Send, PageInv, TypeOK
<1>2. /\ turns' # <<>> /\ Len(turns') = Len(turns) + 1
      /\ DOMAIN turns' = 1 .. Len(turns) + 1
      /\ DOMAIN turns = 1 .. Len(turns) /\ Len(turns) \in Nat
      /\ turns'[Len(turns) + 1] = NewTurn(r)
      /\ \A i \in DOMAIN turns : turns'[i] = turns[i]
  BY <1>1
<1>3. LastTurn' = NewTurn(r)
  BY <1>2 DEF LastTurn
<1>4. \A i \in DOMAIN turns' :
        \/ i \in DOMAIN turns
        \/ i = Len(turns) + 1 /\ turns'[i] = NewTurn(r)
  BY <1>2
<1> QED BY <1>2, <1>3, <1>4 DEF Send, ServerGoto, PageInv, TypeOK

\* Regenerate drops the last turn of a page that is not busy.
LEMMA RegenerateTurns ==
    ASSUME PageInv, Regenerate
    PROVE  /\ ~busy /\ UNCHANGED <<server, draft, context, wire, reader, busy>>
           /\ \A i \in DOMAIN turns' : i \in DOMAIN turns /\ turns'[i] = turns[i]
<1>1. turns \in Seq(Turns) /\ turns' = SubSeq(turns, 1, Len(turns) - 1)
  BY DEF Regenerate, PageInv, TypeOK
<1>2. \A i \in DOMAIN turns' : i \in DOMAIN turns /\ turns'[i] = turns[i]
  BY <1>1
<1> QED BY <1>2 DEF Regenerate, serverVars

-----------------------------------------------------------------------------
(* No turn is left silent.                                                 *)

\* Every step keeps the finished turns from being silent.
LEMMA SilenceStep ==
    ASSUME PageInv, NoSilentTurn, [Next]_vars
    PROVE  NoSilentTurn'
<1>1. CASE turns' = turns /\ busy' = busy
  BY <1>1 DEF NoSilentTurn
<1>2. ASSUME NEW r \in Requests, Send(r) PROVE NoSilentTurn'
  BY <1>2, SendTurns DEF NoSilentTurn
<1>3. ASSUME NEW r \in Requests, Dispatch(r) PROVE NoSilentTurn'
  BY <1>3, DispatchTurns DEF NoSilentTurn
<1>4. CASE Reset
  BY <1>4 DEF Reset, NoSilentTurn
<1>5. CASE Regenerate
  BY <1>5, RegenerateTurns DEF NoSilentTurn
<1>6. ASSUME NEW failed \in BOOLEAN, Closed(failed), busy PROVE NoSilentTurn'
  <2>1. \A i \in DOMAIN turns : i <= Len(turns)
    BY DEF PageInv, TypeOK
  <2>2. ASSUME NEW i \in DOMAIN turns
        PROVE  ~Blank(turns'[i].text) \/ turns'[i].error
    <3>1. turns'[i].text = turns[i].text
      BY <1>6, ClosedTurns
    <3>2. CASE i = Len(turns)
      BY <1>6, <3>1, <3>2, ClosedTurns
    <3>3. CASE i # Len(turns)
      <4>1. i < Len(turns)
        BY <2>1, <3>3 DEF PageInv, TypeOK
      <4> QED BY <1>6, <3>1, <3>3, <4>1, ClosedTurns DEF NoSilentTurn
    <3> QED BY <3>2, <3>3
  <2> QED BY <1>6, <2>2, ClosedTurns DEF NoSilentTurn
<1>7. ASSUME NEW r \in Requests,
             StreamEnds(r) \/ AbortSettles(r) \/ ConnectionLost(r)
      PROVE  NoSilentTurn'
  BY <1>6, <1>7 DEF StreamEnds, AbortSettles, ConnectionLost, PageInv,
     OneReader, Attached, Reading
<1>8. ASSUME NEW r \in Requests,
             \/ ServerStep(r) \/ ServerFault(r) \/ Stop(r)
      PROVE  turns' = turns /\ busy' = busy
  BY <1>8 DEF ServerStep, ServerFault, Retrieve, Refuse, RefuseVerdict,
     GenerateToken, ValidateDraft, Store, Finish, RetrieveFails,
     GenerateFails, ServerDies, Cancelled, Stop
<1> QED
  BY <1>1, <1>2, <1>3, <1>4, <1>5, <1>7, <1>8 DEF Next, PageStep, vars

\* However a question ended, its turn is not left on "Retrieving...": it has
\* text that is not blank or shows an error.
THEOREM ChatNoSilentTurn == Spec => []NoSilentTurn
<1>1. Init => NoSilentTurn
  BY DEF Init, NoSilentTurn
<1>2. Spec => []PageInv
  BY PageInit, PageStepInv, PTL DEF Spec
<1> QED BY <1>1, <1>2, SilenceStep, PTL DEF Spec

-----------------------------------------------------------------------------
(* Text without a verdict is explained.                                    *)

\* An event that gives its turn a verdict or an error.
Decides(e) == e.type = "error" \/ (e.type = "validation" /\ e.verdict # "none")

\* A generator that has sent its last word has sent one that decides its turn,
\* and it has arrived or is still under way.
Decided(r) ==
    Reading(r) /\ server[r] \in {"store", "finish", "closed"} =>
        \/ \E k \in DOMAIN wire[r] : Decides(wire[r][k])
        \/ LastTurn.verdict # "none"
        \/ LastTurn.error

\* A stream being given up has its turn last on the screen, unless the screen
\* was cleared; a question not asked yet has no reader that was stopped.
GivenUpIsLast(r) ==
    /\ reader[r] = "aborted" => turns = <<>> \/ LastTurn.request = r
    /\ server[r] = "none" => reader[r] = "none"

ExplainInv ==
    /\ UnvalidatedIsExplained
    /\ \A r \in Requests : Decided(r) /\ GivenUpIsLast(r)

\* Every validation under way carries a verdict.
LEMMA ValidationCarriesVerdict ==
    ASSUME ChatInv, NEW r \in Requests, NEW k \in DOMAIN wire[r],
           wire[r][k].type = "validation"
    PROVE  wire[r][k].verdict # "none" /\ Decides(wire[r][k])
<1>1. wire[r][k].verdict = Expected(draft[r], context[r]).verdict
  BY DEF ChatInv, VerdictInv, WireCarriesVerdict
<1>2. Expected(draft[r], context[r]).verdict # "none"
  BY DraftTypes, ValidateType DEF Expected, ChatInv, PageInv
<1> QED BY <1>1, <1>2 DEF Decides

\* The generator's steps: what it sends stays under way, and before it is done
\* it has sent what decides its turn.
LEMMA ServerKeepsExplained ==
    ASSUME PageInv, ExplainInv, NEW r \in Requests,
           UNCHANGED <<turns, reader, busy>>, server[r] # "dead",
           server[r] # "none", server'[r] # "none",
           \A q \in Requests \ {r} : server'[q] = server[q]
                                     /\ wire'[q] = wire[q],
           \A k \in DOMAIN wire[r] :
             k \in DOMAIN wire'[r] /\ wire'[r][k] = wire[r][k],
           \/ server'[r] \notin {"store", "finish", "closed"}
           \/ server[r] \in {"store", "finish"}
           \/ reader[r] # "reading"
           \/ \E k \in DOMAIN wire'[r] : Decides(wire'[r][k])
    PROVE  ExplainInv'
<1>1. UnvalidatedIsExplained'
  <2>1. \A i \in DOMAIN turns : turns[i].request \in Requests
    BY TurnRequests DEF PageInv
  <2>2. \A q \in Requests : server[q] = "dead" => server'[q] = "dead"
    OBVIOUS
  <2> QED BY <2>1, <2>2 DEF ExplainInv, UnvalidatedIsExplained
<1>2. \A q \in Requests : GivenUpIsLast(q)'
  BY DEF ExplainInv, GivenUpIsLast, LastTurn
<1>3. Decided(r)'
  BY DEF ExplainInv, Decided, LastTurn, Reading
<1>4. \A q \in Requests \ {r} : Decided(q)'
  BY DEF ExplainInv, Decided, LastTurn, Reading
<1> QED BY <1>1, <1>2, <1>3, <1>4 DEF ExplainInv

\* A generator that sends one event and goes on.
LEMMA EmitKeepsExplained ==
    ASSUME PageInv, ExplainInv, NEW r \in Requests, NEW e, Emit(r, e),
           UNCHANGED <<turns, reader, busy>>, server[r] \in Open,
           server'[r] # "none",
           \A q \in Requests \ {r} : server'[q] = server[q],
           \/ server'[r] \notin {"store", "finish", "closed"}
           \/ server[r] \in {"store", "finish"}
           \/ Decides(e)
    PROVE  ExplainInv'
<1>1. /\ Len(wire[r]) + 1 \in DOMAIN wire'[r]
      /\ wire'[r][Len(wire[r]) + 1] = e
      /\ \A k \in DOMAIN wire[r] :
           k \in DOMAIN wire'[r] /\ wire'[r][k] = wire[r][k]
      /\ \A q \in Requests \ {r} : wire'[q] = wire[q]
  BY EmitIndex
<1> QED BY <1>1, ServerKeepsExplained DEF Open

\* The finally block: the stream that is over is stopped, has failed, or has
\* decided its turn.
LEMMA ClosedKeepsExplained ==
    ASSUME PageInv, ExplainInv, NEW r \in Requests, NEW failed \in BOOLEAN,
           Closed(failed), Attached(r), UNCHANGED server,
           reader'[r] \notin {"none", "reading", "aborted"},
           \A q \in Requests \ {r} : reader'[q] = reader[q],
           turns # <<>> /\ LastTurn.verdict = "none" =>
             \/ LastTurn.error
             \/ failed
             \/ LastTurn.request = r /\ reader'[r] = "stopped"
             \/ LastTurn.request = r /\ server[r] = "dead"
    PROVE  ExplainInv'
<1>1. \A q \in Requests \ {r} : ~Attached(q)
  BY DEF PageInv, OneReader
<1>2. \A q \in Requests : (Decided(q) /\ GivenUpIsLast(q))'
  BY <1>1 DEF ExplainInv, Decided, GivenUpIsLast, Attached, Reading
<1>3. UnvalidatedIsExplained'
  <2> SUFFICES ASSUME NEW i \in DOMAIN turns', turns'[i].verdict = "none"
               PROVE  \/ turns'[i].error
                      \/ reader'[turns'[i].request] = "stopped"
                      \/ server'[turns'[i].request] = "dead"
    BY DEF UnvalidatedIsExplained
  <2>0. i \in DOMAIN turns
    BY ClosedTurns
  <2>1. /\ turns # <<>>
        /\ turns'[i].request = turns[i].request
        /\ turns[i].verdict = "none"
        /\ turns[i].request \in Requests
    <3>1. turns[i].request \in Requests
      BY <2>0, TurnRequests DEF PageInv
    <3>2. turns # <<>>
      BY <2>0
    <3>3. turns'[i].verdict = turns[i].verdict
          /\ turns'[i].request = turns[i].request
      BY <2>0, ClosedTurns
    <3> QED BY <3>1, <3>2, <3>3
  <2>2. CASE i = Len(turns)
    <3>1. turns[i].error \/ failed => turns'[i].error
      BY <2>0, <2>2, ClosedTurns
    <3> QED BY <2>1, <2>2, <3>1 DEF LastTurn
  <2>3. CASE i # Len(turns)
    <3>1. turns'[i].error = turns[i].error
      BY <2>0, <2>3, ClosedTurns
    <3>2. i < Len(turns)
      BY <2>0, <2>3 DEF PageInv, TypeOK
    <3>3. \/ turns[i].error
          \/ reader[turns[i].request] = "stopped"
          \/ server[turns[i].request] = "dead"
      BY <2>0, <2>1, <3>2 DEF ExplainInv, UnvalidatedIsExplained
    <3> QED BY <2>1, <3>1, <3>3 DEF Attached
  <2> QED BY <2>2, <2>3
<1> QED BY <1>2, <1>3 DEF ExplainInv

\* Dispatching what decides the turn decides it.
LEMMA DispatchKeepsExplained ==
    ASSUME ChatInv, ExplainInv, NEW r \in Requests, Dispatch(r)
    PROVE  ExplainInv'
<1> USE DEF ChatInv
<1> DEFINE e == Head(wire[r])
<1>0. PICK n : n = Len(turns)
  OBVIOUS
<1>1. /\ UNCHANGED <<server, draft, context, reader, busy>> /\ busy
      /\ turns # <<>> /\ n \in DOMAIN turns
      /\ turns[n] \in Turns /\ turns[n].request = r
      /\ DOMAIN turns' = DOMAIN turns /\ Len(turns') = n /\ turns' # <<>>
      /\ turns'[n] = Patched(turns[n], e)
      /\ turns'[n].request = r
      /\ \A i \in DOMAIN turns : i # n => turns'[i] = turns[i]
  BY <1>0, DispatchTurns
<1>2. \A q \in Requests \ {r} : ~Attached(q)
  BY DEF PageInv, OneReader, Dispatch, Attached, Reading
<1>3. UnvalidatedIsExplained'
  BY <1>0, <1>1 DEF ExplainInv, UnvalidatedIsExplained
<1>4. \A q \in Requests : GivenUpIsLast(q)'
  BY <1>1, <1>2 DEF ExplainInv, GivenUpIsLast, Dispatch, Attached, Reading
<1>5. /\ turns[n].verdict # "none" => turns'[n].verdict # "none"
      /\ turns[n].error => turns'[n].error
      /\ Decides(e) => turns'[n].verdict # "none" \/ turns'[n].error
  <2>1. e.type = "validation" => e.verdict # "none"
    BY DispatchIndex, ValidationCarriesVerdict
  <2>2. e \in Events
    BY DispatchIndex
  <2> QED BY <1>1, <2>1, <2>2 DEF Decides, Patched, Turns, Events
<1>6. Decided(r)'
  <2> SUFFICES ASSUME server[r] \in {"store", "finish", "closed"}
               PROVE  \/ \E k \in DOMAIN wire'[r] : Decides(wire'[r][k])
                      \/ turns'[n].verdict # "none"
                      \/ turns'[n].error
    BY <1>1 DEF Decided, LastTurn
  <2>1. \/ \E k \in DOMAIN wire[r] : Decides(wire[r][k])
        \/ turns[n].verdict # "none"
        \/ turns[n].error
    BY <1>0 DEF ExplainInv, Decided, LastTurn, Dispatch
  <2>2. ASSUME NEW k \in DOMAIN wire[r], Decides(wire[r][k])
        PROVE  \/ \E m \in DOMAIN wire'[r] : Decides(wire'[r][m])
               \/ Decides(e)
    <3>1. /\ wire[r] \in Seq(Events) /\ wire[r] # <<>>
          /\ wire'[r] = Tail(wire[r])
      BY DEF PageInv, TypeOK, Dispatch
    <3>2. CASE k = 1
      BY <2>2, <3>1, <3>2
    <3>3. CASE k # 1
      <4>1. k - 1 \in DOMAIN wire'[r] /\ wire'[r][k - 1] = wire[r][k]
        BY <3>1, <3>3
      <4> QED BY <2>2, <4>1
    <3> QED BY <3>2, <3>3
  <2> QED BY <1>5, <2>1, <2>2
<1>7. \A q \in Requests \ {r} : Decided(q)'
  BY <1>1, <1>2 DEF Decided, Attached, Reading
<1> QED BY <1>3, <1>4, <1>6, <1>7 DEF ExplainInv

\* Every step keeps what is left without a verdict explained.
LEMMA ExplainStep ==
    ASSUME ChatInv, ExplainInv, [Next]_vars
    PROVE  ExplainInv'
<1> USE DEF ChatInv
<1>0. CASE UNCHANGED vars
  BY <1>0 DEF vars, ExplainInv, UnvalidatedIsExplained, Decided,
     GivenUpIsLast, LastTurn, Reading
<1>1. ASSUME NEW r \in Requests, RetrieveFails(r) \/ GenerateFails(r)
      PROVE  ExplainInv'
  BY <1>1, EmitKeepsExplained DEF RetrieveFails, GenerateFails, ServerGoto,
     Event, Decides, Open, PageInv, TypeOK
<1>2. ASSUME NEW r \in Requests, Retrieve(r) PROVE ExplainInv'
  BY <1>2, EmitKeepsExplained DEF Retrieve, ServerGoto, Open, PageInv, TypeOK
<1>3. ASSUME NEW r \in Requests, Refuse(r) PROVE ExplainInv'
  BY <1>3, EmitKeepsExplained DEF Refuse, ServerGoto, Open, PageInv, TypeOK
<1>4. ASSUME NEW r \in Requests, RefuseVerdict(r) PROVE ExplainInv'
  BY <1>4, EmitKeepsExplained DEF RefuseVerdict, ServerGoto, Event, Decides,
     Open, PageInv, TypeOK
<1>5. ASSUME NEW r \in Requests, GenerateToken(r) PROVE ExplainInv'
  <2>1. PICK span \in Vocabulary : Emit(r, Event("token", <<span>>, "none"))
    BY <1>5 DEF GenerateToken
  <2> QED BY <1>5, <2>1, EmitKeepsExplained DEF GenerateToken, Open
<1>6. ASSUME NEW r \in Requests, ValidateDraft(r) PROVE ExplainInv'
  <2> DEFINE report == Validate(draft[r], context[r].allowed)
             e == Event("validation", report.answer, report.verdict)
  <2>1. Decides(e)
    BY DraftTypes, ValidateType DEF Decides, Event, PageInv
  <2>2. Emit(r, e) /\ server[r] = "generate" /\ server'[r] = "store"
        /\ (\A q \in Requests \ {r} : server'[q] = server[q])
        /\ UNCHANGED <<turns, reader, busy>>
    BY <1>6 DEF ValidateDraft, ServerGoto, PageInv, TypeOK
  <2> HIDE DEF e
  <2> QED BY <2>1, <2>2, EmitKeepsExplained DEF Open
<1>7. ASSUME NEW r \in Requests, Finish(r) PROVE ExplainInv'
  BY <1>7, EmitKeepsExplained DEF Finish, ServerGoto, Open, PageInv, TypeOK
<1>8. ASSUME NEW r \in Requests,
             Store(r) \/ ServerDies(r) \/ Cancelled(r)
      PROVE  ExplainInv'
  BY <1>8, ServerKeepsExplained DEF Store, ServerDies, Cancelled, ServerGoto,
     Open, PageInv, TypeOK
<1>9. ASSUME NEW r \in Requests, Send(r) PROVE ExplainInv'
  <2> USE SendTurns, <1>9
  <2>1. \A q \in Requests : ~Attached(q)
    BY DEF PageInv, OneReader
  <2>2. \A q \in Requests : (Decided(q) /\ GivenUpIsLast(q))'
    <3>1. Decided(r)' /\ GivenUpIsLast(r)'
      BY DEF Decided, GivenUpIsLast
    <3>2. ASSUME NEW q \in Requests, q # r
          PROVE  Decided(q)' /\ GivenUpIsLast(q)'
      <4>1. reader[q] \notin {"reading", "aborted"} /\ GivenUpIsLast(q)
        BY <2>1 DEF ExplainInv, Attached
      <4>2. server'[q] = server[q] /\ reader'[q] = reader[q]
        BY <3>2
      <4> QED BY <4>1, <4>2 DEF Decided, GivenUpIsLast, Reading
    <3> QED BY <3>1, <3>2
  <2>3. reader[r] = "none"
    BY DEF ExplainInv, GivenUpIsLast
  <2>4. ASSUME NEW i \in DOMAIN turns', i < Len(turns') \/ ~busy',
               turns'[i].verdict = "none"
        PROVE  \/ turns'[i].error
               \/ reader'[turns'[i].request] = "stopped"
               \/ server'[turns'[i].request] = "dead"
    <3>1. i \in DOMAIN turns /\ turns'[i] = turns[i] /\ ~busy
      BY <2>4
    <3>2. turns[i].request \in Requests
      BY <3>1, TurnRequests DEF PageInv
    <3>3. \/ turns[i].error
          \/ reader[turns[i].request] = "stopped"
          \/ server[turns[i].request] = "dead"
      BY <2>4, <3>1 DEF ExplainInv, UnvalidatedIsExplained
    <3> QED BY <2>3, <3>1, <3>2, <3>3
  <2> QED BY <2>2, <2>4 DEF ExplainInv, UnvalidatedIsExplained
<1>10. ASSUME NEW r \in Requests, Dispatch(r) PROVE ExplainInv'
  BY <1>10, DispatchKeepsExplained
<1>11. ASSUME NEW r \in Requests, Stop(r) PROVE ExplainInv'
  <2>1. /\ UNCHANGED <<server, wire, turns, busy>>
        /\ reader[r] = "reading" /\ reader'[r] = "aborted"
        /\ turns # <<>> /\ LastTurn.request = r
        /\ \A q \in Requests \ {r} : reader'[q] = reader[q]
    BY <1>11 DEF Stop, serverVars, PageInv, TypeOK, OneReader, Reading
  <2>2. \A i \in DOMAIN turns : turns[i].request \in Requests
    BY TurnRequests DEF PageInv
  <2>3. UnvalidatedIsExplained'
    BY <2>1, <2>2 DEF ExplainInv, UnvalidatedIsExplained
  <2>4. \A q \in Requests : (Decided(q) /\ GivenUpIsLast(q))'
    BY <2>1 DEF ExplainInv, Decided, GivenUpIsLast, LastTurn, Reading
  <2> QED BY <2>3, <2>4 DEF ExplainInv
<1>12. CASE Reset
  BY <1>12 DEF Reset, serverVars, ExplainInv, UnvalidatedIsExplained, Decided,
     GivenUpIsLast, LastTurn, Reading
<1>13. CASE Regenerate
  <2>1. \A q \in Requests : ~Attached(q)
    BY <1>13, RegenerateTurns DEF PageInv, OneReader
  <2>2. UnvalidatedIsExplained'
    BY <1>13, RegenerateTurns DEF ExplainInv, UnvalidatedIsExplained
  <2>3. \A q \in Requests : (Decided(q) /\ GivenUpIsLast(q))'
    BY <1>13, <2>1, RegenerateTurns DEF ExplainInv, Decided, GivenUpIsLast,
       Attached, Reading
  <2> QED BY <2>2, <2>3 DEF ExplainInv
<1>14. ASSUME NEW r \in Requests, StreamEnds(r) PROVE ExplainInv'
  <2>1. /\ Closed(FALSE) /\ UNCHANGED server /\ Reading(r) /\ Attached(r)
        /\ reader'[r] = "ended"
        /\ \A q \in Requests \ {r} : reader'[q] = reader[q]
    BY <1>14 DEF StreamEnds, serverVars, PageInv, TypeOK, Reading, Attached
  <2>2. LastTurn.request = r
    BY <2>1 DEF PageInv, OneReader
  <2>3. server[r] = "dead" \/ LastTurn.verdict # "none" \/ LastTurn.error
    BY <1>14, <2>1 DEF StreamEnds, ExplainInv, Decided
  <2> QED BY <2>1, <2>2, <2>3, ClosedKeepsExplained
<1>15. ASSUME NEW r \in Requests, AbortSettles(r) PROVE ExplainInv'
  <2>1. /\ Closed(FALSE) /\ UNCHANGED server /\ Attached(r)
        /\ reader[r] = "aborted" /\ reader'[r] = "stopped"
        /\ \A q \in Requests \ {r} : reader'[q] = reader[q]
    BY <1>15 DEF AbortSettles, serverVars, PageInv, TypeOK, Attached
  <2>2. turns = <<>> \/ LastTurn.request = r
    BY <2>1 DEF ExplainInv, GivenUpIsLast
  <2> QED BY <2>1, <2>2, ClosedKeepsExplained
<1>16. ASSUME NEW r \in Requests, ConnectionLost(r) PROVE ExplainInv'
  <2>1. /\ Closed(TRUE) /\ UNCHANGED server /\ Attached(r)
        /\ reader'[r] = "lost"
        /\ \A q \in Requests \ {r} : reader'[q] = reader[q]
    BY <1>16 DEF ConnectionLost, serverVars, PageInv, TypeOK, Reading, Attached
  <2> QED BY <2>1, ClosedKeepsExplained
<1> QED
  BY <1>0, <1>1, <1>2, <1>3, <1>4, <1>5, <1>6, <1>7, <1>8, <1>9, <1>10,
     <1>11, <1>12, <1>13, <1>14, <1>15, <1>16
     DEF Next, ServerStep, ServerFault, PageStep

\* Text stays without a verdict only under an error, after Stop, or when the
\* server died: a stream that ends in order has brought its verdict.
THEOREM ChatUnvalidatedIsExplained == Spec => []UnvalidatedIsExplained
<1>1. Init => ExplainInv
  BY DEF Init, ExplainInv, UnvalidatedIsExplained, Decided, GivenUpIsLast,
     Reading
<1>2. ExplainInv => UnvalidatedIsExplained
  BY DEF ExplainInv
<1> QED BY <1>1, <1>2, ChatInvariant, ExplainStep, PTL DEF Spec

-----------------------------------------------------------------------------
(* Every turn shows its own answer.                                        *)

\* All the text that will ever be sent for r before its verdict, as far as it
\* is decided, and how many spans of it have been sent.
FullText(r) == IF context[r].answers THEN draft[r] ELSE RefusalText

Spoken(r) == IF context[r].answers THEN Len(draft[r]) ELSE 0

\* Before retrieval answers, nothing has been said.
Fresh(r) ==
    server[r] \in {"none", "retrieve"} =>
        /\ wire[r] = <<>> /\ draft[r] = <<>> /\ ~context[r].answers
        /\ \A i \in DOMAIN turns : turns[i].request = r => turns[i].text = <<>>

\* n spans are on the screen; on the wire are m meta events, then the next t
\* spans in order, then no more text.
Under(r, text, n, m, t) ==
    /\ n + t <= Len(FullText(r)) /\ m + t <= Len(wire[r])
    /\ text = SubSeq(FullText(r), 1, n)
    /\ \A k \in DOMAIN wire[r] :
         IF m < k /\ k <= m + t
         THEN /\ wire[r][k].type = "token"
              /\ wire[r][k].text = <<FullText(r)[n + k - m]>>
         ELSE wire[r][k].type # "token"
    /\ server[r] \in {"generate", "refuse"} =>
         m + t = Len(wire[r]) /\ n + t = Spoken(r)

InStep(r) ==
    Reading(r) /\ LastTurn.verdict = "none" =>
        \E n, m, t \in Nat : Under(r, LastTurn.text, n, m, t)

\* A turn without a verdict shows a beginning of its answer.
ShowsPrefix(i) ==
    \A r \in Requests :
        turns[i].request = r /\ turns[i].verdict = "none" =>
            \E n \in 0 .. Len(FullText(r)) :
                turns[i].text = SubSeq(FullText(r), 1, n)

TextInv ==
    /\ \A r \in Requests : Fresh(r) /\ InStep(r)
    /\ \A i \in DOMAIN turns : ShowsPrefix(i)

\* The two kinds of text are sequences of spans.
LEMMA FullTextType ==
    ASSUME TypeOK, NEW r \in Requests
    PROVE  /\ FullText(r) \in Seq(Spans) /\ Len(FullText(r)) \in Nat
           /\ ~context[r].answers => FullText(r) = <<Prose>>
<1>1. Prose \in Spans
  BY DEF Prose, Span, Spans
<1>2. <<Prose>> \in Seq(Spans)
  BY <1>1
<1>3. FullText(r) \in Seq(Spans)
  BY <1>2, DraftTypes DEF FullText, RefusalText, Answers
<1> QED BY <1>3 DEF FullText, RefusalText

\* No span of a text, and all of it.
LEMMA WholeText ==
    ASSUME NEW S, NEW s \in Seq(S)
    PROVE  SubSeq(s, 1, 0) = <<>> /\ SubSeq(s, 1, Len(s)) = s
OBVIOUS

\* A text beginning, and one span more.
LEMMA OneMoreSpan ==
    ASSUME NEW S, NEW s \in Seq(S), NEW n \in Nat, n < Len(s)
    PROVE  SubSeq(s, 1, n) \o <<s[n + 1]>> = SubSeq(s, 1, n + 1)
OBVIOUS

\* The beginnings of a text stay when it grows.
LEMMA GrowingText ==
    ASSUME NEW S, NEW s \in Seq(S), NEW x \in S, NEW n \in 0 .. Len(s)
    PROVE  /\ SubSeq(Append(s, x), 1, n) = SubSeq(s, 1, n)
           /\ Len(Append(s, x)) = Len(s) + 1
           /\ Append(s, x)[Len(s) + 1] = x
           /\ \A k \in 1 .. Len(s) : Append(s, x)[k] = s[k]
<1>1. /\ Len(Append(s, x)) = Len(s) + 1 /\ Append(s, x)[Len(s) + 1] = x
      /\ \A k \in 1 .. Len(s) : Append(s, x)[k] = s[k]
  OBVIOUS
<1>2. \A k \in 1 .. n : Append(s, x)[k] = s[k]
  BY <1>1
<1>3. SubSeq(Append(s, x), 1, n) = [k \in 1 .. n |-> Append(s, x)[k]]
  OBVIOUS
<1>4. SubSeq(s, 1, n) = [k \in 1 .. n |-> s[k]]
  OBVIOUS
<1> QED BY <1>1, <1>2, <1>3, <1>4

\* Beginnings and verdicts are what a turn may show.
LEMMA TextSuffices ==
    ASSUME ChatInv, TextInv PROVE ShowsOwnAnswer
<1> SUFFICES ASSUME NEW i \in DOMAIN turns, NEW r, r = turns[i].request
             PROVE  MayShow(r, turns[i].text, turns[i].verdict)
  BY DEF ShowsOwnAnswer
<1>1. r \in Requests
  BY TurnRequests DEF ChatInv, PageInv
<1>2. CASE turns[i].verdict # "none"
  <2>1. /\ turns[i].text = Expected(draft[r], context[r]).answer
        /\ turns[i].verdict = Expected(draft[r], context[r]).verdict
    BY <1>1, <1>2 DEF ChatInv, VerdictInv, ShowsVerdict
  <2> QED BY <1>2, <2>1 DEF Expected, MayShow
<1>3. CASE turns[i].verdict = "none"
  <2>1. PICK n \in 0 .. Len(FullText(r)) :
           turns[i].text = SubSeq(FullText(r), 1, n)
    BY <1>1, <1>3 DEF TextInv, ShowsPrefix
  <2>2. CASE context[r].answers
    BY <1>3, <2>1, <2>2 DEF FullText, MayShow
  <2>3. CASE ~context[r].answers
    <3>1. FullText(r) = <<Prose>> /\ FullText(r) \in Seq(Spans)
      BY <1>1, <2>3, FullTextType DEF ChatInv, PageInv
    <3>2. Len(FullText(r)) = 1 /\ (n = 0 \/ n = 1)
      BY <2>1, <3>1
    <3>3. /\ SubSeq(FullText(r), 1, 0) = <<>>
          /\ SubSeq(FullText(r), 1, 1) = FullText(r)
      BY <3>1, <3>2, WholeText
    <3> QED BY <1>3, <2>1, <2>3, <3>1, <3>2, <3>3 DEF MayShow, RefusalText
  <2> QED BY <2>2, <2>3
<1> QED BY <1>2, <1>3

\* Steps of the page that leave no stream being read: turns are dropped or
\* marked, and undelivered events are forgotten.
LEMMA PageKeepsText ==
    ASSUME PageInv, TextInv, UNCHANGED <<server, draft, context>>,
           \A q \in Requests : wire'[q] = wire[q] \/ wire'[q] = <<>>,
           \A q \in Requests : reader'[q] # "reading",
           \A i \in DOMAIN turns' :
             /\ i \in DOMAIN turns
             /\ turns'[i].request = turns[i].request
             /\ turns'[i].text = turns[i].text
             /\ turns'[i].verdict = turns[i].verdict
    PROVE  TextInv'
<1>1. \A q \in Requests : Fresh(q)' /\ InStep(q)'
  BY DEF TextInv, Fresh, InStep, Reading
<1>2. ASSUME NEW i \in DOMAIN turns' PROVE ShowsPrefix(i)'
  BY DEF TextInv, ShowsPrefix, FullText
<1> QED BY <1>1, <1>2 DEF TextInv

\* A question starts with an empty turn and nothing under way.
LEMMA SendKeepsText ==
    ASSUME PageInv, TextInv, NEW r \in Requests, Send(r)
    PROVE  TextInv'
<1> USE SendTurns
<1>0. NewTurn(r).text = <<>>
  BY DEF NewTurn
<1>1. \A q \in Requests \ {r} : ~Reading(q)'
  BY DEF PageInv, OneReader, Attached, Reading
<1>2. ASSUME NEW q \in Requests PROVE Fresh(q)'
  <2>1. \A i \in DOMAIN turns' :
          \/ i \in DOMAIN turns /\ turns'[i] = turns[i]
          \/ turns'[i].text = <<>>
    BY <1>0
  <2>2. Fresh(q) /\ server'[q] \in {"none", "retrieve"} =>
          server[q] \in {"none", "retrieve"}
    OBVIOUS
  <2>3. UNCHANGED <<context, draft, wire>>
    OBVIOUS
  <2> QED BY <2>1, <2>2, <2>3 DEF TextInv, Fresh
<1>3. \A q \in Requests : FullText(q)' = FullText(q)
                          /\ Len(FullText(q)) \in Nat
                          /\ SubSeq(FullText(q), 1, 0) = <<>>
  BY FullTextType DEF FullText, PageInv
<1>4. LastTurn'.text = <<>>
  BY <1>0
<1>5. wire'[r] = <<>>
  BY <1>2 DEF Fresh
<1>6. Under(r, LastTurn.text, 0, 0, 0)'
  <2>1. DOMAIN wire'[r] = {} /\ Len(wire'[r]) = 0
    BY <1>5
  <2>2. (FullText(r))' = FullText(r) /\ Len(FullText(r)) \in Nat
        /\ SubSeq(FullText(r), 1, 0) = <<>>
    BY <1>3
  <2>3. server'[r] = "retrieve"
    OBVIOUS
  <2> QED BY <1>4, <2>1, <2>2, <2>3 DEF Under
<1>7. \A q \in Requests : InStep(q)'
  BY <1>1, <1>6 DEF InStep
<1>8. ASSUME NEW i \in DOMAIN turns' PROVE ShowsPrefix(i)'
  <2>1. CASE i \in DOMAIN turns
    BY <1>3, <2>1 DEF TextInv, ShowsPrefix
  <2>2. CASE i \notin DOMAIN turns
    <3>1. turns'[i].text = <<>>
      <4>1. turns'[i] = NewTurn(r)
        BY <2>2
      <4> QED BY <1>0, <4>1
    <3> QED BY <1>3, <3>1 DEF ShowsPrefix
  <2> QED BY <2>1, <2>2
<1> QED BY <1>2, <1>7, <1>8 DEF TextInv

\* Another question's stream.
LEMMA InStepElsewhere ==
    ASSUME NEW q \in Requests, InStep(q), turns' = turns, reader' = reader,
           wire'[q] = wire[q], draft'[q] = draft[q],
           context'[q] = context[q], server'[q] = server[q]
    PROVE  InStep(q)'
<1>1. \A n, m, t \in Nat :
        Under(q, LastTurn.text, n, m, t) => Under(q, LastTurn.text, n, m, t)'
  BY DEF Under, LastTurn, Spoken, FullText
<1> QED BY <1>1 DEF InStep, Reading, LastTurn

\* A generator that says no more: it sends an event without text, or stops.
LEMMA QuietKeepsText ==
    ASSUME PageInv, TextInv, NEW r \in Requests,
           UNCHANGED <<draft, context, turns, reader>>,
           server'[r] \notin {"none", "retrieve", "generate", "refuse"},
           \A q \in Requests \ {r} : server'[q] = server[q],
           \/ wire' = wire
           \/ \E e \in Events : Emit(r, e) /\ e.type # "token"
    PROVE  TextInv'
<1>1. \A i \in DOMAIN turns : ShowsPrefix(i)'
  BY DEF TextInv, ShowsPrefix, FullText
<1>2. /\ \A q \in Requests \ {r} : wire'[q] = wire[q]
      /\ DOMAIN wire[r] = 1 .. Len(wire[r]) /\ Len(wire[r]) \in Nat
      /\ DOMAIN wire'[r] = 1 .. Len(wire'[r])
      /\ Len(wire'[r]) \in {Len(wire[r]), Len(wire[r]) + 1}
      /\ \A k \in DOMAIN wire'[r] :
           \/ k \in DOMAIN wire[r] /\ wire'[r][k] = wire[r][k]
           \/ k = Len(wire[r]) + 1 /\ wire'[r][k].type # "token"
  <2>0. wire[r] \in Seq(Events)
    BY DEF PageInv, TypeOK
  <2>1. CASE wire' = wire
    BY <2>0, <2>1
  <2>2. ASSUME NEW e \in Events, Emit(r, e), e.type # "token"
        PROVE  /\ wire'[r] = Append(wire[r], e)
               /\ \A q \in Requests \ {r} : wire'[q] = wire[q]
    BY <2>2 DEF Emit, PageInv, TypeOK
  <2> QED BY <2>0, <2>1, <2>2
<1>3. \A q \in Requests : Fresh(q)'
  BY <1>2 DEF TextInv, Fresh
<1>5. \A q \in Requests \ {r} : InStep(q)'
  BY <1>2, InStepElsewhere DEF TextInv
<1>6. InStep(r)'
  <2>1. ASSUME NEW n \in Nat, NEW m \in Nat, NEW t \in Nat,
               Under(r, LastTurn.text, n, m, t)
        PROVE  Under(r, LastTurn.text, n, m, t)'
    <3>1. n + t <= Len(FullText(r))' /\ (m + t <= Len(wire[r]))'
      BY <1>2, <2>1 DEF Under, FullText
    <3>2. (LastTurn.text = SubSeq(FullText(r), 1, n))'
      BY <2>1 DEF Under, FullText, LastTurn
    <3>3. ASSUME NEW k \in DOMAIN wire'[r]
          PROVE  IF m < k /\ k <= m + t
                 THEN /\ wire'[r][k].type = "token"
                      /\ wire'[r][k].text = <<FullText(r)'[n + k - m]>>
                 ELSE wire'[r][k].type # "token"
      <4>1. FullText(r)' = FullText(r)
        BY DEF FullText
      <4>2. CASE k \in DOMAIN wire[r] /\ wire'[r][k] = wire[r][k]
        BY <2>1, <4>1, <4>2 DEF Under
      <4>3. CASE k = Len(wire[r]) + 1 /\ wire'[r][k].type # "token"
        <5>1. ~(k <= m + t)
          BY <1>2, <2>1, <4>3 DEF Under
        <5> QED BY <4>3, <5>1
      <4> QED BY <1>2, <4>2, <4>3
    <3>4. server'[r] \notin {"generate", "refuse"}
      OBVIOUS
    <3> QED BY <3>1, <3>2, <3>3, <3>4 DEF Under
  <2> QED BY <2>1 DEF TextInv, InStep, Reading, LastTurn
<1> QED BY <1>1, <1>3, <1>5, <1>6 DEF TextInv

\* Retrieval answers: the meta event goes first, and the text is decided.
LEMMA RetrieveKeepsText ==
    ASSUME PageInv, TextInv, NEW r \in Requests, Retrieve(r)
    PROVE  TextInv'
<1>1. /\ UNCHANGED <<draft, turns, reader>>
      /\ server[r] = "retrieve" /\ server'[r] \in {"generate", "refuse"}
      /\ wire[r] = <<>> /\ draft[r] = <<>>
      /\ wire' = [wire EXCEPT ![r] = Append(wire[r], Event("meta", <<>>, "none"))]
      /\ \A q \in Requests \ {r} : /\ server'[q] = server[q]
                                   /\ context'[q] = context[q]
      /\ \A i \in DOMAIN turns : turns[i].request = r => turns[i].text = <<>>
  BY DEF Retrieve, ServerGoto, Emit, TextInv, Fresh, PageInv, TypeOK
<1>2. /\ DOMAIN wire'[r] = {1} /\ Len(wire'[r]) = 1
      /\ wire'[r][1].type # "token"
      /\ \A q \in Requests \ {r} : wire'[q] = wire[q]
  <2>1. wire'[r] = <<Event("meta", <<>>, "none")>>
    BY <1>1 DEF PageInv, TypeOK
  <2>2. \A q \in Requests \ {r} : wire'[q] = wire[q]
    BY <1>1 DEF PageInv, TypeOK
  <2> QED BY <2>1, <2>2 DEF Event
<1>3. Len(FullText(r))' \in Nat /\ SubSeq(FullText(r)', 1, 0) = <<>>
      /\ Spoken(r)' = 0
  <2>1. RefusalText \in Seq(Spans) /\ <<>> \in Seq(Spans) /\ Len(<<>>) = 0
    BY DEF RefusalText, Prose, Span, Spans
  <2>2. FullText(r)' \in Seq(Spans)
    BY <1>1, <2>1 DEF FullText
  <2>3. Spoken(r)' = 0
    BY <1>1, <2>1 DEF Spoken
  <2> QED BY <2>2, <2>3
<1>4. \A q \in Requests : Fresh(q)'
  BY <1>1, <1>2 DEF TextInv, Fresh
<1>5. ASSUME NEW i \in DOMAIN turns' PROVE ShowsPrefix(i)'
  <2> SUFFICES ASSUME NEW q \in Requests,
                      turns'[i].request = q, turns'[i].verdict = "none"
               PROVE  \E n \in 0 .. Len(FullText(q))' :
                        turns'[i].text = SubSeq(FullText(q)', 1, n)
    BY DEF ShowsPrefix
  <2>1. CASE q = r
    <3>1. turns'[i].text = <<>>
      BY <1>1, <2>1
    <3> QED BY <1>3, <2>1, <3>1
  <2>2. CASE q # r
    BY <1>1, <2>2 DEF TextInv, ShowsPrefix, FullText
  <2> QED BY <2>1, <2>2
<1>6. \A q \in Requests \ {r} : InStep(q)'
  BY <1>1, <1>2, InStepElsewhere DEF TextInv
<1>7. InStep(r)'
  <2> SUFFICES ASSUME reader[r] = "reading"
               PROVE  Under(r, LastTurn.text, 0, 1, 0)'
    BY <1>1 DEF InStep, Reading
  <2>1. LastTurn'.text = <<>>
    <3>1. turns # <<>> /\ LastTurn.request = r /\ Len(turns) \in DOMAIN turns
      BY DEF PageInv, TypeOK, OneReader, Reading
    <3> QED BY <1>1, <3>1 DEF LastTurn
  <2> QED BY <1>2, <1>3, <2>1 DEF Under
<1> QED BY <1>4, <1>5, <1>6, <1>7 DEF TextInv

\* The generator speaks the next span of its text.
LEMMA SpeakKeepsText ==
    ASSUME PageInv, TextInv, NEW r \in Requests,
           UNCHANGED <<context, turns, reader>>,
           server[r] \in {"generate", "refuse"},
           server'[r] \notin {"none", "retrieve"},
           \A q \in Requests \ {r} : server'[q] = server[q]
                                     /\ draft'[q] = draft[q],
           NEW span \in Spans, Emit(r, Event("token", <<span>>, "none")),
           \A n \in 0 .. Len(FullText(r)) :
             SubSeq(FullText(r)', 1, n) = SubSeq(FullText(r), 1, n),
           \A k \in 1 .. Len(FullText(r)) : FullText(r)'[k] = FullText(r)[k],
           Len(FullText(r))' \in Nat,
           Len(FullText(r)) <= Len(FullText(r))',
           Spoken(r) + 1 <= Len(FullText(r))',
           FullText(r)'[Spoken(r) + 1] = span,
           server'[r] \in {"generate", "refuse"} => Spoken(r)' = Spoken(r) + 1
    PROVE  TextInv'
<1> DEFINE e == Event("token", <<span>>, "none")
<1>1. /\ DOMAIN wire'[r] = 1 .. Len(wire[r]) + 1
      /\ DOMAIN wire[r] = 1 .. Len(wire[r]) /\ Len(wire[r]) \in Nat
      /\ wire'[r][Len(wire[r]) + 1] = e
      /\ \A k \in DOMAIN wire[r] : wire'[r][k] = wire[r][k]
      /\ \A q \in Requests \ {r} : wire'[q] = wire[q]
  BY EmitIndex
<1>2. e.type = "token" /\ e.text = <<span>>
  BY DEF Event
<1>3. Len(wire'[r]) = Len(wire[r]) + 1
  BY DEF Emit, PageInv, TypeOK
<1> HIDE DEF e
<1>4. \A q \in Requests : Fresh(q)'
  BY <1>1 DEF TextInv, Fresh
<1>5. Len(FullText(r)) \in Nat /\ Spoken(r) \in Nat
  BY FullTextType, DraftTypes DEF PageInv, Spoken, Answers
<1>6. ASSUME NEW i \in DOMAIN turns' PROVE ShowsPrefix(i)'
  <2> SUFFICES ASSUME NEW q \in Requests,
                      turns[i].request = q, turns[i].verdict = "none"
               PROVE  \E n \in 0 .. Len(FullText(q))' :
                        turns[i].text = SubSeq(FullText(q)', 1, n)
    BY DEF ShowsPrefix
  <2>1. PICK n \in 0 .. Len(FullText(q)) :
           turns[i].text = SubSeq(FullText(q), 1, n)
    BY DEF TextInv, ShowsPrefix
  <2>2. CASE q = r
    <3>1. n \in 0 .. Len(FullText(r))'
      BY <1>5, <2>1, <2>2
    <3> QED BY <2>1, <2>2, <3>1
  <2>3. CASE q # r
    BY <2>1, <2>3 DEF FullText
  <2> QED BY <2>2, <2>3
<1>7. \A q \in Requests \ {r} : InStep(q)'
  BY <1>1, InStepElsewhere DEF TextInv
<1>8. ASSUME NEW n \in Nat, NEW m \in Nat, NEW t \in Nat,
             Under(r, LastTurn.text, n, m, t)
      PROVE  Under(r, LastTurn.text, n, m, t + 1)'
  <2>1. /\ m + t = Len(wire[r]) /\ n + t = Spoken(r)
        /\ n + t <= Len(FullText(r))
        /\ LastTurn.text = SubSeq(FullText(r), 1, n)
    BY <1>8 DEF Under
  <2>2. n + (t + 1) <= Len(FullText(r))' /\ m + (t + 1) <= Len(wire'[r])
    BY <1>3, <1>5, <2>1
  <2>3. LastTurn'.text = SubSeq(FullText(r)', 1, n)
    <3>1. n \in 0 .. Len(FullText(r)) /\ LastTurn' = LastTurn
      BY <1>5, <2>1 DEF LastTurn
    <3> QED BY <2>1, <3>1
  <2>4. ASSUME NEW k \in DOMAIN wire'[r]
        PROVE  IF m < k /\ k <= m + (t + 1)
               THEN /\ wire'[r][k].type = "token"
                    /\ wire'[r][k].text = <<FullText(r)'[n + k - m]>>
               ELSE wire'[r][k].type # "token"
    <3>1. CASE k \in DOMAIN wire[r]
      <4>1. /\ wire'[r][k] = wire[r][k] /\ k <= m + t /\ k \in Nat
        BY <1>1, <2>1, <3>1
      <4>2. m < k => n + k - m \in 1 .. Len(FullText(r))
        BY <1>5, <2>1, <4>1
      <4>3. IF m < k /\ k <= m + t
            THEN /\ wire[r][k].type = "token"
                 /\ wire[r][k].text = <<FullText(r)[n + k - m]>>
            ELSE wire[r][k].type # "token"
        BY <1>8, <3>1 DEF Under
      <4> QED BY <4>1, <4>2, <4>3
    <3>2. CASE k \notin DOMAIN wire[r]
      <4>1. k = Len(wire[r]) + 1 /\ n + k - m = Spoken(r) + 1
            /\ m < k /\ k <= m + (t + 1)
        <5>1. k = Len(wire[r]) + 1
          BY <1>1, <3>2
        <5>2. Len(wire[r]) = m + t /\ Spoken(r) = n + t
          BY <2>1
        <5> QED BY <5>1, <5>2
      <4> QED BY <1>1, <1>2, <4>1
    <3> QED BY <3>1, <3>2
  <2>5. server'[r] \in {"generate", "refuse"} =>
          m + (t + 1) = Len(wire'[r]) /\ n + (t + 1) = Spoken(r)'
    BY <1>1, <1>3, <1>5, <2>1
  <2> QED BY <2>2, <2>3, <2>4, <2>5 DEF Under
<1>9. InStep(r)'
  <2>1. CASE LastTurn.verdict = "none" /\ reader[r] = "reading"
    <3>1. PICK n \in Nat, m \in Nat, t \in Nat :
             Under(r, LastTurn.text, n, m, t)
      BY <2>1 DEF TextInv, InStep, Reading
    <3>2. Under(r, LastTurn.text, n, m, t + 1)' /\ t + 1 \in Nat
      BY <1>8, <3>1
    <3> HIDE <1>8
    <3> QED BY <3>2 DEF InStep, LastTurn
  <2>2. CASE ~(LastTurn.verdict = "none" /\ reader[r] = "reading")
    BY <2>2 DEF InStep, LastTurn, Reading
  <2> QED BY <2>1, <2>2
<1> QED BY <1>4, <1>6, <1>7, <1>9 DEF TextInv

\* Dispatching the next span puts it on the screen; dispatching anything else
\* before the verdict changes no text.
LEMMA DispatchKeepsText ==
    ASSUME ChatInv, TextInv, NEW r \in Requests, Dispatch(r)
    PROVE  TextInv'
<1> USE DEF ChatInv
<1> DEFINE e == Head(wire[r])
<1>0. PICK z : z = Len(turns)
  OBVIOUS
<1>1. /\ UNCHANGED <<server, draft, context, reader, busy>>
      /\ turns # <<>> /\ z \in DOMAIN turns
      /\ turns[z] \in Turns /\ turns[z].request = r
      /\ DOMAIN turns' = DOMAIN turns /\ Len(turns') = z
      /\ turns'[z] = Patched(turns[z], e) /\ turns'[z].request = r
      /\ \A i \in DOMAIN turns : i # z => turns'[i] = turns[i]
  BY <1>0, DispatchTurns
<1>2. /\ LastTurn = turns[z] /\ LastTurn' = turns'[z]
      /\ Reading(r) /\ reader[r] = "reading"
      /\ \A q \in Requests \ {r} : ~Reading(q)'
  BY <1>0, <1>1 DEF LastTurn, Dispatch, Reading, PageInv, OneReader, Attached
<1>3. /\ wire[r] \in Seq(Events) /\ wire[r] # <<>>
      /\ wire'[r] = Tail(wire[r]) /\ e = wire[r][1] /\ e \in Events
      /\ \A q \in Requests \ {r} : wire'[q] = wire[q]
  BY DispatchIndex DEF Dispatch, PageInv, TypeOK
<1>4. /\ Len(wire'[r]) = Len(wire[r]) - 1 /\ Len(wire[r]) \in Nat \ {0}
      /\ DOMAIN wire[r] = 1 .. Len(wire[r])
      /\ DOMAIN wire'[r] = 1 .. Len(wire[r]) - 1
      /\ \A k \in 1 .. Len(wire[r]) - 1 : wire'[r][k] = wire[r][k + 1]
  BY <1>3
<1>4a. Len(wire'[r]) = Len(wire[r]) - 1 /\ Len(wire[r]) \in Nat
  BY <1>4
<1>4b. \A k \in DOMAIN wire'[r] :
         k \in Nat /\ k > 0 /\ k + 1 \in DOMAIN wire[r]
         /\ wire'[r][k] = wire[r][k + 1]
  BY <1>4
<1>4c. 1 \in DOMAIN wire[r]
  BY <1>4
<1> HIDE DEF e
<1>5. /\ FullText(r) \in Seq(Spans) /\ Len(FullText(r)) \in Nat
      /\ FullText(r)' = FullText(r) /\ Spoken(r)' = Spoken(r)
  BY <1>1, FullTextType DEF FullText, Spoken, PageInv
<1>6. e.type = "validation" => turns'[z].verdict # "none"
  <2>1. e.type = "validation" => e.verdict # "none"
    BY <1>3, <1>4, ValidationCarriesVerdict
  <2> QED BY <1>1, <2>1 DEF Patched, Turns
<1>7. e.type # "validation" =>
        /\ turns'[z].verdict = turns[z].verdict
        /\ turns'[z].text = IF e.type = "token" THEN turns[z].text \o e.text
                            ELSE turns[z].text
  BY <1>1, <1>3 DEF Patched, Turns, Events
\* What is under way after the event.
<1>8. ASSUME NEW n \in Nat, NEW m \in Nat, NEW t \in Nat,
             Under(r, turns[z].text, n, m, t), turns'[z].verdict = "none"
      PROVE  \E n1, m1, t1 \in Nat : Under(r, turns[z].text, n1, m1, t1)'
  <2>0. /\ n + t <= Len(FullText(r)) /\ m + t <= Len(wire[r])
        /\ turns[z].text = SubSeq(FullText(r), 1, n)
        /\ \A k \in DOMAIN wire[r] :
             IF m < k /\ k <= m + t
             THEN /\ wire[r][k].type = "token"
                  /\ wire[r][k].text = <<FullText(r)[n + k - m]>>
             ELSE wire[r][k].type # "token"
        /\ server[r] \in {"generate", "refuse"} =>
             m + t = Len(wire[r]) /\ n + t = Spoken(r)
    BY <1>8 DEF Under
  <2> DEFINE Left(n1, m1, t1) ==
        /\ n1 \in Nat /\ m1 \in Nat /\ t1 \in Nat
        /\ n1 + t1 <= Len(FullText(r)) /\ m1 + t1 <= Len(wire'[r])
        /\ turns'[z].text = SubSeq(FullText(r), 1, n1)
        /\ \A k \in DOMAIN wire'[r] :
             IF m1 < k /\ k <= m1 + t1
             THEN /\ wire'[r][k].type = "token"
                  /\ wire'[r][k].text = <<FullText(r)[n1 + k - m1]>>
             ELSE wire'[r][k].type # "token"
        /\ server[r] \in {"generate", "refuse"} =>
             m1 + t1 = Len(wire'[r]) /\ n1 + t1 = Spoken(r)
  <2>1. ASSUME NEW n1, NEW m1, NEW t1, Left(n1, m1, t1)
        PROVE  Under(r, turns[z].text, n1, m1, t1)'
    BY <1>1, <1>5, <2>1 DEF Under
  <2>2. CASE m > 0
    <3>0. e.type # "token"
      <4>1. ~(m < 1)
        BY <2>2
      <4> QED BY <1>3, <1>4c, <2>0, <4>1
    <3>1. turns'[z].text = turns[z].text
      BY <1>6, <1>7, <1>8, <3>0
    <3>2. m - 1 \in Nat /\ (m - 1) + t <= Len(wire'[r])
      BY <1>4a, <2>0, <2>2
    <3>3. ASSUME NEW k \in DOMAIN wire'[r]
          PROVE  IF m - 1 < k /\ k <= (m - 1) + t
                 THEN /\ wire'[r][k].type = "token"
                      /\ wire'[r][k].text = <<FullText(r)[n + k - (m - 1)]>>
                 ELSE wire'[r][k].type # "token"
      <4>1. k + 1 \in DOMAIN wire[r] /\ wire'[r][k] = wire[r][k + 1]
            /\ k \in Nat /\ n + (k + 1) - m = n + k - (m - 1)
        <5>1. k + 1 \in DOMAIN wire[r] /\ wire'[r][k] = wire[r][k + 1]
              /\ k \in Nat
          BY <1>4b
        <5> QED BY <5>1
      <4>2. /\ (m - 1 < k) <=> (m < k + 1)
            /\ (k <= (m - 1) + t) <=> (k + 1 <= m + t)
        BY <4>1
      <4> QED BY <2>0, <4>1, <4>2
    <3>4. server[r] \in {"generate", "refuse"} =>
            (m - 1) + t = Len(wire'[r]) /\ n + t = Spoken(r)
      <4>1. server[r] \in {"generate", "refuse"} =>
              m + t = Len(wire[r]) /\ n + t = Spoken(r)
        BY <2>0
      <4> QED BY <1>4a, <4>1
    <3>5. Left(n, m - 1, t)
      BY <2>0, <3>1, <3>2, <3>3, <3>4
    <3> HIDE DEF Left
    <3> QED BY <2>1, <3>2, <3>5
  <2>3. CASE m = 0 /\ t > 0
    <3>1. e.type = "token" /\ e.text = <<FullText(r)[n + 1]>>
      <4>1. 1 \in DOMAIN wire[r] /\ m < 1 /\ 1 <= m + t /\ n + 1 - m = n + 1
        BY <1>4, <2>3
      <4> QED BY <1>3, <2>0, <4>1
    <3>2. turns'[z].text = SubSeq(FullText(r), 1, n + 1)
      <4>1. turns'[z].text = SubSeq(FullText(r), 1, n)
                              \o <<FullText(r)[n + 1]>>
        BY <1>7, <2>0, <3>1
      <4>2. n < Len(FullText(r))
        BY <1>5, <2>0, <2>3
      <4> QED BY <1>5, <4>1, <4>2, OneMoreSpan
    <3>3. /\ n + 1 \in Nat /\ t - 1 \in Nat
          /\ (n + 1) + (t - 1) <= Len(FullText(r))
          /\ 0 + (t - 1) <= Len(wire'[r])
      BY <1>4, <1>5, <2>0, <2>3
    <3>4. ASSUME NEW k \in DOMAIN wire'[r]
          PROVE  IF 0 < k /\ k <= 0 + (t - 1)
                 THEN /\ wire'[r][k].type = "token"
                      /\ wire'[r][k].text = <<FullText(r)[(n + 1) + k - 0]>>
                 ELSE wire'[r][k].type # "token"
      <4>1. k + 1 \in DOMAIN wire[r] /\ wire'[r][k] = wire[r][k + 1]
            /\ k \in Nat /\ k > 0 /\ n + (k + 1) - m = (n + 1) + k - 0
        <5>1. k + 1 \in DOMAIN wire[r] /\ wire'[r][k] = wire[r][k + 1]
              /\ k \in Nat /\ k > 0
          BY <1>4b
        <5> QED BY <2>3, <5>1
      <4>2. /\ (0 < k) <=> (m < k + 1)
            /\ (k <= 0 + (t - 1)) <=> (k + 1 <= m + t)
        BY <2>3, <4>1
      <4> QED BY <2>0, <4>1, <4>2
    <3>5. server[r] \in {"generate", "refuse"} =>
            0 + (t - 1) = Len(wire'[r]) /\ (n + 1) + (t - 1) = Spoken(r)
      <4>1. server[r] \in {"generate", "refuse"} =>
              m + t = Len(wire[r]) /\ n + t = Spoken(r)
        BY <2>0
      <4> QED BY <1>4a, <2>3, <4>1
    <3>6. Left(n + 1, 0, t - 1)
      BY <3>2, <3>3, <3>4, <3>5
    <3> HIDE DEF Left
    <3> QED BY <2>1, <3>3, <3>6
  <2>4. CASE m = 0 /\ t = 0
    <3>1. \A k \in DOMAIN wire[r] : wire[r][k].type # "token"
      BY <1>4, <2>0, <2>4
    <3>2. turns'[z].text = turns[z].text
      BY <1>3, <1>4, <1>6, <1>7, <1>8, <3>1
    <3>3. \A k \in DOMAIN wire'[r] : wire'[r][k].type # "token"
      BY <1>4b, <3>1
    <3>4. server[r] \notin {"generate", "refuse"}
      BY <1>4, <2>0, <2>4
    <3>5. n \in Nat /\ 0 \in Nat /\ n + 0 <= Len(FullText(r))
          /\ 0 + 0 <= Len(wire'[r])
      BY <1>4, <1>5, <2>0, <2>4
    <3>6. \A k \in DOMAIN wire'[r] : ~(0 < k /\ k <= 0 + 0)
      BY <1>4b
    <3>7. Left(n, 0, 0)
      BY <2>0, <3>2, <3>3, <3>4, <3>5, <3>6
    <3> HIDE DEF Left
    <3> QED BY <2>1, <3>7
  <2> QED BY <2>2, <2>3, <2>4
<1>9. ASSUME turns'[z].verdict = "none"
      PROVE  \E n1, m1, t1 \in Nat : Under(r, turns[z].text, n1, m1, t1)'
  <2>1. turns[z].verdict = "none"
    <3>1. e.type # "validation"
      BY <1>6, <1>9
    <3> QED BY <1>7, <1>9, <3>1
  <2>2. PICK n \in Nat, m \in Nat, t \in Nat : Under(r, turns[z].text, n, m, t)
    BY <1>2, <2>1 DEF TextInv, InStep
  <2> QED BY <1>8, <1>9, <2>2
<1>10. ShowsPrefix(z)'
  <2> SUFFICES ASSUME turns'[z].verdict = "none"
               PROVE  \E n \in 0 .. Len(FullText(r)) :
                        turns'[z].text = SubSeq(FullText(r), 1, n)
    BY <1>1, <1>5 DEF ShowsPrefix
  <2>1. PICK n1 \in Nat, m1 \in Nat, t1 \in Nat :
           Under(r, turns[z].text, n1, m1, t1)'
    BY <1>9
  <2>2. /\ n1 + t1 <= Len(FullText(r))
        /\ turns'[z].text = SubSeq(FullText(r), 1, n1)
    BY <1>5, <2>1 DEF Under
  <2>3. n1 \in 0 .. Len(FullText(r))
    BY <1>5, <2>2
  <2> QED BY <2>2, <2>3
<1>11. ASSUME NEW i \in DOMAIN turns, i # z PROVE ShowsPrefix(i)'
  <2>1. ShowsPrefix(i) /\ turns'[i] = turns[i]
    BY <1>1, <1>11 DEF TextInv
  <2> QED BY <1>1, <2>1 DEF ShowsPrefix, FullText
<1>12. ASSUME NEW q \in Requests PROVE Fresh(q)'
  <2>1. CASE q = r
    BY <1>1, <1>3, <2>1 DEF TextInv, Fresh
  <2>2. CASE q # r
    BY <1>1, <1>3, <2>2 DEF TextInv, Fresh
  <2> QED BY <2>1, <2>2
<1>13. \A q \in Requests \ {r} : InStep(q)'
  BY <1>2 DEF InStep
<1>14. InStep(r)'
  BY <1>1, <1>9 DEF InStep, LastTurn
<1> QED BY <1>1, <1>10, <1>11, <1>12, <1>13, <1>14 DEF TextInv

\* Every step keeps the text of every turn.
LEMMA TextStep ==
    ASSUME ChatInv, TextInv, [Next]_vars
    PROVE  TextInv'
<1> USE DEF ChatInv
<1>0. CASE UNCHANGED vars
  <2>1. UNCHANGED <<server, context, draft, wire, reader, turns>>
    BY <1>0 DEF vars
  <2>2. \A q \in Requests : InStep(q)'
    BY <2>1, InStepElsewhere DEF TextInv
  <2>3. \A q \in Requests : Fresh(q)'
    BY <2>1 DEF TextInv, Fresh
  <2>4. \A i \in DOMAIN turns' : ShowsPrefix(i)'
    BY <2>1 DEF TextInv, ShowsPrefix, FullText
  <2> QED BY <2>2, <2>3, <2>4 DEF TextInv
<1>1. ASSUME NEW r \in Requests, NEW e \in Events,
             UNCHANGED <<draft, context, turns, reader>>,
             server'[r] \notin {"none", "retrieve", "generate", "refuse"},
             \A q \in Requests \ {r} : server'[q] = server[q],
             Emit(r, e), e.type # "token"
      PROVE  TextInv'
  BY <1>1, QuietKeepsText
<1>2. ASSUME NEW r \in Requests, RetrieveFails(r) \/ GenerateFails(r)
      PROVE  TextInv'
  <2>1. Event("error", <<>>, "none") \in Events
        /\ Event("error", <<>>, "none").type # "token"
    BY EventType DEF Event
  <2> QED BY <1>1, <1>2, <2>1 DEF RetrieveFails, GenerateFails, ServerGoto,
             PageInv, TypeOK
<1>3. ASSUME NEW r \in Requests, Retrieve(r) PROVE TextInv'
  BY <1>3, RetrieveKeepsText
<1>4. ASSUME NEW r \in Requests, Refuse(r) PROVE TextInv'
  <2>1. /\ server[r] = "refuse" /\ ~context[r].answers
        /\ Emit(r, Event("token", <<Prose>>, "none")) /\ Prose \in Spans
        /\ UNCHANGED <<context, draft, turns, reader>>
        /\ server'[r] = "judge"
        /\ \A q \in Requests \ {r} : server'[q] = server[q]
    BY <1>4 DEF Refuse, ServerGoto, VerdictInv, OnItsWay, RefusalText, Prose,
       Span, Spans, PageInv, TypeOK
  <2>2. /\ FullText(r)' = FullText(r) /\ FullText(r) = <<Prose>>
        /\ Spoken(r) = 0
    BY <2>1 DEF FullText, Spoken, RefusalText
  <2> QED BY <2>1, <2>2, SpeakKeepsText
<1>5. ASSUME NEW r \in Requests, GenerateToken(r) PROVE TextInv'
  <2>1. PICK span \in Vocabulary :
          /\ draft' = [draft EXCEPT ![r] = Append(draft[r], span)]
          /\ Emit(r, Event("token", <<span>>, "none"))
    BY <1>5 DEF GenerateToken
  <2>2. /\ server[r] = "generate" /\ context[r].answers /\ server' = server
        /\ UNCHANGED <<context, turns, reader>>
    BY <1>5 DEF GenerateToken, VerdictInv, OnItsWay
  <2>3. /\ draft'[r] = Append(draft[r], span)
        /\ \A q \in Requests \ {r} : draft'[q] = draft[q]
        /\ draft[r] \in Seq(Spans) /\ span \in Spans
    BY <2>1, DraftTypes, ChatAssumption DEF PageInv, TypeOK, Answers
  <2>4. /\ FullText(r) = draft[r] /\ FullText(r)' = Append(draft[r], span)
        /\ Spoken(r) = Len(draft[r]) /\ Spoken(r)' = Len(Append(draft[r], span))
    BY <2>2, <2>3 DEF FullText, Spoken
  <2>5. Len(draft[r]) \in Nat /\ Len(Append(draft[r], span)) = Len(draft[r]) + 1
        /\ Append(draft[r], span)[Len(draft[r]) + 1] = span
    BY <2>3
  <2>6. \A n \in 0 .. Len(draft[r]) :
          SubSeq(Append(draft[r], span), 1, n) = SubSeq(draft[r], 1, n)
    BY <2>3, GrowingText
  <2>7. \A k \in 1 .. Len(draft[r]) : Append(draft[r], span)[k] = draft[r][k]
    BY <2>3
  <2>8. /\ \A n \in 0 .. Len(FullText(r)) :
             SubSeq(FullText(r)', 1, n) = SubSeq(FullText(r), 1, n)
        /\ \A k \in 1 .. Len(FullText(r)) : FullText(r)'[k] = FullText(r)[k]
    BY <2>4, <2>6, <2>7
  <2>9. /\ Len(FullText(r))' \in Nat
        /\ Len(FullText(r)) <= Len(FullText(r))'
        /\ Spoken(r) + 1 <= Len(FullText(r))'
        /\ FullText(r)'[Spoken(r) + 1] = span
        /\ Spoken(r)' = Spoken(r) + 1
    BY <2>4, <2>5
  <2> QED BY <2>1, <2>2, <2>3, <2>8, <2>9, SpeakKeepsText
<1>6. ASSUME NEW r \in Requests, RefuseVerdict(r) PROVE TextInv'
  <2>1. Event("validation", RefusalText, "refused") \in Events
        /\ Event("validation", RefusalText, "refused").type # "token"
    BY EventType DEF Event
  <2> QED BY <1>1, <1>6, <2>1 DEF RefuseVerdict, ServerGoto, PageInv, TypeOK
<1>7. ASSUME NEW r \in Requests, ValidateDraft(r) PROVE TextInv'
  <2> DEFINE report == Validate(draft[r], context[r].allowed)
             e == Event("validation", report.answer, report.verdict)
  <2>1. e \in Events /\ e.type # "token"
    BY DraftTypes, ValidateType, EventType DEF Verdicts, Event, PageInv
  <2>2. Emit(r, e)
    BY <1>7 DEF ValidateDraft
  <2> HIDE DEF e
  <2> QED BY <1>1, <1>7, <2>1, <2>2 DEF ValidateDraft, ServerGoto, PageInv,
             TypeOK
<1>8. ASSUME NEW r \in Requests, Finish(r) PROVE TextInv'
  <2>1. Event("done", <<>>, "none") \in Events
        /\ Event("done", <<>>, "none").type # "token"
    BY EventType DEF Event
  <2> QED BY <1>1, <1>8, <2>1 DEF Finish, ServerGoto, PageInv, TypeOK
<1>9. ASSUME NEW r \in Requests, Store(r) \/ ServerDies(r) \/ Cancelled(r)
      PROVE  TextInv'
  BY <1>9, QuietKeepsText DEF Store, ServerDies, Cancelled, ServerGoto,
     PageInv, TypeOK
<1>10. ASSUME NEW r \in Requests, Send(r) PROVE TextInv'
  BY <1>10, SendKeepsText
<1>11. ASSUME NEW r \in Requests, Dispatch(r) PROVE TextInv'
  BY <1>11, DispatchKeepsText
<1>12. ASSUME NEW r \in Requests, Stop(r) PROVE TextInv'
  <2>1. \A q \in Requests : reader'[q] # "reading"
    BY <1>12 DEF Stop, PageInv, TypeOK, OneReader, Attached, Reading
  <2> QED BY <1>12, <2>1, PageKeepsText DEF Stop, serverVars
<1>13. CASE Reset
  <2>1. \A q \in Requests : reader'[q] # "reading"
    BY <1>13 DEF Reset, Reading
  <2> QED BY <1>13, <2>1, PageKeepsText DEF Reset, serverVars
<1>14. CASE Regenerate
  <2>1. \A q \in Requests : reader'[q] # "reading"
    BY <1>14, RegenerateTurns DEF PageInv, OneReader, Attached
  <2> QED BY <1>14, <2>1, RegenerateTurns, PageKeepsText
<1>15. ASSUME NEW r \in Requests,
              StreamEnds(r) \/ AbortSettles(r) \/ ConnectionLost(r)
       PROVE  TextInv'
  <2>1. /\ UNCHANGED <<server, draft, context>>
        /\ \A q \in Requests : wire'[q] = wire[q] \/ wire'[q] = <<>>
        /\ \A q \in Requests : reader'[q] # "reading"
    BY <1>15 DEF StreamEnds, AbortSettles, ConnectionLost, serverVars,
       PageInv, TypeOK, OneReader, Attached, Reading
  <2>2. \E failed \in BOOLEAN : Closed(failed)
    BY <1>15 DEF StreamEnds, AbortSettles, ConnectionLost
  <2>3. \A i \in DOMAIN turns' :
          /\ i \in DOMAIN turns
          /\ turns'[i].request = turns[i].request
          /\ turns'[i].text = turns[i].text
          /\ turns'[i].verdict = turns[i].verdict
    BY <2>2, ClosedKeepsAnswers
  <2> QED BY <2>1, <2>3, PageKeepsText
<1> QED
  BY <1>0, <1>2, <1>3, <1>4, <1>5, <1>6, <1>7, <1>8, <1>9, <1>10, <1>11,
     <1>12, <1>13, <1>14, <1>15 DEF Next, ServerStep, ServerFault, PageStep

\* Whatever the reader stops, clears and asks again, every turn shows the text
\* sent for its own question, in order, and under a verdict the guard's.
THEOREM ChatShowsOwnAnswer == Spec => []ShowsOwnAnswer
<1>1. Init => TextInv
  BY DEF Init, TextInv, Fresh, InStep, NoContext, Reading
<1> QED BY <1>1, ChatInvariant, TextStep, TextSuffices, PTL DEF Spec

=============================================================================
