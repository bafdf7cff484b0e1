------------------------ MODULE ServerRequest_proofs ------------------------
(***************************************************************************)
(* The request path implements what ServerRequest promises.  The argument   *)
(* uses the invariant Inv of ServerQueue_proofs and one more fact, Reasons: *)
(* a reader that still reads has seen no error, and one that stops has one  *)
(* of the three reasons ServerRequest admits.  The main thread either sends *)
(* nothing or replies to a task that has not ended (MainReplies); of the    *)
(* readers' steps three change the abstract state and the others stutter.   *)
(***************************************************************************)
EXTENDS ServerQueue_proofs

MayClose(r) ==
    \/ \A t \in Ids(r) : answered[t] = "final"
    \/ \E t \in Ids(r) : answered[t] = "error"
    \/ r \in MayDisconnect

ReasonOf(r) ==
    /\ reader_pc[r] \in {"new", "registered", "reading"} =>
          \A t \in Ids(r) : answered[t] # "error"
    /\ reader_pc[r] = "stopping" => MayClose(r)

Reasons == \A r \in Readers : ReasonOf(r)

absStatus == [r \in Readers |-> RequestStatus(r)]
absBox == [t \in Tasks |-> Mailbox(t)]

-----------------------------------------------------------------------------
(* The steps of the main thread. *)

\* A result that is kept is a reply to a task that has not ended; one that is
\* dropped changes nothing for the handler.
LEMMA SendIsReply ==
    ASSUME Inv, NEW u \in Tasks, NEW kind \in ResultKinds, Send(u, kind), ~HasTerminal(u),
           UNCHANGED <<waiting_task_ids, readerVars>>
    PROVE  Request!RNext \/ UNCHANGED <<absStatus, absBox, answered>>
<1> USE TaskAssumption
<1>1. UNCHANGED <<absStatus, answered>>
  BY DEF absStatus, RequestStatus, readerVars
<1>2. queue_results \in [Tasks -> Seq(ResultKinds)] /\ Owner[u] \in Readers
  BY DEF Inv, TypeOK
<1>3. CASE u \notin waiting_task_ids
  <2>1. queue_results' = queue_results
    BY <1>2, <1>3 DEF Send
  <2> QED BY <1>1, <2>1 DEF absBox, Mailbox
<1>4. CASE u \in waiting_task_ids
  <2>1. absStatus[Owner[u]] = "open"
    BY <1>2, <1>4 DEF Inv, ReaderPhases, Ids, absStatus, RequestStatus
  <2>2. queue_results' = [queue_results EXCEPT ![u] = Append(@, kind)]
    BY <1>4 DEF Send
  <2>3. absBox' = [absBox EXCEPT ![u] = Append(@, kind)]
    BY <1>2, <1>4, <2>2 DEF absBox, Mailbox
  <2>4. ~Request!Ended(u)
    BY DEF Request!Ended, Request!TerminalReplies, HasTerminal, Terminal, Mailbox
  <2>5. Request!Reply(u, kind)
    BY <1>1, <2>1, <2>3, <2>4 DEF Request!Reply, absStatus, absBox
  <2>6. kind \in Request!Replies
    BY DEF Request!Replies, Request!TerminalReplies, ResultKinds
  <2> QED BY <2>5, <2>6 DEF Request!RNext
<1> QED BY <1>3, <1>4

\* A step of the main thread replies once or is not seen by the handlers.
LEMMA MainRefines ==
    ASSUME Inv, MainStep \/ terminate
    PROVE  Request!RNext \/ UNCHANGED <<absStatus, absBox, answered>>
<1>1. UNCHANGED <<waiting_task_ids, readerVars>>
  BY MainReplies
<1>2. CASE UNCHANGED queue_results
  BY <1>1, <1>2 DEF absStatus, absBox, RequestStatus, Mailbox, readerVars
<1>3. CASE \E u \in Tasks, kind \in ResultKinds : Send(u, kind) /\ ~HasTerminal(u)
  BY <1>1, <1>3, SendIsReply
<1> QED BY <1>2, <1>3, MainReplies

-----------------------------------------------------------------------------
(* Why readers stop. *)

\* The reasons of the readers that a step leaves alone stay.
LEMMA OtherReasons ==
    ASSUME Reasons, NEW r \in Readers,
           \A x \in Readers : x # r => reader_pc'[x] = reader_pc[x],
           \A t \in Tasks : Owner[t] # r => answered'[t] = answered[t],
           ReasonOf(r)'
    PROVE  Reasons'
<1> SUFFICES ASSUME NEW x \in Readers, x # r PROVE ReasonOf(x)'
  BY DEF Reasons
<1>1. \A t \in Ids(x) : answered'[t] = answered[t]
  BY DEF Ids
<1> QED BY <1>1 DEF Reasons, ReasonOf, MayClose, Ids

\* A step of a reader keeps the reasons.
LEMMA ReaderReasons ==
    ASSUME Inv, Reasons, NEW r \in Readers, ReaderStep(r) \/ Disconnect(r)
    PROVE  Reasons'
<1>0. /\ reader_pc \in [Readers -> ReaderPcs]
      /\ answered \in [Tasks -> {"no"} \cup Terminal] /\ ReasonOf(r)
  BY DEF Inv, TypeOK, Reasons
<1>1. CASE AddWaiting(r) \/ PostTasks(r)
  <2>1. /\ reader_pc[r] \in {"new", "registered"} /\ answered' = answered
        /\ \E pc \in {"registered", "reading"} : reader_pc' = [reader_pc EXCEPT ![r] = pc]
    BY <1>1 DEF AddWaiting, PostTasks
  <2>2. ReasonOf(r)'
    BY <1>0, <2>1 DEF ReasonOf, Ids
  <2> QED BY <1>0, <2>1, <2>2, OtherReasons
<1>2. CASE AllReceived(r) \/ Disconnect(r)
  <2>1. /\ reader_pc[r] = "reading" /\ answered' = answered
        /\ reader_pc' = [reader_pc EXCEPT ![r] = "stopping"]
        /\ ~has_next(r) \/ r \in MayDisconnect
    BY <1>2 DEF AllReceived, Disconnect
  <2>2. MayClose(r)
    <3>1. ~cancelled[r]
      BY <2>1 DEF Inv, ReaderPhases
    <3> QED BY <2>1, <3>1, AllFinal DEF MayClose
  <2>3. ReasonOf(r)'
    BY <1>0, <2>1, <2>2 DEF ReasonOf, MayClose, Ids
  <2> QED BY <1>0, <2>1, <2>3, OtherReasons
<1>3. ASSUME NEW t \in Tasks, RecvResult(r, t) PROVE Reasons'
  <2> DEFINE kind == Head(queue_results[t])
  <2>1. /\ reader_pc[r] = "reading" /\ Owner[t] = r
        /\ answered' = IF kind \in Terminal THEN [answered EXCEPT ![t] = kind] ELSE answered
        /\ reader_pc' = IF kind = "error" THEN [reader_pc EXCEPT ![r] = "stopping"] ELSE reader_pc
    BY <1>3 DEF RecvResult
  <2> HIDE DEF kind
  <2>2. CASE kind = "error"
    <3>1. t \in Ids(r) /\ answered'[t] = "error" /\ reader_pc'[r] = "stopping"
      BY <1>0, <2>1, <2>2 DEF Ids, Terminal
    <3>2. ReasonOf(r)'
      BY <3>1 DEF ReasonOf, MayClose, Ids
    <3> QED BY <1>0, <2>1, <2>2, <3>2, OtherReasons
  <2>3. CASE kind # "error"
    <3>1. \A u \in Tasks : answered'[u] = "error" => answered[u] = "error"
      BY <1>0, <2>1, <2>3
    <3>2. ReasonOf(r)'
      BY <1>0, <2>1, <2>3, <3>1 DEF ReasonOf, Ids
    <3> QED BY <1>0, <2>1, <2>3, <3>2, OtherReasons
  <2> QED BY <2>2, <2>3
<1>4. CASE StopWaiting(r) \/ LockForCancel(r) \/ \E t \in Tasks : ClearResults(r, t) \/ PostCancel(r, t)
  <2>1. /\ answered' = answered
        /\ reader_pc[r] \in {"stopping", "clearing", "cancelling", "posting"}
        /\ \/ reader_pc' = reader_pc /\ reader_pc[r] # "stopping"
           \/ \E pc \in {"clearing", "cancelling", "posting", "done"} :
                  reader_pc' = [reader_pc EXCEPT ![r] = pc]
    BY <1>4 DEF StopWaiting, LockForCancel, ClearResults, PostCancel
  <2>2. ReasonOf(r)'
    BY <1>0, <2>1 DEF ReasonOf
  <2> QED BY <1>0, <2>1, <2>2, OtherReasons
<1> QED BY <1>1, <1>2, <1>3, <1>4 DEF ReaderStep

\* Reasons holds in every reachable state.
LEMMA ReasonsStep == Inv /\ Reasons /\ [Next]_vars => Reasons'
<1> SUFFICES ASSUME Inv, Reasons, [Next]_vars PROVE Reasons'
  OBVIOUS
<1>1. CASE MainStep \/ terminate
  BY <1>1, MainReplies DEF Reasons, ReasonOf, MayClose, Ids, readerVars
<1>2. CASE UNCHANGED vars
  BY <1>2 DEF vars, Reasons, ReasonOf, MayClose, Ids, readerVars
<1> QED BY <1>1, <1>2, ReaderReasons DEF Next

-----------------------------------------------------------------------------
(* The steps of the readers. *)

absSame == UNCHANGED <<absStatus, absBox, answered>>

\* post_tasks(), first half, opens the request.
LEMMA AddWaitingOpens ==
    ASSUME Inv, NEW r \in Readers, AddWaiting(r)
    PROVE  Request!RNext
<1>1. /\ reader_pc[r] = "new" /\ reader_pc' = [reader_pc EXCEPT ![r] = "registered"]
      /\ waiting_task_ids' = waiting_task_ids \cup Ids(r)
      /\ queue_results' = queue_results /\ answered' = answered
  BY DEF AddWaiting
<1>2. reader_pc \in [Readers -> ReaderPcs]
  BY DEF Inv, TypeOK
<1>3. \A t \in Ids(r) : queue_results[t] = <<>>
  BY <1>1 DEF Inv, ReaderPhases, Posted
<1>4. absBox' = absBox
  BY <1>1, <1>3 DEF absBox, Mailbox
<1>5. absStatus[r] = "new" /\ absStatus' = [absStatus EXCEPT ![r] = "open"]
  BY <1>1, <1>2 DEF absStatus, RequestStatus
<1>6. Request!Open(r)
  BY <1>1, <1>4, <1>5 DEF Request!Open, absStatus, absBox
<1> QED BY <1>6 DEF Request!RNext

\* next() takes a reply.
LEMMA RecvTakes ==
    ASSUME Inv, Reasons, NEW r \in Readers, NEW t \in Tasks, RecvResult(r, t)
    PROVE  Request!RNext
<1> DEFINE kind == Head(queue_results[t])
<1>1. /\ reader_pc[r] = "reading" /\ Owner[t] = r /\ queue_results[t] # <<>>
      /\ queue_results' = [queue_results EXCEPT ![t] = Tail(@)]
      /\ answered' = IF kind \in Terminal THEN [answered EXCEPT ![t] = kind] ELSE answered
      /\ reader_pc' = IF kind = "error" THEN [reader_pc EXCEPT ![r] = "stopping"] ELSE reader_pc
      /\ waiting_task_ids' = waiting_task_ids
  BY DEF RecvResult
<1>2. reader_pc \in [Readers -> ReaderPcs] /\ queue_results \in [Tasks -> Seq(ResultKinds)]
  BY DEF Inv, TypeOK
<1>3. t \in Ids(r) /\ t \in waiting_task_ids
  BY <1>1 DEF Inv, ReaderPhases, Ids
<1>4. absBox[t] = queue_results[t] /\ absBox' = [absBox EXCEPT ![t] = Tail(@)]
  BY <1>1, <1>2, <1>3 DEF absBox, Mailbox
<1>5. absStatus[r] = "open" /\ absStatus' = absStatus
  BY <1>1, <1>2 DEF absStatus, RequestStatus
<1>6. ~Request!Failed(r)
  BY <1>1 DEF Reasons, ReasonOf, Ids, Request!Failed, Request!TasksOf
<1>7. Request!Take(t)
  <2>1. answered' = IF Head(absBox[t]) \in Request!TerminalReplies
                    THEN [answered EXCEPT ![t] = Head(absBox[t])] ELSE answered
    BY <1>1, <1>4 DEF Terminal, Request!TerminalReplies
  <2> QED BY <1>1, <1>4, <1>5, <1>6, <2>1 DEF Request!Take, absStatus, absBox
<1> QED BY <1>7 DEF Request!RNext

\* stop() closes the request when it unregisters the ids.
LEMMA StopCloses ==
    ASSUME Inv, Reasons, NEW r \in Readers, StopWaiting(r)
    PROVE  Request!RNext
<1>1. /\ reader_pc[r] = "stopping" /\ waiting_task_ids' = waiting_task_ids \ Ids(r)
      /\ \E pc \in {"clearing", "done"} : reader_pc' = [reader_pc EXCEPT ![r] = pc]
      /\ queue_results' = queue_results /\ answered' = answered
  BY DEF StopWaiting
<1>2. reader_pc \in [Readers -> ReaderPcs]
  BY DEF Inv, TypeOK
<1>3. absStatus[r] = "open" /\ absStatus' = [absStatus EXCEPT ![r] = "closed"]
  BY <1>1, <1>2 DEF absStatus, RequestStatus
<1>4. absBox' = [t \in Tasks |-> IF Owner[t] = r THEN <<>> ELSE absBox[t]]
  BY <1>1 DEF absBox, Mailbox, Ids
<1>5. Request!Complete(r) \/ Request!Failed(r) \/ r \in MayDisconnect
  BY <1>1 DEF Reasons, ReasonOf, MayClose, Ids, Request!Complete, Request!Failed, Request!TasksOf
<1>6. Request!Close(r)
  BY <1>1, <1>3, <1>4, <1>5 DEF Request!Close, absStatus, absBox
<1> QED BY <1>6 DEF Request!RNext

\* The other steps of a reader change nothing the handler sees.
LEMMA ReaderStutters ==
    ASSUME Inv, NEW r \in Readers,
           \/ PostTasks(r) \/ Disconnect(r) \/ AllReceived(r) \/ LockForCancel(r)
           \/ \E t \in Tasks : ClearResults(r, t) \/ PostCancel(r, t)
    PROVE  absSame
<1>0. reader_pc \in [Readers -> ReaderPcs] /\ queue_results \in [Tasks -> Seq(ResultKinds)]
  BY DEF Inv, TypeOK
<1>1. CASE PostTasks(r) \/ Disconnect(r) \/ AllReceived(r)
  <2>1. /\ reader_pc[r] \in {"registered", "reading"}
        /\ \E pc \in {"reading", "stopping"} : reader_pc' = [reader_pc EXCEPT ![r] = pc]
        /\ UNCHANGED <<waiting_task_ids, queue_results, answered>>
    BY <1>1 DEF PostTasks, Disconnect, AllReceived, resultVars
  <2> QED BY <1>0, <2>1 DEF absSame, absStatus, absBox, RequestStatus, Mailbox
<1>2. CASE LockForCancel(r) \/ \E t \in Tasks : PostCancel(r, t)
  <2>1. /\ reader_pc[r] \in {"cancelling", "posting"}
        /\ \/ reader_pc' = reader_pc
           \/ \E pc \in {"posting", "done"} : reader_pc' = [reader_pc EXCEPT ![r] = pc]
        /\ UNCHANGED <<waiting_task_ids, queue_results, answered>>
    BY <1>2 DEF LockForCancel, PostCancel, resultVars
  <2> QED BY <1>0, <2>1 DEF absSame, absStatus, absBox, RequestStatus, Mailbox
<1>3. ASSUME NEW t \in Tasks, ClearResults(r, t) PROVE absSame
  <2>1. /\ reader_pc[r] = "clearing" /\ t \in id_left[r]
        /\ waiting_task_ids' = waiting_task_ids \ {t}
        /\ queue_results' = [queue_results EXCEPT ![t] = <<>>]
        /\ \/ reader_pc' = reader_pc
           \/ reader_pc' = [reader_pc EXCEPT ![r] = "cancelling"]
        /\ answered' = answered
    BY <1>3 DEF ClearResults
  <2>2. t \notin waiting_task_ids
    BY <2>1 DEF Inv, ReaderPhases
  <2>3. absBox' = absBox
    BY <1>0, <2>1, <2>2 DEF absBox, Mailbox
  <2> QED BY <1>0, <2>1, <2>3 DEF absSame, absStatus, RequestStatus
<1> QED BY <1>1, <1>2, <1>3

\* Every step of the request path is a step of ServerRequest or a stutter.
LEMMA RequestStep == Inv /\ Reasons /\ [Next]_vars => [Request!RNext]_(Request!rvars)
<1> SUFFICES ASSUME Inv, Reasons, [Next]_vars PROVE Request!RNext \/ absSame
  BY DEF absSame, absStatus, absBox, Request!rvars
<1>1. CASE MainStep \/ terminate
  BY <1>1, MainRefines DEF absSame
<1>2. CASE UNCHANGED vars
  BY <1>2 DEF vars, readerVars, resultVars, absSame, absStatus, absBox, RequestStatus, Mailbox
<1>3. ASSUME NEW r \in Readers, ReaderStep(r) \/ Disconnect(r) PROVE Request!RNext \/ absSame
  BY <1>3, AddWaitingOpens, RecvTakes, StopCloses, ReaderStutters DEF ReaderStep
<1> QED BY <1>1, <1>2, <1>3 DEF Next

\* No request is open at the start.
LEMMA RequestInit == Init => Request!RInit /\ Reasons
<1> SUFFICES ASSUME Init PROVE Request!RInit /\ Reasons
  OBVIOUS
<1>1. Request!RInit
  BY DEF Init, Request!RInit, RequestStatus, Mailbox
<1>2. Reasons
  BY DEF Init, Reasons, ReasonOf, Ids
<1> QED BY <1>1, <1>2

\* server_queue, server_response, the scheduler and the readers together keep the
\* promise of server_response_reader, for any number of requests, tasks and slots.
THEOREM RequestRefinement == Spec => ImplementsRequest
<1>1. Spec => []Inv
  BY InvCorrect
<1>2. Init => Request!RInit /\ Reasons
  BY RequestInit
<1>3. Inv /\ Reasons /\ [Next]_vars => Reasons'
  BY ReasonsStep
<1>4. Inv /\ Reasons /\ [Next]_vars => [Request!RNext]_(Request!rvars)
  BY RequestStep
<1> QED BY <1>1, <1>2, <1>3, <1>4, PTL DEF Spec, ImplementsRequest, Request!RSpec
=============================================================================
