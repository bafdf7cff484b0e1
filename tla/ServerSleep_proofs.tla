------------------------- MODULE ServerSleep_proofs -------------------------
(***************************************************************************)
(* Proofs about the sleeping state.  Inv adds to the types and the checked  *)
(* invariants where the main thread is while the server sleeps (Asleep) and *)
(* that nobody is between the end of a sleep and the gate when the idle     *)
(* time has passed, or while a new sleep has not been asked to end (Quiet). *)
(***************************************************************************)
EXTENDS ServerSleep, TLAPS

\* The server sleeps exactly while the main thread is in its sleep, or left it
\* for a shutdown.
Asleep ==
    /\ main_pc = "asleep" => sleeping
    /\ sleeping => main_pc = "asleep" \/ (~running /\ main_pc \in {"loop", "exit"})

\* No prompt request is at the gate when the server may fall asleep, nor during a
\* sleep before somebody asks for its end.
Quiet ==
    (idle /\ ~sleeping) \/ (sleeping /\ ~req_stop_sleeping /\ running)
        => \A r \in Requests \ Laggards : req_pc[r] # "gate"

\* The Boolean members and the rest of TypeOK.
Flags ==
    /\ running \in BOOLEAN /\ sleeping \in BOOLEAN
    /\ req_stop_sleeping \in BOOLEAN /\ idle \in BOOLEAN /\ loaded \in BOOLEAN
    /\ loaded <=> ~sleeping

Places ==
    /\ queue_tasks \in SUBSET Requests
    /\ cv \in SUBSET (Requests \cup {Main})
    /\ main_pc \in MainPcs
    /\ req_pc \in [Requests -> RequestPcs]
    /\ sleeps \in Nat
    /\ Main \in cv => main_pc \in {"timed", "asleep"}
    /\ \A r \in Requests : r \in cv => req_pc[r] = "gate"
    /\ \A r \in Requests : r \in queue_tasks <=> req_pc[r] = "posted"

\* TypeOK is the conjunction of the two.
LEMMA TypeParts == (TypeOK <=> Flags /\ Places) /\ (TypeOK' <=> Flags' /\ Places')
BY DEF TypeOK, Flags, Places

Inv == TypeOK /\ Asleep /\ Quiet /\ NoForgottenWaiter

\* The invariant holds initially.
LEMMA InvInit == Init => Inv
<1> SUFFICES ASSUME Init PROVE Inv
  OBVIOUS
<1>1. Flags
  BY DEF Init, Flags
<1>2. Places
  BY DEF Init, Places, MainPcs, RequestPcs
<1>3. Asleep /\ Quiet /\ NoForgottenWaiter
  BY DEF Init, Asleep, Quiet, NoForgottenWaiter
<1> QED BY <1>1, <1>2, <1>3, TypeParts DEF Inv

\* A notification only takes threads off the condition variable.
LEMMA NotifyShrinks == NotifyOne \/ NotifyAll => cv' \subseteq cv
BY DEF NotifyOne, NotifyAll

\* The steps of a handler preserve the invariant.
LEMMA RequestInv ==
    ASSUME Inv, NEW r \in Requests, RequestStep(r)
    PROVE  Inv'
<1> USE SleepAssumption DEF Inv
<1>1. CASE GatePass(r)
  BY <1>1 DEF GatePass, queueVars, TypeOK, Asleep, Quiet, NoForgottenWaiter, RequestPcs
<1>2. CASE GateAsk(r)
  <2>1. /\ req_pc[r] = "new" /\ sleeping /\ req_stop_sleeping' = TRUE
        /\ cv' \subseteq cv \cup {r}
        /\ req_pc' = [req_pc EXCEPT ![r] = "gate"]
        /\ UNCHANGED <<running, sleeping, queue_tasks, idle, loaded, main_pc, sleeps>>
    BY <1>2 DEF GateAsk
  <2>2. TypeOK'
    BY <2>1 DEF TypeOK, RequestPcs
  <2>3. Asleep' /\ Quiet' /\ NoForgottenWaiter'
    BY <2>1 DEF Asleep, Quiet, NoForgottenWaiter
  <2> QED BY <2>2, <2>3
<1>3. CASE GateRecheck(r)
  <2>1. TypeOK'
    BY <1>3 DEF GateRecheck, queueVars, TypeOK, RequestPcs
  <2>2. Asleep' /\ NoForgottenWaiter'
    BY <1>3 DEF GateRecheck, queueVars, Asleep, NoForgottenWaiter
  <2>3. Quiet'
    BY <1>3 DEF GateRecheck, queueVars, TypeOK, Quiet
  <2> QED BY <2>1, <2>2, <2>3
<1>4. CASE Tokenize(r)
  BY <1>4 DEF Tokenize, queueVars, TypeOK, Asleep, Quiet, NoForgottenWaiter, RequestPcs
<1>5. CASE Post(r)
  <2>1. /\ req_pc[r] = "tokenized" /\ queue_tasks' = queue_tasks \cup {r} /\ idle' = FALSE
        /\ cv' \subseteq cv /\ req_pc' = [req_pc EXCEPT ![r] = "posted"]
        /\ UNCHANGED <<running, sleeping, req_stop_sleeping, loaded, main_pc, sleeps>>
    BY <1>5, NotifyShrinks DEF Post
  <2>2. TypeOK'
    BY <2>1 DEF TypeOK, RequestPcs
  <2>3. Asleep' /\ Quiet' /\ NoForgottenWaiter'
    BY <2>1 DEF TypeOK, Asleep, Quiet, NoForgottenWaiter
  <2> QED BY <2>2, <2>3
<1> QED BY <1>1, <1>2, <1>3, <1>4, <1>5 DEF RequestStep

\* The steps of the main thread preserve the invariant.
LEMMA MainInv ==
    ASSUME Inv, MainStep
    PROVE  Inv'
<1> USE SleepAssumption DEF Inv
<1>1. CASE PopTask
  <2>1. PICK r \in queue_tasks :
           queue_tasks' = queue_tasks \ {r} /\ req_pc' = [req_pc EXCEPT ![r] = "answered"]
    BY <1>1 DEF PopTask
  <2>2. /\ main_pc = "loop" /\ running /\ main_pc' = "process"
        /\ UNCHANGED <<running, sleeping, req_stop_sleeping, idle, cv, loaded, sleeps>>
    BY <1>1 DEF PopTask
  <2>3. TypeOK'
    BY <2>1, <2>2 DEF TypeOK, RequestPcs, MainPcs
  <2>4. Asleep' /\ Quiet' /\ NoForgottenWaiter'
    BY <2>1, <2>2 DEF TypeOK, Asleep, Quiet, NoForgottenWaiter
  <2> QED BY <2>3, <2>4
<1>2. CASE Processed \/ LoopEnd \/ Updated \/ CheckBusy
  <2>a. Flags'
    <3>1. UNCHANGED <<running, sleeping, req_stop_sleeping, loaded>> /\ (idle' = idle \/ idle' = FALSE)
      BY <1>2 DEF Processed, LoopEnd, Updated, CheckBusy, queueVars
    <3>2. idle' \in BOOLEAN
      BY <3>1, TypeParts DEF Flags
    <3> QED BY <3>1, <3>2, TypeParts DEF Flags
  <2>b. Places'
    <3>1. /\ UNCHANGED <<queue_tasks, cv, req_pc, sleeps>> /\ main_pc' \in MainPcs
          /\ main_pc \notin {"timed", "asleep"}
      BY <1>2 DEF Processed, LoopEnd, Updated, CheckBusy, queueVars, MainPcs
    <3> QED BY <3>1, TypeParts DEF Places
  <2>1. TypeOK'
    BY <2>a, <2>b, TypeParts
  <2>2. Asleep' /\ Quiet' /\ NoForgottenWaiter'
    BY <1>2 DEF Processed, LoopEnd, Updated, CheckBusy, queueVars,
                Asleep, Quiet, NoForgottenWaiter
  <2> QED BY <2>1, <2>2
<1>3. CASE CheckWait \/ TimedWaitEnd
  <2>1. TypeOK'
    BY <1>3 DEF CheckWait, TimedWaitEnd, queueVars, TypeOK, MainPcs
  <2>2. Asleep' /\ Quiet' /\ NoForgottenWaiter'
    BY <1>3 DEF CheckWait, TimedWaitEnd, queueVars, TypeOK, Asleep, Quiet, NoForgottenWaiter
  <2> QED BY <2>1, <2>2
<1>4. CASE EnterSleep
  <2>1. ~sleeping
    BY <1>4 DEF EnterSleep, Asleep
  <2>a. Flags'
    BY <1>4, TypeParts DEF EnterSleep, Flags
  <2>b. Places'
    BY <1>4, TypeParts DEF EnterSleep, Places, MainPcs
  <2>2. TypeOK'
    BY <2>a, <2>b, TypeParts
  <2>3. Asleep' /\ NoForgottenWaiter'
    BY <1>4 DEF EnterSleep, Asleep, NoForgottenWaiter
  <2>4. Quiet'
    BY <1>4, <2>1 DEF EnterSleep, Quiet
  <2> QED BY <2>2, <2>3, <2>4
<1>5. CASE SleepOn
  BY <1>5 DEF SleepOn, queueVars, TypeOK, Asleep, Quiet, NoForgottenWaiter
<1>6. CASE SleepTerminated
  BY <1>6 DEF SleepTerminated, queueVars, TypeOK, MainPcs, Asleep, Quiet, NoForgottenWaiter
<1>7. CASE ExitSleep
  BY <1>7 DEF ExitSleep, NotifyAll, TypeOK, MainPcs, Asleep, Quiet, NoForgottenWaiter
<1> QED BY <1>1, <1>2, <1>3, <1>4, <1>5, <1>6, <1>7 DEF MainStep

\* Every step preserves the invariant.
LEMMA InvStep == Inv /\ [Next]_vars => Inv'
<1> SUFFICES ASSUME Inv, [Next]_vars PROVE Inv'
  OBVIOUS
<1>1. ASSUME NEW r \in Requests, RequestStep(r) PROVE Inv'
  BY <1>1, RequestInv
<1>2. CASE MainStep
  BY <1>2, MainInv
<1>3. CASE terminate
  BY <1>3, SleepAssumption
     DEF terminate, NotifyAll, Inv, TypeOK, Asleep, Quiet, NoForgottenWaiter
<1>4. CASE IdleExpires
  <2>1. \A r \in Requests : ~sleeping /\ req_pc[r] = "gate" => Released(r)
    BY SleepAssumption DEF Inv, TypeOK, NoForgottenWaiter, Released
  <2>2. Quiet'
    BY <1>4, <2>1 DEF IdleExpires, Inv, Quiet
  <2>3. TypeOK' /\ Asleep' /\ NoForgottenWaiter'
    BY <1>4 DEF IdleExpires, Inv, TypeOK, Asleep, NoForgottenWaiter
  <2> QED BY <2>2, <2>3 DEF Inv
<1>5. CASE SpuriousWake
  BY <1>5 DEF SpuriousWake, queueVars, Inv, TypeOK, Asleep, Quiet, NoForgottenWaiter
<1>6. CASE UNCHANGED vars
  BY <1>6 DEF vars, queueVars, Inv, TypeOK, Asleep, Quiet, NoForgottenWaiter
<1> QED BY <1>1, <1>2, <1>3, <1>4, <1>5, <1>6 DEF Next

\* The invariant holds in every reachable state, for any number of requests.
THEOREM SleepInvariant == Spec => []Inv
BY InvInit, InvStep, PTL DEF Spec

\* The flags of server_queue, the model and the threads on the condition variable
\* agree: the model is there exactly while the server does not sleep.
THEOREM SleepTypes == Spec => []TypeOK
<1>1. Inv => TypeOK
  BY DEF Inv
<1> QED BY <1>1, SleepInvariant, PTL

\* The main thread never works on tasks or slots without the model.
THEOREM MainHasModelCorrect == Spec => []MainHasModel
<1>1. Inv => MainHasModel
  BY DEF Inv, TypeOK, Asleep, MainHasModel
<1> QED BY <1>1, SleepInvariant, PTL

\* When the server is awake no request is blocked on the condition variable.
THEOREM NoForgottenWaiterCorrect == Spec => []NoForgottenWaiter
<1>1. Inv => NoForgottenWaiter
  BY DEF Inv
<1> QED BY <1>1, SleepInvariant, PTL

\* The notify_one() of the gate can only go to the main thread or to a laggard.
THEOREM OnlyMainIsNotifiedCorrect == Spec => []OnlyMainIsNotified
<1>1. Inv => OnlyMainIsNotified
  BY DEF Inv, TypeOK, Quiet, OnlyMainIsNotified
<1> QED BY <1>1, SleepInvariant, PTL
=============================================================================
