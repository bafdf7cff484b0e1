--------------------------- MODULE ServerRequest ---------------------------
(***************************************************************************)
(* What server_response and server_response_reader promise the handler of a *)
(* request, without queues, slots and threads: every task of the request is *)
(* a mailbox into which replies come while the request is open, a terminal  *)
(* reply (final or error) is the last one of its task, the handler takes    *)
(* the replies of a task in order, takes nothing more once it took an       *)
(* error, and closes the request for one of three reasons only.             *)
(***************************************************************************)
EXTENDS Integers, Sequences

CONSTANTS
    Requests,
    Tasks,
    Owner,          \* Owner[t]: the request task t belongs to
    MayDisconnect   \* requests whose client may go away

VARIABLES
    status,     \* of each request
    box,        \* replies sent and not taken, per task
    answer      \* the terminal reply taken for each task

rvars == <<status, box, answer>>

TerminalReplies == {"final", "error"}
Replies == {"partial"} \cup TerminalReplies

TasksOf(r) == {t \in Tasks : Owner[t] = r}

\* The sender has said its last word about t.
Ended(t) ==
    \/ answer[t] # "no"
    \/ \E i \in 1..Len(box[t]) : box[t][i] \in TerminalReplies

Failed(r) == \E t \in TasksOf(r) : answer[t] = "error"
Complete(r) == \A t \in TasksOf(r) : answer[t] = "final"

RInit ==
    /\ status = [r \in Requests |-> "new"]
    /\ box = [t \in Tasks |-> <<>>]
    /\ answer = [t \in Tasks |-> "no"]

\* add_waiting_task_ids(): from here on replies are kept
Open(r) ==
    /\ status[r] = "new"
    /\ status' = [status EXCEPT ![r] = "open"]
    /\ UNCHANGED <<box, answer>>

\* server_response::send()
Reply(t, kind) ==
    /\ status[Owner[t]] = "open"
    /\ ~Ended(t)
    /\ box' = [box EXCEPT ![t] = Append(@, kind)]
    /\ UNCHANGED <<status, answer>>

\* server_response_reader::next(): "if one error is received, it will stop
\* further processing"
Take(t) ==
    /\ status[Owner[t]] = "open"
    /\ ~Failed(Owner[t])
    /\ box[t] # <<>>
    /\ box' = [box EXCEPT ![t] = Tail(@)]
    /\ answer' = IF Head(box[t]) \in TerminalReplies
                 THEN [answer EXCEPT ![t] = Head(box[t])] ELSE answer
    /\ UNCHANGED status

\* server_response_reader::stop()
Close(r) ==
    /\ status[r] = "open"
    /\ Complete(r) \/ Failed(r) \/ r \in MayDisconnect
    /\ status' = [status EXCEPT ![r] = "closed"]
    /\ box' = [t \in Tasks |-> IF Owner[t] = r THEN <<>> ELSE box[t]]
    /\ UNCHANGED answer

RNext ==
    \/ \E r \in Requests : Open(r) \/ Close(r)
    \/ \E t \in Tasks : Take(t) \/ \E kind \in Replies : Reply(t, kind)

RSpec == RInit /\ [][RNext]_rvars
=============================================================================
