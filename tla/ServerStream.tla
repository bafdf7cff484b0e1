---------------------------- MODULE ServerStream ----------------------------
(***************************************************************************)
(* Resumable streaming (tools/server/server-stream.cpp): the ring buffer of *)
(* a generation, the manager that maps a conversation to its session, the   *)
(* POST handlers that produce into it, the GET handlers that replay it, the *)
(* DELETE handler, the GC thread and the shutdown of the server.            *)
(*                                                                         *)
(* A POST creates exactly one session, so the session is named after it.    *)
(* The bytes of a generation are numbered 1, 2, ...: the content of a ring  *)
(* is the sequence of these numbers, so a wrong byte is a wrong number.     *)
(* One action is one critical section of map_mu or of a session's mu, or    *)
(* one store to the cancelled flag.                                         *)
(***************************************************************************)
EXTENDS Integers, Sequences

CONSTANTS
    Producers,      \* POST requests with an X-Conversation-Id header
    Consumers,      \* GET /v1/stream requests
    Stops,          \* DELETE /v1/stream requests
    Convs,          \* conversation ids
    None,
    Conv,           \* Conv[x]: the conversation request x names
    Mode,           \* Mode[p]: "stream" or "plain" (stream = false)
    MayFail,        \* POST requests that may be rejected
    From,           \* From[c]: the offset a GET asks for
    ChunkSizes,     \* sizes of the chunks a generation is cut into
    CapBytes,       \* STREAM_SESSION_MAX_BYTES
    MaxBytes,       \* bound: bytes one generation produces at most
    MayLeave,       \* requests whose client may disconnect
    MayExpire,      \* BOOLEAN: time passes beyond the TTL of done sessions
    MayShutdown     \* BOOLEAN: the server may be stopped

Requests == Producers \cup Consumers \cup Stops

ASSUME ConstantsAssumption ==
    /\ None \notin Producers
    /\ Conv \in [Requests -> Convs]
    /\ Mode \in [Producers -> {"stream", "plain"}]
    /\ From \in [Consumers -> Nat]
    /\ ChunkSizes \subseteq Nat
    /\ CapBytes \in Nat \ {0} /\ MaxBytes \in Nat
    /\ MayExpire \in BOOLEAN /\ MayShutdown \in BOOLEAN

ASSUME DisjointAssumption ==
    /\ Producers \cap Consumers = {} /\ Producers \cap Stops = {}
    /\ Consumers \cap Stops = {}

VARIABLES
    sessions,       \* stream_session_manager::sessions
    buffer,         \* stream_session::buffer
    prefix_dropped, \* stream_session::prefix_dropped
    done,           \* stream_session::done
    cancelled,      \* stream_session::cancelled
    expired,        \* completed_ts is older than the TTL
    pc,             \* where the thread of each request is
    held,           \* the session a thread took out of the map and must finalize
    alive,          \* !req.should_stop(): the client is still connected
    chunk,          \* size of the chunk a POST is about to buffer
    produced,       \* history: bytes the generation of a POST has put out
    outcome,        \* history: how the generation of a POST ended
    source,         \* the session a GET holds
    offset,         \* *offset_ptr of a GET
    got,            \* history: the bytes a GET has received
    server,         \* "up", "loop_ended", "cleared" or "http_stopped"
    snapshot        \* sessions stop_gc() still has to finalize

ringVars     == <<buffer, prefix_dropped, done, cancelled, expired>>
producerVars == <<chunk, produced, outcome>>
consumerVars == <<source, offset, got>>
serverVars   == <<server, snapshot>>
vars == <<sessions, ringVars, pc, held, alive, producerVars, consumerVars, serverVars>>

-----------------------------------------------------------------------------
(* stream_session *)

logical_end(s) == prefix_dropped[s] + Len(buffer[s])

\* erase(begin, begin + n)
Drop(q, n) == [i \in 1..(Len(q) - n) |-> q[i + n]]

\* The n bytes a generation puts out after its first `from` bytes.
Chunk(from, n) == [i \in 1..n |-> from + i]

\* Mutant: an oversized chunk replaces the buffer without counting it as dropped.
append_LosesCount(s, data) ==
    LET len == Len(data) IN
    IF len = 0 \/ done[s] THEN UNCHANGED <<buffer, prefix_dropped>>
    ELSE IF len >= CapBytes
    THEN /\ buffer' = [buffer EXCEPT ![s] = Drop(data, len - CapBytes)]
         /\ prefix_dropped' = [prefix_dropped EXCEPT ![s] = @ + (len - CapBytes)]
    ELSE LET needed == Len(buffer[s]) + len
             to_drop == IF needed > CapBytes THEN needed - CapBytes ELSE 0 IN
         /\ buffer' = [buffer EXCEPT ![s] = Drop(@, to_drop) \o data]
         /\ prefix_dropped' = [prefix_dropped EXCEPT ![s] = @ + to_drop]

\* stream_session::append(): the oldest bytes make room, a chunk larger than the
\* cap keeps its tail only, and nothing enters a finalized session.
append(s, data) ==
    LET len == Len(data) IN
    IF len = 0 \/ done[s] THEN UNCHANGED <<buffer, prefix_dropped>>
    ELSE IF len >= CapBytes
    THEN LET skip == len - CapBytes IN
         /\ buffer' = [buffer EXCEPT ![s] = Drop(data, skip)]
         /\ prefix_dropped' = [prefix_dropped EXCEPT ![s] = @ + Len(buffer[s]) + skip]
    ELSE LET needed == Len(buffer[s]) + len
             to_drop == IF needed > CapBytes THEN needed - CapBytes ELSE 0 IN
         /\ buffer' = [buffer EXCEPT ![s] = Drop(@, to_drop) \o data]
         /\ prefix_dropped' = [prefix_dropped EXCEPT ![s] = @ + to_drop]

\* stream_session::finalize(): idempotent; completed_ts starts the TTL.
finalize(s) == done' = [done EXCEPT ![s] = TRUE]

cancel(s) == cancelled' = [cancelled EXCEPT ![s] = TRUE]

\* The TTL of a done session runs out.
Expire(s) ==
    /\ MayExpire /\ done[s] /\ ~expired[s]
    /\ expired' = [expired EXCEPT ![s] = TRUE]
    /\ UNCHANGED <<sessions, buffer, prefix_dropped, done, cancelled, pc, held, alive,
                   producerVars, consumerVars, serverVars>>

-----------------------------------------------------------------------------
Init ==
    /\ sessions = [v \in Convs |-> None]
    /\ buffer = [p \in Producers |-> <<>>]
    /\ prefix_dropped = [p \in Producers |-> 0]
    /\ done = [p \in Producers |-> FALSE]
    /\ cancelled = [p \in Producers |-> FALSE]
    /\ expired = [p \in Producers |-> FALSE]
    /\ pc = [x \in Requests |-> "new"]
    /\ held = [x \in Requests |-> None]
    /\ alive = [x \in Requests |-> TRUE]
    /\ chunk = [p \in Producers |-> 0]
    /\ produced = [p \in Producers |-> 0]
    /\ outcome = [p \in Producers |-> "none"]
    /\ source = [c \in Consumers |-> None]
    /\ offset = [c \in Consumers |-> 0]
    /\ got = [c \in Consumers |-> <<>>]
    /\ server = "up" /\ snapshot = {}

Goto(x, l) == pc' = [pc EXCEPT ![x] = l]

\* The peer of a request goes away.
Leave(x) ==
    /\ x \in MayLeave /\ alive[x] /\ pc[x] \notin {"new", "end", "refused"}
    /\ alive' = [alive EXCEPT ![x] = FALSE]
    /\ UNCHANGED <<sessions, ringVars, pc, held, producerVars, consumerVars, serverVars>>

-----------------------------------------------------------------------------
(* POST: server_res_spipe and the completion handler. *)

\* Mutant: the session that is replaced is neither cancelled nor finalized.
SetReq_ForgetsPrevious(p) ==
    /\ pc[p] = "new" /\ server # "http_stopped"
    /\ sessions' = [sessions EXCEPT ![Conv[p]] = p]
    /\ Goto(p, "prefill")
    /\ UNCHANGED <<ringVars, held, alive, producerVars, consumerVars, serverVars>>

\* set_req() -> create_or_replace(), the critical section of map_mu
SetReq(p) ==
    /\ pc[p] = "new" /\ server # "http_stopped"
    /\ held' = [held EXCEPT ![p] = sessions[Conv[p]]]
    /\ sessions' = [sessions EXCEPT ![Conv[p]] = p]
    /\ Goto(p, IF sessions[Conv[p]] = None THEN "prefill" ELSE "cancel")
    /\ UNCHANGED <<ringVars, alive, producerVars, consumerVars, serverVars>>

\* previous->cancel(), in create_or_replace() and in evict_and_cancel()
CancelHeld(x) ==
    /\ pc[x] = "cancel"
    /\ cancel(held[x])
    /\ Goto(x, "finalize")
    /\ UNCHANGED <<sessions, buffer, prefix_dropped, done, expired, held, alive,
                   producerVars, consumerVars, serverVars>>

\* Where a thread goes once it has finalized the session it took out.
AfterFinalize(x) ==
    IF x \notin Producers THEN "end"
    ELSE IF outcome[x] = "none" THEN "prefill" ELSE "destroy"

\* Mutant: the thread keeps the session it has finalized.
FinalizeHeld_Keeps(x) ==
    /\ pc[x] = "finalize"
    /\ finalize(held[x])
    /\ Goto(x, AfterFinalize(x))
    /\ UNCHANGED <<sessions, buffer, prefix_dropped, cancelled, expired, held, alive,
                   producerVars, consumerVars, serverVars>>

\* previous->finalize(), and the finalize() of evict() and evict_and_cancel()
FinalizeHeld(x) ==
    /\ pc[x] = "finalize"
    /\ finalize(held[x])
    /\ held' = [held EXCEPT ![x] = None]
    /\ Goto(x, AfterFinalize(x))
    /\ UNCHANGED <<sessions, buffer, prefix_dropped, cancelled, expired, alive,
                   producerVars, consumerVars, serverVars>>

\* The request ends before set_next(): it is rejected, its answer is not a
\* stream, or the client left while the first result was awaited.
EndsUnstreamed(p) ==
    /\ pc[p] = "prefill"
    /\ \/ /\ p \in MayFail
          /\ outcome' = [outcome EXCEPT ![p] = "rejected"]
       \/ /\ Mode[p] = "plain" /\ server = "up"
          /\ outcome' = [outcome EXCEPT ![p] = "finished"]
       \/ /\ ~alive[p]
          /\ outcome' = [outcome EXCEPT ![p] = "disconnected"]
    /\ Goto(p, "evict")
    /\ UNCHANGED <<sessions, ringVars, held, alive, chunk, produced, consumerVars, serverVars>>

\* on_complete() without next_orig: evict() by conversation id
Evict(p) ==
    /\ pc[p] = "evict"
    /\ held' = [held EXCEPT ![p] = sessions[Conv[p]]]
    /\ sessions' = [sessions EXCEPT ![Conv[p]] = None]
    /\ Goto(p, IF sessions[Conv[p]] = None THEN "destroy" ELSE "finalize")
    /\ UNCHANGED <<ringVars, alive, producerVars, consumerVars, serverVars>>

\* The first result arrives: set_next()
FirstResult(p) ==
    /\ pc[p] = "prefill" /\ Mode[p] = "stream" /\ server = "up"
    /\ Goto(p, "streaming")
    /\ UNCHANGED <<sessions, ringVars, held, alive, producerVars, consumerVars, serverVars>>

\* next(), and the drain loop of on_complete(): next_orig() finds the session not
\* cancelled and returns a chunk.
NextChunk(p) ==
    /\ pc[p] \in {"streaming", "draining"} /\ ~cancelled[p] /\ server = "up"
    /\ \E n \in ChunkSizes :
          /\ produced[p] + n <= MaxBytes
          /\ chunk' = [chunk EXCEPT ![p] = n]
    /\ Goto(p, IF pc[p] = "streaming" THEN "tee" ELSE "drain_write")
    /\ UNCHANGED <<sessions, ringVars, held, alive, produced, outcome, consumerVars, serverVars>>

\* next_orig() returns false: the end of the generation, "[DONE]", nothing, or an error.
LastChunk(p) ==
    /\ pc[p] \in {"streaming", "draining"} /\ ~cancelled[p] /\ server = "up"
    /\ \E n \in ChunkSizes \cup {0} :
          /\ produced[p] + n <= MaxBytes
          /\ chunk' = [chunk EXCEPT ![p] = n]
    /\ outcome' = [outcome EXCEPT ![p] = "finished"]
    /\ Goto(p, "last_write")
    /\ UNCHANGED <<sessions, ringVars, held, alive, produced, consumerVars, serverVars>>

AfterWrite == [tee |-> "streaming", drain_write |-> "draining", last_write |-> "destroy"]

\* Mutant: what the drain loop reads after the client left is not buffered.
Write_DropsTail(p) ==
    /\ pc[p] \in DOMAIN AfterWrite
    /\ IF pc[p] = "drain_write" THEN UNCHANGED <<buffer, prefix_dropped>>
                                ELSE append(p, Chunk(produced[p], chunk[p]))
    /\ produced' = [produced EXCEPT ![p] = @ + chunk[p]]
    /\ chunk' = [chunk EXCEPT ![p] = 0]
    /\ Goto(p, AfterWrite[pc[p]])
    /\ UNCHANGED <<sessions, done, cancelled, expired, held, alive, outcome,
                   consumerVars, serverVars>>

\* spipe->write(): the chunk goes into the ring before it goes to the socket.  The
\* session may have been finalized since next_orig() looked at it.
Write(p) ==
    /\ pc[p] \in DOMAIN AfterWrite
    /\ append(p, Chunk(produced[p], chunk[p]))
    /\ produced' = [produced EXCEPT ![p] = @ + chunk[p]]
    /\ chunk' = [chunk EXCEPT ![p] = 0]
    /\ Goto(p, AfterWrite[pc[p]])
    /\ UNCHANGED <<sessions, done, cancelled, expired, held, alive, outcome,
                   consumerVars, serverVars>>

\* The write to the socket fails: httplib calls on_complete(), which drains.
PeerDropped(p) ==
    /\ pc[p] = "streaming" /\ ~alive[p]
    /\ Goto(p, "draining")
    /\ UNCHANGED <<sessions, ringVars, held, alive, producerVars, consumerVars, serverVars>>

\* Mutant: the drain loop does not poll the cancelled flag.
StreamCancelled_NotInDrain(p) ==
    /\ pc[p] = "streaming" /\ cancelled[p]
    /\ outcome' = [outcome EXCEPT ![p] = "cancelled"]
    /\ Goto(p, "destroy")
    /\ UNCHANGED <<sessions, ringVars, held, alive, chunk, produced, consumerVars, serverVars>>

\* next_orig() and the drain loop poll is_cancelled() and stop.
StreamCancelled(p) ==
    /\ pc[p] \in {"streaming", "draining"} /\ cancelled[p]
    /\ outcome' = [outcome EXCEPT ![p] = "cancelled"]
    /\ Goto(p, "destroy")
    /\ UNCHANGED <<sessions, ringVars, held, alive, chunk, produced, consumerVars, serverVars>>

\* Mutant: the producer goes away without finalizing its session.
Destroy_LeavesOpen(p) ==
    /\ pc[p] = "destroy"
    /\ Goto(p, "end")
    /\ UNCHANGED <<sessions, ringVars, held, alive, producerVars, consumerVars, serverVars>>

\* The response is destroyed: ~stream_pipe_producer()
Destroy(p) ==
    /\ pc[p] = "destroy"
    /\ finalize(p)
    /\ Goto(p, "end")
    /\ UNCHANGED <<sessions, buffer, prefix_dropped, cancelled, expired, held, alive,
                   producerVars, consumerVars, serverVars>>

-----------------------------------------------------------------------------
(* GET: the replay handler. *)

\* get(): no session, no stream (404)
Open(c) ==
    /\ pc[c] = "new" /\ server # "http_stopped"
    /\ source' = [source EXCEPT ![c] = sessions[Conv[c]]]
    /\ Goto(c, IF sessions[Conv[c]] = None THEN "refused" ELSE "check")
    /\ UNCHANGED <<sessions, ringVars, held, alive, producerVars, offset, got, serverVars>>

\* dropped_prefix(): an offset that is gone is refused (400)
CheckOffset(c) ==
    /\ pc[c] = "check"
    /\ offset' = [offset EXCEPT ![c] = From[c]]
    /\ Goto(c, IF From[c] < prefix_dropped[source[c]] THEN "refused" ELSE "reading")
    /\ UNCHANGED <<sessions, ringVars, held, alive, producerVars, source, got, serverVars>>

\* Mutant: the copy starts at the offset without subtracting the dropped prefix.
ReadChunk_Unshifted(c) ==
    LET s == source[c]
        local_off == offset[c] IN
    /\ pc[c] = "reading" /\ alive[c]
    /\ offset[c] >= prefix_dropped[s] /\ offset[c] < logical_end(s)
    /\ offset' = [offset EXCEPT ![c] = logical_end(s)]
    /\ got' = [got EXCEPT ![c] = @ \o Drop(buffer[s], local_off)]
    /\ UNCHANGED <<sessions, ringVars, pc, held, alive, producerVars, source, serverVars>>

\* read_from(): everything from the offset on is copied under the lock
ReadChunk(c) ==
    LET s == source[c]
        local_off == offset[c] - prefix_dropped[s] IN
    /\ pc[c] = "reading" /\ alive[c]
    /\ offset[c] >= prefix_dropped[s] /\ offset[c] < logical_end(s)
    /\ offset' = [offset EXCEPT ![c] = logical_end(s)]
    /\ got' = [got EXCEPT ![c] = @ \o Drop(buffer[s], local_off)]
    /\ UNCHANGED <<sessions, ringVars, pc, held, alive, producerVars, source, serverVars>>

\* Mutant: done is tested before the bytes that are left.
ReadEnds_DoneFirst(c) ==
    LET s == source[c] IN
    /\ pc[c] = "reading"
    /\ ~alive[c] \/ offset[c] < prefix_dropped[s] \/ done[s]
    /\ Goto(c, "end")
    /\ UNCHANGED <<sessions, ringVars, held, alive, producerVars, consumerVars, serverVars>>

\* read_from() returns without bytes, which ends the response: the client left,
\* the offset was lost, or the session is done and drained.
ReadEnds(c) ==
    LET s == source[c] IN
    /\ pc[c] = "reading"
    /\ \/ ~alive[c]
       \/ offset[c] < prefix_dropped[s]
       \/ offset[c] >= logical_end(s) /\ done[s]
    /\ Goto(c, "end")
    /\ UNCHANGED <<sessions, ringVars, held, alive, producerVars, consumerVars, serverVars>>

-----------------------------------------------------------------------------
(* DELETE, the GC thread and the shutdown. *)

\* Mutant: DELETE only evicts the session.
Delete_NoCancel(d) ==
    /\ pc[d] = "new" /\ server # "http_stopped"
    /\ held' = [held EXCEPT ![d] = sessions[Conv[d]]]
    /\ sessions' = [sessions EXCEPT ![Conv[d]] = None]
    /\ Goto(d, IF sessions[Conv[d]] = None THEN "end" ELSE "finalize")
    /\ UNCHANGED <<ringVars, alive, producerVars, consumerVars, serverVars>>

\* evict_and_cancel(), the critical section of map_mu
Delete(d) ==
    /\ pc[d] = "new" /\ server # "http_stopped"
    /\ held' = [held EXCEPT ![d] = sessions[Conv[d]]]
    /\ sessions' = [sessions EXCEPT ![Conv[d]] = None]
    /\ Goto(d, IF sessions[Conv[d]] = None THEN "end" ELSE "cancel")
    /\ UNCHANGED <<ringVars, alive, producerVars, consumerVars, serverVars>>

\* Mutant: the GC drops sessions by age, done or not.
GcTick_DropsLive ==
    /\ server \in {"up", "loop_ended"}
    /\ sessions' = [v \in Convs |-> None]
    /\ sessions' # sessions
    /\ UNCHANGED <<ringVars, pc, held, alive, producerVars, consumerVars, serverVars>>

\* gc_loop(): sessions whose TTL ran out leave the map.  They are done, so the
\* finalize() that follows changes nothing.
GcTick ==
    /\ server \in {"up", "loop_ended"}
    /\ sessions' = [v \in Convs |->
                      IF sessions[v] # None /\ expired[sessions[v]] THEN None ELSE sessions[v]]
    /\ sessions' # sessions
    /\ UNCHANGED <<ringVars, pc, held, alive, producerVars, consumerVars, serverVars>>

\* start_loop() has returned: nothing is generated any more.
LoopEnds ==
    /\ MayShutdown /\ server = "up"
    /\ server' = "loop_ended"
    /\ UNCHANGED <<sessions, ringVars, pc, held, alive, producerVars, consumerVars, snapshot>>

\* clean_up(): stop_gc() joins the GC thread and empties the map ...
StopGc ==
    /\ server = "loop_ended"
    /\ server' = "cleared"
    /\ snapshot' = {sessions[v] : v \in Convs} \ {None}
    /\ sessions' = [v \in Convs |-> None]
    /\ UNCHANGED <<ringVars, pc, held, alive, producerVars, consumerVars>>

\* ... and finalizes what was in it.
FinalizeSnapshot(s) ==
    /\ server = "cleared" /\ s \in snapshot
    /\ finalize(s)
    /\ snapshot' = snapshot \ {s}
    /\ UNCHANGED <<sessions, buffer, prefix_dropped, cancelled, expired, pc, held, alive,
                   producerVars, consumerVars, server>>

\* ctx_http.stop(): no new request is accepted.
HttpStop ==
    /\ server = "cleared" /\ snapshot = {}
    /\ server' = "http_stopped"
    /\ UNCHANGED <<sessions, ringVars, pc, held, alive, producerVars, consumerVars, snapshot>>

-----------------------------------------------------------------------------
\* What the thread of a POST does by itself, and what waits for the model's output.
ControlStep(p) ==
    \/ CancelHeld(p) \/ FinalizeHeld(p) \/ EndsUnstreamed(p) \/ Evict(p)
    \/ FirstResult(p) \/ PeerDropped(p) \/ StreamCancelled(p) \/ Write(p) \/ Destroy(p)

ProducerStep(p) == ControlStep(p) \/ NextChunk(p) \/ LastChunk(p)

ConsumerStep(c) == CheckOffset(c) \/ ReadChunk(c) \/ ReadEnds(c)

StopStep(d) == CancelHeld(d) \/ FinalizeHeld(d)

ShutdownStep == StopGc \/ (\E s \in Producers : FinalizeSnapshot(s)) \/ HttpStop

Next ==
    \/ \E p \in Producers : SetReq(p) \/ ProducerStep(p) \/ Expire(p)
    \/ \E c \in Consumers : Open(c) \/ ConsumerStep(c)
    \/ \E d \in Stops : Delete(d) \/ StopStep(d)
    \/ \E x \in Requests : Leave(x)
    \/ GcTick \/ LoopEnds \/ ShutdownStep

Spec == Init /\ [][Next]_vars

\* Accepted requests run on their own thread and a generation comes to its end (EOS
\* or max_tokens) while the server is up; nobody has to send a request, to leave or
\* to stop the server.
FairSpec ==
    /\ Spec
    /\ \A p \in Producers : WF_vars(ControlStep(p)) /\ WF_vars(LastChunk(p))
    /\ \A c \in Consumers : WF_vars(ConsumerStep(c))
    /\ \A d \in Stops : WF_vars(StopStep(d))
    /\ WF_vars(ShutdownStep)

-----------------------------------------------------------------------------
(* Properties *)

ProducerPcs == {"new", "cancel", "finalize", "prefill", "evict", "streaming", "draining",
                "tee", "drain_write", "last_write", "destroy", "end"}

\* Types, and what the place of a thread says about what it holds.
TypeOK ==
    /\ sessions \in [Convs -> Producers \cup {None}]
    /\ buffer \in [Producers -> Seq(Nat)]
    /\ prefix_dropped \in [Producers -> Nat]
    /\ done \in [Producers -> BOOLEAN]
    /\ cancelled \in [Producers -> BOOLEAN]
    /\ expired \in [Producers -> BOOLEAN]
    /\ pc \in [Requests -> ProducerPcs \cup {"check", "reading", "refused"}]
    /\ held \in [Requests -> Producers \cup {None}]
    /\ alive \in [Requests -> BOOLEAN]
    /\ chunk \in [Producers -> Nat]
    /\ produced \in [Producers -> Nat]
    /\ outcome \in [Producers -> {"none", "finished", "cancelled", "rejected", "disconnected"}]
    /\ source \in [Consumers -> Producers \cup {None}]
    /\ offset \in [Consumers -> Nat]
    /\ got \in [Consumers -> Seq(Nat)]
    /\ server \in {"up", "loop_ended", "cleared", "http_stopped"}
    /\ snapshot \in SUBSET Producers
    /\ \A x \in Requests : held[x] # None <=> pc[x] \in {"cancel", "finalize"}
    /\ \A c \in Consumers : pc[c] \in {"check", "reading"} => source[c] # None
    /\ \A v \in Convs : sessions[v] # None => Conv[sessions[v]] = v /\ pc[sessions[v]] # "new"
    /\ \A p \in Producers : expired[p] => done[p]

\* The ring holds an unbroken run of the generation that starts right after the
\* dropped prefix and is never larger than the cap; while the session is open
\* the run reaches the last byte that was put out.  "Oldest bytes drop first",
\* and offsets stay offsets into the whole stream.
RingIsSuffix ==
    \A s \in Producers :
        /\ Len(buffer[s]) <= CapBytes
        /\ \A i \in 1..Len(buffer[s]) : buffer[s][i] = prefix_dropped[s] + i
        /\ ~done[s] => logical_end(s) = produced[s]

\* A GET receives the bytes of one generation in order from the offset it asked
\* for, with no gap and no repetition, however far the ring has moved on between
\* two of its reads.
ReplayExact ==
    \A c \in Consumers :
        \A i \in 1..Len(got[c]) : got[c][i] = From[c] + i

\* The offset a GET keeps is the one after its last byte; makes ReplayExact inductive.
OffsetsFollow ==
    \A c \in Consumers :
        /\ pc[c] \in {"new", "check"} => got[c] = <<>>
        /\ pc[c] = "reading" => offset[c] = From[c] + Len(got[c])

\* A session that is in the map of nobody any more is done, or a thread that took
\* it out is about to finalize it: no reader can wait on it for ever.
RemovedIsFinalized ==
    \A s \in Producers :
        \/ pc[s] = "new" \/ sessions[Conv[s]] = s \/ done[s]
        \/ s \in snapshot
        \/ \E x \in Requests : held[x] = s

\* "One conv = at most one live session": two open sessions of a conversation
\* exist only while the thread that replaced or evicted one is about to end it.
OneLiveSession ==
    \A s, t \in Producers :
        /\ s # t /\ Conv[s] = Conv[t]
        /\ pc[s] # "new" /\ pc[t] # "new"
        /\ ~done[s] /\ ~done[t]
        => s \in snapshot \/ t \in snapshot \/ \E x \in Requests : held[x] \in {s, t}

\* POST q ended before set_next(): its on_complete() evicts by conversation id.
Unstreamed(q) ==
    \/ outcome[q] \in {"rejected", "disconnected"}
    \/ outcome[q] = "finished" /\ Mode[q] = "plain"

\* Another POST of the conversation has done so: it may have found the session of p.
MayBeEvicted(p) ==
    \E q \in Producers \ {p} :
        Conv[q] = Conv[p] /\ Unstreamed(q) /\ pc[q] \in {"destroy", "end"}

\* A session is finalized under a running generation only after a stop, a replacing
\* POST or a shutdown, or by another POST of the conversation that ended before its
\* stream: on_complete() is to evict "the session installed by set_req()", but takes
\* whatever the conversation id names by then.  No replay, no leaving client, no
\* expiry and no GC makes a running generation unresumable.
RunningIsResumable ==
    \A p \in Producers :
        pc[p] \in {"streaming", "draining"} /\ done[p] =>
            cancelled[p] \/ server # "up" \/ MayBeEvicted(p)

\* A generation that ran to its end is in the ring to its last byte although the
\* client left in the middle ("on_complete drains the tail into the ring"), unless
\* the session was ended under it for one of the reasons above.
TailKept ==
    \A p \in Producers :
        /\ pc[p] = "destroy" /\ outcome[p] = "finished" /\ Mode[p] = "stream"
        => logical_end(p) = produced[p] \/ cancelled[p] \/ server # "up" \/ MayBeEvicted(p)

\* A replay whose client stayed ends for two reasons only: it has delivered a finished
\* session to its last byte, or the ring dropped the bytes it was to read next, which
\* read_from() reports as OFFSET_LOST and the handler ends like a complete stream.
ShortOnlyIfLost ==
    \A c \in Consumers :
        pc[c] = "end" /\ alive[c] =>
            \/ done[source[c]] /\ offset[c] >= logical_end(source[c])
            \/ offset[c] < prefix_dropped[source[c]]

\* The session was put into the map after stop_gc() had emptied it: clean_up() stops
\* the HTTP server later, and nobody finalizes this session any more.
Stranded(s) == server \in {"cleared", "http_stopped"} /\ sessions[Conv[s]] = s /\ ~done[s]

\* stop_gc() finalizes "all live sessions so no reader ever hangs": with or without a
\* shutdown every replay comes to an end, unless its session is installed behind
\* the back of stop_gc().
ReadersEnd ==
    \A c \in Consumers :
        pc[c] = "reading" ~> pc[c] = "end" \/ \E s \in Producers : source[c] = s /\ Stranded(s)

\* A stop request ends the generation it cancelled: the worker unwinds, unless it still
\* waits for its first result when the main loop has ended.  That wait looks at the
\* connection only, not at the flag.
CancelledUnwinds ==
    \A p \in Producers :
        cancelled[p] ~> pc[p] = "end" \/ (pc[p] = "prefill" /\ server # "up")
=============================================================================
