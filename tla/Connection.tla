----------------------------- MODULE Connection -----------------------------
(***************************************************************************)
(* One HTTP connection of osrm-routed (server::Connection): a chain of     *)
(* asynchronous operations (read, write, keep-alive timer) whose handlers  *)
(* run one at a time on the connection's strand.                           *)
(*                                                                         *)
(* An operation is pending until the reactor completes it; its completion  *)
(* then waits for its handler to run.  Cancelling reaches pending          *)
(* operations only: a completion that is already on its way is delivered   *)
(* with the result it has.  The threads of the io_context hand completions *)
(* to the strand in any order.                                             *)
(*                                                                         *)
(* What the client sends is a stream of pieces: "head" begins a request,   *)
(* "keep" or "close" ends one (without or with a "Connection: close"       *)
(* header), "bad" holds a byte that no request may hold.  A read returns   *)
(* any non-empty prefix of what has arrived.                               *)
(***************************************************************************)
EXTENDS Naturals, Sequences, FiniteSets, SequencesExt

CONSTANTS MaxRequests,  \* initial value of processed_requests (512 in the code)
          MaxPieces     \* bound: pieces the client sends

ASSUME ConnectionAssumption ==
    /\ MaxRequests \in Nat
    /\ MaxPieces \in Nat

VARIABLES
    keep_alive, processed_requests,
    parser,       \* state of request_parser
    reply,        \* current_reply
    reading, writing,  \* number of pending async_read_some and async_write
    timer,        \* "armed" while an async_wait is pending
    completions,  \* completed operations whose handler has not run yet
    shut,         \* has handle_shutdown shut the socket down?
    inbound,      \* pieces that have arrived and have not been read
    gone,         \* has the client closed its end?
    sent,         \* pieces sent so far
    last,         \* the piece sent last
    ended,        \* requests sent completely so far
    pipelined,    \* history: has a request been sent before the last one was answered?
    replies       \* replies written completely, in order

connVars == <<keep_alive, processed_requests, parser, reply>>
ioVars == <<reading, writing, timer, completions, shut>>
clientVars == <<inbound, gone, sent, last, ended, pipelined, replies>>
vars == <<connVars, ioVars, clientVars>>

Pieces == {"head", "keep", "close", "bad"}
Verdicts == {"keep", "close", "invalid"}
NoReply == [request |-> "none", answer |-> "none", max |-> 0]

Completion(op, result, data) == [op |-> op, result |-> result, data |-> data]

Init ==
    /\ keep_alive = FALSE
    /\ processed_requests = MaxRequests
    /\ parser = "start"
    /\ reply = NoReply
    /\ reading = 1
    /\ writing = 0
    /\ timer = "off"
    /\ completions = <<>>
    /\ shut = FALSE
    /\ inbound = <<>>
    /\ gone = FALSE
    /\ sent = 0
    /\ last = "keep"
    /\ ended = 0
    /\ pipelined = FALSE
    /\ replies = <<>>

-----------------------------------------------------------------------------
(* The client                                                              *)

Send(piece) ==
    /\ sent < MaxPieces
    /\ ~ gone
    /\ piece = "head" <=> last # "head"
    /\ inbound' = Append(inbound, piece)
    /\ sent' = sent + 1
    /\ last' = piece
    /\ ended' = IF piece = "head" THEN ended ELSE ended + 1
    /\ pipelined' = (pipelined \/ (piece = "head" /\ Len(replies) # ended))
    /\ UNCHANGED <<connVars, ioVars, gone, replies>>

Leave ==
    /\ ~ gone
    /\ gone' = TRUE
    /\ UNCHANGED <<connVars, ioVars, inbound, sent, last, ended, pipelined, replies>>

-----------------------------------------------------------------------------
(* The reactor completes pending operations                                *)

ReadReady ==
    /\ reading > 0
    /\ inbound # <<>>
    /\ \E n \in 1 .. Len(inbound) :
         /\ completions' = Append(completions,
                                  Completion("read", "ok", SubSeq(inbound, 1, n)))
         /\ inbound' = SubSeq(inbound, n + 1, Len(inbound))
    /\ reading' = reading - 1
    /\ UNCHANGED <<connVars, writing, timer, shut, gone, sent, last, ended, pipelined, replies>>

ReadEof ==
    /\ reading > 0
    /\ inbound = <<>>
    /\ gone \/ shut
    /\ completions' = Append(completions, Completion("read", "eof", <<>>))
    /\ reading' = reading - 1
    /\ UNCHANGED <<connVars, writing, timer, shut, clientVars>>

\* The last byte of the reply has been handed to the client.
WriteReady ==
    /\ writing > 0
    /\ ~ shut
    /\ completions' = Append(completions, Completion("write", "ok", <<>>))
    /\ writing' = writing - 1
    /\ replies' = Append(replies, reply)
    /\ UNCHANGED <<connVars, reading, timer, shut, inbound, gone, sent, last, ended, pipelined>>

WriteFails ==
    /\ writing > 0
    /\ gone \/ shut
    /\ completions' = Append(completions, Completion("write", "broken", <<>>))
    /\ writing' = writing - 1
    /\ UNCHANGED <<connVars, reading, timer, shut, clientVars>>

TimerExpires ==
    /\ timer = "armed"
    /\ timer' = "off"
    /\ completions' = Append(completions, Completion("timer", "ok", <<>>))
    /\ UNCHANGED <<connVars, reading, writing, shut, clientVars>>

-----------------------------------------------------------------------------
(* What the handlers do to the pending operations                          *)

\* timer.cancel(): only a wait that is still pending is aborted.
CancelTimer(queue) ==
    IF timer = "armed" THEN Append(queue, Completion("timer", "aborted", <<>>)) ELSE queue

\* TCP_socket.cancel()
CancelSocket(queue) ==
    queue \o (IF reading > 0 THEN <<Completion("read", "aborted", <<>>)>> ELSE <<>>)
          \o (IF writing > 0 THEN <<Completion("write", "aborted", <<>>)>> ELSE <<>>)

\* handle_shutdown, with the completions that are left in the queue.
handle_shutdown(queue) ==
    /\ completions' = CancelTimer(queue)
    /\ timer' = "off"
    /\ shut' = TRUE

\* Mutant of start: the timer is not armed again.
startUntimed(queue) ==
    /\ reading' = reading + 1
    /\ completions' = queue
    /\ UNCHANGED <<writing, timer, shut>>

\* start: read on, and in keep-alive mode (re)arm the timer.
start(queue) ==
    /\ reading' = reading + 1
    /\ completions' = IF keep_alive THEN CancelTimer(queue) ELSE queue
    /\ timer' = IF keep_alive THEN "armed" ELSE timer
    /\ UNCHANGED <<writing, shut>>

\* The parser: a piece takes it from one state to the next, up to a verdict.
consume(state, piece) ==
    IF state \in Verdicts THEN state
    ELSE IF piece = "head" THEN "partial"
    ELSE IF state = "partial" /\ piece # "bad" THEN piece
    ELSE "invalid"

\* The state of the parser after each piece: the pieces after the verdict are not
\* looked at.
scan(state, data) ==
    LET after[n \in 0 .. Len(data)] ==
            IF n = 0 THEN state ELSE consume(after[n - 1], data[n])
    IN  after

\* A parser that has reached its verdict before and was not reset accepts nothing.
parse(state, data) ==
    IF state \in Verdicts THEN "invalid" ELSE scan(state, data)[Len(data)]

\* The piece that made the parser stop.
Decisive(state, data) ==
    data[CHOOSE i \in 1 .. Len(data) :
            /\ parse(state, SubSeq(data, 1, i)) \in Verdicts
            /\ \A j \in 1 .. i - 1 : parse(state, SubSeq(data, 1, j)) \notin Verdicts]

-----------------------------------------------------------------------------
(* The handlers.  Each takes one completion out of the queue.              *)

\* Mutant of ReadFailed: the end of the stream is taken for a passing failure.
ReadRetried ==
    \E i \in DOMAIN completions :
        /\ completions[i].op = "read"
        /\ completions[i].result # "ok"
        /\ completions' = RemoveAt(completions, i)
        /\ reading' = IF completions[i].result = "aborted" THEN reading ELSE reading + 1
        /\ UNCHANGED <<connVars, writing, timer, shut, clientVars>>

\* handle_read with an error: the timer's own abort needs no shutdown.
ReadFailed ==
    \E i \in DOMAIN completions :
        /\ completions[i].op = "read"
        /\ completions[i].result # "ok"
        /\ IF completions[i].result = "aborted"
             THEN completions' = RemoveAt(completions, i) /\ UNCHANGED <<timer, shut>>
             ELSE handle_shutdown(RemoveAt(completions, i))
        /\ UNCHANGED <<connVars, reading, writing, clientVars>>

\* A read has succeeded with completion i; the keep-alive timer is stopped.
Received(i) ==
    /\ completions[i].op = "read"
    /\ completions[i].result = "ok"
    /\ parser' = parse(parser, completions[i].data)

\* Mutant of StopTimer: the timer runs on.
LeaveTimer(queue) ==
    /\ completions' = queue
    /\ UNCHANGED timer

StopTimer(queue) ==
    /\ completions' = IF keep_alive THEN CancelTimer(queue) ELSE queue
    /\ timer' = IF keep_alive THEN "off" ELSE timer

\* Mutant of ReadValid: the next read starts before the reply is written.
ReadAhead ==
    \E i \in DOMAIN completions :
        /\ Received(i)
        /\ parser' \in {"keep", "close"}
        /\ StopTimer(RemoveAt(completions, i))
        /\ keep_alive' = (keep_alive \/ parser' = "keep")
        /\ reply' = [request |-> parser', answer |-> parser',
                     max |-> IF parser' = "keep" THEN processed_requests ELSE 0]
        /\ writing' = writing + 1
        /\ reading' = reading + 1
        /\ UNCHANGED <<processed_requests, shut, clientVars>>

\* handle_read, valid request: the query runs and its reply is written.
ReadValid ==
    \E i \in DOMAIN completions :
        /\ Received(i)
        /\ parser' \in {"keep", "close"}
        /\ StopTimer(RemoveAt(completions, i))
        /\ keep_alive' = (keep_alive \/ parser' = "keep")
        /\ reply' = [request |-> parser', answer |-> parser',
                     max |-> IF parser' = "keep" THEN processed_requests ELSE 0]
        /\ writing' = writing + 1
        /\ UNCHANGED <<processed_requests, reading, shut, clientVars>>

\* handle_read, valid request, but the socket has no remote endpoint any more.
ReadEndpointFails ==
    \E i \in DOMAIN completions :
        /\ Received(i)
        /\ parser' \in {"keep", "close"}
        /\ gone \/ shut
        /\ handle_shutdown(RemoveAt(completions, i))
        /\ UNCHANGED <<keep_alive, processed_requests, reply, reading, writing, clientVars>>

\* handle_read, request that cannot be parsed: a stock reply is written.
ReadInvalid ==
    \E i \in DOMAIN completions :
        /\ Received(i)
        /\ parser' = "invalid"
        /\ StopTimer(RemoveAt(completions, i))
        /\ reply' = [request |-> Decisive(parser, completions[i].data),
                     answer |-> "bad_request", max |-> 0]
        /\ writing' = writing + 1
        /\ UNCHANGED <<keep_alive, processed_requests, reading, shut, clientVars>>

\* Mutant of ReadPartial: nothing reads the rest.
ReadNoMore ==
    \E i \in DOMAIN completions :
        /\ Received(i)
        /\ parser' \notin Verdicts
        /\ StopTimer(RemoveAt(completions, i))
        /\ UNCHANGED <<keep_alive, processed_requests, reply, reading, writing, shut,
                       clientVars>>

\* handle_read, incomplete request: read on, without a timer.
ReadPartial ==
    \E i \in DOMAIN completions :
        /\ Received(i)
        /\ parser' \notin Verdicts
        /\ StopTimer(RemoveAt(completions, i))
        /\ reading' = reading + 1
        /\ UNCHANGED <<keep_alive, processed_requests, reply, writing, shut, clientVars>>

\* Mutant of WriteDone: the number of requests left is not looked at.
WriteDoneUnlimited ==
    \E i \in DOMAIN completions :
        /\ completions[i].op = "write"
        /\ completions[i].result = "ok"
        /\ keep_alive
        /\ processed_requests' = processed_requests - 1
        /\ parser' = "start"
        /\ reply' = NoReply
        /\ start(RemoveAt(completions, i))
        /\ UNCHANGED <<keep_alive, clientVars>>

\* Mutant of WriteDone: the request is not counted.
WriteDoneUncounted ==
    \E i \in DOMAIN completions :
        /\ completions[i].op = "write"
        /\ completions[i].result = "ok"
        /\ keep_alive
        /\ processed_requests > 0
        /\ parser' = "start"
        /\ reply' = NoReply
        /\ start(RemoveAt(completions, i))
        /\ UNCHANGED <<keep_alive, processed_requests, clientVars>>

\* Mutant of WriteDone: the parser is not reset.
WriteDoneStaleParser ==
    \E i \in DOMAIN completions :
        /\ completions[i].op = "write"
        /\ completions[i].result = "ok"
        /\ keep_alive
        /\ processed_requests > 0
        /\ processed_requests' = processed_requests - 1
        /\ reply' = NoReply
        /\ start(RemoveAt(completions, i))
        /\ UNCHANGED <<keep_alive, parser, clientVars>>

\* handle_write, next request: everything of the last one is reset.
WriteDone ==
    \E i \in DOMAIN completions :
        /\ completions[i].op = "write"
        /\ completions[i].result = "ok"
        /\ keep_alive
        /\ processed_requests > 0
        /\ processed_requests' = processed_requests - 1
        /\ parser' = "start"
        /\ reply' = NoReply
        /\ start(RemoveAt(completions, i))
        /\ UNCHANGED <<keep_alive, clientVars>>

\* handle_write, last request of the connection.
WriteLast ==
    \E i \in DOMAIN completions :
        /\ completions[i].op = "write"
        /\ completions[i].result = "ok"
        /\ ~ (keep_alive /\ processed_requests > 0)
        /\ handle_shutdown(RemoveAt(completions, i))
        /\ UNCHANGED <<connVars, reading, writing, clientVars>>

WriteFailed ==
    \E i \in DOMAIN completions :
        /\ completions[i].op = "write"
        /\ completions[i].result # "ok"
        /\ completions' = RemoveAt(completions, i)
        /\ UNCHANGED <<connVars, reading, writing, timer, shut, clientVars>>

\* handle_timeout: the socket's operations are cancelled, the socket is shut down.
handle_timeout ==
    \E i \in DOMAIN completions :
        /\ completions[i].op = "timer"
        /\ IF completions[i].result = "aborted"
             THEN /\ completions' = RemoveAt(completions, i)
                  /\ UNCHANGED <<reading, writing, timer, shut>>
             ELSE /\ handle_shutdown(CancelSocket(RemoveAt(completions, i)))
                  /\ reading' = 0
                  /\ writing' = 0
        /\ UNCHANGED <<connVars, clientVars>>

handle_read == ReadFailed \/ ReadValid \/ ReadEndpointFails \/ ReadInvalid \/ ReadPartial

handle_write == WriteDone \/ WriteLast \/ WriteFailed

Next ==
    \/ \E piece \in Pieces : Send(piece)
    \/ Leave
    \/ ReadReady \/ ReadEof \/ WriteReady \/ WriteFails \/ TimerExpires
    \/ handle_read \/ handle_write \/ handle_timeout

Spec == Init /\ [][Next]_vars

\* The threads of the io_context run every handler and the reactor notices every
\* event; the client takes in what it is sent.  Nothing makes it send or leave.
Fairness ==
    /\ WF_vars(ReadReady \/ ReadEof)
    /\ WF_vars(WriteReady \/ WriteFails)
    /\ WF_vars(TimerExpires)
    /\ WF_vars(handle_read)
    /\ WF_vars(handle_write)
    /\ WF_vars(handle_timeout)

FairSpec == Spec /\ Fairness

-----------------------------------------------------------------------------
(* Properties                                                              *)

Completions == [op : {"read", "write", "timer"},
                result : {"ok", "eof", "broken", "aborted"},
                data : Seq(Pieces)]
Replies == [request : Pieces \cup {"none"}, max : 0 .. MaxRequests,
            answer : {"none", "keep", "close", "bad_request"}]

TypeOK ==
    /\ keep_alive \in BOOLEAN
    /\ processed_requests \in 0 .. MaxRequests
    /\ parser \in {"start", "partial"} \cup Verdicts
    /\ reply \in Replies
    /\ reading \in Nat /\ writing \in Nat
    /\ timer \in {"off", "armed"}
    /\ completions \in Seq(Completions)
    /\ shut \in BOOLEAN
    /\ inbound \in Seq(Pieces)
    /\ gone \in BOOLEAN
    /\ sent \in 0 .. MaxPieces
    /\ last \in Pieces
    /\ ended \in Nat
    /\ pipelined \in BOOLEAN
    /\ replies \in Seq(Replies)

\* The completed operations on the socket whose handler is still to run.
Finished(queue) == {i \in DOMAIN queue : queue[i].op # "timer"}
Delivered == Cardinality(Finished(completions))

\* The buffers have one user: at most one read or write is pending or waits for its
\* handler, so no handler changes incoming_data_buffer, current_reply or output_buffer
\* while the socket still works on them.
OneOperation == reading + writing + Delivered <= 1

\* The keep-alive timer runs only while the connection waits for a next request: never
\* while a request is being received in pieces, a query runs or a reply is written.
TimerRunsWhileWaiting ==
    timer = "armed" =>
        /\ keep_alive
        /\ parser = "start"
        /\ writing = 0
        /\ reading + Delivered = 1

\* The "max=" of a reply's Keep-Alive header is kept: no more than so many replies
\* follow it.
AnnouncedLimitKept ==
    \A i \in DOMAIN replies :
        replies[i].answer = "keep" => Len(replies) - i <= replies[i].max

\* A client that waits for each answer never gets a 400 for a well-formed request, in
\* however many pieces it arrives and whatever the connection has seen before.
WellFormedAccepted ==
    ~ pipelined => \A i \in DOMAIN replies :
        replies[i].answer = "bad_request" => replies[i].request = "bad"

\* Nothing is pending: the last shared_ptr is gone and the connection is destroyed.
Released == reading = 0 /\ writing = 0 /\ timer = "off" /\ completions = <<>>

\* handle_shutdown: "ensure all resources are released": whatever is pending or under
\* way when the socket is shut down, the chain of handlers comes to its end.
ShutdownReleases == shut ~> Released

\* A client that waits for each answer gets one to every request that it has sent
\* completely, unless it leaves or the server shuts the connection down.
RequestsAnswered ==
    \A n \in 1 .. MaxPieces :
        ended >= n ~> pipelined \/ Len(replies) >= n \/ shut \/ gone

\* In keep-alive mode a connection on which nothing arrives is shut down.
IdleConnectionCloses ==
    keep_alive /\ reading > 0 /\ parser = "start" /\ inbound = <<>>
        ~> shut \/ inbound # <<>>

-----------------------------------------------------------------------------
(* The inductive invariant                                                 *)

\* The reads and the writes that have succeeded and wait for their handler.
Done(queue) == {queue[i] : i \in Finished(queue)}
Arrived == {c \in Done(completions) : c.op = "read" /\ c.result = "ok"}
Written == {c \in Done(completions) : c.op = "write" /\ c.result = "ok"}

\* One operation on the socket is under way, and nothing is while one waits for its
\* handler.
SocketInv ==
    /\ reading + writing <= 1
    /\ Done(completions) # {} => reading = 0 /\ writing = 0
    /\ \A i, j \in Finished(completions) : i = j

\* The parser has been reset before the next read, and a read brings something.
ParserInv ==
    /\ reading > 0 \/ Arrived # {} => parser \notin Verdicts
    /\ \A c \in Arrived : c.data # <<>>

\* Handlers that leave the timer alone run while it is off.
TimerInv ==
    timer = "armed" =>
        /\ keep_alive
        /\ parser = "start"
        /\ writing = 0
        /\ reading = 1 \/ Done(completions) # {}
        /\ \A c \in Done(completions) : c.op = "read" /\ c.result # "aborted"

\* Until it is written, the next reply is one of those that the earlier ones allow.
Unanswered == IF reading > 0 \/ writing > 0 \/ Arrived # {} THEN 1 ELSE 0

LimitInv ==
    /\ writing > 0 /\ reply.answer = "keep" => reply.max = processed_requests
    /\ \A i \in DOMAIN replies :
         replies[i].answer = "keep" =>
             processed_requests + Unanswered + Len(replies) - i <= replies[i].max

\* Of one request the parser has seen k pieces and the stream holds the rest, as far
\* as it has been sent.
OneRequest(k, stream) ==
    /\ k + Len(stream) <= 2
    /\ \A i \in DOMAIN stream : stream[i] = "head" <=> k + i = 1
    /\ last = "head" <=> k + Len(stream) = 1
    /\ ended = Len(replies) + (IF k + Len(stream) = 2 THEN 1 ELSE 0)

Seen == IF parser = "partial" THEN 1 ELSE 0

\* Whoever waits for each answer has one request on its way, never more.
StreamInv ==
    ~ pipelined =>
        /\ reading > 0 => OneRequest(Seen, inbound)
        /\ \A c \in Arrived : OneRequest(Seen, c.data \o inbound)
        /\ writing > 0 => OneRequest(2, inbound)
        /\ Written # {} => OneRequest(0, inbound)
        /\ writing > 0 /\ reply.answer = "bad_request" => reply.request = "bad"

ConnectionInv ==
    /\ TypeOK /\ SocketInv /\ ParserInv /\ TimerInv
    /\ LimitInv /\ StreamInv /\ WellFormedAccepted

-----------------------------------------------------------------------------
(* What a comment says and the code does not do                            *)

\* handle_timeout: the timer stops a connection because of an "Absent next request
\* during waiting time": no connection is shut down while a reply is being written.
NoShutdownDuringReply == [][~ shut /\ shut' => writing = 0]_vars
=============================================================================
