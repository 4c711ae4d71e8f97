------------------------------ MODULE H2Driver ------------------------------
(***************************************************************************)
(* One HTTP/2 connection of lkh2: the futures that send requests on it     *)
(* (NativeSendRequest::send_request), the task that drives it              *)
(* (driver_loop) and the stream states the engine keeps for it.            *)
(*                                                                         *)
(* The callers and the driver share no lock: they meet in the command      *)
(* channel, the cancel channel, the semaphore of pending slots and the two *)
(* response channels of a request (`hdr`, a oneshot, and `body`).  A turn  *)
(* of the driver's loop is one arm of its select (phase "select"; a read   *)
(* may hold several frames, phase "read") followed by                      *)
(* dispatch_waiting_requests (phase "dispatch"), which awaits a write per  *)
(* request, so that callers act in between.                                *)
(*                                                                         *)
(* Each request is sent once; the server's frames are chosen freely among  *)
(* those the engine tells apart.                                           *)
(***************************************************************************)
EXTENDS H2Stream, FiniteSets

CONSTANTS
    Req,         \* requests
    First,       \* the request written with the preface, or None
    None,
    Uploads,     \* requests whose body the send window may hold back
    Limits,      \* values of SETTINGS_MAX_CONCURRENT_STREAMS the server sends
    MaxPending,  \* H2DriverConfig::max_pending_requests; 0 stands for None
    CmdCap,      \* capacity of the command channel
    FrameKinds   \* bound: the frames the server of this instance sends

ASSUME H2DriverAssumption ==
    /\ IsFiniteSet(Req)
    /\ None \notin Req
    /\ First \in Req \union {None}
    /\ Uploads \subseteq Req
    /\ Limits \subseteq Nat
    /\ MaxPending \in Nat
    /\ CmdCap \in Nat \ {0}
    /\ FrameKinds \subseteq {"settings", "headers", "data", "reset",
                             "window_update", "goaway"}

VARIABLES
    caller,    \* where the future of the request stands
    hdr,       \* the oneshot of the response headers
    body,      \* the channel of body chunks, seen from its sender
    permits,   \* requests that hold a pending_permit
    cmds,      \* requests in cmd_rx
    cancels,   \* request ids in cancel_rx
    waiting,   \* the VecDeque of queued requests
    ticket,    \* position of the request in the order of cmd_tx.send
    pending,   \* requests in the HashMap of pending streams
    sid,       \* stream id of the request: the sid-th client stream; 0: none
    streams,   \* ConnState::streams, the state of the request's stream
    limit,     \* remote_settings.max_concurrent_streams
    unserved,  \* history: responses under way above a graceful GOAWAY's last stream
    error,     \* ConnState::error is set
    shutdown,  \* the driver saw the last handle go; arms shutdown_deadline
    phase,     \* where driver_loop stands
    handle,    \* the pool holds a NativeSendRequest of this connection
    ended      \* responses whose END_STREAM reached handle_event

vars == <<caller, hdr, body, permits, cmds, cancels, waiting, ticket, pending,
          sid, streams, limit, unserved, error, shutdown, phase, handle, ended>>

-----------------------------------------------------------------------------
CallerStates == {"idle", "acquiring", "sending", "waiting", "leaving",
                 "reading", "done"}
Phases == {"starting", "select", "read", "dispatch", "exited", "aborted"}

Over == phase \in {"exited", "aborted"}

ActiveStreams == {r \in Req : streams[r] \in {"open", "half_local", "half_remote"}}

can_open_stream == limit # None => Cardinality(ActiveStreams) < limit

Sent == {r \in Req : ticket[r] > 0}
Opened == {r \in Req : sid[r] > 0}

NextTicket == 1 + Cardinality(Sent)

NextStream == 1 + Cardinality(Opened)

(* The front of cmd_rx or of the deque: both are FIFO and the deque is fed *)
(* from the channel, so both are ordered by ticket.                        *)
IsFront(r, Q) == r \in Q /\ \A q \in Q : ticket[r] <= ticket[q]

(* headers_tx.is_closed() && body_tx.is_closed() of a queued request.      *)
is_canceled(r) == caller[r] = "done"

(* Futures that own a clone of NativeSendRequest.                          *)
Senders == {r \in Req \ {First} :
                caller[r] \in {"acquiring", "sending", "waiting", "leaving"}}

-----------------------------------------------------------------------------
Init ==
    /\ caller = [r \in Req |-> IF r = First THEN "waiting" ELSE "idle"]
    /\ hdr = [r \in Req |-> "empty"]
    /\ body = [r \in Req |-> "open"]
    /\ permits = {}
    /\ cmds = {}
    /\ cancels = {}
    /\ waiting = {}
    /\ ticket = [r \in Req |-> 0]
    /\ pending = {}
    /\ sid = [r \in Req |-> 0]
    /\ streams = [r \in Req |-> "idle"]
    /\ limit = None
    /\ unserved = {}
    /\ error = FALSE
    /\ shutdown = FALSE
    /\ phase = "starting"
    /\ handle = FALSE
    /\ ended = {}

-----------------------------------------------------------------------------
(* What the driver does to the response channels of the requests in F and  *)
(* C: F get an error on both, C only lose their senders.                   *)
Settle(F, C) ==
    /\ hdr' = [r \in Req |-> IF hdr[r] # "empty" THEN hdr[r]
                             ELSE IF r \in F THEN "err"
                             ELSE IF r \in C THEN "closed" ELSE "empty"]
    /\ body' = [r \in Req |-> IF body[r] # "open" THEN body[r]
                              ELSE IF r \in F THEN "err"
                              ELSE IF r \in C THEN "eof" ELSE "open"]

StopKeepingQueue(p, F) ==
    /\ phase' = p
    /\ Settle(F, waiting \union pending)
    /\ permits' = permits \ (cmds \union waiting)
    /\ cmds' = cmds
    /\ waiting' = {}
    /\ pending' = {}

(* The driver returns, in phase p, having failed the requests in F.  The   *)
(* commands left in the channel are dropped with cmd_rx, the semaphore is  *)
(* closed by PendingSlotsCloseGuard.                                       *)
Stop(p, F) ==
    /\ phase' = p
    /\ Settle(F, cmds \union waiting \union pending)
    /\ permits' = permits \ (cmds \union waiting)
    /\ cmds' = {}
    /\ waiting' = {}
    /\ pending' = {}

engine_vars == <<sid, streams, limit, unserved, error>>

-----------------------------------------------------------------------------
(* Callers: send_request / send_native_request.                            *)

(* acquire_pending_permit on an unbounded queue returns at once.           *)
Call(r) ==
    /\ caller[r] = "idle" /\ r # First
    /\ handle
    /\ caller' = [caller EXCEPT ![r] = IF MaxPending = 0 THEN "sending"
                                       ELSE "acquiring"]
    /\ UNCHANGED <<hdr, body, permits, cmds, cancels, waiting, ticket, pending,
                   engine_vars, shutdown, phase, handle, ended>>

Acquire(r) ==
    /\ caller[r] = "acquiring"
    /\ ~Over
    /\ Cardinality(permits) < MaxPending
    /\ permits' = permits \union {r}
    /\ caller' = [caller EXCEPT ![r] = "sending"]
    /\ UNCHANGED <<hdr, body, cmds, cancels, waiting, ticket, pending,
                   engine_vars, shutdown, phase, handle, ended>>

AcquireStuck(r) == FALSE /\ UNCHANGED vars

(* The semaphore is closed: DriverError::Shutdown.                         *)
AcquireFails(r) ==
    /\ caller[r] = "acquiring"
    /\ Over
    /\ caller' = [caller EXCEPT ![r] = "done"]
    /\ UNCHANGED <<hdr, body, permits, cmds, cancels, waiting, ticket, pending,
                   engine_vars, shutdown, phase, handle, ended>>

Send(r) ==
    /\ caller[r] = "sending"
    /\ ~Over
    /\ Cardinality(cmds) < CmdCap
    /\ cmds' = cmds \union {r}
    /\ ticket' = [ticket EXCEPT ![r] = NextTicket]
    /\ caller' = [caller EXCEPT ![r] = "waiting"]
    /\ UNCHANGED <<hdr, body, permits, cancels, waiting, pending, engine_vars,
                   shutdown, phase, handle, ended>>

(* cmd_rx is gone: the command comes back in the SendError and is dropped. *)
SendFails(r) ==
    /\ caller[r] = "sending"
    /\ Over
    /\ permits' = permits \ {r}
    /\ caller' = [caller EXCEPT ![r] = "done"]
    /\ UNCHANGED <<hdr, body, cmds, cancels, waiting, ticket, pending,
                   engine_vars, shutdown, phase, handle, ended>>

ReceiveHeaders(r) ==
    /\ caller[r] = "waiting"
    /\ hdr[r] = "ok"
    /\ caller' = [caller EXCEPT ![r] = "reading"]
    /\ UNCHANGED <<hdr, body, permits, cmds, cancels, waiting, ticket, pending,
                   engine_vars, shutdown, phase, handle, ended>>

(* headers_rx yields an error, or its sender is gone: then the guard is    *)
(* still armed and reports a cancellation.                                 *)
ReceiveError(r) ==
    /\ caller[r] = "waiting"
    /\ hdr[r] \in {"err", "closed"}
    /\ caller' = [caller EXCEPT ![r] = "done"]
    /\ cancels' = IF hdr[r] = "closed" /\ r # First /\ ~Over
                  THEN cancels \union {r} ELSE cancels
    /\ UNCHANGED <<hdr, body, permits, cmds, waiting, ticket, pending,
                   engine_vars, shutdown, phase, handle, ended>>

(* The future is dropped before its command was sent: the permit, if any,  *)
(* goes with it.                                                           *)
DropUnsent(r) ==
    /\ caller[r] \in {"acquiring", "sending"}
    /\ permits' = permits \ {r}
    /\ caller' = [caller EXCEPT ![r] = "done"]
    /\ UNCHANGED <<hdr, body, cmds, cancels, waiting, ticket, pending,
                   engine_vars, shutdown, phase, handle, ended>>

(* The future is dropped while it awaits headers_rx.  The receiver goes    *)
(* first, then the armed guard (which sends the cancellation), and only    *)
(* then body_rx, declared before the guard: FinishDrop.                    *)
DropWaiting(r) ==
    /\ caller[r] = "waiting"
    /\ \/ /\ r # First
          /\ caller' = [caller EXCEPT ![r] = "leaving"]
          /\ cancels' = IF Over THEN cancels ELSE cancels \union {r}
       \/ /\ r = First
          /\ caller' = [caller EXCEPT ![r] = "done"]
          /\ cancels' = cancels
    /\ UNCHANGED <<hdr, body, permits, cmds, waiting, ticket, pending,
                   engine_vars, shutdown, phase, handle, ended>>

FinishDrop(r) ==
    /\ caller[r] = "leaving"
    /\ caller' = [caller EXCEPT ![r] = "done"]
    /\ UNCHANGED <<hdr, body, permits, cmds, cancels, waiting, ticket, pending,
                   engine_vars, shutdown, phase, handle, ended>>

(* The reader of the body is finished, or gives up.                        *)
DropBody(r) ==
    /\ caller[r] = "reading"
    /\ caller' = [caller EXCEPT ![r] = "done"]
    /\ UNCHANGED <<hdr, body, permits, cmds, cancels, waiting, ticket, pending,
                   engine_vars, shutdown, phase, handle, ended>>

(* The pool evicts or drops its entry.                                     *)
DropHandle ==
    /\ handle
    /\ handle' = FALSE
    /\ UNCHANGED <<caller, hdr, body, permits, cmds, cancels, waiting, ticket,
                   pending, engine_vars, shutdown, phase, ended>>

CallerStep(r) ==
    \/ Acquire(r) \/ AcquireFails(r) \/ Send(r) \/ SendFails(r)
    \/ ReceiveHeaders(r) \/ ReceiveError(r) \/ FinishDrop(r)

-----------------------------------------------------------------------------
(* The driver: start.                                                      *)

(* open_stream and build_request: the stream is half closed unless the     *)
(* send window holds body bytes back.                                      *)
OpenStream(r) ==
    /\ sid' = [sid EXCEPT ![r] = NextStream]
    /\ \E s \in {"half_local"} \union (IF r \in Uploads THEN {"open"} ELSE {}) :
          streams' = [streams EXCEPT ![r] = s]

(* The preface and the first request are written; spawn_driver returns the *)
(* handle.                                                                 *)
Start ==
    /\ phase = "starting"
    /\ phase' = "select"
    /\ handle' = TRUE
    /\ \/ /\ First \in Req
          /\ OpenStream(First)
          /\ pending' = {First}
       \/ First \notin Req /\ UNCHANGED <<sid, streams, pending>>
    /\ UNCHANGED <<caller, hdr, body, permits, cmds, cancels, waiting, ticket,
                   limit, unserved, error, shutdown, ended>>

(* A write fails: the first request gets an error if it was the one being  *)
(* written, else its senders are dropped.                                  *)
StartFails ==
    /\ phase = "starting"
    /\ \E e \in {"err", "closed"} :
          hdr' = [r \in Req |-> IF r = First THEN e ELSE hdr[r]]
    /\ body' = [r \in Req |-> IF r = First THEN "eof" ELSE body[r]]
    /\ phase' = "exited"
    /\ UNCHANGED <<caller, permits, cmds, cancels, waiting, ticket, pending,
                   engine_vars, shutdown, handle, ended>>

-----------------------------------------------------------------------------
(* The driver: arms of the select.  The select is biased towards           *)
(* cancellations, but one may arrive after its channel was polled, so the  *)
(* other arms do not exclude a cancellation in the channel.                *)

(* remove_waiting_request.                                                 *)
HandleCancel(r) ==
    /\ phase = "select"
    /\ r \in cancels
    /\ cancels' = cancels \ {r}
    /\ waiting' = waiting \ {r}
    /\ permits' = permits \ (waiting \intersect {r})
    /\ Settle({}, waiting \intersect {r})
    /\ phase' = "dispatch"
    /\ UNCHANGED <<caller, cmds, ticket, pending, engine_vars, shutdown, handle,
                   ended>>

HandleCommand(r) ==
    /\ phase = "select"
    /\ ~shutdown
    /\ IsFront(r, cmds)
    /\ cmds' = cmds \ {r}
    /\ \/ /\ is_canceled(r)
          /\ permits' = permits \ {r}
          /\ Settle({}, {r})
          /\ UNCHANGED waiting
       \/ /\ ~is_canceled(r)
          /\ waiting' = waiting \union {r}
          /\ UNCHANGED <<permits, hdr, body>>
    /\ phase' = "dispatch"
    /\ UNCHANGED <<caller, cancels, ticket, pending, engine_vars, shutdown,
                   handle, ended>>

(* cmd_rx.recv() yields None once every handle is gone and the channel is  *)
(* empty.                                                                  *)
HandlesGone ==
    /\ phase = "select"
    /\ ~shutdown
    /\ ~handle /\ Senders = {} /\ cmds = {}
    /\ shutdown' = TRUE
    /\ phase' = IF pending = {} /\ waiting = {} THEN "exited" ELSE "dispatch"
    /\ UNCHANGED <<caller, hdr, body, permits, cmds, cancels, waiting, ticket,
                   pending, engine_vars, handle, ended>>

ShutdownTimeoutSilent ==
    /\ phase = "select"
    /\ shutdown
    /\ Stop("exited", waiting)
    /\ UNCHANGED <<caller, cancels, ticket, engine_vars, shutdown, handle, ended>>

ShutdownTimeoutIdle ==
    /\ phase = "select"
    /\ shutdown /\ pending = {}
    /\ Stop("exited", pending \union waiting)
    /\ UNCHANGED <<caller, cancels, ticket, engine_vars, shutdown, handle, ended>>

(* The 30 s after shutdown have passed.                                    *)
ShutdownTimeout ==
    /\ phase = "select"
    /\ shutdown
    /\ Stop("exited", pending \union waiting)
    /\ UNCHANGED <<caller, cancels, ticket, engine_vars, shutdown, handle, ended>>

(* End of the stream, a read error, or a frame the engine answered could   *)
(* not be written: the events of that read are not handled.                *)
ConnectionLost ==
    /\ phase = "select"
    /\ Stop("exited", pending \union waiting)
    /\ UNCHANGED <<caller, cancels, ticket, engine_vars, shutdown, handle, ended>>

-----------------------------------------------------------------------------
(* The driver: one frame, through H2Engine::handle_frame and handle_event. *)
(* The engine handles all frames of a read before handle_event sees the    *)
(* first event; neither looks at what the other changes, so a frame at a   *)
(* time is the same.  Frames that break the protocol (H2Event::Error) make *)
(* the engine queue a GOAWAY and the driver log: nothing here changes.     *)

Known(r) == streams[r] \in KnownStates

(* The response of r is over for handle_event: its entry is removed and    *)
(* the senders in it dropped.                                              *)
FinishResponse(r) ==
    /\ pending' = pending \ {r}
    /\ ended' = IF r \in pending THEN ended \union {r} ELSE ended

Frame(kind) ==
    /\ kind \in FrameKinds
    /\ phase \in {"select", "read"}
    /\ phase' = "read"
    /\ UNCHANGED <<caller, permits, cmds, cancels, waiting, ticket, sid,
                   shutdown, handle>>

ReadSettings(l) ==
    /\ Frame("settings")
    /\ limit' = l
    /\ UNCHANGED <<hdr, body, pending, streams, unserved, error, ended>>

(* A HEADERS block for a stream the engine knows.  An interim (1xx) block  *)
(* is skipped, whatever its END_STREAM flag.                               *)
ReadHeaders(r, interim, end_stream) ==
    /\ Frame("headers")
    /\ Known(r)
    /\ streams' = [streams EXCEPT ![r] = IF end_stream THEN recv_end_stream(@)
                                         ELSE @]
    /\ \/ /\ interim \/ r \notin pending
          /\ UNCHANGED <<hdr, body, pending, ended>>
       \/ /\ ~interim /\ r \in pending
          /\ hdr' = [hdr EXCEPT ![r] = IF @ = "empty" THEN "ok" ELSE @]
          /\ \/ /\ end_stream
                /\ FinishResponse(r)
                /\ body' = [body EXCEPT ![r] = "eof"]
             \/ /\ ~end_stream
                /\ UNCHANGED <<body, pending, ended>>
    /\ UNCHANGED <<limit, unserved, error>>

(* DATA within the receive window.  On a stream that cannot receive the    *)
(* engine resets the stream and raises no event.                           *)
ReadData(r, end_stream) ==
    /\ Frame("data")
    /\ sid[r] > 0
    /\ \/ /\ Known(r) /\ ~can_receive(streams[r])
          /\ streams' = [streams EXCEPT ![r] = "closed"]
          /\ UNCHANGED <<hdr, body, pending, ended>>
       \/ /\ Known(r) => can_receive(streams[r])
          /\ ~end_stream
          /\ UNCHANGED <<streams, hdr, body, pending, ended>>
       \/ /\ Known(r) => can_receive(streams[r])
          /\ end_stream
          /\ streams' = cleanup_closed_streams(
                            [streams EXCEPT ![r] = recv_end_stream(@)])
          /\ FinishResponse(r)
          /\ Settle({}, {r} \intersect pending)
    /\ UNCHANGED <<limit, unserved, error>>

(* RST_STREAM from the server.                                             *)
ReadReset(r) ==
    /\ Frame("reset")
    /\ sid[r] > 0
    /\ streams' = cleanup_closed_streams(
                      [streams EXCEPT ![r] = IF Known(r) THEN "closed" ELSE @])
    /\ pending' = pending \ {r}
    /\ Settle({r} \intersect pending, {})
    /\ UNCHANGED <<limit, unserved, error, ended>>

(* DATA beyond the stream's receive window: reset, and an event.           *)
ReadDataBeyondWindow(r) ==
    /\ Frame("data")
    /\ can_receive(streams[r])
    /\ streams' = [streams EXCEPT ![r] = "closed"]
    /\ pending' = pending \ {r}
    /\ Settle({r} \intersect pending, {})
    /\ UNCHANGED <<limit, unserved, error, ended>>

(* WINDOW_UPDATE: the buffered body goes out, or, when the increment is    *)
(* zero or overflows the window, the engine resets the stream and raises   *)
(* no StreamReset.                                                         *)
ReadWindowUpdate(r) ==
    /\ Frame("window_update")
    /\ Known(r)
    /\ \/ r \in Uploads /\ streams' = [streams EXCEPT ![r] = send_end_stream(@)]
       \/ streams' = [streams EXCEPT ![r] = "closed"]
    /\ UNCHANGED <<hdr, body, pending, limit, unserved, error, ended>>

ReadGoawayOffByOne(last, graceful) ==
    LET gone == IF graceful THEN {r \in pending : sid[r] >= last} ELSE pending
    IN  /\ Frame("goaway")
        /\ unserved' = unserved \union {r \in Req :
                            graceful /\ body[r] = "open" /\ sid[r] > last}
        /\ error' = (error \/ ~graceful)
        /\ pending' = pending \ gone
        /\ hdr' = [r \in Req |-> IF r \in gone /\ hdr[r] = "empty" THEN "err"
                                 ELSE hdr[r]]
        /\ body' = [r \in Req |-> IF r \in gone
                                  THEN IF graceful THEN "eof" ELSE "err"
                                  ELSE body[r]]
        /\ UNCHANGED <<streams, limit, ended>>

(* GOAWAY.  A graceful one rejects the streams above last: their headers   *)
(* channel gets an error, their body channel is only dropped.              *)
ReadGoaway(last, graceful) ==
    LET gone == IF graceful THEN {r \in pending : sid[r] > last} ELSE pending
    IN  /\ Frame("goaway")
        /\ unserved' = unserved \union {r \in Req :
                            graceful /\ body[r] = "open" /\ sid[r] > last}
        /\ error' = (error \/ ~graceful)
        /\ pending' = pending \ gone
        /\ hdr' = [r \in Req |-> IF r \in gone /\ hdr[r] = "empty" THEN "err"
                                 ELSE hdr[r]]
        /\ body' = [r \in Req |-> IF r \in gone
                                  THEN IF graceful THEN "eof" ELSE "err"
                                  ELSE body[r]]
        /\ UNCHANGED <<streams, limit, ended>>

EndOfRead ==
    /\ phase = "read"
    /\ phase' = "dispatch"
    /\ UNCHANGED <<caller, hdr, body, permits, cmds, cancels, waiting, ticket,
                   pending, engine_vars, shutdown, handle, ended>>

-----------------------------------------------------------------------------
(* The driver: dispatch_waiting_requests and the end of the loop's turn.   *)

EndOfTurn(p, w) ==
    phase' = IF shutdown /\ p = {} /\ w = {} THEN "exited" ELSE "select"

(* engine.is_goaway(), which is whether ConnState::error is set.           *)
is_goaway == error

DispatchDraining ==
    /\ phase = "dispatch"
    /\ is_goaway
    /\ Settle(waiting, {})
    /\ permits' = permits \ waiting
    /\ waiting' = {}
    /\ EndOfTurn(pending, {})
    /\ UNCHANGED <<caller, cmds, cancels, ticket, pending, engine_vars, shutdown,
                   handle, ended>>

DispatchSkip(r) ==
    /\ phase = "dispatch"
    /\ ~is_goaway /\ can_open_stream
    /\ IsFront(r, waiting)
    /\ is_canceled(r)
    /\ waiting' = waiting \ {r}
    /\ permits' = permits \ {r}
    /\ Settle({}, {r})
    /\ UNCHANGED <<caller, cmds, cancels, ticket, pending, engine_vars, shutdown,
                   phase, handle, ended>>

DispatchAny(r) ==
    /\ phase = "dispatch"
    /\ ~is_goaway /\ can_open_stream
    /\ r \in waiting
    /\ ~is_canceled(r)
    /\ OpenStream(r)
    /\ waiting' = waiting \ {r}
    /\ permits' = permits \ {r}
    /\ pending' = pending \union {r}
    /\ UNCHANGED <<caller, hdr, body, cmds, cancels, ticket, limit, unserved, error,
                   shutdown, phase, handle, ended>>

DispatchKeepingPermit(r) ==
    /\ phase = "dispatch"
    /\ ~is_goaway /\ can_open_stream
    /\ IsFront(r, waiting)
    /\ ~is_canceled(r)
    /\ OpenStream(r)
    /\ waiting' = waiting \ {r}
    /\ pending' = pending \union {r}
    /\ UNCHANGED <<caller, hdr, body, permits, cmds, cancels, ticket, limit,
                   unserved, error, shutdown, phase, handle, ended>>

DispatchOpen(r) ==
    /\ phase = "dispatch"
    /\ ~is_goaway /\ can_open_stream
    /\ IsFront(r, waiting)
    /\ ~is_canceled(r)
    /\ OpenStream(r)
    /\ waiting' = waiting \ {r}
    /\ permits' = permits \ {r}
    /\ pending' = pending \union {r}
    /\ UNCHANGED <<caller, hdr, body, cmds, cancels, ticket, limit, unserved, error,
                   shutdown, phase, handle, ended>>

(* The frames of the request at the front cannot be written.               *)
DispatchFails(r) ==
    /\ phase = "dispatch"
    /\ ~is_goaway /\ can_open_stream
    /\ IsFront(r, waiting)
    /\ ~is_canceled(r)
    /\ OpenStream(r)
    /\ Stop("exited", pending \union waiting)
    /\ UNCHANGED <<caller, cancels, ticket, limit, unserved, error, shutdown,
                   handle, ended>>

DispatchEnd ==
    /\ phase = "dispatch"
    /\ ~is_goaway
    /\ ~can_open_stream \/ waiting = {}
    /\ EndOfTurn(pending, waiting)
    /\ UNCHANGED <<caller, hdr, body, permits, cmds, cancels, waiting, ticket,
                   pending, engine_vars, shutdown, handle, ended>>

(* JoinHandle::abort at an await of the driver (ConnectionPool::clear):    *)
(* everything the task owns is dropped.                                    *)
Abort ==
    /\ phase \in {"select", "dispatch"}
    /\ handle
    /\ handle' = FALSE
    /\ Stop("aborted", {})
    /\ UNCHANGED <<caller, cancels, ticket, engine_vars, shutdown, ended>>

-----------------------------------------------------------------------------
Caller(r) ==
    \/ Call(r) \/ CallerStep(r)
    \/ DropUnsent(r) \/ DropWaiting(r) \/ DropBody(r)

ReadFrame ==
    \/ \E l \in Limits : ReadSettings(l)
    \/ \E r \in Req :
          \/ \E interim, end_stream \in BOOLEAN : ReadHeaders(r, interim, end_stream)
          \/ \E end_stream \in BOOLEAN : ReadData(r, end_stream)
          \/ ReadReset(r)
          \/ ReadDataBeyondWindow(r)
          \/ ReadWindowUpdate(r)
    \/ \E last \in {0} \union {sid[r] : r \in Req}, graceful \in BOOLEAN :
          ReadGoaway(last, graceful)

Dispatch ==
    \/ DispatchDraining
    \/ \E r \in Req : DispatchSkip(r) \/ DispatchOpen(r) \/ DispatchFails(r)
    \/ DispatchEnd

(* What the driver task does when it is polled, whatever the server does.  *)
DriverStep ==
    \/ \E r \in Req : HandleCancel(r) \/ HandleCommand(r)
    \/ HandlesGone
    \/ EndOfRead
    \/ Dispatch

Next ==
    \/ \E r \in Req : Caller(r)
    \/ DropHandle
    \/ Start \/ StartFails
    \/ DriverStep
    \/ ReadFrame
    \/ ShutdownTimeout
    \/ ConnectionLost
    \/ Abort

Spec == Init /\ [][Next]_vars

(* The runtime polls a task that can make progress, so a caller and the    *)
(* driver take their own steps, and a read ends because it returns what    *)
(* has arrived.  The select is biased: the socket is polled before the     *)
(* commands and the timer, so that strong fairness of those arms assumes   *)
(* of the server that its bytes do not keep the socket readable at every   *)
(* turn, and that it takes the bytes written to it or the write fails.     *)
(* Nothing else is assumed of it: it may never answer and never close.     *)
FairSpec ==
    /\ Spec
    /\ WF_vars(DriverStep)
    /\ SF_vars(\E r \in Req : HandleCommand(r))
    /\ SF_vars(HandlesGone)
    /\ SF_vars(ShutdownTimeout)
    /\ \A r \in Req : WF_vars(CallerStep(r))

-----------------------------------------------------------------------------
(* Every variable keeps to its type.                                       *)
TypeOK ==
    /\ caller \in [Req -> CallerStates]
    /\ hdr \in [Req -> {"empty", "ok", "err", "closed"}]
    /\ body \in [Req -> {"open", "eof", "err"}]
    /\ permits \subseteq Req
    /\ cmds \subseteq Req
    /\ cancels \subseteq Req
    /\ waiting \subseteq Req
    /\ ticket \in [Req -> 0..Cardinality(Req)]
    /\ pending \subseteq Req
    /\ sid \in [Req -> 0..Cardinality(Req)]
    /\ streams \in [Req -> StreamStates]
    /\ limit \in Limits \union {None}
    /\ unserved \subseteq Req /\ error \in BOOLEAN /\ shutdown \in BOOLEAN
    /\ phase \in Phases
    /\ handle \in BOOLEAN
    /\ ended \subseteq Req

(* A request whose future awaits headers that nobody has answered yet is   *)
(* in exactly one of the command channel, the waiting queue and the map of *)
(* pending streams of a driver that runs: whatever ends the driver, no     *)
(* caller of send_request is left without an answer to come.               *)
NoCallerForgotten ==
    /\ \A r \in Req :
          caller[r] = "waiting" /\ hdr[r] = "empty" /\ phase # "starting" =>
              ~Over /\ r \in cmds \union waiting \union pending
    /\ cmds \intersect waiting = {}
    /\ (cmds \union waiting) \intersect pending = {}

(* Backpressure: a pending slot is held by exactly the requests that are   *)
(* being sent to the driver or wait in it for a stream, so no path         *)
(* (cancellation, dispatch, failure, exit) leaks or doubles one and the    *)
(* queue never holds more than max_pending_requests.                       *)
PermitsExact ==
    MaxPending > 0 =>
        /\ permits = {r \in Req : caller[r] = "sending"} \union cmds \union waiting
        /\ Cardinality(permits) <= MaxPending

(* Requests that reach the driver are given streams in the order in which  *)
(* their commands were sent.                                               *)
ServedInOrder ==
    \A r, s \in Req \ {First} :
        sid[r] > 0 /\ sid[s] > 0 /\ ticket[r] < ticket[s] => sid[r] < sid[s]

(* The queue of the driver, whatever is cancelled, fails or ends in        *)
(* between: nobody is dropped from it without an answer, it holds exactly  *)
(* the slots of those in it, and it keeps their order.                     *)
QueueSound == NoCallerForgotten /\ PermitsExact /\ ServedInOrder

(* Once an error GOAWAY has been handled, each later turn of the loop      *)
(* starts with nobody pending and nobody waiting: handle_event fails the   *)
(* former and dispatch the latter, and no stream is opened again.          *)
DrainedAfterError ==
    error /\ phase = "select" => pending = {} /\ waiting = {}

(* A body channel that closes without an error after final headers carries *)
(* the whole response, unless the driver was aborted or the stream lies    *)
(* above the last stream of a graceful GOAWAY: no other GOAWAY, no reset   *)
(* and no end of the connection or of the driver cuts a body silently.     *)
CutOnlyByAbortOrGoaway ==
    \A r \in Req :
        hdr[r] = "ok" /\ body[r] = "eof" =>
            r \in ended \/ phase = "aborted" \/ r \in unserved

(* A connection the server ends with GOAWAY: an error fails everything     *)
(* under way, and a graceful one ends no stream it promised to serve.      *)
GoawayHonoured == DrainedAfterError /\ CutOnlyByAbortOrGoaway

(* "The receiver yields body chunks; when it returns `None` the body is    *)
(* complete" (send_request): a body channel that closes without an error   *)
(* after final headers has carried a response the server finished.         *)
NoneMeansComplete ==
    \A r \in Req : hdr[r] = "ok" /\ body[r] = "eof" => r \in ended

(* "cancelled queued request did not release its pending permit" (message  *)
(* of the cancellation test): once the future of a request is gone and the *)
(* driver has taken its command and its cancellation, the request holds no *)
(* pending slot.                                                           *)
CancelReleasesPermit ==
    \A r \in Req :
        /\ caller[r] = "done" /\ ticket[r] > 0
        /\ r \notin cmds /\ r \notin cancels
        /\ phase = "select"
        => r \notin permits

(* When the last handle is gone the driver stops, even if the server never *)
(* finishes a response: the shutdown deadline ends it.                     *)
DriverStops ==
    (phase # "starting" /\ ~handle /\ Senders = {}) ~> Over

(* When the driver is over every future that was on its way into it or     *)
(* waits for headers returns, those blocked on a pending slot included.    *)
CallersReturn ==
    \A r \in Req :
        (Over /\ caller[r] \in {"acquiring", "sending", "waiting"})
            ~> caller[r] \in {"reading", "done"}
=============================================================================
