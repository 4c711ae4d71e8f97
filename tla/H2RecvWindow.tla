---------------------------- MODULE H2RecvWindow ----------------------------
(***************************************************************************)
(* The receiving half of HTTP/2 flow control in lkh2: H2Engine::handle_data*)
(* under the connection's and the stream's receive window, the policies    *)
(* that decide when a WINDOW_UPDATE returns the bytes (Immediate- and      *)
(* ThresholdFlowControl), and a server that keeps to the windows it was    *)
(* granted.  DATA is delivered at once; WINDOW_UPDATE and RST_STREAM of    *)
(* the engine take their time to the server.                               *)
(***************************************************************************)
EXTENDS H2Stream

CONSTANTS
    N,             \* streams opened on the connection
    Response,      \* Response[s]: bytes of flow-controlled DATA of stream s
    Frames,        \* lengths of DATA frames
    Local,         \* our SETTINGS_INITIAL_WINDOW_SIZE (the profile's)
    ConnInitial,   \* conn_initial_recv_window
    DefaultWindow, \* 65535
    InitialSizes,  \* values of SETTINGS_INITIAL_WINDOW_SIZE the server sends
    Policy         \* flow_control of the profile's H2Behavior

ASSUME RecvWindowAssumption ==
    /\ N \in Nat
    /\ Response \in [1..N -> Nat]
    /\ Frames \subseteq Nat
    /\ Local \in Nat \ {0}
    /\ ConnInitial \in Nat \ {0}
    /\ DefaultWindow \in Nat
    /\ InitialSizes \subseteq Nat
    /\ Policy \in {"immediate", "threshold"}

Streams == 1..N

VARIABLES
    conn_recv,      \* ConnState::recv_window
    recv,           \* H2Stream::recv_window
    initial,        \* remote_settings.initial_window_size
    stream_initial, \* H2Stream::initial_window_size, the server's
    state,          \* H2Stream::state
    conn_acc,       \* ThresholdFlowControl::accumulated of stream 0
    acc,            \* ThresholdFlowControl::accumulated of the streams
    accused,        \* streams (0: the connection) a FLOW_CONTROL_ERROR was queued for
    todo,           \* server: bytes of the response not yet sent
    srv_open,       \* server: streams it may send on
    srv_conn,       \* server: its send window of the connection
    srv,            \* server: its send windows of the streams
    wire_conn,      \* increments on their way to the server
    wire,           \* the same for the streams
    lost,           \* bytes discarded on streams that cannot receive
    starved         \* history: streams whose threshold was once beyond our window

engine == <<conn_recv, recv, initial, stream_initial, state, conn_acc, acc, accused>>
server == <<todo, srv_open, srv_conn, srv>>
recv_vars == <<engine, server, wire_conn, wire, lost, starved>>

Known(s) == state[s] \in KnownStates
NextToOpen(s) == state[s] = "idle" /\ \A t \in 1..(s - 1) : state[t] # "idle"

-----------------------------------------------------------------------------
RecvInit ==
    /\ conn_recv = ConnInitial
    /\ recv = [s \in Streams |-> 0]
    /\ initial = DefaultWindow
    /\ stream_initial = [s \in Streams |-> 0]
    /\ state = [s \in Streams |-> "idle"]
    /\ conn_acc = 0
    /\ acc = [s \in Streams |-> 0]
    /\ accused = {}
    /\ todo = [s \in Streams |-> Response[s]]
    /\ srv_open = {}
    /\ srv_conn = ConnInitial
    /\ srv = [s \in Streams |-> 0]
    /\ wire_conn = 0
    /\ wire = [s \in Streams |-> 0]
    /\ lost = 0
    /\ starved = {}

(* When an update is due: at half of the initial window the policy is told *)
(* of, which for a stream is the one the server announced.                 *)
UpdateThreshold(window) == IF Policy = "threshold" THEN window \div 2 ELSE 0

(* A threshold the accumulated bytes cannot reach: our window is smaller.  *)
OutOfReach(window) == UpdateThreshold(window) > Local

(* open_stream; the server grants itself what our SETTINGS said.           *)
OpenStream(s) ==
    /\ NextToOpen(s)
    /\ state' = [state EXCEPT ![s] = "open"]
    /\ recv' = [recv EXCEPT ![s] = Local]
    /\ stream_initial' = [stream_initial EXCEPT ![s] = initial]
    /\ srv' = [srv EXCEPT ![s] = Local]
    /\ srv_open' = srv_open \union {s}
    /\ starved' = IF OutOfReach(initial) THEN starved \union {s} ELSE starved
    /\ UNCHANGED <<conn_recv, initial, conn_acc, acc, accused, todo, srv_conn,
                   wire_conn, wire, lost>>

(* The request, with its body if it has one, is out.                       *)
RequestSent(s) ==
    /\ state[s] \in {"open", "half_remote"}
    /\ state' = [state EXCEPT ![s] = send_end_stream(@)]
    /\ UNCHANGED <<conn_recv, recv, initial, stream_initial, conn_acc, acc, accused,
                   server, wire_conn, wire, lost, starved>>

-----------------------------------------------------------------------------
ReturnedLate(a, n, window) == IF n > 0 /\ a + n > window THEN a + n ELSE 0

(* on_data_received: what is returned of the a bytes accumulated and the n *)
(* bytes of this frame, for an initial window.                             *)
Returned(a, n, window) ==
    IF n > 0 /\ a + n >= UpdateThreshold(window) THEN a + n ELSE 0

window_not_raised(w, n, i) == w - n

(* consume_recv_window and update_recv_window for n bytes in and i back.   *)
window_after(w, n, i) == w - n + i

accumulated_reset(a, n, i) == 0

(* What on_data_received leaves in the accumulator.                        *)
accumulated_after(a, n, i) == a + n - i

(* DATA that the stream cannot take: it is reset, and the connection's     *)
(* window is not given back.                                               *)
discard(s, n) ==
    /\ conn_recv' = conn_recv - n
    /\ state' = [state EXCEPT ![s] = "closed"]
    /\ lost' = lost + n

(* DATA that is taken, also for a stream no longer in the map: updates for *)
(* the connection and for the stream; END_STREAM cleans up.                *)
accept(s, n, end) ==
    LET c == Returned(conn_acc, n, ConnInitial)
        i == Returned(acc[s], n, IF Known(s) THEN stream_initial[s] ELSE DefaultWindow)
        ended == [state EXCEPT ![s] = recv_end_stream(@)]
    IN  /\ conn_recv' = window_after(conn_recv, n, c)
        /\ conn_acc' = accumulated_after(conn_acc, n, c)
        /\ wire_conn' = wire_conn + c
        /\ recv' = [recv EXCEPT ![s] = IF Known(s) THEN window_after(@, n, i) ELSE @]
        /\ acc' = [acc EXCEPT ![s] = IF end THEN 0 ELSE accumulated_after(@, n, i)]
        /\ wire' = [wire EXCEPT ![s] = @ + i]
        /\ state' = IF end THEN cleanup_closed_streams(ended) ELSE state

(* handle_data: the connection's window is drawn on first, then the        *)
(* stream's.                                                               *)
handle_data(s, n, end) ==
    IF conn_recv < n
    THEN /\ accused' = accused \union {0}
         /\ UNCHANGED <<conn_recv, recv, state, conn_acc, acc, wire_conn, wire, lost>>
    ELSE IF Known(s) /\ (~can_receive(state[s]) \/ recv[s] < n)
    THEN /\ discard(s, n)
         /\ accused' = IF can_receive(state[s]) THEN accused \union {s} ELSE accused
         /\ UNCHANGED <<recv, conn_acc, acc, wire_conn, wire>>
    ELSE /\ accept(s, n, end)
         /\ UNCHANGED <<accused, lost>>

(* The server sends a DATA frame of n bytes within its windows, maybe the  *)
(* last of the response, and the engine handles it.                        *)
Data(s, n, end) ==
    /\ s \in srv_open
    /\ n <= todo[s] /\ n <= srv_conn /\ n <= srv[s]
    /\ end => n = todo[s]
    /\ ~end => n > 0
    /\ todo' = [todo EXCEPT ![s] = @ - n]
    /\ srv_conn' = srv_conn - n
    /\ srv' = [srv EXCEPT ![s] = @ - n]
    /\ srv_open' = IF end THEN srv_open \ {s} ELSE srv_open
    /\ handle_data(s, n, end)
    /\ UNCHANGED <<initial, stream_initial, starved>>

(* HEADERS with END_STREAM: trailers, or a response without a body.  For a *)
(* stream no longer in the map the engine raises an H2Event::Error, which  *)
(* the driver logs.                                                        *)
Trailers(s) ==
    /\ s \in srv_open
    /\ todo[s] = 0
    /\ srv_open' = srv_open \ {s}
    /\ state' = [state EXCEPT ![s] = recv_end_stream(@)]
    /\ UNCHANGED <<conn_recv, recv, initial, stream_initial, conn_acc, acc, accused,
                   todo, srv_conn, srv, wire_conn, wire, lost, starved>>

(* RST_STREAM from the server.                                             *)
Reset(s) ==
    /\ s \in srv_open
    /\ srv_open' = srv_open \ {s}
    /\ state' = cleanup_closed_streams(
                    IF Known(s) THEN [state EXCEPT ![s] = "closed"] ELSE state)
    /\ UNCHANGED <<conn_recv, recv, initial, stream_initial, conn_acc, acc, accused,
                   todo, srv_conn, srv, wire_conn, wire, lost, starved>>

(* A WINDOW_UPDATE the engine refuses: it resets the stream, which stays   *)
(* in the map, and tells the server.                                       *)
RefusedUpdate(s) ==
    /\ Known(s)
    /\ state' = [state EXCEPT ![s] = "closed"]
    /\ UNCHANGED <<conn_recv, recv, initial, stream_initial, conn_acc, acc, accused,
                   server, wire_conn, wire, lost, starved>>

(* SETTINGS from the server: the streams' initial_window_size follows.     *)
Settings(size) ==
    /\ initial' = size
    /\ stream_initial' = [s \in Streams |-> IF Known(s) THEN size ELSE stream_initial[s]]
    /\ starved' = starved \union {s \in Streams : Known(s) /\ OutOfReach(size)}
    /\ UNCHANGED <<conn_recv, recv, state, conn_acc, acc, accused, server, wire_conn,
                   wire, lost>>

-----------------------------------------------------------------------------
(* The server takes in what the engine sent it.                            *)
ConnCredit ==
    /\ wire_conn > 0
    /\ srv_conn' = srv_conn + wire_conn
    /\ wire_conn' = 0
    /\ UNCHANGED <<engine, todo, srv_open, srv, wire, lost, starved>>

StreamCredit(s) ==
    /\ wire[s] > 0
    /\ srv' = [srv EXCEPT ![s] = @ + wire[s]]
    /\ wire' = [wire EXCEPT ![s] = 0]
    /\ UNCHANGED <<engine, todo, srv_open, srv_conn, wire_conn, lost,
                   starved>>

SeesReset(s) ==
    /\ s \in srv_open
    /\ state[s] \in {"closed", "gone"}
    /\ srv_open' = srv_open \ {s}
    /\ UNCHANGED <<engine, todo, srv_conn, srv, wire_conn, wire, lost, starved>>

-----------------------------------------------------------------------------
RecvNext ==
    \/ \E s \in Streams :
          \/ OpenStream(s) \/ RequestSent(s) \/ Trailers(s) \/ Reset(s)
          \/ RefusedUpdate(s) \/ StreamCredit(s) \/ SeesReset(s)
    \/ \E s \in Streams, n \in Frames, end \in BOOLEAN : Data(s, n, end)
    \/ \E size \in InitialSizes : Settings(size)
    \/ ConnCredit

RecvSpec == RecvInit /\ [][RecvNext]_recv_vars

-----------------------------------------------------------------------------
(* Every variable keeps to its type; no window passes its initial size.    *)
RecvTypeOK ==
    /\ conn_recv \in 0..ConnInitial
    /\ recv \in [Streams -> 0..Local]
    /\ initial \in Nat
    /\ stream_initial \in [Streams -> Nat]
    /\ state \in [Streams -> StreamStates]
    /\ conn_acc \in Nat
    /\ acc \in [Streams -> Nat]
    /\ accused \subseteq 0..N
    /\ todo \in [Streams -> Nat]
    /\ srv_open \subseteq Streams
    /\ srv_conn \in Nat
    /\ srv \in [Streams -> Nat]
    /\ wire_conn \in Nat
    /\ wire \in [Streams -> Nat]
    /\ lost \in Nat
    /\ starved \subseteq Streams

(* A server that keeps to its windows is never accused: the engine's       *)
(* windows are the server's plus the updates under way, so handle_data     *)
(* never queues a FLOW_CONTROL_ERROR, whatever the policy held back.       *)
WindowsAgree ==
    /\ accused = {}
    /\ conn_recv = srv_conn + wire_conn
    /\ \A s \in Streams :
          can_receive(state[s]) => recv[s] = srv[s] + wire[s]

(* Every byte of the connection's window is available, waiting in the      *)
(* policy's accumulator, or was discarded; and bytes are only discarded    *)
(* once the engine has reset a stream under the server.                    *)
CreditAccounted ==
    /\ conn_recv + conn_acc + lost = ConnInitial
    /\ \A s \in Streams :
          can_receive(state[s]) => recv[s] + acc[s] = Local

(* The credit of a download: client and server agree on every window, and  *)
(* no byte of credit is lost, except to streams the client reset.          *)
CreditSound == WindowsAgree /\ CreditAccounted

(* The policy holds back so much that the server is stuck only on a stream *)
(* for which the server announced a size with a threshold above our own    *)
(* window, at some time: on every other, while the engine can receive, the *)
(* server has, or is about to get, room to send; and on the connection,    *)
(* whose threshold is taken from its own window, it always has.            *)
NeverStalled ==
    /\ lost = 0 => srv_conn + wire_conn > 0
    /\ \A s \in Streams :
          can_receive(state[s]) /\ s \notin starved => srv[s] + wire[s] > 0

(* A response whose stream is not reset arrives in full, unless the server *)
(* announced a size with a threshold above our window that was in force    *)
(* while the stream was open: one that was replaced before, or a stream    *)
(* starved beside this one, is no excuse.                                  *)
ResponsesArrive ==
    \A s \in Streams :
        s \in srv_open ~> \/ todo[s] = 0
                          \/ lost > 0
                          \/ state[s] \in {"closed", "gone"}
                          \/ s \in starved
=============================================================================
