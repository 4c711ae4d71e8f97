---------------------------- MODULE H2SendWindow ----------------------------
(***************************************************************************)
(* The sending half of HTTP/2 flow control in lkh2: request bodies going   *)
(* out through H2Engine::build_data under the connection's and the         *)
(* stream's send window, the bytes it buffers in pending_data, and the     *)
(* WINDOW_UPDATE, SETTINGS and RST_STREAM frames that act on them.         *)
(*                                                                         *)
(* Streams are 1..N in the order in which they were opened, which is the   *)
(* order of pending_data: items are pushed as streams open and draining    *)
(* keeps their order.  The engine is synchronous; drain_pending_data is    *)
(* one step per item, `drain`, and no frame is handled in between.         *)
(***************************************************************************)
EXTENDS H2Stream, FiniteSetsExt

CONSTANTS
    N,             \* streams opened on the connection
    Body,          \* Body[s]: bytes of the request body of stream s
    DefaultWindow, \* initial window of the connection and before SETTINGS
    MaxWindow,     \* i32::MAX, the largest window
    InitialSizes,  \* values of SETTINGS_INITIAL_WINDOW_SIZE the server sends
    Increments     \* increments of its WINDOW_UPDATE frames

ASSUME SendWindowAssumption ==
    /\ N \in Nat
    /\ Body \in [1..N -> Nat \ {0}]
    /\ MaxWindow \in Nat
    /\ DefaultWindow \in 0..MaxWindow
    /\ InitialSizes \subseteq 0..MaxWindow
    /\ Increments \subseteq Nat

Streams == 1..N

VARIABLES
    conn_window,    \* ConnState::send_window
    window,         \* H2Stream::send_window
    initial,        \* remote_settings.initial_window_size
    stream_initial, \* H2Stream::initial_window_size
    state,          \* H2Stream::state, "gone" once it is cleaned up
    held,           \* bytes of the stream in pending_data
    sent,           \* bytes of the stream sent as DATA
    fin,            \* streams whose END_STREAM was sent
    drain,          \* the item drain_pending_data handles next; 0: none
    granted,        \* sum of the WINDOW_UPDATEs accepted for the stream
    conn_granted,   \* the same for the connection
    cause           \* last frame that raised a window

send_vars == <<conn_window, window, initial, stream_initial, state, held, sent, fin,
          drain, granted, conn_granted, cause>>

Min2(a, b) == IF a <= b THEN a ELSE b
Available(w) == IF w > 0 THEN w ELSE 0

KnownStream(s) == state[s] \in KnownStates

(* Streams are opened in order of their ids.                               *)
NextToOpen(s) == state[s] = "idle" /\ \A t \in 1..(s - 1) : state[t] # "idle"

-----------------------------------------------------------------------------
SendInit ==
    /\ conn_window = DefaultWindow
    /\ window = [s \in Streams |-> 0]
    /\ initial = DefaultWindow
    /\ stream_initial = [s \in Streams |-> 0]
    /\ state = [s \in Streams |-> "idle"]
    /\ held = [s \in Streams |-> 0]
    /\ sent = [s \in Streams |-> 0]
    /\ fin = {}
    /\ drain = 0
    /\ granted = [s \in Streams |-> 0]
    /\ conn_granted = 0
    /\ cause = "none"

-----------------------------------------------------------------------------
FitsStreamOnly(n, w) == Min2(n, Available(w))

Fits(n, w) == Min2(n, Min2(Available(conn_window), Available(w)))

build_data_early_end(s, n, w, st) ==
    LET k == Fits(n, w) IN
    /\ conn_window' = conn_window - k
    /\ window' = [window EXCEPT ![s] = w - k]
    /\ held' = [held EXCEPT ![s] = n - k]
    /\ sent' = [sent EXCEPT ![s] = @ + k]
    /\ fin' = fin \union {s}
    /\ state' = [state EXCEPT ![s] = send_end_stream(st)]

(* build_data for n bytes of s, with stream window w and state st: frames  *)
(* go out until a window is empty, the last one with END_STREAM; the rest  *)
(* is buffered.                                                            *)
build_data(s, n, w, st) ==
    LET k == Fits(n, w) IN
    /\ conn_window' = conn_window - k
    /\ window' = [window EXCEPT ![s] = w - k]
    /\ held' = [held EXCEPT ![s] = n - k]
    /\ sent' = [sent EXCEPT ![s] = @ + k]
    /\ fin' = IF k = n THEN fin \union {s} ELSE fin
    /\ state' = [state EXCEPT ![s] = IF k = n THEN send_end_stream(st) ELSE st]

(* open_stream and build_request, with a body.                             *)
SendRequest(s) ==
    /\ drain = 0
    /\ NextToOpen(s)
    /\ stream_initial' = [stream_initial EXCEPT ![s] = initial]
    /\ build_data(s, Body[s], initial, "open")
    /\ UNCHANGED <<initial, drain, granted, conn_granted, cause>>

(* One item of drain_pending_data.  An item of a stream that was cleaned   *)
(* up finds no window and is buffered again.                               *)
DrainItem ==
    /\ drain \in Streams
    /\ \/ /\ held[drain] > 0 /\ KnownStream(drain)
          /\ build_data(drain, held[drain], window[drain], state[drain])
       \/ /\ held[drain] = 0 \/ ~KnownStream(drain)
          /\ UNCHANGED <<conn_window, window, held, sent, fin, state>>
    /\ drain' = IF drain = N THEN 0 ELSE drain + 1
    /\ UNCHANGED <<initial, stream_initial, granted, conn_granted, cause>>

(* handle_window_update on the connection.  A zero increment or an         *)
(* overflow queues a GOAWAY and changes nothing.                           *)
ConnWindowUpdate(inc) ==
    /\ drain = 0
    /\ inc > 0
    /\ conn_window + inc <= MaxWindow
    /\ conn_window' = conn_window + inc
    /\ conn_granted' = conn_granted + inc
    /\ drain' = IF N > 0 THEN 1 ELSE 0
    /\ cause' = "update"
    /\ UNCHANGED <<window, initial, stream_initial, state, held, sent, fin,
                   granted>>

StreamWindowUpdateNoDrain(s, inc) ==
    /\ drain = 0
    /\ inc > 0
    /\ state[s] # "idle"
    /\ KnownStream(s) => window[s] + inc <= MaxWindow
    /\ window' = [window EXCEPT ![s] = IF KnownStream(s) THEN @ + inc ELSE @]
    /\ granted' = [granted EXCEPT ![s] = IF KnownStream(s) THEN @ + inc ELSE @]
    /\ cause' = "update"
    /\ UNCHANGED <<conn_window, initial, stream_initial, state, held, sent, fin,
                   drain, conn_granted>>

(* handle_window_update on a stream.  One that is not known only drains.   *)
StreamWindowUpdate(s, inc) ==
    /\ drain = 0
    /\ inc > 0
    /\ state[s] # "idle"
    /\ KnownStream(s) => window[s] + inc <= MaxWindow
    /\ window' = [window EXCEPT ![s] = IF KnownStream(s) THEN @ + inc ELSE @]
    /\ granted' = [granted EXCEPT ![s] = IF KnownStream(s) THEN @ + inc ELSE @]
    /\ drain' = 1
    /\ cause' = "update"
    /\ UNCHANGED <<conn_window, initial, stream_initial, state, held, sent, fin,
                   conn_granted>>

(* A zero increment, or an overflow, on a stream: the engine resets it.    *)
(* The stream stays in the map, closed.                                    *)
StreamWindowUpdateBad(s, inc) ==
    /\ drain = 0
    /\ KnownStream(s)
    /\ inc = 0 \/ window[s] + inc > MaxWindow
    /\ state' = [state EXCEPT ![s] = "closed"]
    /\ UNCHANGED <<conn_window, window, initial, stream_initial, held, sent, fin,
                   drain, granted, conn_granted, cause>>

ResizeAbsolute(size, A) ==
    /\ initial' = size
    /\ window' = [s \in Streams |-> IF s \in A THEN size ELSE window[s]]
    /\ stream_initial' = [s \in Streams |-> IF s \in A THEN size
                                            ELSE stream_initial[s]]

(* handle_settings with a new SETTINGS_INITIAL_WINDOW_SIZE: the difference *)
(* is applied to the streams in A, and may make a window negative.         *)
Resize(size, A) ==
    /\ initial' = size
    /\ window' = [s \in Streams |->
                     IF s \in A THEN window[s] + size - stream_initial[s]
                     ELSE window[s]]
    /\ stream_initial' = [s \in Streams |-> IF s \in A THEN size
                                            ELSE stream_initial[s]]

Overflows(s, size) == window[s] + size - stream_initial[s] > MaxWindow

(* All streams in the map are resized, in the map's order, until one would *)
(* overflow: then the rest keep their windows and a GOAWAY is queued.      *)
(* Nothing is drained.                                                     *)
Settings(size) ==
    LET known == {s \in Streams : KnownStream(s)}
        bad == {s \in known : Overflows(s, size)}
    IN  /\ drain = 0
        /\ \E A \in SUBSET (known \ bad) :
              (bad = {} => A = known) /\ Resize(size, A)
        /\ cause' = "settings"
        /\ UNCHANGED <<conn_window, state, held, sent, fin, drain, granted,
                       conn_granted>>

(* RST_STREAM: reset, and every closed stream is cleaned up.               *)
Reset(s) ==
    /\ drain = 0
    /\ KnownStream(s)
    /\ state' = cleanup_closed_streams([state EXCEPT ![s] = "closed"])
    /\ UNCHANGED <<conn_window, window, initial, stream_initial, held, sent, fin,
                   drain, granted, conn_granted, cause>>

(* The response ends, maybe before the body went out: with its HEADERS, or *)
(* with DATA, which also cleans up.                                        *)
ResponseEnds(s, with_data) ==
    /\ drain = 0
    /\ can_receive(state[s])
    /\ LET f == [state EXCEPT ![s] = recv_end_stream(@)]
       IN  state' = IF with_data THEN cleanup_closed_streams(f) ELSE f
    /\ UNCHANGED <<conn_window, window, initial, stream_initial, held, sent, fin,
                   drain, granted, conn_granted, cause>>

-----------------------------------------------------------------------------
SendNext ==
    \/ \E s \in Streams : SendRequest(s) \/ Reset(s)
    \/ \E s \in Streams, with_data \in BOOLEAN : ResponseEnds(s, with_data)
    \/ DrainItem
    \/ \E inc \in Increments :
          \/ ConnWindowUpdate(inc)
          \/ \E s \in Streams :
                StreamWindowUpdate(s, inc) \/ StreamWindowUpdateBad(s, inc)
    \/ \E size \in InitialSizes : Settings(size)

SendSpec == SendInit /\ [][SendNext]_send_vars

-----------------------------------------------------------------------------
(* Every variable keeps to its type; windows fit an i32 from above.        *)
SendTypeOK ==
    /\ conn_window \in Int /\ conn_window <= MaxWindow
    /\ window \in [Streams -> Int]
    /\ \A s \in Streams : window[s] <= MaxWindow
    /\ initial \in 0..MaxWindow
    /\ stream_initial \in [Streams -> 0..MaxWindow]
    /\ state \in [Streams -> StreamStates]
    /\ held \in [Streams -> Nat]
    /\ sent \in [Streams -> Nat]
    /\ fin \subseteq Streams
    /\ drain \in 0..N
    /\ granted \in [Streams -> Nat]
    /\ conn_granted \in Nat
    /\ cause \in {"none", "update", "settings"}

(* The engine's window of a stream is what the server has granted it (the  *)
(* initial size now in force and the WINDOW_UPDATEs) less what was sent,   *)
(* however SETTINGS, updates and partial sends interleave.                 *)
StreamWindowExact ==
    \A s \in Streams :
        KnownStream(s) => window[s] = stream_initial[s] + granted[s] - sent[s]

(* A window already negative, because SETTINGS shrank it, is not drawn on: *)
(* a step that sends bytes of s leaves the stream's and the connection's   *)
(* window at zero or above, and takes from the latter what it sends.       *)
SendsWithinWindow ==
    [][\A s \in Streams :
         sent'[s] > sent[s] =>
            /\ window'[s] >= 0 /\ conn_window' >= 0
            /\ conn_window - conn_window' = sent'[s] - sent[s]]_send_vars

(* No byte of a body is lost or sent twice: what was sent and what is      *)
(* buffered make up the body, and END_STREAM goes out with its last byte   *)
(* and not before.                                                         *)
BodyConserved ==
    \A s \in Streams :
        state[s] # "idle" =>
            /\ sent[s] + held[s] = Body[s]
            /\ s \in fin <=> held[s] = 0

(* A buffered body that both windows would let out is waiting only for the *)
(* drain in progress, or a SETTINGS frame opened its window: a             *)
(* WINDOW_UPDATE never leaves sendable bytes behind.                       *)
StallOnlyAfterSettings ==
    \A s \in Streams :
        /\ held[s] > 0 /\ KnownStream(s)
        /\ conn_window > 0 /\ window[s] > 0
        => cause = "settings" \/ drain \in 1..s

(* An upload under flow control: windows are exact, every byte goes out    *)
(* once, and no byte that may go is left behind by a WINDOW_UPDATE.        *)
UploadSound == StreamWindowExact /\ BodyConserved /\ StallOnlyAfterSettings

(* The bytes sent on all streams never exceed the connection window the     *)
(* server granted: build_data draws on one window for all of them, and no   *)
(* path takes from it without sending or sends without taking.              *)
ConnWindowExact ==
    /\ conn_window >= 0
    /\ conn_window = DefaultWindow + conn_granted
                       - MapThenSumSet(LAMBDA s : sent[s], Streams)
=============================================================================
