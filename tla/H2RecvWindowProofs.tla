------------------------- MODULE H2RecvWindowProofs -------------------------
(* Proofs about H2RecvWindow, for any number of streams, any responses,    *)
(* any windows and both policies.                                          *)
EXTENDS H2RecvWindow, TLAPS

USE DEF KnownStates, StreamStates

(* The connection's part of the invariant.                                 *)
ConnInv ==
    /\ accused = {}
    /\ conn_recv = srv_conn + wire_conn
    /\ conn_recv + conn_acc + lost = ConnInitial
    /\ conn_acc < ConnInitial

(* The part of one stream.  Nothing is accumulated for, under way to, or   *)
(* sent on a stream that is not open yet.                                  *)
StreamInv(s) ==
    /\ state[s] = "idle" => acc[s] = 0 /\ wire[s] = 0 /\ s \notin srv_open
    /\ can_receive(state[s]) => recv[s] = srv[s] + wire[s] /\ recv[s] + acc[s] = Local

IndInv == RecvTypeOK /\ ConnInv /\ \A s \in Streams : StreamInv(s)

-----------------------------------------------------------------------------
(* A threshold lies within its window.                                     *)
LEMMA ThresholdWithin ==
    ASSUME NEW w \in Nat
    PROVE  UpdateThreshold(w) \in Nat /\ UpdateThreshold(w) <= w
BY RecvWindowAssumption DEF UpdateThreshold

(* on_data_received returns everything or nothing, and when nothing, less  *)
(* than the threshold is held.                                             *)
LEMMA ReturnedCases ==
    ASSUME NEW a \in Nat, NEW n \in Nat, NEW w \in Nat
    PROVE  /\ Returned(a, n, w) \in {0, a + n}
           /\ Returned(a, n, w) # a + n => n = 0 \/ a + n < UpdateThreshold(w)
BY ThresholdWithin DEF Returned

(* The initial state.                                                      *)
LEMMA InitInv == RecvInit => IndInv
BY RecvWindowAssumption
   DEF RecvInit, IndInv, RecvTypeOK, ConnInv, StreamInv, Streams, can_receive

(* IndInv is kept when a stream opens.                                     *)
LEMMA OpenStreamInv ==
    ASSUME IndInv, NEW s \in Streams, OpenStream(s)
    PROVE  IndInv'
<1> USE RecvWindowAssumption DEF IndInv, OpenStream, NextToOpen
<1>1. RecvTypeOK'
  BY DEF RecvTypeOK
<1>2. ConnInv'
  BY DEF ConnInv
<1>3. ASSUME NEW t \in Streams PROVE StreamInv(t)'
  BY DEF RecvTypeOK, StreamInv, can_receive
<1>4. QED
  BY <1>1, <1>2, <1>3

(* IndInv is kept by the steps that only move streams between states.      *)
LEMMA StateInv ==
    ASSUME IndInv, NEW s \in Streams,
           RequestSent(s) \/ Trailers(s) \/ Reset(s) \/ RefusedUpdate(s) \/ SeesReset(s)
    PROVE  IndInv'
<1> USE RecvWindowAssumption DEF IndInv
<1> USE DEF RequestSent, Trailers, Reset, RefusedUpdate, SeesReset, engine, server,
            cleanup_closed_streams, send_end_stream, recv_end_stream, Known
<1>1. UNCHANGED <<conn_recv, recv, initial, stream_initial, conn_acc, acc, todo,
                  srv_conn, srv, wire_conn, wire, lost>>
  OBVIOUS
<1>2. state' \in [Streams -> StreamStates] /\ srv_open' \subseteq srv_open
      /\ accused' = accused
  BY DEF RecvTypeOK
<1>3. ASSUME NEW t \in Streams
      PROVE  /\ state'[t] = "idle" => state[t] = "idle"
             /\ can_receive(state'[t]) => can_receive(state[t])
  BY DEF RecvTypeOK, can_receive
<1>4. RecvTypeOK'
  BY <1>1, <1>2 DEF RecvTypeOK
<1>5. ConnInv'
  BY <1>1, <1>2 DEF ConnInv
<1>6. ASSUME NEW t \in Streams PROVE StreamInv(t)'
  BY <1>1, <1>2, <1>3 DEF StreamInv
<1>7. QED
  BY <1>4, <1>5, <1>6

(* IndInv is kept when the server takes in credit, and by its SETTINGS.    *)
LEMMA CreditInv ==
    ASSUME IndInv,
           \/ ConnCredit
           \/ \E s \in Streams : StreamCredit(s)
           \/ \E size \in InitialSizes : Settings(size)
    PROVE  IndInv'
<1> USE RecvWindowAssumption DEF IndInv
<1>1. CASE ConnCredit
  <2> USE <1>1 DEF ConnCredit, engine
  <2>1. RecvTypeOK' /\ ConnInv'
    BY DEF RecvTypeOK, ConnInv
  <2>2. ASSUME NEW t \in Streams PROVE StreamInv(t)'
    BY DEF StreamInv
  <2>3. QED
    BY <2>1, <2>2
<1>2. ASSUME NEW s \in Streams, StreamCredit(s) PROVE IndInv'
  <2> USE <1>2 DEF StreamCredit, engine
  <2>1. RecvTypeOK' /\ ConnInv'
    BY DEF RecvTypeOK, ConnInv
  <2>2. ASSUME NEW t \in Streams PROVE StreamInv(t)'
    BY DEF StreamInv, RecvTypeOK
  <2>3. QED
    BY <2>1, <2>2
<1>3. ASSUME NEW size \in InitialSizes, Settings(size) PROVE IndInv'
  <2> USE <1>3 DEF Settings, server
  <2>1. RecvTypeOK' /\ ConnInv'
    BY DEF RecvTypeOK, ConnInv
  <2>2. ASSUME NEW t \in Streams PROVE StreamInv(t)'
    BY DEF StreamInv
  <2>3. QED
    BY <2>1, <2>2
<1>4. QED
  BY <1>1, <1>2, <1>3

(* Of n bytes, i come back: the window and the accumulator still add up.    *)
LEMMA WindowArithmetic ==
    ASSUME NEW r \in Nat, NEW a \in Nat, NEW n \in Nat, NEW i \in Nat, NEW l \in Nat,
           r + a = l, n <= r, i \in {0, a + n}
    PROVE  /\ r - n + i \in 0..l /\ a + n - i \in Nat
           /\ (r - n + i) + (a + n - i) = l
OBVIOUS

(* IndInv is kept by DATA the engine accepts.                              *)
LEMMA AcceptInv ==
    ASSUME IndInv, NEW s \in Streams, NEW n \in Frames, NEW end \in BOOLEAN,
           Data(s, n, end), accept(s, n, end), accused' = accused, lost' = lost,
           Known(s) => can_receive(state[s]) /\ recv[s] >= n
    PROVE  IndInv'
<1> USE RecvWindowAssumption DEF IndInv
<1> DEFINE w == IF Known(s) THEN stream_initial[s] ELSE DefaultWindow
           c == Returned(conn_acc, n, ConnInitial)
           i == Returned(acc[s], n, w)
<1>1. n \in Nat /\ w \in Nat /\ acc[s] \in Nat /\ conn_acc \in Nat /\ ConnInitial \in Nat
      /\ recv[s] \in Nat /\ wire[s] \in Nat /\ srv[s] \in Nat /\ srv_conn \in Nat
      /\ conn_recv \in Nat /\ lost \in Nat /\ wire_conn \in Nat
  BY DEF RecvTypeOK
<1>2. c \in {0, conn_acc + n} /\ (c # conn_acc + n => n = 0 \/ conn_acc + n < ConnInitial)
  <2>1. UpdateThreshold(ConnInitial) \in Nat /\ UpdateThreshold(ConnInitial) <= ConnInitial
    BY <1>1, ThresholdWithin
  <2>2. QED
    BY <1>1, <2>1, ReturnedCases
<1>3. i \in {0, acc[s] + n} /\ i \in Nat /\ acc[s] + n - i \in Nat
  <2>1. i \in {0, acc[s] + n}
    BY <1>1, ReturnedCases
  <2> HIDE DEF i, w
  <2>2. CASE i = 0
    BY <1>1, <2>2
  <2>3. CASE i = acc[s] + n
    BY <1>1, <2>3
  <2>4. QED
    BY <2>1, <2>2, <2>3
<1>4. /\ conn_recv' = conn_recv - n + c
      /\ conn_acc' = conn_acc + n - c
      /\ wire_conn' = wire_conn + c
      /\ recv' = [recv EXCEPT ![s] = IF Known(s) THEN recv[s] - n + i ELSE recv[s]]
      /\ acc' = [acc EXCEPT ![s] = IF end THEN 0 ELSE acc[s] + n - i]
      /\ wire' = [wire EXCEPT ![s] = wire[s] + i]
      /\ state' = IF end THEN cleanup_closed_streams([state EXCEPT ![s] = recv_end_stream(state[s])])
                  ELSE state
  BY DEF accept, window_after, accumulated_after
<1>5. /\ n <= todo[s] /\ n <= srv_conn /\ n <= srv[s] /\ s \in srv_open
      /\ todo' = [todo EXCEPT ![s] = todo[s] - n]
      /\ srv_conn' = srv_conn - n
      /\ srv' = [srv EXCEPT ![s] = srv[s] - n]
      /\ srv_open' \subseteq srv_open /\ srv_open' \subseteq Streams
      /\ initial' = initial /\ stream_initial' = stream_initial /\ starved' = starved
  BY DEF Data, RecvTypeOK
<1> HIDE DEF w, c, i
<1>6. ConnInv'
  BY <1>1, <1>2, <1>4, <1>5 DEF ConnInv
<1>7. conn_recv' \in 0..ConnInitial /\ conn_acc' \in Nat /\ wire_conn' \in Nat /\ srv_conn' \in Nat
  BY <1>1, <1>2, <1>4, <1>5, <1>6 DEF ConnInv
<1>8. ASSUME NEW t \in Streams, t # s
      PROVE  /\ recv'[t] = recv[t] /\ acc'[t] = acc[t] /\ wire'[t] = wire[t] /\ srv'[t] = srv[t]
             /\ state'[t] = "idle" => state[t] = "idle"
             /\ can_receive(state'[t]) => can_receive(state[t])
  BY <1>4, <1>5, <1>8 DEF RecvTypeOK, can_receive, cleanup_closed_streams
<1>9. /\ state' \in [Streams -> StreamStates] /\ state'[s] # "idle"
      /\ can_receive(state'[s]) => can_receive(state[s]) /\ end = FALSE
  BY <1>4, <1>5 DEF RecvTypeOK, StreamInv, can_receive, cleanup_closed_streams, recv_end_stream
<1>10. /\ recv'[s] = IF Known(s) THEN recv[s] - n + i ELSE recv[s]
       /\ acc'[s] = IF end THEN 0 ELSE acc[s] + n - i
       /\ wire'[s] = wire[s] + i /\ srv'[s] = srv[s] - n
  BY <1>4, <1>5 DEF RecvTypeOK
<1>11. Known(s) => recv[s] + acc[s] = Local /\ recv[s] = srv[s] + wire[s] /\ recv[s] >= n
  BY DEF StreamInv
<1>12. recv'[s] \in 0..Local /\ acc'[s] \in Nat /\ wire'[s] \in Nat /\ srv'[s] \in Nat
  <2>1. recv[s] \in 0..Local
    BY DEF RecvTypeOK
  <2>2. recv'[s] \in 0..Local
    <3>1. CASE ~Known(s)
      BY <1>10, <2>1, <3>1
    <3>2. CASE Known(s)
      <4>1. recv[s] - n + i \in 0..Local
        BY <1>1, <1>3, <1>11, <3>2, WindowArithmetic
      <4>2. QED
        BY <1>10, <3>2, <4>1
    <3>3. QED
      BY <3>1, <3>2
  <2>3. acc'[s] \in Nat
    BY <1>3, <1>10
  <2>4. wire[s] + i \in Nat
    BY <1>1, <1>3
  <2>5. srv[s] - n \in Nat
    BY <1>1, <1>5
  <2>6. QED
    BY <1>10, <2>2, <2>3, <2>4, <2>5
<1>13. RecvTypeOK'
  <2>1. /\ recv' \in [Streams -> 0..Local] /\ acc' \in [Streams -> Nat]
        /\ wire' \in [Streams -> Nat] /\ srv' \in [Streams -> Nat]
    BY <1>4, <1>5, <1>10, <1>12 DEF RecvTypeOK
  <2>2. todo' \in [Streams -> Nat]
    BY <1>1, <1>5 DEF RecvTypeOK
  <2>3. QED
    BY <1>5, <1>7, <1>9, <2>1, <2>2 DEF RecvTypeOK
<1>14. ASSUME NEW t \in Streams PROVE StreamInv(t)'
  <2>1. CASE t # s
    BY <1>5, <1>8, <2>1 DEF StreamInv
  <2>2. CASE t = s
    <3>1. can_receive(state'[s]) => recv'[s] = srv'[s] + wire'[s] /\ recv'[s] + acc'[s] = Local
      <4> SUFFICES ASSUME can_receive(state'[s])
                   PROVE  recv'[s] = srv'[s] + wire'[s] /\ recv'[s] + acc'[s] = Local
        OBVIOUS
      <4>1. Known(s) /\ end = FALSE
        BY <1>9 DEF Known, can_receive
      <4>2. (recv[s] - n + i) + (acc[s] + n - i) = Local
        <5>1. recv[s] + acc[s] = Local /\ n <= recv[s]
          BY <1>1, <1>11, <4>1
        <5>2. Local \in Nat
          OBVIOUS
        <5>3. QED
          BY <1>1, <1>3, <5>1, <5>2, WindowArithmetic, SMTT(40)
      <4>3. recv[s] - n + i = (srv[s] - n) + (wire[s] + i)
        <5>1. recv[s] = srv[s] + wire[s]
          BY <1>11, <4>1
        <5>2. QED
          BY <1>1, <1>3, <5>1, SMTT(40)
      <4>4. QED
        BY <1>10, <4>1, <4>2, <4>3
    <3>2. QED
      BY <1>9, <2>2, <3>1 DEF StreamInv
  <2>3. QED
    BY <2>1, <2>2
<1>15. QED
  BY <1>6, <1>13, <1>14

(* IndInv is kept by DATA; the branch that accuses the server is dead.     *)
LEMMA DataInv ==
    ASSUME IndInv, NEW s \in Streams, NEW n \in Frames, NEW end \in BOOLEAN,
           Data(s, n, end)
    PROVE  IndInv'
<1> USE RecvWindowAssumption DEF IndInv
<1>1. conn_recv >= n
  BY DEF Data, ConnInv, RecvTypeOK
<1>2. n \in Nat /\ handle_data(s, n, end)
  BY DEF Data
<1>3. CASE /\ Known(s) /\ (~can_receive(state[s]) \/ recv[s] < n)
           /\ discard(s, n)
           /\ accused' = IF can_receive(state[s]) THEN accused \union {s} ELSE accused
           /\ UNCHANGED <<recv, conn_acc, acc, wire_conn, wire>>
  <2>0. ~can_receive(state[s]) /\ accused' = accused
    BY <1>2, <1>3 DEF Data, StreamInv, RecvTypeOK, ConnInv
  <2>1. /\ conn_recv' = conn_recv - n /\ lost' = lost + n
        /\ state' = [state EXCEPT ![s] = "closed"]
    BY <1>3 DEF discard
  <2>2. /\ n <= todo[s] /\ n <= srv_conn /\ n <= srv[s] /\ srv_conn' = srv_conn - n
        /\ todo' = [todo EXCEPT ![s] = todo[s] - n] /\ srv' = [srv EXCEPT ![s] = srv[s] - n]
        /\ srv_open' \subseteq srv_open /\ srv_open' \subseteq Streams
        /\ initial' = initial /\ stream_initial' = stream_initial /\ starved' = starved
    BY DEF Data, RecvTypeOK
  <2>3. ConnInv'
    BY <1>2, <1>3, <2>0, <2>1, <2>2 DEF ConnInv, RecvTypeOK
  <2>4. RecvTypeOK'
    <3>1. conn_recv' \in 0..ConnInitial /\ lost' \in Nat /\ srv_conn' \in Nat
      BY <1>1, <1>2, <2>1, <2>2 DEF RecvTypeOK
    <3>2. todo' \in [Streams -> Nat] /\ srv' \in [Streams -> Nat]
      BY <1>2, <2>2 DEF RecvTypeOK
    <3>3. QED
      BY <1>3, <2>0, <2>1, <2>2, <3>1, <3>2 DEF RecvTypeOK
  <2>5. ASSUME NEW t \in Streams PROVE StreamInv(t)'
    <3>1. CASE t = s
      <4>1. state'[t] = "closed"
        BY <2>1, <3>1 DEF RecvTypeOK
      <4>2. QED
        BY <4>1 DEF StreamInv, can_receive
    <3>2. CASE t # s
      <4>1. state'[t] = state[t] /\ srv'[t] = srv[t]
        BY <2>1, <2>2, <3>2 DEF RecvTypeOK
      <4>2. QED
        BY <1>3, <2>2, <4>1 DEF StreamInv
    <3>3. QED
      BY <3>1, <3>2
  <2>6. QED
    BY <2>3, <2>4, <2>5
<1>4. CASE /\ ~(Known(s) /\ (~can_receive(state[s]) \/ recv[s] < n))
           /\ accept(s, n, end)
           /\ UNCHANGED <<accused, lost>>
  <2>1. Known(s) => can_receive(state[s]) /\ recv[s] >= n
    BY <1>2, <1>4 DEF RecvTypeOK
  <2>2. QED
    BY <1>4, <2>1, AcceptInv
<1>5. ~(conn_recv < n)
  BY <1>1, <1>2 DEF RecvTypeOK
<1>6. QED
  BY <1>2, <1>3, <1>4, <1>5 DEF handle_data

-----------------------------------------------------------------------------
(* IndInv holds in every reachable state.                                  *)
THEOREM Invariance == RecvSpec => []IndInv
<1>1. RecvInit => IndInv
  BY InitInv
<1>2. IndInv /\ [RecvNext]_recv_vars => IndInv'
  <2> SUFFICES ASSUME IndInv, [RecvNext]_recv_vars PROVE IndInv'
    OBVIOUS
  <2>1. ASSUME NEW s \in Streams,
               \/ OpenStream(s) \/ RequestSent(s) \/ Trailers(s) \/ Reset(s)
               \/ RefusedUpdate(s) \/ StreamCredit(s) \/ SeesReset(s)
        PROVE  IndInv'
    BY <2>1, OpenStreamInv, StateInv, CreditInv
  <2>2. ASSUME NEW s \in Streams, NEW n \in Frames, NEW end \in BOOLEAN, Data(s, n, end)
        PROVE  IndInv'
    BY <2>2, DataInv
  <2>3. CASE ConnCredit \/ \E size \in InitialSizes : Settings(size)
    BY <2>3, CreditInv
  <2>4. CASE UNCHANGED recv_vars
    BY <2>4 DEF recv_vars, engine, server, IndInv, RecvTypeOK, ConnInv, StreamInv
  <2>5. QED
    BY <2>1, <2>2, <2>3, <2>4 DEF RecvNext
<1>3. QED
  BY <1>1, <1>2, PTL DEF RecvSpec

(* No receive window leaves its range.                                     *)
THEOREM TypeCorrect == RecvSpec => []RecvTypeOK
BY Invariance, PTL DEF IndInv

(* A conforming server is never accused of a flow-control error.           *)
THEOREM ServerNeverAccused == RecvSpec => []WindowsAgree
<1>1. IndInv => WindowsAgree
  BY DEF IndInv, ConnInv, StreamInv, WindowsAgree
<1>2. QED
  BY <1>1, Invariance, PTL

(* Connection credit is lost only with discarded DATA.                     *)
THEOREM CreditIsKept == RecvSpec => []CreditAccounted
<1>1. IndInv => CreditAccounted
  BY DEF IndInv, ConnInv, StreamInv, CreditAccounted
<1>2. QED
  BY <1>1, Invariance, PTL

-----------------------------------------------------------------------------
(* What keeps a stream from stalling: less than its window is held back,   *)
(* because no threshold in force while it was open was beyond that window. *)
Held ==
    \A s \in Streams :
       s \notin starved =>
          /\ Known(s) => UpdateThreshold(stream_initial[s]) <= Local
          /\ can_receive(state[s]) => acc[s] < Local

(* Held is kept by DATA.                                                   *)
LEMMA DataHeld ==
    ASSUME IndInv, Held,
           NEW s \in Streams, NEW n \in Frames, NEW end \in BOOLEAN, Data(s, n, end)
    PROVE  Held'
<1> USE RecvWindowAssumption
<1>1. n \in Nat /\ handle_data(s, n, end) /\ s \in srv_open
      /\ initial' = initial /\ stream_initial' = stream_initial /\ starved' = starved
  BY DEF Data
<1>2. RecvTypeOK /\ state[s] # "idle"
  BY <1>1 DEF IndInv, StreamInv
<1>3. \A t \in Streams : (Known(t)' => Known(t)) /\ (can_receive(state'[t]) => can_receive(state[t]))
  <2>1. CASE state' = state
    BY <2>1 DEF Known
  <2>2. CASE discard(s, n) /\ Known(s)
    BY <1>2, <2>2 DEF discard, Known, RecvTypeOK, can_receive
  <2>3. CASE state' = cleanup_closed_streams([state EXCEPT ![s] = recv_end_stream(state[s])])
    BY <1>2, <2>3 DEF Known, RecvTypeOK, can_receive, cleanup_closed_streams, recv_end_stream
  <2>4. QED
    BY <1>1, <2>1, <2>2, <2>3 DEF handle_data, accept
<1>4. \A t \in Streams : t # s => acc'[t] = acc[t]
  BY <1>1, <1>2 DEF handle_data, accept, RecvTypeOK
<1>5. ASSUME s \notin starved, can_receive(state'[s]) PROVE acc'[s] < Local
  <2>1. Known(s) /\ can_receive(state[s]) /\ acc[s] < Local /\ acc[s] \in Nat
    BY <1>2, <1>3, <1>5 DEF Held, Known, can_receive, RecvTypeOK
  <2>2. CASE acc' = acc
    BY <2>1, <2>2
  <2>3. CASE accept(s, n, end)
    <3> DEFINE w == stream_initial[s]
               i == Returned(acc[s], n, w)
    <3>1. acc'[s] = (IF end THEN 0 ELSE acc[s] + n - i)
      BY <1>2, <2>1, <2>3 DEF accept, accumulated_after, RecvTypeOK
    <3>2. w \in Nat /\ UpdateThreshold(w) \in Nat /\ UpdateThreshold(w) <= Local
      <4>1. w \in Nat
        BY <1>2 DEF RecvTypeOK
      <4>2. UpdateThreshold(w) <= Local
        BY <1>5, <2>1 DEF Held
      <4>3. QED
        BY <4>1, <4>2, ThresholdWithin
    <3>3. i \in {0, acc[s] + n} /\ (i # acc[s] + n => n = 0 \/ acc[s] + n < UpdateThreshold(w))
      BY <1>1, <2>1, <3>2, ReturnedCases
    <3> HIDE DEF i, w
    <3>4. CASE i = acc[s] + n
      BY <1>1, <2>1, <3>1, <3>4
    <3>5. CASE i = 0 /\ i # acc[s] + n
      BY <1>1, <2>1, <3>1, <3>2, <3>3, <3>5
    <3>6. QED
      BY <3>3, <3>4, <3>5
  <2>4. QED
    BY <1>1, <2>2, <2>3 DEF handle_data
<1>6. ASSUME NEW t \in Streams, t \notin starved'
      PROVE  /\ Known(t)' => UpdateThreshold(stream_initial'[t]) <= Local
             /\ can_receive(state'[t]) => acc'[t] < Local
  BY <1>1, <1>3, <1>4, <1>5, <1>6 DEF Held
<1>7. QED
  BY <1>1, <1>6 DEF Held

(* Held is kept when a stream opens, and by SETTINGS: whoever is given a   *)
(* threshold beyond our window is counted among the starved.               *)
LEMMA SizesHeld ==
    ASSUME IndInv, Held,
           \/ \E s \in Streams : OpenStream(s)
           \/ \E size \in InitialSizes : Settings(size)
    PROVE  Held'
<1> USE RecvWindowAssumption
<1>1. ASSUME NEW s \in Streams, OpenStream(s) PROVE Held'
  <2>1. /\ state' = [state EXCEPT ![s] = "open"] /\ acc' = acc /\ acc[s] = 0
        /\ stream_initial' = [stream_initial EXCEPT ![s] = initial] /\ initial \in Nat
        /\ starved \subseteq starved'
        /\ s \notin starved' => ~(UpdateThreshold(initial) > Local)
    BY <1>1 DEF OpenStream, NextToOpen, IndInv, StreamInv, RecvTypeOK, OutOfReach, Held
  <2>2. ASSUME NEW t \in Streams, t \notin starved'
        PROVE  /\ Known(t)' => UpdateThreshold(stream_initial'[t]) <= Local
               /\ can_receive(state'[t]) => acc'[t] < Local
    <3>1. CASE t = s
      BY <2>1, <2>2, <3>1, ThresholdWithin DEF IndInv, RecvTypeOK
    <3>2. CASE t # s
      BY <2>1, <2>2, <3>2 DEF IndInv, RecvTypeOK, Held, Known
    <3>3. QED
      BY <3>1, <3>2
  <2>3. QED
    BY <2>1, <2>2 DEF Held
<1>2. ASSUME NEW size \in InitialSizes, Settings(size) PROVE Held'
  <2>1. /\ state' = state /\ acc' = acc /\ starved \subseteq starved'
        /\ size \in Nat
        /\ \A t \in Streams : Known(t) => stream_initial'[t] = size
        /\ \A t \in Streams :
             t \notin starved' /\ Known(t) => ~(UpdateThreshold(size) > Local)
    BY <1>2 DEF Settings, OutOfReach, Held
  <2>2. ASSUME NEW t \in Streams, t \notin starved'
        PROVE  /\ Known(t)' => UpdateThreshold(stream_initial'[t]) <= Local
               /\ can_receive(state'[t]) => acc'[t] < Local
    BY <2>1, <2>2, ThresholdWithin DEF Held, Known
  <2>3. QED
    BY <2>1, <2>2 DEF Held
<1>3. QED
  BY <1>1, <1>2

(* Neither policy ever stalls the server on a stream whose thresholds stay *)
(* within our window, nor on the connection.                               *)
THEOREM NoReceiveStall == RecvSpec => []NeverStalled
<1> USE RecvWindowAssumption
<1>1. RecvInit => Held
  BY DEF RecvInit, Held, Known, can_receive
<1>2. IndInv /\ Held /\ [RecvNext]_recv_vars => Held'
  <2> SUFFICES ASSUME IndInv, Held, [RecvNext]_recv_vars PROVE Held'
    OBVIOUS
  <2>1. ASSUME NEW s \in Streams, NEW n \in Frames, NEW end \in BOOLEAN, Data(s, n, end)
        PROVE  Held'
    BY <2>1, DataHeld
  <2>2. CASE (\E s \in Streams : OpenStream(s)) \/ \E size \in InitialSizes : Settings(size)
    BY <2>2, SizesHeld
  <2>3. ASSUME NEW s \in Streams,
               \/ RequestSent(s) \/ Trailers(s) \/ Reset(s) \/ RefusedUpdate(s)
        PROVE  Held'
    <3>1. UNCHANGED <<stream_initial, acc, starved>>
      BY <2>3 DEF RequestSent, Trailers, Reset, RefusedUpdate
    <3>2. \A t \in Streams :
             (Known(t)' => Known(t)) /\ (can_receive(state'[t]) => can_receive(state[t]))
      BY <2>3 DEF IndInv, RecvTypeOK, Known, can_receive, RequestSent, Trailers, Reset,
                  RefusedUpdate, send_end_stream, recv_end_stream, cleanup_closed_streams
    <3>3. QED
      BY <3>1, <3>2 DEF Held
  <2>4. CASE UNCHANGED <<engine, starved>>
    BY <2>4 DEF engine, Held, Known
  <2>5. QED
    BY <2>1, <2>2, <2>3, <2>4
       DEF RecvNext, recv_vars, ConnCredit, StreamCredit, SeesReset
<1>3. IndInv /\ Held => NeverStalled
  BY DEF IndInv, RecvTypeOK, ConnInv, StreamInv, Held, NeverStalled
<1>4. QED
  BY <1>1, <1>2, <1>3, Invariance, PTL DEF RecvSpec

(* Downloads: the two ends agree on the windows and no credit is lost.     *)
THEOREM CreditIsSound == RecvSpec => []CreditSound
BY ServerNeverAccused, CreditIsKept, PTL DEF CreditSound
=============================================================================
