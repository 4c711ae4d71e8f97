------------------------------ MODULE H2Proofs ------------------------------
(***************************************************************************)
(* Proofs about the HTTP/2 connection: its driver (H2Driver), for any      *)
(* number of requests and any limit on streams, and the windows it sends   *)
(* under (H2SendWindow), for any streams, bodies and window sizes; what    *)
(* all streams together took from the connection window is exact.          *)
(***************************************************************************)
EXTENDS H2Driver, H2SendWindow, FiniteSetTheorems, TLAPS

-----------------------------------------------------------------------------
(* The driver                                                              *)

USE DEF KnownStates

Queued == cmds \union waiting

(* Where the future of a request stands decides where the request can be.  *)
Placement ==
    /\ First \notin Queued
    /\ \A r \in Req :
          /\ caller[r] \in {"idle", "acquiring", "sending"} =>
                /\ r # First /\ ticket[r] = 0 /\ r \notin Queued \union pending
                /\ hdr[r] = "empty" /\ body[r] = "open"
          /\ r \in Queued => ticket[r] > 0 /\ sid[r] = 0 /\ hdr[r] = "empty"
          /\ r \in pending => sid[r] > 0
          /\ sid[r] > 0 /\ r # First => ticket[r] > 0
          /\ r \in Queued \union pending => body[r] = "open"

(* Before the start and after the end the driver holds nothing; once it    *)
(* shuts down nobody can send to it any more.                              *)
Bounds ==
    /\ phase = "starting" =>
          /\ sid = [r \in Req |-> 0] /\ ~handle /\ ~error /\ ~shutdown
          /\ \A r \in Req : hdr[r] = "empty" /\ body[r] = "open"
          /\ \A r \in Req \ {First} : caller[r] = "idle"
    /\ phase = "starting" \/ Over => cmds = {} /\ waiting = {} /\ pending = {}
    /\ shutdown => ~handle /\ Senders = {} /\ cmds = {}
    /\ MaxPending = 0 => permits = {} /\ \A r \in Req : caller[r] # "acquiring"

(* Tickets and stream ids are handed out in increasing order, and the      *)
(* commands, the queue and the streams follow each other in ticket order.  *)
Order ==
    /\ \A r \in Req : ticket[r] <= Cardinality(Sent)
    /\ \A r \in Req : sid[r] <= Cardinality(Opened)
    /\ \A r \in waiting, q \in cmds : ticket[r] < ticket[q]
    /\ \A r \in Req \ {First}, q \in Queued : sid[r] > 0 => ticket[r] < ticket[q]
    /\ \A r, q \in Queued : ticket[r] = ticket[q] => r = q

ErrorDrains ==
    /\ error => pending = {}
    /\ error /\ phase = "select" => waiting = {}

DriverInv ==
    /\ TypeOK /\ Placement /\ Bounds /\ Order /\ ErrorDrains
    /\ NoCallerForgotten /\ PermitsExact /\ ServedInOrder
    /\ CutOnlyByAbortOrGoaway

-----------------------------------------------------------------------------
(* Counting.                                                               *)

(* A set of requests can be counted, and has at most as many as there are. *)
LEMMA Countable ==
    ASSUME NEW S, S \subseteq Req
    PROVE  /\ IsFiniteSet(S)
           /\ Cardinality(S) \in Nat
           /\ Cardinality(Req) \in Nat
           /\ Cardinality(S) <= Cardinality(Req)
BY FS_Subset, FS_CardinalityType, H2DriverAssumption

(* Giving a number to a request that has none counts one more request.     *)
LEMMA CountOneMore ==
    ASSUME NEW f \in [Req -> Nat], NEW r \in Req, f[r] = 0, NEW n \in Nat, n > 0
    PROVE  LET S == {q \in Req : f[q] > 0}
               T == {q \in Req : [f EXCEPT ![r] = n][q] > 0}
           IN  /\ Cardinality(S) \in Nat
               /\ Cardinality(T) = Cardinality(S) + 1
               /\ Cardinality(T) \in Nat
               /\ Cardinality(Req) \in Nat
               /\ Cardinality(T) <= Cardinality(Req)
<1> DEFINE S == {q \in Req : f[q] > 0}
           T == {q \in Req : [f EXCEPT ![r] = n][q] > 0}
<1>1. S \subseteq Req /\ T \subseteq Req /\ T = S \union {r} /\ r \notin S
  OBVIOUS
<1> HIDE DEF S, T
<1>2. IsFiniteSet(S)
  BY <1>1, Countable
<1>3. Cardinality(S \union {r}) = Cardinality(S) + 1
  BY <1>1, <1>2, FS_AddElement
<1>4. QED
  BY <1>1, <1>3, Countable DEF S, T

(* cmd_tx.send gives the next ticket.                                      *)
LEMMA TicketTaken ==
    ASSUME TypeOK, NEW r \in Req, ticket[r] = 0,
           ticket' = [ticket EXCEPT ![r] = NextTicket]
    PROVE  /\ Cardinality(Sent) \in Nat
           /\ Cardinality(Sent') = Cardinality(Sent) + 1
           /\ NextTicket = Cardinality(Sent) + 1
           /\ ticket' \in [Req -> 0..Cardinality(Req)]
<1>1. ticket \in [Req -> Nat] /\ Cardinality(Req) \in Nat
  BY Countable DEF TypeOK
<1>2. Cardinality(Sent) \in Nat
  BY Countable DEF Sent
<1>3. NextTicket \in Nat /\ NextTicket > 0 /\ NextTicket = Cardinality(Sent) + 1
  BY <1>2 DEF NextTicket
<1>4. Sent' = {q \in Req : [ticket EXCEPT ![r] = NextTicket][q] > 0}
  BY DEF Sent
<1>5. /\ Cardinality(Sent') = Cardinality(Sent) + 1
      /\ Cardinality(Sent') <= Cardinality(Req)
  BY <1>1, <1>3, <1>4, CountOneMore DEF Sent
<1>6. QED
  BY <1>1, <1>2, <1>3, <1>5 DEF TypeOK

(* open_stream gives the next stream id.                                   *)
LEMMA StreamTaken ==
    ASSUME TypeOK, NEW r \in Req, sid[r] = 0, OpenStream(r)
    PROVE  /\ Cardinality(Opened) \in Nat
           /\ Cardinality(Opened') = Cardinality(Opened) + 1
           /\ NextStream = Cardinality(Opened) + 1
           /\ sid' \in [Req -> 0..Cardinality(Req)]
           /\ sid' = [sid EXCEPT ![r] = NextStream]
           /\ streams' \in [Req -> StreamStates]
<1>1. sid' = [sid EXCEPT ![r] = NextStream]
  BY DEF OpenStream
<1>2. sid \in [Req -> Nat] /\ Cardinality(Req) \in Nat
  BY Countable DEF TypeOK
<1>3. Cardinality(Opened) \in Nat
  BY Countable DEF Opened
<1>4. NextStream \in Nat /\ NextStream > 0 /\ NextStream = Cardinality(Opened) + 1
  BY <1>3 DEF NextStream
<1>5. Opened' = {q \in Req : [sid EXCEPT ![r] = NextStream][q] > 0}
  BY <1>1 DEF Opened
<1>6. /\ Cardinality(Opened') = Cardinality(Opened) + 1
      /\ Cardinality(Opened') <= Cardinality(Req)
  BY <1>2, <1>4, <1>5, CountOneMore DEF Opened
<1>7. streams' \in [Req -> StreamStates]
  BY DEF OpenStream, TypeOK, StreamStates
<1>8. QED
  BY <1>1, <1>2, <1>3, <1>4, <1>6, <1>7 DEF TypeOK

(* Giving permits back keeps their number below the limit.                 *)
LEMMA PermitsShrink ==
    ASSUME permits \subseteq Req, NEW Q, Q \subseteq permits,
           Cardinality(permits) <= MaxPending
    PROVE  Cardinality(Q) <= MaxPending
<1>1. IsFiniteSet(permits) /\ Cardinality(permits) \in Nat
  BY Countable
<1>2. IsFiniteSet(Q) /\ Cardinality(Q) <= Cardinality(permits) /\ Cardinality(Q) \in Nat
  BY <1>1, FS_Subset, FS_CardinalityType
<1>3. QED
  BY <1>1, <1>2, H2DriverAssumption

-----------------------------------------------------------------------------
(* The initial state.                                                      *)
LEMMA DriverInitInv == Init => DriverInv
<1> SUFFICES ASSUME Init PROVE DriverInv
  OBVIOUS
<1> USE H2DriverAssumption DEF Init
<1>1. Cardinality(Req) \in Nat
  BY FS_CardinalityType
<1>2. TypeOK
  <2>1. caller \in [Req -> CallerStates]
    BY DEF CallerStates
  <2>2. ticket \in [Req -> 0..Cardinality(Req)] /\ sid \in [Req -> 0..Cardinality(Req)]
    BY <1>1
  <2>3. QED
    BY <2>1, <2>2 DEF TypeOK, StreamStates, Phases
<1>3. Placement /\ Bounds /\ ErrorDrains
  BY DEF Placement, Queued, Bounds, Over, Senders, ErrorDrains
<1>4. Order
  <2>1. Cardinality(Sent) \in Nat /\ Cardinality(Opened) \in Nat
    BY Countable DEF Sent, Opened
  <2>2. QED
    BY <2>1 DEF Order, Sent, Opened, Queued
<1>5. NoCallerForgotten /\ ServedInOrder /\ CutOnlyByAbortOrGoaway
  BY DEF NoCallerForgotten, ServedInOrder, CutOnlyByAbortOrGoaway
<1>6. PermitsExact
  BY FS_EmptySet DEF PermitsExact
<1>7. QED
  BY <1>2, <1>3, <1>4, <1>5, <1>6 DEF DriverInv

-----------------------------------------------------------------------------
(* Preservation of DriverInv, one lemma per action.                           *)

(* DriverInv is kept by the steps of a caller that only move its future, or    *)
(* give its permit back.                                                    *)
LEMMA CallerInv ==
    ASSUME DriverInv, NEW r \in Req, 
               \/ Call(r) \/ AcquireFails(r) \/ SendFails(r)
               \/ ReceiveHeaders(r) \/ ReceiveError(r) \/ DropUnsent(r)
               \/ DropWaiting(r) \/ FinishDrop(r) \/ DropBody(r)
    PROVE  DriverInv'
<1> USE H2DriverAssumption DEF engine_vars, Call, AcquireFails, SendFails,
            ReceiveHeaders, ReceiveError, DropUnsent, DropWaiting,
            FinishDrop, DropBody
<1>a. Sent' = Sent
  BY DEF Sent
<1>b. Opened' = Opened
  BY DEF Opened
<1>c. Cardinality(Sent) \in Nat /\ Cardinality(Opened) \in Nat
  BY Countable DEF Sent, Opened
<1>1. TypeOK'
  BY <1>a, <1>b DEF DriverInv, TypeOK, CallerStates, StreamStates, Phases
<1>2. Placement'
  BY <1>a, <1>b, <1>c DEF DriverInv, TypeOK, Placement, Queued, NoCallerForgotten, Bounds, Over
<1>3. Bounds'
  BY <1>a, <1>b, <1>c
  DEF DriverInv, TypeOK, Bounds, Over, Senders, Placement, PermitsExact, Phases
<1>4. Order'
  BY <1>a, <1>b, <1>c DEF DriverInv, TypeOK, Order, Queued, Placement
<1>5. ErrorDrains'
  BY DEF DriverInv, TypeOK, ErrorDrains, Bounds, Over
<1>6. NoCallerForgotten'
  BY <1>a, <1>b
  DEF DriverInv, TypeOK, NoCallerForgotten, Placement, Queued, Over, Bounds, Senders, Phases
<1>7. PermitsExact'
  <2>1. permits' \subseteq permits /\ permits \subseteq Req
    BY DEF DriverInv, TypeOK
  <2>2. MaxPending > 0 => Cardinality(permits') <= MaxPending
    BY <2>1, PermitsShrink DEF DriverInv, PermitsExact
  <2>3. QED
    BY <2>1, <2>2
    DEF DriverInv, TypeOK, PermitsExact, Placement, Queued, NoCallerForgotten, Bounds, Over
<1>8. ServedInOrder'
  BY <1>a, <1>b, <1>c DEF DriverInv, TypeOK, ServedInOrder, Order, Queued, Placement
<1>9. CutOnlyByAbortOrGoaway'
  BY DEF DriverInv, TypeOK, CutOnlyByAbortOrGoaway, Placement, Queued, Bounds, Over
<1>10. QED
  BY <1>1, <1>2, <1>3, <1>4, <1>5, <1>6, <1>7, <1>8, <1>9 DEF DriverInv

(* DriverInv is kept by a pending slot taken while one was free.               *)
LEMMA AcquireInv ==
    ASSUME DriverInv, NEW r \in Req, Acquire(r)
    PROVE  DriverInv'
<1> USE H2DriverAssumption DEF engine_vars, Acquire
<1>a. Sent' = Sent
  BY DEF Sent
<1>b. Opened' = Opened
  BY DEF Opened
<1>c. Cardinality(Sent) \in Nat /\ Cardinality(Opened) \in Nat
  BY Countable DEF Sent, Opened
<1>1. TypeOK'
  BY <1>a, <1>b DEF DriverInv, TypeOK, CallerStates, StreamStates, Phases
<1>2. Placement'
  BY <1>a, <1>b, <1>c DEF DriverInv, TypeOK, Placement, Queued, NoCallerForgotten, Bounds, Over
<1>3. Bounds'
  BY <1>a, <1>b, <1>c
  DEF DriverInv, TypeOK, Bounds, Over, Senders, Placement, PermitsExact, Phases
<1>4. Order'
  BY <1>a, <1>b, <1>c DEF DriverInv, TypeOK, Order, Queued, Placement
<1>5. ErrorDrains'
  BY DEF DriverInv, TypeOK, ErrorDrains, Bounds, Over
<1>6. NoCallerForgotten'
  BY <1>a, <1>b
  DEF DriverInv, TypeOK, NoCallerForgotten, Placement, Queued, Over, Bounds, Senders, Phases
<1>7. PermitsExact'
  <2>1. r \notin permits /\ permits \subseteq Req /\ MaxPending > 0
    BY DEF DriverInv, TypeOK, PermitsExact, Placement, Queued, Bounds
  <2>2. IsFiniteSet(permits) /\ Cardinality(permits) \in Nat
    BY <2>1, Countable
  <2>3. Cardinality(permits \union {r}) = Cardinality(permits) + 1
    BY <2>1, <2>2, FS_AddElement
  <2>4. QED
    BY <2>1, <2>2, <2>3 DEF DriverInv, TypeOK, PermitsExact, Placement, Queued
<1>8. ServedInOrder'
  BY <1>a, <1>b, <1>c DEF DriverInv, TypeOK, ServedInOrder, Order, Queued, Placement
<1>9. CutOnlyByAbortOrGoaway'
  BY DEF DriverInv, TypeOK, CutOnlyByAbortOrGoaway, Placement, Queued, Bounds, Over
<1>10. QED
  BY <1>1, <1>2, <1>3, <1>4, <1>5, <1>6, <1>7, <1>8, <1>9 DEF DriverInv

(* DriverInv is kept by a command that enters the channel last.                *)
LEMMA HandOverInv ==
    ASSUME DriverInv, NEW r \in Req, Send(r)
    PROVE  DriverInv'
<1> USE H2DriverAssumption DEF engine_vars, Send
<1>1. ticket[r] = 0 /\ TypeOK
  BY DEF DriverInv, Placement
<1>a. /\ Cardinality(Sent) \in Nat
      /\ Cardinality(Sent') = Cardinality(Sent) + 1
      /\ NextTicket = Cardinality(Sent) + 1
      /\ ticket' \in [Req -> 0..Cardinality(Req)]
  BY <1>1, TicketTaken
<1>b. Opened' = Opened
  BY DEF Opened
<1>c. Cardinality(Sent) \in Nat /\ Cardinality(Opened) \in Nat
  BY Countable DEF Sent, Opened
<1>2. TypeOK'
  BY <1>a, <1>b DEF DriverInv, TypeOK, CallerStates, StreamStates, Phases
<1>3. Placement'
  BY <1>a, <1>b, <1>c DEF DriverInv, TypeOK, Placement, Queued, NoCallerForgotten, Bounds, Over
<1>4. Bounds'
  BY <1>a, <1>b, <1>c
  DEF DriverInv, TypeOK, Bounds, Over, Senders, Placement, PermitsExact, Phases
<1>5. Order'
  BY <1>a, <1>b, <1>c DEF DriverInv, TypeOK, Order, Queued, Placement
<1>6. ErrorDrains'
  BY DEF DriverInv, TypeOK, ErrorDrains, Bounds, Over
<1>7. NoCallerForgotten'
  BY <1>a, <1>b
  DEF DriverInv, TypeOK, NoCallerForgotten, Placement, Queued, Over, Bounds, Senders, Phases
<1>8. PermitsExact'
  <2>1. permits' \subseteq permits /\ permits \subseteq Req
    BY DEF DriverInv, TypeOK
  <2>2. MaxPending > 0 => Cardinality(permits') <= MaxPending
    BY <2>1, PermitsShrink DEF DriverInv, PermitsExact
  <2>3. QED
    BY <2>1, <2>2
    DEF DriverInv, TypeOK, PermitsExact, Placement, Queued, NoCallerForgotten, Bounds, Over
<1>9. ServedInOrder'
  BY <1>a, <1>b, <1>c DEF DriverInv, TypeOK, ServedInOrder, Order, Queued, Placement
<1>10. CutOnlyByAbortOrGoaway'
  BY DEF DriverInv, TypeOK, CutOnlyByAbortOrGoaway, Placement, Queued, Bounds, Over
<1>11. QED
  BY <1>2, <1>3, <1>4, <1>5, <1>6, <1>7, <1>8, <1>9, <1>10 DEF DriverInv

(* DriverInv is kept by the preface and the first request.                     *)
LEMMA StartInv ==
    ASSUME DriverInv, Start
    PROVE  DriverInv'
<1> USE H2DriverAssumption DEF engine_vars, Start
<1>1. sid = [q \in Req |-> 0] /\ TypeOK
  BY DEF DriverInv, Bounds
<1>a. Sent' = Sent
  BY DEF Sent
<1>d. Cardinality(Sent) \in Nat /\ Cardinality(Opened) \in Nat
  BY Countable DEF Sent, Opened
<1>b. /\ Cardinality(Opened') \in Nat
      /\ sid' \in [Req -> 0..Cardinality(Req)]
      /\ streams' \in [Req -> StreamStates]
      /\ \A r \in Req : sid'[r] <= Cardinality(Opened')
      /\ \A r \in Req \ {First} : sid'[r] = 0
      /\ First \in Req => sid'[First] > 0
  <2>1. CASE First \in Req
    <3>1. OpenStream(First) /\ sid[First] = 0
      BY <1>1, <2>1
    <3>2. QED
      BY <1>1, <2>1, <3>1, StreamTaken DEF TypeOK
  <2>2. CASE First \notin Req
    <3>1. sid' = sid /\ streams' = streams /\ Opened' = Opened
      BY <2>2 DEF Opened
    <3>2. QED
      BY <1>1, <1>d, <2>2, <3>1 DEF TypeOK
  <2>3. QED
    BY <2>1, <2>2
<1>c. Cardinality(Sent) \in Nat /\ Cardinality(Opened) \in Nat
  BY Countable DEF Sent, Opened
<1>2. TypeOK'
  BY <1>a, <1>b DEF DriverInv, TypeOK, CallerStates, StreamStates, Phases
<1>3. Placement'
  BY <1>a, <1>b, <1>c DEF DriverInv, TypeOK, Placement, Queued, NoCallerForgotten, Bounds, Over
<1>4. Bounds'
  BY <1>a, <1>b, <1>c
  DEF DriverInv, TypeOK, Bounds, Over, Senders, Placement, PermitsExact, Phases
<1>5. Order'
  BY <1>a, <1>b, <1>c DEF DriverInv, TypeOK, Order, Queued, Placement
<1>6. ErrorDrains'
  BY DEF DriverInv, TypeOK, ErrorDrains, Bounds, Over
<1>7. NoCallerForgotten'
  BY <1>a, <1>b
  DEF DriverInv, TypeOK, NoCallerForgotten, Placement, Queued, Over, Bounds, Senders, Phases
<1>8. PermitsExact'
  <2>1. permits' \subseteq permits /\ permits \subseteq Req
    BY DEF DriverInv, TypeOK
  <2>2. MaxPending > 0 => Cardinality(permits') <= MaxPending
    BY <2>1, PermitsShrink DEF DriverInv, PermitsExact
  <2>3. QED
    BY <2>1, <2>2
    DEF DriverInv, TypeOK, PermitsExact, Placement, Queued, NoCallerForgotten, Bounds, Over
<1>9. ServedInOrder'
  BY <1>a, <1>b, <1>c DEF DriverInv, TypeOK, ServedInOrder, Order, Queued, Placement
<1>10. CutOnlyByAbortOrGoaway'
  BY DEF DriverInv, TypeOK, CutOnlyByAbortOrGoaway, Placement, Queued, Bounds, Over
<1>11. QED
  BY <1>2, <1>3, <1>4, <1>5, <1>6, <1>7, <1>8, <1>9, <1>10 DEF DriverInv

(* DriverInv is kept by a preface that cannot be written.                      *)
LEMMA StartFailsInv ==
    ASSUME DriverInv, StartFails
    PROVE  DriverInv'
<1> USE H2DriverAssumption DEF engine_vars, StartFails
<1>a. Sent' = Sent
  BY DEF Sent
<1>b. Opened' = Opened
  BY DEF Opened
<1>c. Cardinality(Sent) \in Nat /\ Cardinality(Opened) \in Nat
  BY Countable DEF Sent, Opened
<1>1. TypeOK'
  BY <1>a, <1>b DEF DriverInv, TypeOK, CallerStates, StreamStates, Phases
<1>2. Placement'
  BY <1>a, <1>b, <1>c DEF DriverInv, TypeOK, Placement, Queued, NoCallerForgotten, Bounds, Over
<1>3. Bounds'
  BY <1>a, <1>b, <1>c
  DEF DriverInv, TypeOK, Bounds, Over, Senders, Placement, PermitsExact, Phases
<1>4. Order'
  BY <1>a, <1>b, <1>c DEF DriverInv, TypeOK, Order, Queued, Placement
<1>5. ErrorDrains'
  BY DEF DriverInv, TypeOK, ErrorDrains, Bounds, Over
<1>6. NoCallerForgotten'
  BY <1>a, <1>b
  DEF DriverInv, TypeOK, NoCallerForgotten, Placement, Queued, Over, Bounds, Senders, Phases
<1>7. PermitsExact'
  <2>1. permits' \subseteq permits /\ permits \subseteq Req
    BY DEF DriverInv, TypeOK
  <2>2. MaxPending > 0 => Cardinality(permits') <= MaxPending
    BY <2>1, PermitsShrink DEF DriverInv, PermitsExact
  <2>3. QED
    BY <2>1, <2>2
    DEF DriverInv, TypeOK, PermitsExact, Placement, Queued, NoCallerForgotten, Bounds, Over
<1>8. ServedInOrder'
  BY <1>a, <1>b, <1>c DEF DriverInv, TypeOK, ServedInOrder, Order, Queued, Placement
<1>9. CutOnlyByAbortOrGoaway'
  BY DEF DriverInv, TypeOK, CutOnlyByAbortOrGoaway, Placement, Queued, Bounds, Over
<1>10. QED
  BY <1>1, <1>2, <1>3, <1>4, <1>5, <1>6, <1>7, <1>8, <1>9 DEF DriverInv

(* DriverInv is kept by a cancellation, whether or not its request is          *)
(* queued.                                                                  *)
LEMMA HandleCancelInv ==
    ASSUME DriverInv, NEW r \in Req, HandleCancel(r)
    PROVE  DriverInv'
<1> USE H2DriverAssumption DEF engine_vars, HandleCancel, Settle
<1>a. Sent' = Sent
  BY DEF Sent
<1>b. Opened' = Opened
  BY DEF Opened
<1>c. Cardinality(Sent) \in Nat /\ Cardinality(Opened) \in Nat
  BY Countable DEF Sent, Opened
<1>1. TypeOK'
  BY <1>a, <1>b DEF DriverInv, TypeOK, CallerStates, StreamStates, Phases
<1>2. Placement'
  BY <1>a, <1>b, <1>c DEF DriverInv, TypeOK, Placement, Queued, NoCallerForgotten, Bounds, Over
<1>3. Bounds'
  BY <1>a, <1>b, <1>c
  DEF DriverInv, TypeOK, Bounds, Over, Senders, Placement, PermitsExact, Phases
<1>4. Order'
  BY <1>a, <1>b, <1>c DEF DriverInv, TypeOK, Order, Queued, Placement
<1>5. ErrorDrains'
  BY DEF DriverInv, TypeOK, ErrorDrains, Bounds, Over
<1>6. NoCallerForgotten'
  BY <1>a, <1>b
  DEF DriverInv, TypeOK, NoCallerForgotten, Placement, Queued, Over, Bounds, Senders, Phases
<1>7. PermitsExact'
  <2>1. permits' \subseteq permits /\ permits \subseteq Req
    BY DEF DriverInv, TypeOK
  <2>2. MaxPending > 0 => Cardinality(permits') <= MaxPending
    BY <2>1, PermitsShrink DEF DriverInv, PermitsExact
  <2>3. QED
    BY <2>1, <2>2
    DEF DriverInv, TypeOK, PermitsExact, Placement, Queued, NoCallerForgotten, Bounds, Over
<1>8. ServedInOrder'
  BY <1>a, <1>b, <1>c DEF DriverInv, TypeOK, ServedInOrder, Order, Queued, Placement
<1>9. CutOnlyByAbortOrGoaway'
  BY DEF DriverInv, TypeOK, CutOnlyByAbortOrGoaway, Placement, Queued, Bounds, Over
<1>10. QED
  BY <1>1, <1>2, <1>3, <1>4, <1>5, <1>6, <1>7, <1>8, <1>9 DEF DriverInv

(* DriverInv is kept by the oldest command moved to the queue.                 *)
LEMMA HandleCommandInv ==
    ASSUME DriverInv, NEW r \in Req, HandleCommand(r)
    PROVE  DriverInv'
<1> USE H2DriverAssumption DEF engine_vars, HandleCommand, Settle,
            is_canceled, IsFront
<1>a. Sent' = Sent
  BY DEF Sent
<1>b. Opened' = Opened
  BY DEF Opened
<1>c. Cardinality(Sent) \in Nat /\ Cardinality(Opened) \in Nat
  BY Countable DEF Sent, Opened
<1>1. TypeOK'
  BY <1>a, <1>b DEF DriverInv, TypeOK, CallerStates, StreamStates, Phases
<1>2. Placement'
  BY <1>a, <1>b, <1>c DEF DriverInv, TypeOK, Placement, Queued, NoCallerForgotten, Bounds, Over
<1>3. Bounds'
  BY <1>a, <1>b, <1>c
  DEF DriverInv, TypeOK, Bounds, Over, Senders, Placement, PermitsExact, Phases
<1>4. Order'
  BY <1>a, <1>b, <1>c DEF DriverInv, TypeOK, Order, Queued, Placement
<1>5. ErrorDrains'
  BY DEF DriverInv, TypeOK, ErrorDrains, Bounds, Over
<1>6. NoCallerForgotten'
  BY <1>a, <1>b
  DEF DriverInv, TypeOK, NoCallerForgotten, Placement, Queued, Over, Bounds, Senders, Phases
<1>7. PermitsExact'
  <2>1. permits' \subseteq permits /\ permits \subseteq Req
    BY DEF DriverInv, TypeOK
  <2>2. MaxPending > 0 => Cardinality(permits') <= MaxPending
    BY <2>1, PermitsShrink DEF DriverInv, PermitsExact
  <2>3. QED
    BY <2>1, <2>2
    DEF DriverInv, TypeOK, PermitsExact, Placement, Queued, NoCallerForgotten, Bounds, Over
<1>8. ServedInOrder'
  BY <1>a, <1>b, <1>c DEF DriverInv, TypeOK, ServedInOrder, Order, Queued, Placement
<1>9. CutOnlyByAbortOrGoaway'
  BY DEF DriverInv, TypeOK, CutOnlyByAbortOrGoaway, Placement, Queued, Bounds, Over
<1>10. QED
  BY <1>1, <1>2, <1>3, <1>4, <1>5, <1>6, <1>7, <1>8, <1>9 DEF DriverInv

(* DriverInv is kept by the steps that only move the driver through its        *)
(* loop.                                                                    *)
LEMMA TurnInv ==
    ASSUME DriverInv, DropHandle \/ HandlesGone \/ EndOfRead \/ DispatchEnd
    PROVE  DriverInv'
<1> USE H2DriverAssumption DEF engine_vars, DropHandle, HandlesGone,
            EndOfRead, DispatchEnd, Senders, EndOfTurn, is_goaway,
            can_open_stream
<1>a. Sent' = Sent
  BY DEF Sent
<1>b. Opened' = Opened
  BY DEF Opened
<1>c. Cardinality(Sent) \in Nat /\ Cardinality(Opened) \in Nat
  BY Countable DEF Sent, Opened
<1>1. TypeOK'
  BY <1>a, <1>b DEF DriverInv, TypeOK, CallerStates, StreamStates, Phases
<1>2. Placement'
  BY <1>a, <1>b, <1>c DEF DriverInv, TypeOK, Placement, Queued, NoCallerForgotten, Bounds, Over
<1>3. Bounds'
  BY <1>a, <1>b, <1>c
  DEF DriverInv, TypeOK, Bounds, Over, Senders, Placement, PermitsExact, Phases
<1>4. Order'
  BY <1>a, <1>b, <1>c DEF DriverInv, TypeOK, Order, Queued, Placement
<1>5. ErrorDrains'
  BY DEF DriverInv, TypeOK, ErrorDrains, Bounds, Over
<1>6. NoCallerForgotten'
  BY <1>a, <1>b
  DEF DriverInv, TypeOK, NoCallerForgotten, Placement, Queued, Over, Bounds, Senders, Phases
<1>7. PermitsExact'
  <2>1. permits' \subseteq permits /\ permits \subseteq Req
    BY DEF DriverInv, TypeOK
  <2>2. MaxPending > 0 => Cardinality(permits') <= MaxPending
    BY <2>1, PermitsShrink DEF DriverInv, PermitsExact
  <2>3. QED
    BY <2>1, <2>2
    DEF DriverInv, TypeOK, PermitsExact, Placement, Queued, NoCallerForgotten, Bounds, Over
<1>8. ServedInOrder'
  BY <1>a, <1>b, <1>c DEF DriverInv, TypeOK, ServedInOrder, Order, Queued, Placement
<1>9. CutOnlyByAbortOrGoaway'
  BY DEF DriverInv, TypeOK, CutOnlyByAbortOrGoaway, Placement, Queued, Bounds, Over
<1>10. QED
  BY <1>1, <1>2, <1>3, <1>4, <1>5, <1>6, <1>7, <1>8, <1>9 DEF DriverInv

(* DriverInv is kept by the ends of the driver.                                *)
LEMMA StopInv ==
    ASSUME DriverInv, ShutdownTimeout \/ ConnectionLost \/ Abort
    PROVE  DriverInv'
<1> USE H2DriverAssumption DEF engine_vars, ShutdownTimeout, ConnectionLost,
            Abort, Stop, Settle
<1>a. Sent' = Sent
  BY DEF Sent
<1>b. Opened' = Opened
  BY DEF Opened
<1>c. Cardinality(Sent) \in Nat /\ Cardinality(Opened) \in Nat
  BY Countable DEF Sent, Opened
<1>1. TypeOK'
  BY <1>a, <1>b, ZenonT(60) DEF DriverInv, TypeOK, CallerStates, StreamStates, Phases
<1>2. Placement'
  BY <1>a, <1>b, <1>c DEF DriverInv, TypeOK, Placement, Queued, NoCallerForgotten, Bounds, Over
<1>3. Bounds'
  BY <1>a, <1>b, <1>c
  DEF DriverInv, TypeOK, Bounds, Over, Senders, Placement, PermitsExact, Phases
<1>4. Order'
  BY <1>a, <1>b, <1>c DEF DriverInv, TypeOK, Order, Queued, Placement
<1>5. ErrorDrains'
  BY DEF DriverInv, TypeOK, ErrorDrains, Bounds, Over
<1>6. NoCallerForgotten'
  BY <1>a, <1>b
  DEF DriverInv, TypeOK, NoCallerForgotten, Placement, Queued, Over, Bounds, Senders, Phases
<1>7. PermitsExact'
  <2>1. permits' \subseteq permits /\ permits \subseteq Req
    BY DEF DriverInv, TypeOK
  <2>2. MaxPending > 0 => Cardinality(permits') <= MaxPending
    BY <2>1, PermitsShrink DEF DriverInv, PermitsExact
  <2>3. QED
    BY <2>1, <2>2
    DEF DriverInv, TypeOK, PermitsExact, Placement, Queued, NoCallerForgotten, Bounds, Over
<1>8. ServedInOrder'
  BY <1>a, <1>b, <1>c DEF DriverInv, TypeOK, ServedInOrder, Order, Queued, Placement
<1>9. CutOnlyByAbortOrGoaway'
  BY DEF DriverInv, TypeOK, CutOnlyByAbortOrGoaway, Placement, Queued, Bounds, Over
<1>10. QED
  BY <1>1, <1>2, <1>3, <1>4, <1>5, <1>6, <1>7, <1>8, <1>9 DEF DriverInv

(* DriverInv is kept by SETTINGS.                                              *)
LEMMA ReadSettingsInv ==
    ASSUME DriverInv, NEW l \in Limits, ReadSettings(l)
    PROVE  DriverInv'
<1> USE H2DriverAssumption DEF engine_vars, ReadSettings, Frame
<1>a. Sent' = Sent
  BY DEF Sent
<1>b. Opened' = Opened
  BY DEF Opened
<1>c. Cardinality(Sent) \in Nat /\ Cardinality(Opened) \in Nat
  BY Countable DEF Sent, Opened
<1>1. TypeOK'
  BY <1>a, <1>b DEF DriverInv, TypeOK, CallerStates, StreamStates, Phases
<1>2. Placement'
  BY <1>a, <1>b, <1>c DEF DriverInv, TypeOK, Placement, Queued, NoCallerForgotten, Bounds, Over
<1>3. Bounds'
  BY <1>a, <1>b, <1>c
  DEF DriverInv, TypeOK, Bounds, Over, Senders, Placement, PermitsExact, Phases
<1>4. Order'
  BY <1>a, <1>b, <1>c DEF DriverInv, TypeOK, Order, Queued, Placement
<1>5. ErrorDrains'
  BY DEF DriverInv, TypeOK, ErrorDrains, Bounds, Over
<1>6. NoCallerForgotten'
  BY <1>a, <1>b
  DEF DriverInv, TypeOK, NoCallerForgotten, Placement, Queued, Over, Bounds, Senders, Phases
<1>7. PermitsExact'
  <2>1. permits' \subseteq permits /\ permits \subseteq Req
    BY DEF DriverInv, TypeOK
  <2>2. MaxPending > 0 => Cardinality(permits') <= MaxPending
    BY <2>1, PermitsShrink DEF DriverInv, PermitsExact
  <2>3. QED
    BY <2>1, <2>2
    DEF DriverInv, TypeOK, PermitsExact, Placement, Queued, NoCallerForgotten, Bounds, Over
<1>8. ServedInOrder'
  BY <1>a, <1>b, <1>c DEF DriverInv, TypeOK, ServedInOrder, Order, Queued, Placement
<1>9. CutOnlyByAbortOrGoaway'
  BY DEF DriverInv, TypeOK, CutOnlyByAbortOrGoaway, Placement, Queued, Bounds, Over
<1>10. QED
  BY <1>1, <1>2, <1>3, <1>4, <1>5, <1>6, <1>7, <1>8, <1>9 DEF DriverInv

(* DriverInv is kept by HEADERS, interim or final.                             *)
LEMMA ReadHeadersInv ==
    ASSUME DriverInv, NEW r \in Req, NEW i \in BOOLEAN, NEW e \in BOOLEAN, ReadHeaders(r, i, e)
    PROVE  DriverInv'
<1> USE H2DriverAssumption DEF engine_vars, ReadHeaders, Frame,
            FinishResponse, recv_end_stream
<1>a. Sent' = Sent
  BY DEF Sent
<1>b. Opened' = Opened
  BY DEF Opened
<1>c. Cardinality(Sent) \in Nat /\ Cardinality(Opened) \in Nat
  BY Countable DEF Sent, Opened
<1>1. TypeOK'
  BY <1>a, <1>b DEF DriverInv, TypeOK, CallerStates, StreamStates, Phases
<1>2. Placement'
  BY <1>a, <1>b, <1>c DEF DriverInv, TypeOK, Placement, Queued, NoCallerForgotten, Bounds, Over
<1>3. Bounds'
  BY <1>a, <1>b, <1>c
  DEF DriverInv, TypeOK, Bounds, Over, Senders, Placement, PermitsExact, Phases
<1>4. Order'
  BY <1>a, <1>b, <1>c DEF DriverInv, TypeOK, Order, Queued, Placement
<1>5. ErrorDrains'
  BY DEF DriverInv, TypeOK, ErrorDrains, Bounds, Over
<1>6. NoCallerForgotten'
  BY <1>a, <1>b
  DEF DriverInv, TypeOK, NoCallerForgotten, Placement, Queued, Over, Bounds, Senders, Phases
<1>7. PermitsExact'
  <2>1. permits' \subseteq permits /\ permits \subseteq Req
    BY DEF DriverInv, TypeOK
  <2>2. MaxPending > 0 => Cardinality(permits') <= MaxPending
    BY <2>1, PermitsShrink DEF DriverInv, PermitsExact
  <2>3. QED
    BY <2>1, <2>2
    DEF DriverInv, TypeOK, PermitsExact, Placement, Queued, NoCallerForgotten, Bounds, Over
<1>8. ServedInOrder'
  BY <1>a, <1>b, <1>c DEF DriverInv, TypeOK, ServedInOrder, Order, Queued, Placement
<1>9. CutOnlyByAbortOrGoaway'
  BY DEF DriverInv, TypeOK, CutOnlyByAbortOrGoaway, Placement, Queued, Bounds, Over
<1>10. QED
  BY <1>1, <1>2, <1>3, <1>4, <1>5, <1>6, <1>7, <1>8, <1>9 DEF DriverInv

(* DriverInv is kept by DATA, on any stream.                                   *)
LEMMA ReadDataInv ==
    ASSUME DriverInv, NEW r \in Req, NEW e \in BOOLEAN, ReadData(r, e)
    PROVE  DriverInv'
<1> USE H2DriverAssumption DEF engine_vars, ReadData, Frame, FinishResponse,
            Settle, recv_end_stream, cleanup_closed_streams, Known
<1>a. Sent' = Sent
  BY DEF Sent
<1>b. Opened' = Opened
  BY DEF Opened
<1>c. Cardinality(Sent) \in Nat /\ Cardinality(Opened) \in Nat
  BY Countable DEF Sent, Opened
<1>1. TypeOK'
  BY <1>a, <1>b DEF DriverInv, TypeOK, CallerStates, StreamStates, Phases
<1>2. Placement'
  BY <1>a, <1>b, <1>c DEF DriverInv, TypeOK, Placement, Queued, NoCallerForgotten, Bounds, Over
<1>3. Bounds'
  BY <1>a, <1>b, <1>c
  DEF DriverInv, TypeOK, Bounds, Over, Senders, Placement, PermitsExact, Phases
<1>4. Order'
  BY <1>a, <1>b, <1>c DEF DriverInv, TypeOK, Order, Queued, Placement
<1>5. ErrorDrains'
  BY DEF DriverInv, TypeOK, ErrorDrains, Bounds, Over
<1>6. NoCallerForgotten'
  BY <1>a, <1>b
  DEF DriverInv, TypeOK, NoCallerForgotten, Placement, Queued, Over, Bounds, Senders, Phases
<1>7. PermitsExact'
  <2>1. permits' \subseteq permits /\ permits \subseteq Req
    BY DEF DriverInv, TypeOK
  <2>2. MaxPending > 0 => Cardinality(permits') <= MaxPending
    BY <2>1, PermitsShrink DEF DriverInv, PermitsExact
  <2>3. QED
    BY <2>1, <2>2
    DEF DriverInv, TypeOK, PermitsExact, Placement, Queued, NoCallerForgotten, Bounds, Over
<1>8. ServedInOrder'
  BY <1>a, <1>b, <1>c DEF DriverInv, TypeOK, ServedInOrder, Order, Queued, Placement
<1>9. CutOnlyByAbortOrGoaway'
  BY DEF DriverInv, TypeOK, CutOnlyByAbortOrGoaway, Placement, Queued, Bounds, Over
<1>10. QED
  BY <1>1, <1>2, <1>3, <1>4, <1>5, <1>6, <1>7, <1>8, <1>9 DEF DriverInv

(* DriverInv is kept by the frames that reset a stream.                        *)
LEMMA ReadResetInv ==
    ASSUME DriverInv, NEW r \in Req, 
               \/ ReadReset(r) \/ ReadDataBeyondWindow(r) \/ ReadWindowUpdate(r)
    PROVE  DriverInv'
<1> USE H2DriverAssumption DEF engine_vars, ReadReset, ReadDataBeyondWindow,
            ReadWindowUpdate, Frame, Settle, cleanup_closed_streams,
            send_end_stream, Known
<1>a. Sent' = Sent
  BY DEF Sent
<1>b. Opened' = Opened
  BY DEF Opened
<1>c. Cardinality(Sent) \in Nat /\ Cardinality(Opened) \in Nat
  BY Countable DEF Sent, Opened
<1>1. TypeOK'
  BY <1>a, <1>b DEF DriverInv, TypeOK, CallerStates, StreamStates, Phases
<1>2. Placement'
  BY <1>a, <1>b, <1>c DEF DriverInv, TypeOK, Placement, Queued, NoCallerForgotten, Bounds, Over
<1>3. Bounds'
  BY <1>a, <1>b, <1>c
  DEF DriverInv, TypeOK, Bounds, Over, Senders, Placement, PermitsExact, Phases
<1>4. Order'
  BY <1>a, <1>b, <1>c DEF DriverInv, TypeOK, Order, Queued, Placement
<1>5. ErrorDrains'
  BY DEF DriverInv, TypeOK, ErrorDrains, Bounds, Over
<1>6. NoCallerForgotten'
  BY <1>a, <1>b
  DEF DriverInv, TypeOK, NoCallerForgotten, Placement, Queued, Over, Bounds, Senders, Phases
<1>7. PermitsExact'
  <2>1. permits' \subseteq permits /\ permits \subseteq Req
    BY DEF DriverInv, TypeOK
  <2>2. MaxPending > 0 => Cardinality(permits') <= MaxPending
    BY <2>1, PermitsShrink DEF DriverInv, PermitsExact
  <2>3. QED
    BY <2>1, <2>2
    DEF DriverInv, TypeOK, PermitsExact, Placement, Queued, NoCallerForgotten, Bounds, Over
<1>8. ServedInOrder'
  BY <1>a, <1>b, <1>c DEF DriverInv, TypeOK, ServedInOrder, Order, Queued, Placement
<1>9. CutOnlyByAbortOrGoaway'
  BY DEF DriverInv, TypeOK, CutOnlyByAbortOrGoaway, Placement, Queued, Bounds, Over
<1>10. QED
  BY <1>1, <1>2, <1>3, <1>4, <1>5, <1>6, <1>7, <1>8, <1>9 DEF DriverInv

(* DriverInv is kept by GOAWAY, graceful or not.                               *)
LEMMA ReadGoawayInv ==
    ASSUME DriverInv, NEW n, NEW g \in BOOLEAN, ReadGoaway(n, g)
    PROVE  DriverInv'
<1> USE H2DriverAssumption DEF engine_vars, ReadGoaway, Frame
<1>a. Sent' = Sent
  BY DEF Sent
<1>b. Opened' = Opened
  BY DEF Opened
<1>c. Cardinality(Sent) \in Nat /\ Cardinality(Opened) \in Nat
  BY Countable DEF Sent, Opened
<1>1. TypeOK'
  BY <1>a, <1>b DEF DriverInv, TypeOK, CallerStates, StreamStates, Phases
<1>2. Placement'
  BY <1>a, <1>b, <1>c DEF DriverInv, TypeOK, Placement, Queued, NoCallerForgotten, Bounds, Over
<1>3. Bounds'
  BY <1>a, <1>b, <1>c
  DEF DriverInv, TypeOK, Bounds, Over, Senders, Placement, PermitsExact, Phases
<1>4. Order'
  BY <1>a, <1>b, <1>c DEF DriverInv, TypeOK, Order, Queued, Placement
<1>5. ErrorDrains'
  BY DEF DriverInv, TypeOK, ErrorDrains, Bounds, Over
<1>6. NoCallerForgotten'
  BY <1>a, <1>b
  DEF DriverInv, TypeOK, NoCallerForgotten, Placement, Queued, Over, Bounds, Senders, Phases
<1>7. PermitsExact'
  <2>1. permits' \subseteq permits /\ permits \subseteq Req
    BY DEF DriverInv, TypeOK
  <2>2. MaxPending > 0 => Cardinality(permits') <= MaxPending
    BY <2>1, PermitsShrink DEF DriverInv, PermitsExact
  <2>3. QED
    BY <2>1, <2>2
    DEF DriverInv, TypeOK, PermitsExact, Placement, Queued, NoCallerForgotten, Bounds, Over
<1>8. ServedInOrder'
  BY <1>a, <1>b, <1>c DEF DriverInv, TypeOK, ServedInOrder, Order, Queued, Placement
<1>9. CutOnlyByAbortOrGoaway'
  BY DEF DriverInv, TypeOK, CutOnlyByAbortOrGoaway, Placement, Queued, Bounds, Over
<1>10. QED
  BY <1>1, <1>2, <1>3, <1>4, <1>5, <1>6, <1>7, <1>8, <1>9 DEF DriverInv

(* DriverInv is kept by a dispatch on a failed connection.                     *)
LEMMA DispatchDrainingInv ==
    ASSUME DriverInv, DispatchDraining
    PROVE  DriverInv'
<1> USE H2DriverAssumption DEF engine_vars, DispatchDraining, Settle,
            EndOfTurn, is_goaway
<1>a. Sent' = Sent
  BY DEF Sent
<1>b. Opened' = Opened
  BY DEF Opened
<1>c. Cardinality(Sent) \in Nat /\ Cardinality(Opened) \in Nat
  BY Countable DEF Sent, Opened
<1>1. TypeOK'
  BY <1>a, <1>b DEF DriverInv, TypeOK, CallerStates, StreamStates, Phases
<1>2. Placement'
  BY <1>a, <1>b, <1>c DEF DriverInv, TypeOK, Placement, Queued, NoCallerForgotten, Bounds, Over
<1>3. Bounds'
  BY <1>a, <1>b, <1>c
  DEF DriverInv, TypeOK, Bounds, Over, Senders, Placement, PermitsExact, Phases
<1>4. Order'
  BY <1>a, <1>b, <1>c DEF DriverInv, TypeOK, Order, Queued, Placement
<1>5. ErrorDrains'
  BY DEF DriverInv, TypeOK, ErrorDrains, Bounds, Over
<1>6. NoCallerForgotten'
  BY <1>a, <1>b
  DEF DriverInv, TypeOK, NoCallerForgotten, Placement, Queued, Over, Bounds, Senders, Phases
<1>7. PermitsExact'
  <2>1. permits' \subseteq permits /\ permits \subseteq Req
    BY DEF DriverInv, TypeOK
  <2>2. MaxPending > 0 => Cardinality(permits') <= MaxPending
    BY <2>1, PermitsShrink DEF DriverInv, PermitsExact
  <2>3. QED
    BY <2>1, <2>2
    DEF DriverInv, TypeOK, PermitsExact, Placement, Queued, NoCallerForgotten, Bounds, Over
<1>8. ServedInOrder'
  BY <1>a, <1>b, <1>c DEF DriverInv, TypeOK, ServedInOrder, Order, Queued, Placement
<1>9. CutOnlyByAbortOrGoaway'
  BY DEF DriverInv, TypeOK, CutOnlyByAbortOrGoaway, Placement, Queued, Bounds, Over
<1>10. QED
  BY <1>1, <1>2, <1>3, <1>4, <1>5, <1>6, <1>7, <1>8, <1>9 DEF DriverInv

(* DriverInv is kept by a cancelled request at the front of the queue.         *)
LEMMA DispatchSkipInv ==
    ASSUME DriverInv, NEW r \in Req, DispatchSkip(r)
    PROVE  DriverInv'
<1> USE H2DriverAssumption DEF engine_vars, DispatchSkip, Settle, IsFront,
            is_canceled
<1>a. Sent' = Sent
  BY DEF Sent
<1>b. Opened' = Opened
  BY DEF Opened
<1>c. Cardinality(Sent) \in Nat /\ Cardinality(Opened) \in Nat
  BY Countable DEF Sent, Opened
<1>1. TypeOK'
  BY <1>a, <1>b DEF DriverInv, TypeOK, CallerStates, StreamStates, Phases
<1>2. Placement'
  BY <1>a, <1>b, <1>c DEF DriverInv, TypeOK, Placement, Queued, NoCallerForgotten, Bounds, Over
<1>3. Bounds'
  BY <1>a, <1>b, <1>c
  DEF DriverInv, TypeOK, Bounds, Over, Senders, Placement, PermitsExact, Phases
<1>4. Order'
  BY <1>a, <1>b, <1>c DEF DriverInv, TypeOK, Order, Queued, Placement
<1>5. ErrorDrains'
  BY DEF DriverInv, TypeOK, ErrorDrains, Bounds, Over
<1>6. NoCallerForgotten'
  BY <1>a, <1>b
  DEF DriverInv, TypeOK, NoCallerForgotten, Placement, Queued, Over, Bounds, Senders, Phases
<1>7. PermitsExact'
  <2>1. permits' \subseteq permits /\ permits \subseteq Req
    BY DEF DriverInv, TypeOK
  <2>2. MaxPending > 0 => Cardinality(permits') <= MaxPending
    BY <2>1, PermitsShrink DEF DriverInv, PermitsExact
  <2>3. QED
    BY <2>1, <2>2
    DEF DriverInv, TypeOK, PermitsExact, Placement, Queued, NoCallerForgotten, Bounds, Over
<1>8. ServedInOrder'
  BY <1>a, <1>b, <1>c DEF DriverInv, TypeOK, ServedInOrder, Order, Queued, Placement
<1>9. CutOnlyByAbortOrGoaway'
  BY DEF DriverInv, TypeOK, CutOnlyByAbortOrGoaway, Placement, Queued, Bounds, Over
<1>10. QED
  BY <1>1, <1>2, <1>3, <1>4, <1>5, <1>6, <1>7, <1>8, <1>9 DEF DriverInv

(* DriverInv is kept by a stream opened for the front of the queue.            *)
LEMMA DispatchOpenInv ==
    ASSUME DriverInv, NEW r \in Req, DispatchOpen(r)
    PROVE  DriverInv'
<1> USE H2DriverAssumption DEF engine_vars, DispatchOpen, IsFront, is_goaway
<1>a. Sent' = Sent
  BY DEF Sent
<1>1. sid[r] = 0 /\ TypeOK /\ r \in Req /\ OpenStream(r)
  BY DEF DriverInv, Placement, Queued
<1>b. /\ Cardinality(Opened) \in Nat
      /\ Cardinality(Opened') = Cardinality(Opened) + 1
      /\ NextStream = Cardinality(Opened) + 1
      /\ sid' \in [Req -> 0..Cardinality(Req)]
      /\ sid' = [sid EXCEPT ![r] = NextStream]
      /\ streams' \in [Req -> StreamStates]
  BY <1>1, StreamTaken
<1>c. Cardinality(Sent) \in Nat /\ Cardinality(Opened) \in Nat
  BY Countable DEF Sent, Opened
<1>2. TypeOK'
  BY <1>a, <1>b DEF DriverInv, TypeOK, CallerStates, StreamStates, Phases
<1>3. Placement'
  BY <1>a, <1>b, <1>c DEF DriverInv, TypeOK, Placement, Queued, NoCallerForgotten, Bounds, Over
<1>4. Bounds'
  BY <1>a, <1>b, <1>c
  DEF DriverInv, TypeOK, Bounds, Over, Senders, Placement, PermitsExact, Phases
<1>5. Order'
  BY <1>a, <1>b, <1>c DEF DriverInv, TypeOK, Order, Queued, Placement
<1>6. ErrorDrains'
  BY DEF DriverInv, TypeOK, ErrorDrains, Bounds, Over
<1>7. NoCallerForgotten'
  BY <1>a, <1>b
  DEF DriverInv, TypeOK, NoCallerForgotten, Placement, Queued, Over, Bounds, Senders, Phases
<1>8. PermitsExact'
  <2>1. permits' \subseteq permits /\ permits \subseteq Req
    BY DEF DriverInv, TypeOK
  <2>2. MaxPending > 0 => Cardinality(permits') <= MaxPending
    BY <2>1, PermitsShrink DEF DriverInv, PermitsExact
  <2>3. QED
    BY <2>1, <2>2
    DEF DriverInv, TypeOK, PermitsExact, Placement, Queued, NoCallerForgotten, Bounds, Over
<1>9. ServedInOrder'
  BY <1>a, <1>b, <1>c DEF DriverInv, TypeOK, ServedInOrder, Order, Queued, Placement
<1>10. CutOnlyByAbortOrGoaway'
  BY DEF DriverInv, TypeOK, CutOnlyByAbortOrGoaway, Placement, Queued, Bounds, Over
<1>11. QED
  BY <1>2, <1>3, <1>4, <1>5, <1>6, <1>7, <1>8, <1>9, <1>10 DEF DriverInv

(* DriverInv is kept by a request that cannot be written.                      *)
LEMMA DispatchFailsInv ==
    ASSUME DriverInv, NEW r \in Req, DispatchFails(r)
    PROVE  DriverInv'
<1> USE H2DriverAssumption DEF engine_vars, DispatchFails, Stop, Settle,
            IsFront, is_goaway
<1>a. Sent' = Sent
  BY DEF Sent
<1>1. sid[r] = 0 /\ TypeOK /\ r \in Req /\ OpenStream(r)
  BY DEF DriverInv, Placement, Queued
<1>b. /\ Cardinality(Opened) \in Nat
      /\ Cardinality(Opened') = Cardinality(Opened) + 1
      /\ NextStream = Cardinality(Opened) + 1
      /\ sid' \in [Req -> 0..Cardinality(Req)]
      /\ sid' = [sid EXCEPT ![r] = NextStream]
      /\ streams' \in [Req -> StreamStates]
  BY <1>1, StreamTaken
<1>c. Cardinality(Sent) \in Nat /\ Cardinality(Opened) \in Nat
  BY Countable DEF Sent, Opened
<1>2. TypeOK'
  BY <1>a, <1>b DEF DriverInv, TypeOK, CallerStates, StreamStates, Phases
<1>3. Placement'
  BY <1>a, <1>b, <1>c DEF DriverInv, TypeOK, Placement, Queued, NoCallerForgotten, Bounds, Over
<1>4. Bounds'
  BY <1>a, <1>b, <1>c
  DEF DriverInv, TypeOK, Bounds, Over, Senders, Placement, PermitsExact, Phases
<1>5. Order'
  BY <1>a, <1>b, <1>c DEF DriverInv, TypeOK, Order, Queued, Placement
<1>6. ErrorDrains'
  BY DEF DriverInv, TypeOK, ErrorDrains, Bounds, Over
<1>7. NoCallerForgotten'
  BY <1>a, <1>b
  DEF DriverInv, TypeOK, NoCallerForgotten, Placement, Queued, Over, Bounds, Senders, Phases
<1>8. PermitsExact'
  <2>1. permits' \subseteq permits /\ permits \subseteq Req
    BY DEF DriverInv, TypeOK
  <2>2. MaxPending > 0 => Cardinality(permits') <= MaxPending
    BY <2>1, PermitsShrink DEF DriverInv, PermitsExact
  <2>3. QED
    BY <2>1, <2>2
    DEF DriverInv, TypeOK, PermitsExact, Placement, Queued, NoCallerForgotten, Bounds, Over
<1>9. ServedInOrder'
  BY <1>a, <1>b, <1>c DEF DriverInv, TypeOK, ServedInOrder, Order, Queued, Placement
<1>10. CutOnlyByAbortOrGoaway'
  BY DEF DriverInv, TypeOK, CutOnlyByAbortOrGoaway, Placement, Queued, Bounds, Over
<1>11. QED
  BY <1>2, <1>3, <1>4, <1>5, <1>6, <1>7, <1>8, <1>9, <1>10 DEF DriverInv

(* A step in which nothing changes.                                        *)
LEMMA StutterInv == DriverInv /\ UNCHANGED vars => DriverInv'
BY DEF vars, DriverInv, TypeOK, Placement, Bounds, Order, ErrorDrains,
       NoCallerForgotten, PermitsExact, ServedInOrder, CutOnlyByAbortOrGoaway,
       Queued, Over, Senders, Sent, Opened

-----------------------------------------------------------------------------
(* DriverInv holds in every reachable state.                                  *)
THEOREM DriverInvariance == Spec => []DriverInv
<1>1. Init => DriverInv
  BY DriverInitInv
<1>2. DriverInv /\ [Next]_vars => DriverInv'
  <2> SUFFICES ASSUME DriverInv, [Next]_vars PROVE DriverInv'
    OBVIOUS
  <2>1. CASE \E r \in Req : Caller(r)
    <3>1. PICK r \in Req : Caller(r)
      BY <2>1
    <3>2. QED
      BY <3>1, CallerInv, AcquireInv, HandOverInv DEF Caller, CallerStep
  <2>2. CASE DropHandle \/ Start \/ StartFails
    BY <2>2, TurnInv, StartInv, StartFailsInv
  <2>3. CASE DriverStep
    <3>1. CASE \E r \in Req : HandleCancel(r) \/ HandleCommand(r)
      BY <3>1, HandleCancelInv, HandleCommandInv
    <3>2. CASE Dispatch
      BY <3>2, DispatchDrainingInv, DispatchSkipInv, DispatchOpenInv,
         DispatchFailsInv, TurnInv DEF Dispatch
    <3>3. QED
      BY <2>3, <3>1, <3>2, TurnInv DEF DriverStep
  <2>4. CASE ReadFrame
    <3>1. CASE \E l \in Limits : ReadSettings(l)
      BY <3>1, ReadSettingsInv
    <3>2. CASE \E n \in {0} \union {sid[r] : r \in Req}, g \in BOOLEAN : ReadGoaway(n, g)
      BY <3>2, ReadGoawayInv
    <3>3. ASSUME NEW r \in Req,
                 \/ \E i, e \in BOOLEAN : ReadHeaders(r, i, e)
                 \/ \E e \in BOOLEAN : ReadData(r, e)
                 \/ ReadReset(r) \/ ReadDataBeyondWindow(r) \/ ReadWindowUpdate(r)
          PROVE  DriverInv'
      BY <3>3, ReadHeadersInv, ReadDataInv, ReadResetInv
    <3>4. QED
      BY <2>4, <3>1, <3>2, <3>3 DEF ReadFrame
  <2>5. CASE ShutdownTimeout \/ ConnectionLost \/ Abort
    BY <2>5, StopInv
  <2>6. CASE UNCHANGED vars
    BY <2>6, StutterInv
  <2>7. QED
    BY <2>1, <2>2, <2>3, <2>4, <2>5, <2>6 DEF Next
<1>3. QED
  BY <1>1, <1>2, PTL DEF Spec

(* Every variable keeps to its type.                                       *)
THEOREM DriverTypeCorrect == Spec => []TypeOK
BY DriverInvariance, PTL DEF DriverInv

(* No future is left waiting for an answer that nobody will send, whatever *)
(* ends its stream or the driver.                                          *)
THEOREM NobodyForgotten == Spec => []NoCallerForgotten
BY DriverInvariance, PTL DEF DriverInv

(* Pending slots are neither leaked nor doubled and bound the queue.       *)
THEOREM BackpressureExact == Spec => []PermitsExact
BY DriverInvariance, PTL DEF DriverInv

(* Streams are given to requests in the order of their commands.           *)
THEOREM FirstComeFirstServed == Spec => []ServedInOrder
BY DriverInvariance, PTL DEF DriverInv

(* An error GOAWAY drains the connection.                                  *)
THEOREM ErrorDrainsAll == Spec => []DrainedAfterError
<1>1. DriverInv => DrainedAfterError
  BY DEF DriverInv, ErrorDrains, DrainedAfterError
<1>2. QED
  BY <1>1, DriverInvariance, PTL

(* A body ends silently before its response only by an abort, or above the *)
(* last stream of a graceful GOAWAY.                                       *)
THEOREM CutOnlyThen == Spec => []CutOnlyByAbortOrGoaway
BY DriverInvariance, PTL DEF DriverInv

(* The queue loses nobody, leaks no slot and keeps its order.              *)
THEOREM QueueIsSound == Spec => []QueueSound
BY NobodyForgotten, BackpressureExact, FirstComeFirstServed, PTL DEF QueueSound

(* GOAWAY fails or spares each stream as it should.                        *)
THEOREM GoawayIsHonoured == Spec => []GoawayHonoured
BY ErrorDrainsAll, CutOnlyThen, PTL DEF GoawayHonoured

-----------------------------------------------------------------------------
(* The windows data is sent under                                          *)

USE DEF StreamStates

(* The engine draws on the connection window only what is there.           *)
ConnPositive == conn_window >= 0

(* A stream that was never opened has sent and buffered nothing.           *)
Unopened ==
    \A s \in Streams :
        state[s] = "idle" => held[s] = 0 /\ sent[s] = 0 /\ granted[s] = 0 /\ s \notin fin

SendInv ==
    /\ SendTypeOK /\ ConnPositive /\ Unopened
    /\ StreamWindowExact /\ BodyConserved /\ StallOnlyAfterSettings

-----------------------------------------------------------------------------
(* What build_data takes: never more than the data or either window, all   *)
(* of the data unless a window ran out, and then that window is empty.     *)
LEMMA FitsWithin ==
    ASSUME conn_window \in Int, conn_window >= 0, NEW n \in Nat, NEW w \in Int
    PROVE  /\ Fits(n, w) \in 0..n
           /\ Fits(n, w) <= conn_window
           /\ Fits(n, w) > 0 => Fits(n, w) <= w
           /\ Fits(n, w) # n => conn_window - Fits(n, w) = 0 \/ w - Fits(n, w) <= 0
BY DEF Fits, Min2, Available

(* What is left after build_data sent k of the n bytes of s.                *)
Built(s, n, w, k) ==
    /\ k \in 0..n /\ (k > 0 => k <= w) /\ w - k <= MaxWindow
    /\ conn_window' = conn_window - k /\ conn_window' \in Int
    /\ conn_window' >= 0 /\ conn_window' <= MaxWindow
    /\ window' = [window EXCEPT ![s] = w - k] /\ window' \in [Streams -> Int]
    /\ held' = [held EXCEPT ![s] = n - k] /\ held' \in [Streams -> Nat]
    /\ sent' = [sent EXCEPT ![s] = sent[s] + k] /\ sent' \in [Streams -> Nat]
    /\ k # n => conn_window' = 0 \/ w - k <= 0
    /\ fin' = IF k = n THEN fin \union {s} ELSE fin
    /\ state'[s] \in KnownStates
    /\ \A t \in Streams \ {s} : state'[t] = state[t]
    /\ state' \in [Streams -> StreamStates]

(* build_data keeps the accounts of its stream and touches no other.       *)
LEMMA BuildDataKeeps ==
    ASSUME SendTypeOK, ConnPositive, NEW s \in Streams, NEW n \in Nat,
           NEW w \in Int, w <= MaxWindow,
           NEW st \in KnownStates,
           build_data(s, n, w, st)
    PROVE  \E k \in Nat : Built(s, n, w, k)
<1> DEFINE k == Fits(n, w)
<1> USE SendWindowAssumption
<1>1. /\ k \in 0..n /\ k <= conn_window /\ (k > 0 => k <= w)
      /\ k # n => conn_window - k = 0 \/ w - k <= 0
  BY FitsWithin DEF SendTypeOK, ConnPositive
<1>2. /\ conn_window' = conn_window - k
      /\ window' = [window EXCEPT ![s] = w - k]
      /\ held' = [held EXCEPT ![s] = n - k]
      /\ sent' = [sent EXCEPT ![s] = sent[s] + k]
      /\ fin' = IF k = n THEN fin \union {s} ELSE fin
      /\ state' = [state EXCEPT ![s] = IF k = n THEN send_end_stream(st) ELSE st]
  BY DEF build_data
<1>3. send_end_stream(st) \in KnownStates
  BY DEF send_end_stream
<1> HIDE DEF k
<1>4. /\ k \in Nat /\ w - k <= MaxWindow
      /\ conn_window' \in Int /\ conn_window' >= 0 /\ conn_window' <= MaxWindow
  BY <1>1, <1>2 DEF SendTypeOK, ConnPositive
<1>5. window' \in [Streams -> Int] /\ held' \in [Streams -> Nat] /\ sent' \in [Streams -> Nat]
  BY <1>1, <1>2, SMTT(40) DEF SendTypeOK
<1>6. /\ state'[s] \in KnownStates
      /\ \A t \in Streams \ {s} : state'[t] = state[t]
      /\ state' \in [Streams -> StreamStates]
  BY <1>2, <1>3 DEF SendTypeOK
<1>7. k # n => conn_window' = 0 \/ w - k <= 0
  BY <1>1, <1>2
<1>8. Built(s, n, w, k)
  BY <1>1, <1>2, <1>4, <1>5, <1>6, <1>7 DEF Built
<1>9. QED
  BY <1>4, <1>8

-----------------------------------------------------------------------------
(* The initial state.                                                      *)
LEMMA SendInitInv == SendInit => SendInv
BY SendWindowAssumption
   DEF SendInit, SendInv, SendTypeOK, ConnPositive, Unopened, StreamWindowExact, BodyConserved,
       StallOnlyAfterSettings, KnownStream, Streams

(* The invariant of one stream, the parts of SendInv that speak of it.      *)
StreamInv(s) ==
    /\ state[s] = "idle" => held[s] = 0 /\ sent[s] = 0 /\ granted[s] = 0 /\ s \notin fin
    /\ KnownStream(s) => window[s] = stream_initial[s] + granted[s] - sent[s]
    /\ state[s] # "idle" => sent[s] + held[s] = Body[s] /\ (s \in fin <=> held[s] = 0)
    /\ held[s] > 0 /\ KnownStream(s) /\ conn_window > 0 /\ window[s] > 0
          => cause = "settings" \/ drain \in 1..s

(* SendInv is the types, the connection's window and each stream's part.    *)
LEMMA ByStream ==
    /\ SendInv <=> SendTypeOK /\ ConnPositive /\ \A s \in Streams : StreamInv(s)
    /\ SendInv' <=> SendTypeOK' /\ ConnPositive' /\ \A s \in Streams : StreamInv(s)'
BY DEF SendInv, Unopened, StreamWindowExact, BodyConserved, StallOnlyAfterSettings, StreamInv

(* SendInv is kept by a request that opens its stream and sends what fits.  *)
LEMMA SendRequestInv ==
    ASSUME SendInv, NEW s \in Streams, SendRequest(s)
    PROVE  SendInv'
<1> USE SendWindowAssumption
<1>1. SendTypeOK /\ ConnPositive /\ \A t \in Streams : StreamInv(t)
  BY ByStream
<1>2. /\ state[s] = "idle" /\ drain = 0
      /\ stream_initial' = [stream_initial EXCEPT ![s] = initial]
      /\ UNCHANGED <<initial, drain, granted, conn_granted, cause>>
      /\ build_data(s, Body[s], initial, "open")
  BY DEF SendRequest, NextToOpen
<1>3. s \notin fin /\ held[s] = 0 /\ sent[s] = 0 /\ granted[s] = 0
  BY <1>1, <1>2 DEF StreamInv
<1>4. Body[s] \in Nat /\ Body[s] > 0 /\ initial \in Int /\ initial <= MaxWindow
  BY <1>1 DEF SendTypeOK, Streams
<1>5. PICK k \in Nat : Built(s, Body[s], initial, k)
  BY <1>1, <1>2, <1>4, BuildDataKeeps
<1>6. SendTypeOK' /\ ConnPositive'
  BY <1>1, <1>2, <1>4, <1>5 DEF SendTypeOK, ConnPositive, Built
<1>7. ASSUME NEW t \in Streams PROVE StreamInv(t)'
  <2>1. CASE t = s
    <3>1. /\ window'[s] = initial - k /\ held'[s] = Body[s] - k /\ sent'[s] = k
          /\ stream_initial'[s] = initial /\ granted'[s] = 0 /\ state'[s] # "idle"
      BY <1>1, <1>2, <1>3, <1>5 DEF SendTypeOK, Built
    <3>2. s \in fin' <=> k = Body[s]
      BY <1>3, <1>5 DEF Built
    <3>3. k \in 0..Body[s] /\ (k # Body[s] => conn_window' = 0 \/ initial - k <= 0)
      BY <1>5 DEF Built
    <3>4. QED
      BY <1>4, <2>1, <3>1, <3>2, <3>3 DEF StreamInv
  <2>2. CASE t # s
    <3>1. /\ window'[t] = window[t] /\ held'[t] = held[t] /\ sent'[t] = sent[t]
          /\ stream_initial'[t] = stream_initial[t] /\ granted'[t] = granted[t]
          /\ state'[t] = state[t] /\ (t \in fin' <=> t \in fin)
      BY <1>1, <1>2, <1>5, <2>2 DEF SendTypeOK, Built
    <3>2. conn_window' <= conn_window /\ conn_window \in Int /\ conn_window' \in Int
      BY <1>1, <1>5 DEF Built, SendTypeOK
    <3>3. QED
      BY <1>1, <1>2, <3>1, <3>2 DEF StreamInv, KnownStream
  <2>3. QED
    BY <2>1, <2>2
<1>8. QED
  BY <1>6, <1>7, ByStream

(* SendInv is kept by one item of drain_pending_data.                       *)
LEMMA DrainItemInv ==
    ASSUME SendInv, DrainItem
    PROVE  SendInv'
<1> USE SendWindowAssumption
<1>1. SendTypeOK /\ ConnPositive /\ \A t \in Streams : StreamInv(t)
  BY ByStream
<1>2. /\ drain \in Streams /\ drain' = IF drain = N THEN 0 ELSE drain + 1
      /\ UNCHANGED <<initial, stream_initial, granted, conn_granted, cause>>
  BY DEF DrainItem
<1>3. \A t \in Streams : t # drain /\ drain \in 1..t => drain' \in 1..t
  BY <1>2 DEF Streams
<1>4. drain' \in 0..N
  BY <1>2 DEF Streams
<1>5. CASE held[drain] > 0 /\ KnownStream(drain)
  <2> DEFINE d == drain
  <2>1. /\ held[d] \in Nat /\ window[d] \in Int /\ window[d] <= MaxWindow
        /\ state[d] \in KnownStates
    BY <1>1, <1>2, <1>5 DEF SendTypeOK, KnownStream
  <2>2. build_data(d, held[d], window[d], state[d])
    BY <1>5 DEF DrainItem
  <2>3. PICK k \in Nat : Built(d, held[d], window[d], k)
    BY <1>1, <1>2, <2>1, <2>2, BuildDataKeeps
  <2>4. SendTypeOK' /\ ConnPositive'
    BY <1>1, <1>2, <1>4, <2>1, <2>3 DEF SendTypeOK, ConnPositive, Built
  <2>5. ASSUME NEW t \in Streams PROVE StreamInv(t)'
    <3>1. CASE t = d
      <4>1. /\ window'[t] = window[t] - k /\ held'[t] = held[t] - k
            /\ sent'[t] = sent[t] + k /\ stream_initial'[t] = stream_initial[t]
            /\ granted'[t] = granted[t] /\ state'[t] # "idle" /\ state[t] # "idle"
        BY <1>1, <1>2, <2>1, <2>3, <3>1 DEF SendTypeOK, Built
      <4>2. t \notin fin
        BY <1>1, <1>5, <2>1, <3>1, <4>1 DEF StreamInv
      <4>3. t \in fin' <=> k = held[t]
        BY <2>3, <3>1, <4>2 DEF Built
      <4>4. k \in 0..held[t] /\ (k # held[t] => conn_window' = 0 \/ window[t] - k <= 0)
        BY <2>3, <3>1 DEF Built
      <4>5. /\ stream_initial[t] \in Int /\ granted[t] \in Int /\ sent[t] \in Int
            /\ Body[t] \in Int /\ held[t] \in Nat /\ window[t] \in Int
        BY <1>1 DEF SendTypeOK, Streams
      <4>6. /\ window[t] = stream_initial[t] + granted[t] - sent[t]
            /\ sent[t] + held[t] = Body[t]
        BY <1>1, <1>5, <3>1, <4>1 DEF StreamInv
      <4>7. window'[t] = stream_initial'[t] + granted'[t] - sent'[t]
        BY <4>1, <4>4, <4>5, <4>6, SMTT(40)
      <4>8. sent'[t] + held'[t] = Body[t] /\ (t \in fin' <=> held'[t] = 0)
        BY <4>1, <4>3, <4>4, <4>5, <4>6, SMTT(40)
      <4>9. ~(held'[t] > 0 /\ conn_window' > 0 /\ window'[t] > 0)
        BY <4>1, <4>4, <4>5
      <4>10. QED
        BY <4>1, <4>7, <4>8, <4>9 DEF StreamInv
    <3>2. CASE t # d
      <4>1. /\ window'[t] = window[t] /\ held'[t] = held[t] /\ sent'[t] = sent[t]
            /\ stream_initial'[t] = stream_initial[t] /\ granted'[t] = granted[t]
            /\ state'[t] = state[t] /\ (t \in fin' <=> t \in fin)
        BY <1>1, <1>2, <2>3, <3>2 DEF SendTypeOK, Built
      <4>2. conn_window' <= conn_window /\ conn_window \in Int /\ conn_window' \in Int
        BY <1>1, <2>3 DEF Built, SendTypeOK
      <4>3. QED
        BY <1>1, <1>2, <1>3, <3>2, <4>1, <4>2 DEF StreamInv, KnownStream
    <3>3. QED
      BY <3>1, <3>2
  <2>6. QED
    BY <2>4, <2>5, ByStream
<1>6. CASE ~(held[drain] > 0 /\ KnownStream(drain))
  <2>1. UNCHANGED <<conn_window, window, held, sent, fin, state>>
    BY <1>6 DEF DrainItem
  <2>2. SendTypeOK' /\ ConnPositive'
    BY <1>1, <1>2, <1>4, <2>1 DEF SendTypeOK, ConnPositive
  <2>3. ASSUME NEW t \in Streams PROVE StreamInv(t)'
    BY <1>1, <1>2, <1>3, <1>6, <2>1 DEF StreamInv, KnownStream
  <2>4. QED
    BY <2>2, <2>3, ByStream
<1>7. QED
  BY <1>5, <1>6

(* SendInv is kept by a WINDOW_UPDATE on the connection, which starts the   *)
(* drain at the first item.                                                *)
LEMMA ConnWindowUpdateInv ==
    ASSUME SendInv, NEW inc \in Nat, ConnWindowUpdate(inc)
    PROVE  SendInv'
<1> USE SendWindowAssumption
<1>1. SendTypeOK /\ ConnPositive /\ \A t \in Streams : StreamInv(t)
  BY ByStream
<1>2. SendTypeOK' /\ ConnPositive'
  BY <1>1 DEF ConnWindowUpdate, SendTypeOK, ConnPositive
<1>3. ASSUME NEW t \in Streams PROVE drain' \in 1..t
  BY DEF ConnWindowUpdate, Streams
<1>4. ASSUME NEW t \in Streams PROVE StreamInv(t)'
  BY <1>1, <1>3 DEF ConnWindowUpdate, StreamInv, KnownStream
<1>5. QED
  BY <1>2, <1>4, ByStream

(* SendInv is kept by a WINDOW_UPDATE on a stream, accepted or not.         *)
LEMMA StreamWindowUpdateInv ==
    ASSUME SendInv, NEW s \in Streams, NEW inc \in Nat,
           StreamWindowUpdate(s, inc) \/ StreamWindowUpdateBad(s, inc)
    PROVE  SendInv'
<1> USE SendWindowAssumption
<1>1. SendTypeOK /\ ConnPositive /\ \A t \in Streams : StreamInv(t)
  BY ByStream
<1>2. CASE StreamWindowUpdate(s, inc)
  <2>1. \A t \in Streams : drain' \in 1..t
    BY <1>2 DEF StreamWindowUpdate, Streams
  <2>2. drain' \in 0..N
    BY <1>2 DEF StreamWindowUpdate, Streams
  <2>3. window' \in [Streams -> Int] /\ \A t \in Streams : window'[t] <= MaxWindow
    BY <1>1, <1>2 DEF StreamWindowUpdate, SendTypeOK
  <2>4. granted' \in [Streams -> Nat]
    BY <1>1, <1>2 DEF StreamWindowUpdate, SendTypeOK
  <2>5. SendTypeOK' /\ ConnPositive'
    BY <1>1, <1>2, <2>2, <2>3, <2>4 DEF StreamWindowUpdate, SendTypeOK, ConnPositive
  <2>6. ASSUME NEW t \in Streams PROVE StreamInv(t)'
    <3>1. \/ window'[t] = window[t] + inc /\ granted'[t] = granted[t] + inc
          \/ window'[t] = window[t] /\ granted'[t] = granted[t]
      BY <1>1, <1>2 DEF StreamWindowUpdate, SendTypeOK
    <3>2. state[t] = "idle" => granted'[t] = granted[t]
      BY <1>1, <1>2 DEF StreamWindowUpdate, SendTypeOK
    <3>3. /\ window[t] \in Int /\ window'[t] \in Int /\ granted[t] \in Int
          /\ granted'[t] \in Int /\ stream_initial[t] \in Int /\ sent[t] \in Int
      BY <1>1, <2>3, <2>4 DEF SendTypeOK
    <3>4. /\ state' = state /\ held' = held /\ sent' = sent /\ fin' = fin
          /\ stream_initial' = stream_initial
      BY <1>2 DEF StreamWindowUpdate
    <3>5. KnownStream(t)' => window'[t] = stream_initial'[t] + granted'[t] - sent'[t]
      <4>1. KnownStream(t)' => KnownStream(t)
        BY <3>4 DEF KnownStream
      <4>2. KnownStream(t) => window[t] = stream_initial[t] + granted[t] - sent[t]
        BY <1>1 DEF StreamInv
      <4>3. ASSUME KnownStream(t)
            PROVE  window'[t] = stream_initial[t] + granted'[t] - sent[t]
        <5>1. CASE window'[t] = window[t] + inc /\ granted'[t] = granted[t] + inc
          BY <3>3, <4>2, <4>3, <5>1, SMTT(40)
        <5>2. CASE window'[t] = window[t] /\ granted'[t] = granted[t]
          BY <3>3, <4>2, <4>3, <5>2
        <5>3. QED
          BY <3>1, <5>1, <5>2
      <4>4. QED
        BY <3>4, <4>1, <4>3
    <3>6. state'[t] = "idle" => held'[t] = 0 /\ sent'[t] = 0 /\ granted'[t] = 0 /\ t \notin fin'
      BY <1>1, <3>2, <3>4 DEF StreamInv
    <3>7. state'[t] # "idle" => sent'[t] + held'[t] = Body[t] /\ (t \in fin' <=> held'[t] = 0)
      BY <1>1, <3>4 DEF StreamInv
    <3>8. QED
      BY <2>1, <3>5, <3>6, <3>7 DEF StreamInv
  <2>7. QED
    BY <2>5, <2>6, ByStream
<1>3. CASE StreamWindowUpdateBad(s, inc)
  <2>1. SendTypeOK' /\ ConnPositive'
    BY <1>1, <1>3 DEF StreamWindowUpdateBad, SendTypeOK, ConnPositive
  <2>2. ASSUME NEW t \in Streams PROVE StreamInv(t)'
    BY <1>1, <1>3 DEF StreamWindowUpdateBad, SendTypeOK, StreamInv, KnownStream
  <2>3. QED
    BY <2>1, <2>2, ByStream
<1>4. QED
  BY <1>2, <1>3

(* SendInv is kept by a change of the initial window size, applied to all   *)
(* streams or, on an overflow, to some.                                    *)
LEMMA SettingsInv ==
    ASSUME SendInv, NEW size \in InitialSizes, Settings(size)
    PROVE  SendInv'
<1> USE SendWindowAssumption DEF SendInv
<1>1. PICK A \in SUBSET {t \in Streams : KnownStream(t) /\ ~Overflows(t, size)} : Resize(size, A)
  BY DEF Settings
<1>2. UNCHANGED <<conn_window, state, held, sent, fin, drain, granted, conn_granted>>
      /\ cause' = "settings" /\ size \in 0..MaxWindow
  BY DEF Settings
<1>3. SendTypeOK' /\ ConnPositive'
  BY <1>1, <1>2 DEF SendTypeOK, ConnPositive, Resize, Overflows
<1>4. Unopened' /\ StreamWindowExact' /\ BodyConserved' /\ StallOnlyAfterSettings'
  BY <1>1, <1>2 DEF SendTypeOK, Unopened, StreamWindowExact, BodyConserved,
     StallOnlyAfterSettings, KnownStream, Resize
<1>5. QED
  BY <1>3, <1>4

(* SendInv is kept by the frames that only close streams.                   *)
LEMMA CloseInv ==
    ASSUME SendInv, NEW s \in Streams, NEW d \in BOOLEAN, Reset(s) \/ ResponseEnds(s, d)
    PROVE  SendInv'
<1> USE SendWindowAssumption
<1>1. SendTypeOK /\ ConnPositive /\ \A t \in Streams : StreamInv(t)
  BY ByStream
<1>2. UNCHANGED <<conn_window, window, initial, stream_initial, held, sent, fin,
                  drain, granted, conn_granted, cause>>
  BY DEF Reset, ResponseEnds
<1>3. SendTypeOK' /\ ConnPositive'
  BY <1>1 DEF SendTypeOK, ConnPositive, Reset, ResponseEnds, cleanup_closed_streams,
              recv_end_stream, can_receive, KnownStream
<1>4. ASSUME NEW t \in Streams
      PROVE  (state'[t] = "idle" <=> state[t] = "idle") /\ (KnownStream(t)' => KnownStream(t))
  BY <1>1
  DEF SendTypeOK, Reset, ResponseEnds, cleanup_closed_streams, recv_end_stream, can_receive,
      KnownStream
<1>5. ASSUME NEW t \in Streams PROVE StreamInv(t)'
  BY <1>1, <1>2, <1>4 DEF StreamInv
<1>6. QED
  BY <1>3, <1>5, ByStream

-----------------------------------------------------------------------------
(* SendInv holds in every reachable state.                                  *)
THEOREM SendInvariance == SendSpec => []SendInv
<1>1. SendInit => SendInv
  BY SendInitInv
<1>2. SendInv /\ [SendNext]_send_vars => SendInv'
  <2> SUFFICES ASSUME SendInv, [SendNext]_send_vars PROVE SendInv'
    OBVIOUS
  <2>1. CASE \E s \in Streams : SendRequest(s) \/ Reset(s)
    BY <2>1, SendRequestInv, CloseInv
  <2>2. CASE \E s \in Streams, d \in BOOLEAN : ResponseEnds(s, d)
    BY <2>2, CloseInv
  <2>3. CASE DrainItem
    BY <2>3, DrainItemInv
  <2>4. CASE \E inc \in Increments : ConnWindowUpdate(inc)
    BY <2>4, ConnWindowUpdateInv, SendWindowAssumption
  <2>5. CASE \E inc \in Increments, s \in Streams :
                StreamWindowUpdate(s, inc) \/ StreamWindowUpdateBad(s, inc)
    BY <2>5, StreamWindowUpdateInv, SendWindowAssumption
  <2>6. CASE \E size \in InitialSizes : Settings(size)
    BY <2>6, SettingsInv
  <2>7. CASE UNCHANGED send_vars
    BY <2>7 DEF send_vars, SendInv, SendTypeOK, ConnPositive, Unopened, StreamWindowExact,
       BodyConserved, StallOnlyAfterSettings, KnownStream
  <2>8. QED
    BY <2>1, <2>2, <2>3, <2>4, <2>5, <2>6, <2>7 DEF SendNext
<1>3. QED
  BY <1>1, <1>2, PTL DEF SendSpec

(* The windows keep to their types: none overflows.                        *)
THEOREM SendTypeCorrect == SendSpec => []SendTypeOK
BY SendInvariance, PTL DEF SendInv

(* The engine's stream windows are exactly what the server granted.        *)
THEOREM WindowsAreExact == SendSpec => []StreamWindowExact
BY SendInvariance, PTL DEF SendInv

(* No byte of a request body is lost or duplicated.                        *)
THEOREM NoByteLost == SendSpec => []BodyConserved
BY SendInvariance, PTL DEF SendInv

(* A WINDOW_UPDATE leaves no sendable byte behind.                         *)
THEOREM UpdatesDrain == SendSpec => []StallOnlyAfterSettings
BY SendInvariance, PTL DEF SendInv

(* build_data draws only on a window that has room.                        *)
LEMMA BuiltWithin ==
    ASSUME SendTypeOK, NEW s \in Streams, NEW n \in Nat, NEW w \in Int, NEW k \in Nat,
           Built(s, n, w, k), NEW t \in Streams, sent'[t] > sent[t]
    PROVE  /\ window'[t] >= 0 /\ conn_window' >= 0
           /\ conn_window - conn_window' = sent'[t] - sent[t]
<1>1. sent[t] \in Int /\ conn_window \in Int
  BY DEF SendTypeOK
<1>2. CASE t # s
  BY <1>1, <1>2 DEF Built, SendTypeOK
<1>3. CASE t = s
  <2>1. /\ window'[t] = w - k /\ sent'[t] = sent[t] + k /\ (k > 0 => k <= w)
        /\ conn_window' = conn_window - k /\ (k > 0 => k <= conn_window)
    BY <1>3 DEF Built, SendTypeOK
  <2>2. QED
    BY <1>1, <2>1
<1>4. QED
  BY <1>2, <1>3

(* Bytes go out only within the stream's window, negative windows included, *)
(* and within the connection's, which pays for each of them.                *)
THEOREM NeverOverdrawn == SendSpec => SendsWithinWindow
<1> DEFINE Within ==
      \A s \in Streams :
         sent'[s] > sent[s] =>
            /\ window'[s] >= 0 /\ conn_window' >= 0
            /\ conn_window - conn_window' = sent'[s] - sent[s]
<1>1. SendInv /\ [SendNext]_send_vars => [Within]_send_vars
  <2> SUFFICES ASSUME SendInv, SendNext PROVE Within
    OBVIOUS
  <2> USE SendWindowAssumption
  <2>1. SendTypeOK /\ ConnPositive /\ \A t \in Streams : StreamInv(t)
    BY ByStream
  <2>2. ASSUME NEW s \in Streams, SendRequest(s) PROVE Within
    <3>1. Body[s] \in Nat /\ initial \in Int /\ initial <= MaxWindow
      BY <2>1 DEF SendTypeOK, Streams
    <3>2. build_data(s, Body[s], initial, "open")
      BY <2>2 DEF SendRequest
    <3>3. PICK k \in Nat : Built(s, Body[s], initial, k)
      BY <2>1, <3>1, <3>2, BuildDataKeeps
    <3>4. QED
      BY <2>1, <3>1, <3>3, BuiltWithin
  <2>3. ASSUME DrainItem, held[drain] > 0 /\ KnownStream(drain) PROVE Within
    <3>1. /\ drain \in Streams /\ held[drain] \in Nat /\ window[drain] \in Int
          /\ window[drain] <= MaxWindow
          /\ state[drain] \in KnownStates
      BY <2>1, <2>3 DEF DrainItem, SendTypeOK, KnownStream
    <3>2. build_data(drain, held[drain], window[drain], state[drain])
      BY <2>3 DEF DrainItem
    <3>3. PICK k \in Nat : Built(drain, held[drain], window[drain], k)
      BY <2>1, <3>1, <3>2, BuildDataKeeps
    <3>4. QED
      BY <2>1, <3>1, <3>3, BuiltWithin
  <2>4. ASSUME sent' = sent PROVE Within
    BY <2>1, <2>4 DEF SendTypeOK
  <2>5. \/ \E s \in Streams : SendRequest(s)
        \/ DrainItem /\ held[drain] > 0 /\ KnownStream(drain)
        \/ sent' = sent
    BY DEF SendNext, DrainItem, Reset, ResponseEnds, ConnWindowUpdate, StreamWindowUpdate,
           StreamWindowUpdateBad, Settings
  <2>6. QED
    BY <2>2, <2>3, <2>4, <2>5
<1>2. QED
  BY <1>1, SendInvariance, PTL DEF SendSpec, SendsWithinWindow

(* Uploads: exact windows, every byte once, none left behind.              *)
THEOREM UploadIsSound == SendSpec => []UploadSound
BY WindowsAreExact, NoByteLost, UpdatesDrain, PTL DEF UploadSound
-----------------------------------------------------------------------------
(* The connection window and the sum of what was sent                      *)

(* Induction, for the numbers that satisfy a property as a set.            *)
LEMMA AllNumbers ==
    ASSUME NEW G, 0 \in G, \A n \in Nat : n \in G => n + 1 \in G
    PROVE  Nat \subseteq G
<1> DEFINE T == Nat \ G
<1>1. SUFFICES ASSUME T # {} PROVE FALSE
  OBVIOUS
<1>2. T \subseteq Nat
  OBVIOUS
<1>3. PICK x \in T : \A y \in T : ~(<<y, x>> \in OpToRel(<, Nat))
  <2> HIDE DEF T
  <2>1. QED
    BY <1>1, <1>2, WFMin, NatLessThanWellFounded
<1>4. \A y \in T : ~(y < x)
  BY <1>2, <1>3 DEF OpToRel
<1>5. x \in Nat /\ x # 0 /\ x - 1 \in Nat /\ x = (x - 1) + 1
  OBVIOUS
<1>6. x - 1 \in G
  BY <1>4, <1>5
<1>7. QED
  BY <1>5, <1>6

\* The element a sum over T takes first, and the recursion of MapThenSumSet.
Pick(T) == CHOOSE x \in T : TRUE
Unfolds(g, h, D) ==
    g = [T \in D |-> IF T = {} THEN 0 ELSE h[Pick(T)] + g[T \ {Pick(T)}]]
Sums(h, S) == CHOOSE g : Unfolds(g, h, SUBSET S)

(* MapThenSumSet is the value of that recursion on the whole set.          *)
LEMMA SumIsSums ==
    ASSUME NEW h, NEW S
    PROVE  MapThenSumSet(LAMBDA s : h[s], S) = Sums(h, S)[S]
BY Zenon DEF MapThenSumSet, MapThenFoldSet, Sums, Unfolds, Pick

(* The set that is left when the first element is taken.                   *)
LEMMA Remainder ==
    ASSUME NEW S, IsFiniteSet(S), NEW T \in SUBSET S, T # {}
    PROVE  /\ Pick(T) \in T /\ T \ {Pick(T)} \in SUBSET S
           /\ Cardinality(T) \in Nat /\ Cardinality(T \ {Pick(T)}) + 1 = Cardinality(T)
<1>1. Pick(T) \in T
  BY Zenon DEF Pick
<1>2. IsFiniteSet(T)
  BY FS_Subset
<1>3. Cardinality(T) \in Nat
  BY <1>2, FS_CardinalityType
<1>4. Cardinality(T \ {Pick(T)}) = Cardinality(T) - 1
  BY <1>1, <1>2, FS_RemoveElement
<1>5. QED
  BY <1>1, <1>3, <1>4

(* A set of no elements.                                                   *)
LEMMA NoElements ==
    ASSUME NEW S, IsFiniteSet(S), NEW T \in SUBSET S, Cardinality(T) <= 0
    PROVE  T = {}
<1>1. IsFiniteSet(T)
  BY FS_Subset
<1>2. Cardinality(T) \in Nat
  BY <1>1, FS_CardinalityType
<1>3. QED
  BY <1>1, <1>2, FS_EmptySet

\* The recursion, as far as sets of n elements.
UpTo(S, n) == {T \in SUBSET S : Cardinality(T) <= n}
Partial(S, h, n) ==
    \E g \in [UpTo(S, n) -> Int] : Unfolds(g, h, UpTo(S, n))

(* It can be continued by one element, and so it has a solution.           *)
LEMMA SumsExist ==
    ASSUME NEW S, IsFiniteSet(S), NEW h \in [S -> Int]
    PROVE  \E g \in [SUBSET S -> Int] : Unfolds(g, h, SUBSET S)
<1> DEFINE G == {n \in Nat : Partial(S, h, n)}
<1>1. 0 \in G
  <2> DEFINE D == UpTo(S, 0)
             g == [T \in D |-> 0]
  <2>1. \A T \in D : T = {}
    BY NoElements DEF UpTo
  <2> HIDE DEF D
  <2>2. g \in [D -> Int] /\ Unfolds(g, h, D)
    BY <2>1 DEF Unfolds
  <2>3. QED
    BY <2>2 DEF Partial, D
<1>2. ASSUME NEW n \in Nat, n \in G PROVE n + 1 \in G
  <2> DEFINE D == UpTo(S, n)
             E == UpTo(S, n + 1)
  <2>1. PICK g \in [D -> Int] : Unfolds(g, h, D)
    BY <1>2 DEF Partial
  <2> DEFINE f == [T \in E |-> IF T = {} THEN 0 ELSE h[Pick(T)] + g[T \ {Pick(T)}]]
  <2>2. ASSUME NEW T \in E, T # {} PROVE T \ {Pick(T)} \in D /\ Pick(T) \in S
    <3>1. T \in SUBSET S /\ Cardinality(T) <= n + 1
      BY <2>2 DEF UpTo
    <3>2. /\ Pick(T) \in T /\ T \ {Pick(T)} \in SUBSET S
          /\ Cardinality(T) \in Nat /\ Cardinality(T \ {Pick(T)}) + 1 = Cardinality(T)
      BY <2>2, <3>1, Remainder
    <3>3. Cardinality(T \ {Pick(T)}) \in Nat
      BY <3>2, FS_Subset, FS_CardinalityType
    <3>4. Cardinality(T \ {Pick(T)}) <= n
      BY <3>1, <3>2, <3>3
    <3>5. QED
      BY <3>1, <3>2, <3>4 DEF UpTo
  <2>3. ASSUME NEW T \in D PROVE T \in E /\ f[T] = g[T]
    <3>1. T \in E
      <4>1. T \in SUBSET S /\ Cardinality(T) <= n /\ IsFiniteSet(T)
        BY FS_Subset DEF UpTo
      <4>2. Cardinality(T) \in Nat
        BY <4>1, FS_CardinalityType
      <4>3. QED
        BY <4>1, <4>2 DEF UpTo
    <3>2. g[T] = IF T = {} THEN 0 ELSE h[Pick(T)] + g[T \ {Pick(T)}]
      BY <2>1 DEF Unfolds
    <3> HIDE DEF E, D
    <3>3. QED
      BY <3>1, <3>2
  <2> HIDE DEF E, D
  <2>4. f \in [E -> Int]
    BY <2>1, <2>2
  <2>5. Unfolds(f, h, E)
    <3>1. \A T \in E : T # {} => f[T \ {Pick(T)}] = g[T \ {Pick(T)}]
      BY <2>2, <2>3
    <3> DEFINE e == [T \in E |-> IF T = {} THEN 0 ELSE h[Pick(T)] + f[T \ {Pick(T)}]]
    <3>2. \A T \in E : f[T] = e[T]
      BY <3>1
    <3>3. f = e
      BY <3>2
    <3>4. QED
      BY <3>3 DEF Unfolds
  <2> HIDE DEF f
  <2>6. Partial(S, h, n + 1)
    BY <2>4, <2>5 DEF Partial, E
  <2>7. n + 1 \in Nat
    OBVIOUS
  <2>8. QED
    BY <2>6, <2>7
<1>3. Cardinality(S) \in G
  <2> HIDE DEF G
  <2>1. QED
    BY <1>1, <1>2, AllNumbers, FS_CardinalityType
<1>4. UpTo(S, Cardinality(S)) = SUBSET S
  BY FS_Subset DEF UpTo
<1>5. QED
  BY <1>3, <1>4 DEF Partial

(* So a sum obeys its recursion.                                           *)
LEMMA SumsUnfold ==
    ASSUME NEW S, IsFiniteSet(S), NEW h \in [S -> Int], NEW T \in SUBSET S
    PROVE  /\ Sums(h, S)[T] \in Int
           /\ T = {} => Sums(h, S)[T] = 0
           /\ T # {} => Sums(h, S)[T] = h[Pick(T)] + Sums(h, S)[T \ {Pick(T)}]
<1> DEFINE g == Sums(h, S)
<1>1. PICK f \in [SUBSET S -> Int] : Unfolds(f, h, SUBSET S)
  BY SumsExist
<1>2. Unfolds(g, h, SUBSET S)
  BY <1>1, Zenon DEF Sums
<1> HIDE DEF g
<1>3. g = [U \in SUBSET S |-> IF U = {} THEN 0 ELSE h[Pick(U)] + g[U \ {Pick(U)}]]
  BY <1>2 DEF Unfolds
<1>4. g[T] = IF T = {} THEN 0 ELSE h[Pick(T)] + g[T \ {Pick(T)}]
  BY <1>3
<1> DEFINE G == {n \in Nat : \A U \in SUBSET S : Cardinality(U) <= n => g[U] \in Int}
<1>5. 0 \in G
  <2>1. ASSUME NEW U \in SUBSET S, Cardinality(U) <= 0 PROVE g[U] \in Int
    <3>1. U = {}
      BY <2>1, NoElements
    <3>2. QED
      BY <1>3, <3>1
  <2>2. QED
    BY <2>1
<1>6. ASSUME NEW n \in Nat, n \in G PROVE n + 1 \in G
  <2>1. ASSUME NEW U \in SUBSET S, Cardinality(U) <= n + 1 PROVE g[U] \in Int
    <3>1. CASE U = {}
      BY <1>3, <3>1
    <3>2. CASE U # {}
      <4>1. /\ Pick(U) \in U /\ U \ {Pick(U)} \in SUBSET S
            /\ Cardinality(U) \in Nat /\ Cardinality(U \ {Pick(U)}) + 1 = Cardinality(U)
        BY <3>2, Remainder
      <4>2. Cardinality(U \ {Pick(U)}) \in Nat
        BY <4>1, FS_Subset, FS_CardinalityType
      <4>3. g[U \ {Pick(U)}] \in Int
        BY <1>6, <2>1, <4>1, <4>2
      <4>4. g[U] = h[Pick(U)] + g[U \ {Pick(U)}] /\ h[Pick(U)] \in Int
        BY <1>3, <3>2, <4>1
      <4>5. QED
        BY <4>3, <4>4
    <3>3. QED
      BY <3>1, <3>2
  <2>2. QED
    BY <2>1
<1>7. g[T] \in Int
  <2>1. IsFiniteSet(T) /\ Cardinality(T) \in Nat
    BY FS_Subset, FS_CardinalityType
  <2>2. Cardinality(T) \in G
    <3> HIDE DEF G
    <3>1. QED
      BY <1>5, <1>6, <2>1, AllNumbers
  <2>3. QED
    BY <2>1, <2>2
<1>8. QED
  BY <1>4, <1>7 DEF g

(* A sum moves by as much as one of its terms does.                        *)
LEMMA SumsMove ==
    ASSUME NEW S, IsFiniteSet(S), NEW h \in [S -> Int], NEW s \in S, NEW k \in Int,
           NEW h2 \in [S -> Int], h2[s] = h[s] + k, \A x \in S \ {s} : h2[x] = h[x]
    PROVE  Sums(h2, S)[S] = Sums(h, S)[S] + k
<1> DEFINE a == Sums(h, S)
           b == Sums(h2, S)
           d(T) == IF s \in T THEN k ELSE 0
           G == {n \in Nat : \A T \in SUBSET S : Cardinality(T) <= n => b[T] = a[T] + d(T)}
<1>1. \A T \in SUBSET S :
        /\ a[T] \in Int /\ (T = {} => a[T] = 0)
        /\ T # {} => a[T] = h[Pick(T)] + a[T \ {Pick(T)}]
  BY SumsUnfold
<1>2. \A T \in SUBSET S :
        /\ b[T] \in Int /\ (T = {} => b[T] = 0)
        /\ T # {} => b[T] = h2[Pick(T)] + b[T \ {Pick(T)}]
  BY SumsUnfold
<1>3. /\ \A T : d(T) \in Int /\ (s \notin T => d(T) = 0) /\ (s \in T => d(T) = k)
      /\ \A x \in S : h2[x] = IF x = s THEN h[x] + k ELSE h[x]
  OBVIOUS
<1> HIDE DEF a, b, d
<1>4. 0 \in G
  <2>1. ASSUME NEW T \in SUBSET S, Cardinality(T) <= 0 PROVE b[T] = a[T] + d(T)
    <3>1. T = {}
      BY <2>1, NoElements
    <3>2. a[T] = 0 /\ b[T] = 0 /\ d(T) = 0
      BY <1>1, <1>2, <1>3, <3>1
    <3>3. QED
      BY <3>2
  <2>2. QED
    BY <2>1
<1>5. ASSUME NEW n \in Nat, n \in G PROVE n + 1 \in G
  <2>1. ASSUME NEW T \in SUBSET S, Cardinality(T) <= n + 1 PROVE b[T] = a[T] + d(T)
    <3>1. CASE T = {}
      <4>1. a[T] = 0 /\ b[T] = 0 /\ d(T) = 0
        BY <1>1, <1>2, <1>3, <3>1
      <4>2. QED
        BY <4>1
    <3>2. CASE T # {}
      <4> DEFINE x == Pick(T)
                 U == T \ {x}
      <4>1. /\ x \in T /\ U \in SUBSET S
            /\ Cardinality(T) \in Nat /\ Cardinality(U) + 1 = Cardinality(T)
        BY <3>2, Remainder
      <4>2. Cardinality(U) \in Nat
        BY <4>1, FS_Subset, FS_CardinalityType
      <4>3. b[U] = a[U] + d(U)
        <5> HIDE DEF U
        <5>1. QED
          BY <1>5, <2>1, <4>1, <4>2
      <4>4. /\ a[T] = h[x] + a[U] /\ b[T] = h2[x] + b[U]
            /\ a[U] \in Int /\ b[U] \in Int /\ h[x] \in Int
        BY <1>1, <1>2, <3>2, <4>1
      <4>5. CASE x = s
        <5>1. h2[x] = h[x] + k /\ d(U) = 0 /\ d(T) = k
          BY <1>3, <4>1, <4>5
        <5> HIDE DEF U, x
        <5>2. QED
          BY <4>3, <4>4, <5>1
      <4>6. CASE x # s
        <5>1. h2[x] = h[x] /\ d(U) = d(T) /\ d(T) \in Int
          BY <1>3, <4>1, <4>6
        <5> HIDE DEF U, x
        <5>2. QED
          BY <4>3, <4>4, <5>1
      <4>7. QED
        BY <4>5, <4>6
    <3>3. QED
      BY <3>1, <3>2
  <2>2. QED
    BY <2>1
<1>6. Cardinality(S) \in G
  <2> HIDE DEF G
  <2>1. QED
    BY <1>4, <1>5, AllNumbers, FS_CardinalityType
<1>7. b[S] = a[S] + d(S) /\ d(S) = k
  BY <1>3, <1>6, FS_CardinalityType
<1>8. QED
  BY <1>7 DEF a, b

(* A sum of zeros.                                                         *)
LEMMA SumsZero ==
    ASSUME NEW S, IsFiniteSet(S), NEW h \in [S -> Int], \A s \in S : h[s] = 0
    PROVE  Sums(h, S)[S] = 0
<1> DEFINE a == Sums(h, S)
           G == {n \in Nat : \A T \in SUBSET S : Cardinality(T) <= n => a[T] = 0}
<1>1. \A T \in SUBSET S :
        /\ T = {} => a[T] = 0
        /\ T # {} => a[T] = h[Pick(T)] + a[T \ {Pick(T)}]
  BY SumsUnfold
<1> HIDE DEF a
<1>2. 0 \in G
  <2>1. ASSUME NEW T \in SUBSET S, Cardinality(T) <= 0 PROVE a[T] = 0
    <3>1. T = {}
      BY <2>1, NoElements
    <3>2. QED
      BY <1>1, <3>1
  <2>2. QED
    BY <2>1
<1>3. ASSUME NEW n \in Nat, n \in G PROVE n + 1 \in G
  <2>1. ASSUME NEW T \in SUBSET S, Cardinality(T) <= n + 1, T # {} PROVE a[T] = 0
    <3> DEFINE x == Pick(T)
               U == T \ {x}
    <3>1. /\ x \in T /\ U \in SUBSET S
          /\ Cardinality(T) \in Nat /\ Cardinality(U) + 1 = Cardinality(T)
      BY <2>1, Remainder
    <3>2. Cardinality(U) \in Nat
      BY <3>1, FS_Subset, FS_CardinalityType
    <3>3. a[U] = 0
      <4> HIDE DEF U
      <4>1. QED
        BY <1>3, <2>1, <3>1, <3>2
    <3>4. a[T] = h[x] + a[U] /\ h[x] = 0
      BY <1>1, <2>1, <3>1
    <3>5. QED
      BY <3>3, <3>4
  <2>2. \A T \in SUBSET S : Cardinality(T) <= n + 1 => a[T] = 0
    BY <1>1, <2>1
  <2>3. QED
    BY <2>2
<1>4. Cardinality(S) \in G
  <2> HIDE DEF G
  <2>1. QED
    BY <1>2, <1>3, AllNumbers, FS_CardinalityType
<1>5. QED
  BY <1>4, FS_CardinalityType DEF a

(* Streams are finitely many, and what they sent are numbers.              *)
LEMMA StreamsFinite == IsFiniteSet(Streams)
BY SendWindowAssumption, FS_Interval DEF Streams

\* ConnWindowExact, with the sum by its recursion.
DrawnExactly == conn_window = DefaultWindow + conn_granted - Sums(sent, Streams)[Streams]

(* build_data takes from the connection window what it sends.              *)
LEMMA BuiltExactly ==
    ASSUME SendTypeOK, SendTypeOK', DrawnExactly, NEW s \in Streams, NEW n \in Nat,
           NEW w \in Int, NEW k \in Nat, Built(s, n, w, k), UNCHANGED conn_granted
    PROVE  DrawnExactly'
<1>1. /\ sent \in [Streams -> Int] /\ sent' \in [Streams -> Int] /\ k \in Int
      /\ sent' = [sent EXCEPT ![s] = sent[s] + k] /\ conn_window' = conn_window - k
  BY DEF SendTypeOK, Built
<1> DEFINE a == Sums(sent, Streams)[Streams]
           b == Sums(sent', Streams)[Streams]
<1>2. b = a + k
  <2> DEFINE h2 == sent'
  <2>1. /\ h2 \in [Streams -> Int] /\ sent \in [Streams -> Int] /\ k \in Int
        /\ h2[s] = sent[s] + k /\ \A x \in Streams \ {s} : h2[x] = sent[x]
    BY <1>1
  <2> HIDE DEF h2
  <2>2. Sums(h2, Streams)[Streams] = Sums(sent, Streams)[Streams] + k
    BY <2>1, StreamsFinite, SumsMove
  <2>3. QED
    BY <2>2 DEF h2
<1>3. a \in Int
  BY <1>1, StreamsFinite, SumsUnfold
<1>4. Sums(sent, Streams)[Streams]' = b
  BY DEF Streams
<1> HIDE DEF a, b
<1>5. conn_window = DefaultWindow + conn_granted - a
  BY DEF DrawnExactly, a
<1>6. conn_window - k = DefaultWindow + conn_granted - b
  BY <1>2, <1>3, <1>5, SendWindowAssumption DEF SendTypeOK
<1>7. QED
  BY <1>1, <1>4, <1>6 DEF DrawnExactly

(* The connection's window is what the server has granted the connection   *)
(* less the bytes sent on all its streams, and never below zero, however   *)
(* many streams share it.                                                  *)
THEOREM ConnWindowIsExact == SendSpec => []ConnWindowExact
<1>1. SendInit => DrawnExactly
  <2> SUFFICES ASSUME SendInit PROVE DrawnExactly
    OBVIOUS
  <2>1. sent \in [Streams -> Int] /\ \A s \in Streams : sent[s] = 0
    BY DEF SendInit
  <2>2. Sums(sent, Streams)[Streams] = 0
    BY <2>1, StreamsFinite, SumsZero
  <2>3. QED
    BY <2>2, SendWindowAssumption DEF SendInit, DrawnExactly
<1>2. ASSUME SendInv, SendInv', DrawnExactly, [SendNext]_send_vars PROVE DrawnExactly'
  <2> USE SendWindowAssumption
  <2>1. SendTypeOK /\ SendTypeOK' /\ ConnPositive
    BY <1>2 DEF SendInv
  <2>2. ASSUME NEW s \in Streams, SendRequest(s) PROVE DrawnExactly'
    <3>1. Body[s] \in Nat /\ initial \in Int /\ initial <= MaxWindow
      BY <2>1 DEF SendTypeOK, Streams
    <3>2. build_data(s, Body[s], initial, "open") /\ UNCHANGED conn_granted
      BY <2>2 DEF SendRequest
    <3>3. PICK k \in Nat : Built(s, Body[s], initial, k)
      BY <2>1, <3>1, <3>2, BuildDataKeeps
    <3>4. QED
      BY <1>2, <2>1, <3>1, <3>2, <3>3, BuiltExactly
  <2>3. ASSUME DrainItem, held[drain] > 0 /\ KnownStream(drain) PROVE DrawnExactly'
    <3>1. /\ drain \in Streams /\ held[drain] \in Nat /\ window[drain] \in Int
          /\ window[drain] <= MaxWindow
          /\ state[drain] \in KnownStates
      BY <2>1, <2>3 DEF DrainItem, SendTypeOK, KnownStream
    <3>2. /\ build_data(drain, held[drain], window[drain], state[drain])
          /\ UNCHANGED conn_granted
      BY <2>3 DEF DrainItem
    <3>3. PICK k \in Nat : Built(drain, held[drain], window[drain], k)
      BY <2>1, <3>1, <3>2, BuildDataKeeps
    <3>4. QED
      BY <1>2, <2>1, <3>1, <3>2, <3>3, BuiltExactly
  <2>4. ASSUME NEW inc \in Increments, ConnWindowUpdate(inc) PROVE DrawnExactly'
    <3>1. /\ conn_window' = conn_window + inc /\ conn_granted' = conn_granted + inc
          /\ sent' = sent /\ inc \in Nat
      BY <2>4 DEF ConnWindowUpdate
    <3> DEFINE a == Sums(sent, Streams)[Streams]
    <3>2. a \in Int
      <4>1. sent \in [Streams -> Int] /\ Streams \in SUBSET Streams
        BY <2>1 DEF SendTypeOK
      <4>2. QED
        BY <4>1, StreamsFinite, SumsUnfold, Zenon
    <3>3. Sums(sent, Streams)[Streams]' = a
      BY <3>1 DEF Streams
    <3> HIDE DEF a
    <3>4. conn_window = DefaultWindow + conn_granted - a
      BY <1>2 DEF DrawnExactly, a
    <3>5. conn_window + inc = DefaultWindow + (conn_granted + inc) - a
      BY <2>1, <3>1, <3>2, <3>4 DEF SendTypeOK
    <3>6. QED
      BY <3>1, <3>3, <3>5 DEF DrawnExactly
  <2>5. ASSUME UNCHANGED <<conn_window, conn_granted, sent>> PROVE DrawnExactly'
    BY <1>2, <2>5 DEF DrawnExactly, Streams
  <2>6. \/ \E s \in Streams : SendRequest(s)
        \/ DrainItem /\ held[drain] > 0 /\ KnownStream(drain)
        \/ \E inc \in Increments : ConnWindowUpdate(inc)
        \/ UNCHANGED <<conn_window, conn_granted, sent>>
    BY <1>2 DEF SendNext, send_vars, DrainItem, Reset, ResponseEnds, StreamWindowUpdate,
       StreamWindowUpdateBad, Settings
  <2>7. QED
    BY <2>2, <2>3, <2>4, <2>5, <2>6
<1>3. SendInv /\ DrawnExactly => ConnWindowExact
  BY SumIsSums DEF SendInv, ConnPositive, DrawnExactly, ConnWindowExact
<1>4. QED
  BY <1>1, <1>2, <1>3, SendInvariance, PTL DEF SendSpec
=============================================================================
