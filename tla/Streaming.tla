----------------------------- MODULE Streaming -----------------------------
(***************************************************************************)
(* One call of RequestBuilder::send_streaming: the transports it tries with *)
(* the connection permits they hold, and the body it returns, read chunk by *)
(* chunk.  Over HTTP/1.1 a bridge task owns the connection and its permit   *)
(* and forwards the body through a channel.                                 *)
(***************************************************************************)
EXTENDS Naturals, Sequences, FiniteSets, SequencesExt

CONSTANTS
    Limit,          \* the connection limit of the pool
    Plans,          \* calls: [mode, compressed, fallback, max_body]; max_body is
                    \* ResourceLimits::max_response_body_size, in chunks
    Body,           \* what each chunk of the body decodes to, as a sequence of sequences
    Residue,        \* what the decoder still has when the body ends
    MaxDecoded,     \* MAX_DECOMPRESSED_SIZE
    ChannelSize     \* of the bridge's channel

\* What the body and the end of it decode to, piece by piece.
Units == UNION {Range(s) : s \in Range(Body) \cup {Residue}}

ASSUME StreamingAssumption ==
    /\ {Limit, ChannelSize} \subseteq Nat \ {0}
    /\ MaxDecoded \in Nat
    /\ Plans \subseteq [mode : {"raw", "decoded", "bytes"}, compressed : BOOLEAN,
                        fallback : BOOLEAN, max_body : Nat]
    /\ Body \in Seq(Seq(Units)) /\ Residue \in Seq(Units)

VARIABLES
    plan,     \* the call
    phase,    \* where send_streaming_inner is
    legs,     \* [quic, tcp]: the futures that try to send, with their permits
    pooled,   \* multiplexed and idle connections of the key in the pool
    others,   \* permits of other requests
    refusal,  \* why the call failed, how many permits it held then, and if it had raced
    source,   \* what the transport has received of the body, and its end
    produced, \* how much of the body was sent, whether it stopped, and was then whole
              \* or dropped in silence
    bridge,   \* the task of send_h1_streaming: [st, item, permits]
    channel,  \* its channel
    reader    \* the StreamingResponse

call_vars == <<plan, phase, legs, pooled, others, refusal>>
body_vars == <<source, produced, bridge, channel, reader>>
streaming_vars == <<call_vars, body_vars>>

Legs == {"quic", "tcp"}
Leg(st, next, permits) == [st |-> st, next |-> next, permits |-> permits, err |-> "none"]
Off == Leg("off", "tcp", 0)
Starting(next) == Leg("reserve", next, 0)
NoLegs == [l \in Legs |-> Off]

\* Items of a body: the number of a chunk, its end, a cut; and no item.
End == 0
Cut == Len(Body) + 1
Nothing == Len(Body) + 2

StreamingInit ==
    /\ plan \in Plans
    /\ phase = "start" /\ legs = NoLegs
    /\ pooled \in {{}, {"h1"}, {"h2"}, {"h3"}} /\ others = 0
    /\ refusal = [err |-> "none", held |-> 0, raced |-> FALSE]
    /\ source = <<>> /\ produced = [sent |-> 0, stopped |-> FALSE, whole |-> FALSE,
                                    silent |-> FALSE]
    /\ bridge = [st |-> "off", item |-> Nothing, permits |-> 0]
    /\ channel = <<>>
    /\ reader = [st |-> "none", via |-> "h1", decoder |-> "uninit", received |-> 0,
                 buffer |-> <<>>, total |-> 0, out |-> <<>>, erred |-> FALSE, eof |-> FALSE]

-----------------------------------------------------------------------------
(* The connection budget *)

Held == legs["quic"].permits + legs["tcp"].permits
Used == Held + Cardinality(pooled) + bridge.permits + others

\* Session::reserve_connection: a slot, or that of an idle connection.
CanReserve == Used < Limit \/ "h1" \in pooled
AfterReserve == IF Used < Limit THEN pooled ELSE pooled \ {"h1"}

Failed(err) ==
    /\ phase' = "failed" /\ legs' = NoLegs
    /\ refusal' = [err |-> err, held |-> Held, raced |-> phase \in {"race", "last"}]

\* Other requests of the session take permits and return them, and the driver
\* of a pooled connection ends.
OthersMove ==
    /\ \/ Used < Limit /\ others' = others + 1 /\ UNCHANGED pooled
       \/ others > 0 /\ others' = others - 1 /\ UNCHANGED pooled
       \/ \E c \in pooled : pooled' = pooled \ {c} /\ UNCHANGED others
    /\ UNCHANGED <<plan, phase, legs, refusal, body_vars>>

-----------------------------------------------------------------------------
(* send_streaming_inner *)

\* A pooled connection: H1 comes with its permit, the others stay in the pool.
TakePooled ==
    /\ phase = "start"
    /\ \E c \in pooled :
         /\ legs' = [NoLegs EXCEPT !["tcp"] = Leg("sent", c, IF c = "h1" THEN 1 ELSE 0)]
         /\ pooled' = pooled \ ({"h1"} \cap {c})
    /\ phase' = "pooled"
    /\ UNCHANGED <<plan, others, refusal, body_vars>>

\* establish_and_send_streaming, with any decision of decide_protocol.  Also
\* when the preferred version leaves the pooled connection unused.
DecideTransport ==
    /\ phase \in {"start", "establish"}
    /\ \/ phase' = "single" /\ legs' = [NoLegs EXCEPT !["tcp"] = Starting("tcp")]
       \/ phase' \in {"single", "race"} /\ legs' = [NoLegs EXCEPT !["quic"] = Starting("quic")]
    /\ UNCHANGED <<plan, pooled, others, refusal, body_vars>>

\* A multiplexed connection that is not ready, or closes on the request, is
\* removed and replaced; an H1 connection is not.
PooledStreamFails ==
    /\ phase = "pooled"
    /\ \/ /\ legs["tcp"].next \in {"h2", "h3"}
          /\ pooled' = pooled \ {legs["tcp"].next}
          /\ phase' = "establish" /\ legs' = NoLegs /\ UNCHANGED refusal
       \/ Failed("closed") /\ UNCHANGED pooled
    /\ UNCHANGED <<plan, others, body_vars>>

\* establish_and_send_streaming_race: TCP starts after its delay.
ReleaseTcpLeg ==
    /\ phase = "race" /\ legs["tcp"].st = "off"
    /\ legs' = [legs EXCEPT !["tcp"] = Starting("tcp")]
    /\ UNCHANGED <<plan, phase, pooled, others, refusal, body_vars>>

\* The end of leg l.  In a race the other leg goes on; when both have failed,
\* TCP is tried again if it was the limit that stopped it.
GivesUpRace(l, err) ==
    LET other == CHOOSE k \in Legs : k # l
        tcp_err == IF l = "tcp" THEN err ELSE legs["tcp"].err
    IN  IF phase \in {"single", "last"} THEN Failed(err)
        ELSE IF legs[other].st = "off"
        THEN /\ phase' = "last" /\ legs' = [NoLegs EXCEPT !["tcp"] = Starting("tcp")]
             /\ UNCHANGED refusal
        ELSE IF legs[other].st = "failed" THEN Failed(tcp_err)
        ELSE /\ legs' = [legs EXCEPT ![l] = [Off EXCEPT !.st = "failed", !.err = err]]
             /\ UNCHANGED <<phase, refusal>>
LegFails(l, err) ==
    LET other == CHOOSE k \in Legs : k # l
        tcp_err == IF l = "tcp" THEN err ELSE legs["tcp"].err
    IN  IF phase \in {"single", "last"} THEN Failed(err)
        ELSE IF legs[other].st = "off" \/ (legs[other].st = "failed" /\ tcp_err = "limit")
        THEN /\ phase' = "last" /\ legs' = [NoLegs EXCEPT !["tcp"] = Starting("tcp")]
             /\ UNCHANGED refusal
        ELSE IF legs[other].st = "failed" THEN Failed(tcp_err)
        ELSE /\ legs' = [legs EXCEPT ![l] = [Off EXCEPT !.st = "failed", !.err = err]]
             /\ UNCHANGED <<phase, refusal>>

Reserve(l) ==
    /\ legs[l].st = "reserve"
    /\ IF CanReserve
       THEN /\ legs' = [legs EXCEPT ![l] = Leg("dial", @.next, @.permits + 1)]
            /\ pooled' = AfterReserve /\ UNCHANGED <<phase, refusal>>
       ELSE LegFails(l, "limit") /\ UNCHANGED pooled
    /\ UNCHANGED <<plan, others, body_vars>>

\* establish_and_send_streaming_quic: a failed handshake falls back to TCP
\* while its permit is still held.
QuicDial(l) ==
    /\ legs[l].st = "dial" /\ legs[l].next = "quic"
    /\ \/ /\ legs' = [legs EXCEPT ![l] = Leg("sent", "h3", @.permits - 1)]
          /\ pooled' = pooled \cup {"h3"} /\ UNCHANGED <<phase, refusal>>
       \/ /\ IF plan.fallback
             THEN /\ legs' = [legs EXCEPT ![l] = Leg("reserve", "tcp", @.permits)]
                  /\ UNCHANGED <<phase, refusal>>
             ELSE LegFails(l, "connect")
          /\ UNCHANGED pooled
    /\ UNCHANGED <<plan, others, body_vars>>

\* establish_and_send_streaming_tcp: h2 goes into the pool with the permit (a
\* connection already there wins, and this one's permit is free); h1 keeps it.
TcpDial(l) ==
    /\ legs[l].st = "dial" /\ legs[l].next \in {"tcp", "h1"}
    /\ \/ /\ legs[l].next = "tcp"
          /\ legs' = [legs EXCEPT ![l] = Leg("sent", "h2", @.permits - 1)]
          /\ pooled' = pooled \cup {"h2"} /\ UNCHANGED <<phase, refusal>>
       \/ /\ legs' = [legs EXCEPT ![l] = Leg("sent", "h1", @.permits)]
          /\ UNCHANGED <<pooled, phase, refusal>>
       \/ LegFails(l, "connect") /\ UNCHANGED pooled
    /\ UNCHANGED <<plan, others, body_vars>>

\* The request over leg l fails: a new h2 connection that failed falls back to
\* h1, but not when the head of the response exceeds the limits.
SendFails(l) ==
    /\ phase \in {"single", "race", "last"} /\ legs[l].st = "sent"
    /\ \/ LegFails(l, "closed") /\ (legs[l].next # "h2" \/ ~plan.fallback)
       \/ LegFails(l, "oversized")
       \/ /\ legs[l].next = "h2" /\ plan.fallback
          /\ legs' = [legs EXCEPT ![l] = Leg("reserve", "h1", @.permits)]
          /\ UNCHANGED <<phase, refusal>>
    /\ UNCHANGED <<plan, pooled, others, body_vars>>

\* send_streaming_impl: the total timeout drops the futures.
TotalTimeout ==
    /\ phase \in {"start", "establish", "pooled", "single", "race", "last"}
    /\ Failed("timeout")
    /\ UNCHANGED <<plan, pooled, others, body_vars>>

\* The head of the response arrives over leg l; the other future is dropped.
Opens(l) ==
    /\ phase \in {"pooled", "single", "race", "last"} /\ legs[l].st = "sent"
    /\ phase' = "open" /\ legs' = NoLegs
    /\ reader' = [reader EXCEPT !.st = "idle", !.via = legs[l].next]
    /\ UNCHANGED <<plan, pooled, others, refusal, source, produced, channel>>

\* send_h2_streaming and send_h3_streaming: the connection stays in the pool.
OpenH2(l) == Opens(l) /\ legs[l].next = "h2" /\ UNCHANGED bridge
OpenH3(l) == Opens(l) /\ legs[l].next = "h3" /\ UNCHANGED bridge

\* send_h1_streaming: the connection and its permit move into the bridge task.
OpenUnpaid(l) ==
    Opens(l) /\ legs[l].next = "h1" /\ bridge' = [bridge EXCEPT !.st = "run"]
OpenH1(l) ==
    /\ Opens(l) /\ legs[l].next = "h1"
    /\ bridge' = [bridge EXCEPT !.st = "run", !.permits = 1]

-----------------------------------------------------------------------------
(* The body *)

\* The server sends a chunk, ends the body, or the connection is cut.  The
\* driver of an H2 connection that is aborted, or told to go away, drops the
\* channel of a body without an error: the reader takes that for the end.
BodyArrives ==
    /\ phase = "open" /\ ~produced.stopped
    /\ \/ /\ produced.sent < Len(Body)
          /\ produced' = [produced EXCEPT !.sent = @ + 1]
          /\ source' = Append(source, produced.sent + 1)
       \/ \E end \in IF produced.sent = Len(Body) THEN {End, Cut} ELSE {Cut} :
            /\ produced' = [produced EXCEPT !.stopped = TRUE, !.whole = end = End]
            /\ source' = Append(source, end)
       \/ /\ reader.via = "h2"
          /\ produced' = [produced EXCEPT !.stopped = TRUE, !.silent = TRUE]
          /\ source' = Append(source, End)
    /\ UNCHANGED <<call_vars, bridge, channel, reader>>

BridgeRuns == bridge.st = "run"
BridgeEnds == bridge' = [st |-> "end", item |-> Nothing, permits |-> 0]

\* incoming.frame().
BridgeHidesError ==
    /\ BridgeRuns /\ bridge.item = Nothing /\ source # <<>>
    /\ source' = Tail(source)
    /\ IF Head(source) \in {End, Cut} THEN BridgeEnds
       ELSE bridge' = [bridge EXCEPT !.item = Head(source)]
    /\ UNCHANGED <<call_vars, produced, channel, reader>>
BridgeTakes ==
    /\ BridgeRuns /\ bridge.item = Nothing /\ source # <<>>
    /\ source' = Tail(source)
    /\ IF Head(source) = End THEN BridgeEnds
                               ELSE bridge' = [bridge EXCEPT !.item = Head(source)]
    /\ UNCHANGED <<call_vars, produced, channel, reader>>

\* tx.send: waits for room; fails when the response was dropped.
BridgePuts ==
    /\ BridgeRuns /\ bridge.item # Nothing
    /\ \/ /\ reader.st # "dropped" /\ Len(channel) < ChannelSize
          /\ channel' = Append(channel, bridge.item)
          /\ IF bridge.item = Cut THEN BridgeEnds
                                    ELSE bridge' = [bridge EXCEPT !.item = Nothing]
       \/ reader.st = "dropped" /\ BridgeEnds /\ UNCHANGED channel
    /\ UNCHANGED <<call_vars, source, produced, reader>>

Queue == IF reader.via = "h1" THEN channel ELSE source
\* rx.recv() is None when the bridge has ended; data() when the stream has, over
\* H2 also after an error.
ItemReady == Queue # <<>> \/ (reader.via = "h1" /\ bridge.st = "end")
Item == IF Queue = <<>> THEN End ELSE Head(Queue)
Consume ==
    IF reader.via = "h1"
    THEN channel' = (IF channel = <<>> THEN <<>> ELSE Tail(channel)) /\ UNCHANGED source
    ELSE /\ source' = CASE Item = End -> source
                       [] Item = Cut -> IF reader.via = "h2" THEN <<End>> ELSE source
                       [] OTHER -> Tail(source)
         /\ UNCHANGED channel

Decodes == plan.mode = "decoded" /\ plan.compressed

\* A read is called.  chunk_decoded makes its decoder at the first call and is
\* over once the decoder has finished.
ReadCalled ==
    /\ reader.st = "idle"
    /\ reader' = IF Decodes /\ reader.decoder = "finished"
                 THEN [reader EXCEPT !.eof = TRUE]
                 ELSE [reader EXCEPT !.st = "reading",
                         !.decoder = IF Decodes THEN "active" ELSE "passthrough"]
    /\ UNCHANGED <<call_vars, source, produced, bridge, channel>>

Returns(r) == reader' = [r EXCEPT !.st = IF plan.mode = "bytes" THEN "dropped" ELSE "idle"]
Errs == Returns([reader EXCEPT !.erred = TRUE, !.received = @ + 1])

\* chunk(): one more chunk, counted against the limit; then what chunk_decoded
\* or bytes() make of it.  The decoder may find it corrupt.
EndsOnEmpty ==
    LET units == Body[Item]
        r == [reader EXCEPT !.received = @ + 1]
    IN  IF r.received > plan.max_body THEN Errs
        ELSE IF plan.mode = "bytes"
        THEN reader' = [r EXCEPT !.buffer = Append(@, Item)]
        ELSE IF ~Decodes THEN Returns([r EXCEPT !.out = Append(@, Item)])
        ELSE Returns([r EXCEPT !.out = @ \o units, !.eof = units = <<>>])
ChunkArrives ==
    LET units == Body[Item]
        r == [reader EXCEPT !.received = @ + 1]
    IN  IF r.received > plan.max_body THEN Errs
        ELSE IF plan.mode = "bytes"
        THEN reader' = [r EXCEPT !.buffer = Append(@, Item)]
        ELSE IF ~Decodes THEN Returns([r EXCEPT !.out = Append(@, Item)])
        ELSE \/ Errs
             \/ IF r.total + Len(units) > MaxDecoded THEN Errs
                ELSE IF units = <<>> THEN reader' = r
                ELSE Returns([r EXCEPT !.total = @ + Len(units), !.out = @ \o units])

Decoded(chunks) == FlattenSeq([i \in DOMAIN chunks |-> Body[chunks[i]]]) \o Residue

Expected == IF plan.compressed /\ plan.mode # "raw" THEN Decoded([i \in DOMAIN Body |-> i])
                                                    ELSE [i \in DOMAIN Body |-> i]

\* What the decoder may still have at the end of a body.  gzip and brotli refuse
\* one that was dropped; deflate and zstd give what they have got out of it.
Leftovers ==
    IF produced.silent THEN {SubSeq(Expected, Len(reader.out) + 1, n) :
                               n \in Len(reader.out) .. Len(Expected)}
                       ELSE {Residue}

\* The end of the body in bytes(): decompress_body of the buffer.
BytesComplete ==
    \/ plan.compressed /\ Errs
    \/ \E out \in IF ~plan.compressed THEN {reader.buffer}
                 ELSE IF produced.silent THEN Leftovers ELSE {Decoded(reader.buffer)} :
         Returns([reader EXCEPT !.eof = TRUE, !.out = out])

\* The end of the body in chunk() and in chunk_decoded(), which returns what
\* finish() yields.
EndArrives ==
    IF ~Decodes THEN Returns([reader EXCEPT !.eof = TRUE])
    ELSE LET r == [reader EXCEPT !.decoder = "finished"] IN
         \/ Returns([r EXCEPT !.erred = TRUE])
         \/ \E rest \in Leftovers :
              IF r.total + Len(rest) > MaxDecoded THEN Returns([r EXCEPT !.erred = TRUE])
              ELSE Returns([r EXCEPT !.total = @ + Len(rest), !.out = @ \o rest,
                                     !.eof = rest = <<>>])

ReadAdvances ==
    /\ reader.st = "reading" /\ ItemReady
    /\ CASE Item = End -> IF plan.mode = "bytes" THEN BytesComplete ELSE EndArrives
         [] Item = Cut -> Returns([reader EXCEPT !.erred = TRUE])
         [] OTHER -> ChunkArrives
    /\ Consume
    /\ UNCHANGED <<call_vars, produced, bridge>>

\* The future of a read is dropped while it waits; bytes() owns the response.
ReadCancelled ==
    /\ reader.st = "reading"
    /\ reader' = [reader EXCEPT !.st = IF plan.mode = "bytes" THEN "dropped" ELSE "idle"]
    /\ UNCHANGED <<call_vars, source, produced, bridge, channel>>

ResponseDropped ==
    /\ reader.st = "idle" /\ reader' = [reader EXCEPT !.st = "dropped"]
    /\ UNCHANGED <<call_vars, source, produced, bridge, channel>>

StreamingNext ==
    \/ OthersMove \/ TakePooled \/ DecideTransport \/ PooledStreamFails \/ ReleaseTcpLeg \/ TotalTimeout
    \/ \E l \in Legs : Reserve(l) \/ QuicDial(l) \/ TcpDial(l) \/ SendFails(l)
                       \/ OpenH2(l) \/ OpenH3(l) \/ OpenH1(l)
    \/ BodyArrives \/ BridgeTakes \/ BridgePuts
    \/ ReadCalled \/ ReadAdvances \/ ReadCancelled \/ ResponseDropped

StreamingSpec == StreamingInit /\ [][StreamingNext]_streaming_vars

-----------------------------------------------------------------------------
(* Properties *)

\* Connections that are being made, pooled or streamed from, and those of
\* other requests.
Sockets ==
    Cardinality({l \in Legs : legs[l].st = "dial"
                                \/ (legs[l].st = "sent" /\ legs[l].next = "h1")})
      + Cardinality(pooled) + others + (IF BridgeRuns THEN 1 ELSE 0)

\* They never exceed the limit: also while a failed attempt falls back, and
\* while the body of an H1 response is read after the call has returned.
StaysInBudget == Sockets <= Limit

\* A race gives up for lack of a connection slot only when none of the slots
\* was its own: the reservation of a QUIC attempt does not starve the TCP one.
RaceNotStarved == refusal.err = "limit" /\ refusal.raced => refusal.held = 0

\* A streaming call keeps to the connection limit and does not get in its own
\* way (establish_and_send_streaming_race, send_h1_streaming).
StreamingFrugal == StaysInBudget /\ RaceNotStarved

\* What the reader has got is a prefix of the (decoded) body, and it never gets
\* more than the limit.  An end without an error before it means the whole body,
\* over a bridge that was slow, cut or dropped, and with cancelled reads
\* (StreamingResponse::chunk, chunk_decoded and bytes); the one exception is a
\* body whose channel the H2 driver dropped in silence, which looks whole.
BodyReadRight ==
    /\ ~reader.erred => IsPrefix(reader.out, Expected)
    /\ reader.eof /\ ~reader.erred => produced.silent \/ (reader.out = Expected /\ produced.whole)
    /\ plan.mode = "raw" \/ ~plan.compressed => Len(reader.out) <= plan.max_body
=============================================================================
