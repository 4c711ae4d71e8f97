----------------------------- MODULE TlsStream -----------------------------
(***************************************************************************)
(* The record stream after the handshake: TlsStream of lkrequest, the key   *)
(* updates of PostHandshakeState, and the session tickets that arrive on    *)
(* it.  The keys of a direction are numbered; a record is the messages it   *)
(* holds, the number of the keys it was sealed with and, for the caller's   *)
(* data, which of the caller's writes it is.                                *)
(***************************************************************************)
EXTENDS Naturals, Sequences, FiniteSets

CONSTANTS
    MaxServerRecords,   \* records the server sends at most
    MaxWrites,          \* writes the caller makes at most
    MaxWriteBuf         \* MAX_WRITE_BUF, in records

ASSUME TlsStreamAssumption ==
    /\ {MaxServerRecords, MaxWrites} \subseteq Nat
    /\ MaxWriteBuf \in Nat \ {0}

VARIABLES
    read_keys,    \* keys of the reader, and of the server's writer
    write_keys,   \* keys of the writer, and of the server's reader
    inbound,      \* records on their way to the client, oldest first
    write_buf,    \* records encrypted and not yet given to the transport
    outbound,     \* records the transport has taken
    stream,       \* "open", "eof" or "error" as the reader sees it
    closed,       \* poll_shutdown has been called
    log           \* counters: records the server sent, data sent and read,
                  \* data written and received, tickets stored, coalesced updates

tls_vars == <<read_keys, write_keys, inbound, write_buf, outbound, stream,
              closed, log>>

Record(msgs, keys) == [msgs |-> msgs, keys |-> keys, no |-> 0]

\* The record of the caller's next write.
Written == [msgs |-> <<"data">>, keys |-> write_keys.client, no |-> log.written + 1]

TlsInit ==
    /\ read_keys = [client |-> 0, server |-> 0]
    /\ write_keys = [client |-> 0, server |-> 0]
    /\ inbound = <<>> /\ write_buf = <<>> /\ outbound = <<>>
    /\ stream = "open" /\ closed = FALSE
    /\ log = [sent |-> 0, offered |-> 0, read |-> 0, written |-> 0,
              received |-> 0, requested |-> 0, stored |-> 0, coalesced |-> FALSE,
              garbled |-> FALSE, over |-> FALSE]

-----------------------------------------------------------------------------
(* The server *)

Updates == {"update", "update_requested"}

Contents ==
    {<<"data">>, <<"ticket">>, <<"update">>, <<"update_requested">>,
     <<"ticket", "update">>, <<"close">>, <<"warning">>, <<"fatal">>}

\* A server changes its keys with the record that ends in a KeyUpdate.
TlsServerSends ==
    /\ log.sent < MaxServerRecords /\ ~log.over
    /\ \E c \in Contents :
         /\ inbound' = Append(inbound, Record(c, read_keys.server))
         /\ read_keys' = IF c[Len(c)] \in Updates
                         THEN [read_keys EXCEPT !.server = @ + 1] ELSE read_keys
         /\ log' = [log EXCEPT !.sent = @ + 1,
                      !.offered = IF c = <<"data">> THEN @ + 1 ELSE @,
                      !.requested = IF c = <<"update_requested">> THEN @ + 1 ELSE @,
                      !.coalesced = @ \/ c = <<"ticket", "update">>,
                      !.over = c[1] \in {"close", "fatal"}]
    /\ UNCHANGED <<write_keys, write_buf, outbound, stream, closed>>

TlsServerReceives ==
    /\ outbound # <<>>
    /\ LET r == Head(outbound)
       IN  /\ outbound' = Tail(outbound)
           /\ write_keys' = IF r.msgs = <<"update">>
                            THEN [write_keys EXCEPT !.server = @ + 1]
                            ELSE write_keys
           /\ log' = [log EXCEPT
                        !.received = IF r.msgs = <<"data">> THEN @ + 1 ELSE @,
                        !.garbled = @ \/ r.keys # write_keys.server]
    /\ UNCHANGED <<read_keys, inbound, write_buf, stream, closed>>

-----------------------------------------------------------------------------
(* Reading *)

\* PostHandshakeState::build_key_update_response: the answer is sealed with
\* the keys it replaces.
SealsAnswerWithNewKeys ==
    /\ write_buf' = Append(write_buf, Record(<<"update">>, write_keys.client + 1))
    /\ write_keys' = [write_keys EXCEPT !.client = @ + 1]
AnswerKeyUpdate ==
    /\ write_buf' = Append(write_buf, Record(<<"update">>, write_keys.client))
    /\ write_keys' = [write_keys EXCEPT !.client = @ + 1]

\* handle_post_handshake looks at the first message of the record only.
IgnoresUpdates(m) ==
    /\ log' = [log EXCEPT !.stored = IF m = "ticket" THEN @ + 1 ELSE @]
    /\ UNCHANGED <<read_keys, write_keys, write_buf>>
HandlePostHandshake(m) ==
    /\ read_keys' = IF m \in Updates THEN [read_keys EXCEPT !.client = @ + 1]
                                     ELSE read_keys
    /\ IF m = "update_requested" THEN AnswerKeyUpdate
                                 ELSE UNCHANGED <<write_buf, write_keys>>
    /\ log' = [log EXCEPT !.stored = IF m = "ticket" THEN @ + 1 ELSE @]

\* try_read_app_data with the next record.  A close_notify leaves no trace:
\* the reader goes on to the transport.
TryReadAppData ==
    /\ stream = "open" /\ inbound # <<>>
    /\ LET r == Head(inbound)
           m == Head(r.msgs)
       IN  /\ inbound' = Tail(inbound)
           /\ stream' = IF r.keys # read_keys.client \/ m = "fatal" THEN "error"
                                                                  ELSE "open"
           /\ CASE r.keys # read_keys.client ->
                     UNCHANGED <<read_keys, write_keys, write_buf, log>>
                [] r.keys = read_keys.client /\ m = "data" ->
                     /\ log' = [log EXCEPT !.read = @ + 1]
                     /\ UNCHANGED <<read_keys, write_keys, write_buf>>
                [] r.keys = read_keys.client /\ m \in Updates \cup {"ticket"} ->
                     HandlePostHandshake(m)
                [] OTHER -> UNCHANGED <<read_keys, write_keys, write_buf, log>>
    /\ UNCHANGED <<outbound, closed>>

\* poll_read_inner finds the end of the transport, close_notify or not.
TransportEof ==
    /\ stream = "open" /\ inbound = <<>> /\ log.over
    /\ stream' = "eof"
    /\ UNCHANGED <<read_keys, write_keys, inbound, write_buf, outbound, closed,
                   log>>

-----------------------------------------------------------------------------
(* Writing *)

FlushesLatest(buf, n) ==
    /\ write_buf' = SubSeq(buf, 1, Len(buf) - n)
    /\ outbound' = outbound \o SubSeq(buf, Len(buf) - n + 1, Len(buf))
\* flush_write_buf: the transport takes as much as it likes.
Flushed(buf, n) ==
    /\ write_buf' = SubSeq(buf, n + 1, Len(buf))
    /\ outbound' = outbound \o SubSeq(buf, 1, n)

NoBackPressure ==
    /\ ~closed /\ log.written < MaxWrites
    /\ LET buf == Append(write_buf, Written)
       IN  \E n \in 0 .. Len(buf) : Flushed(buf, n)
    /\ log' = [log EXCEPT !.written = @ + 1]
    /\ UNCHANGED <<read_keys, write_keys, inbound, stream, closed>>
WritesAfterClose ==
    /\ Len(write_buf) < MaxWriteBuf /\ log.written < MaxWrites
    /\ LET buf == Append(write_buf, Written)
       IN  \E n \in 0 .. Len(buf) : Flushed(buf, n)
    /\ log' = [log EXCEPT !.written = @ + 1]
    /\ UNCHANGED <<read_keys, write_keys, inbound, stream, closed>>
DropsBufferOnWrite ==
    /\ ~closed /\ Len(write_buf) < MaxWriteBuf /\ log.written < MaxWrites
    /\ \E n \in 0 .. 1 : Flushed(<<Written>>, n)
    /\ log' = [log EXCEPT !.written = @ + 1]
    /\ UNCHANGED <<read_keys, write_keys, inbound, stream, closed>>
PollWrite ==
    /\ ~closed /\ Len(write_buf) < MaxWriteBuf /\ log.written < MaxWrites
    /\ LET buf == Append(write_buf, Written)
       IN  \E n \in 0 .. Len(buf) : Flushed(buf, n)
    /\ log' = [log EXCEPT !.written = @ + 1]
    /\ UNCHANGED <<read_keys, write_keys, inbound, stream, closed>>

\* poll_flush, and poll_write or poll_shutdown with a full buffer.
PollFlush ==
    /\ write_buf # <<>>
    /\ \E n \in 1 .. Len(write_buf) : Flushed(write_buf, n)
    /\ UNCHANGED <<read_keys, write_keys, inbound, stream, closed, log>>

PollShutdown ==
    /\ ~closed /\ closed' = TRUE
    /\ LET buf == Append(write_buf, Record(<<"close">>, write_keys.client))
       IN  \E n \in 0 .. Len(buf) : Flushed(buf, n)
    /\ UNCHANGED <<read_keys, write_keys, inbound, stream, log>>

TlsNext ==
    \/ TlsServerSends \/ TlsServerReceives \/ TryReadAppData
    \/ TransportEof \/ PollWrite \/ PollFlush \/ PollShutdown

TlsSpec == TlsInit /\ [][TlsNext]_tls_vars

-----------------------------------------------------------------------------
(* Properties *)

TlsTypeOK ==
    /\ stream \in {"open", "eof", "error"} /\ closed \in BOOLEAN
    /\ log.read <= log.offered /\ log.received <= log.written
    /\ Len(write_buf) <= MaxWriteBuf + log.requested + (IF closed THEN 1 ELSE 0)

\* The records of s follow one another over key updates: the first is sealed
\* with the keys first, each of the others with the keys its predecessor
\* leaves, and next are the keys the last one leaves.
KeysAfter(r) == IF r.msgs[Len(r.msgs)] \in Updates THEN r.keys + 1 ELSE r.keys

Chained(s, first, next) ==
    IF s = <<>> THEN next = first
    ELSE /\ s[1].keys = first
         /\ \A i \in 1 .. Len(s) - 1 : s[i + 1].keys = KeysAfter(s[i])
         /\ next = KeysAfter(s[Len(s)])

\* Reader and server agree on the keys of every record under way, unless the
\* server put a KeyUpdate behind another message.
ReadKeysInStep ==
    stream = "open" /\ ~log.coalesced =>
      Chained(inbound, read_keys.client, read_keys.server)

\* Whatever is written, updated and flushed in whatever order, the server can
\* open every record with the keys it has when the record arrives.
WritesReadable == ~log.garbled

\* Both directions stay in step over key updates, however they cross with
\* data, and what is sealed for the server stays within the write buffer.
KeysInStep == TlsTypeOK /\ ReadKeysInStep /\ WritesReadable

\* What is sealed and not yet received, and where the records of s with the
\* contents c are.
Sealed == outbound \o write_buf
Places(s, c) == {i \in DOMAIN s : s[i].msgs = c}

\* The data records of s are the writes first + 1 to last, each once and in
\* the order of the writes.
Numbered(s, first, last) ==
    /\ \A i, j \in Places(s, <<"data">>) : i < j => s[i].no < s[j].no
    /\ {s[i].no : i \in Places(s, <<"data">>)} = (first + 1) .. last

\* No write is lost, doubled or overtaken: the writes the server has not got
\* are on the wire or in the buffer, in order.
WritesConserved == Numbered(Sealed, log.received, log.written)

\* None of the caller's data is sealed behind the close_notify; an answer to a
\* key update, which is no data, may still be.
CloseIsLast ==
    \A i, j \in DOMAIN Sealed :
       i < j /\ Sealed[i].msgs = <<"close">> => Sealed[j].msgs # <<"data">>

\* What the caller writes is what the server gets, each write once and in
\* order, over partial writes, flushes, key updates and the shutdown.
WritesOrderly == WritesConserved /\ CloseIsLast
=============================================================================
