------------------------- MODULE H2ResponseHeaders -------------------------
(***************************************************************************)
(* Header blocks from the server to the engine: the ContinuationAssembler   *)
(* puts a block together, the decoder, whose table changes with every       *)
(* block, reads it, and the stream it belongs to takes the fields, if it    *)
(* still exists.                                                            *)
(***************************************************************************)
EXTENDS Hpack

CONSTANTS
    HeaderStreams,        \* streams with a request on the wire
    ProfileTables,        \* HEADER_TABLE_SIZE of the profile
    MaxHeaderBlock,       \* max_header_block_size, in instructions
    MaxContinuations,     \* MAX_CONTINUATION_FRAMES
    MaxHeaderList,        \* max_header_list_size
    CutSets,              \* where the server cuts a block into frames
    MaxAnswers, MaxUnread \* bounds: blocks, and frames unread when one is sent

VARIABLES
    decoder,              \* hpack_decoder
    local_size,           \* local_settings().header_table_size
    pending_settings,     \* announced and not yet acknowledged
    assembler,            \* active_stream (0: none), the buffer and its count
    header_streams,       \* the streams the engine knows
    response_wire,        \* frames under way to the engine
    server_encoder,       \* the server's encoder, and whether it has our SETTINGS
    answers,              \* blocks sent so far, for the bound
    taken,                \* what streams took: the fields read and those sent
    undecoded             \* a block was given up before it was decoded

headers_in_vars == <<decoder, local_size, pending_settings, assembler, header_streams,
                     response_wire, server_encoder, answers, taken, undecoded>>

NoAssembly == [stream |-> 0, buf |-> <<>>, count |-> 0]

HeadersInInit ==
    /\ decoder = NewTable(DefaultTable)
    /\ local_size = DefaultTable
    /\ \E n \in ProfileTables : pending_settings = <<n>>
    /\ assembler = NoAssembly
    /\ header_streams = HeaderStreams
    /\ response_wire = <<>>
    /\ server_encoder = [enc |-> NewEncoder(DefaultTable), settled |-> FALSE]
    /\ answers = 0
    /\ taken = {}
    /\ undecoded = FALSE

-----------------------------------------------------------------------------
(* The server (external): it takes our SETTINGS, chooses a table size within *)
(* them and acknowledges.                                                    *)
ServerTakesSettings(n) ==
    /\ ~server_encoder.settled
    /\ server_encoder' =
           [settled |-> TRUE,
            enc |-> IF n = server_encoder.enc.table.max THEN server_encoder.enc
                    ELSE ResizeEncoder(server_encoder.enc, n)]
    /\ response_wire' = Append(response_wire, [type |-> "ack"])

(* It answers on any stream it has heard of, a cancelled one too, and cuts  *)
(* the block into frames where it likes.                                    *)
ServerAnswers(s, fields, cuts) ==
    /\ answers < MaxAnswers /\ Len(response_wire) <= MaxUnread
    /\ answers' = answers + 1
    /\ LET e    == EncodeBlock(server_encoder.enc, fields, DOMAIN Weight)
           ends == SetToSortSeq(cuts \cup {Len(e.block)}, LAMBDA a, b : a < b)
       IN  /\ cuts \subseteq 0..Len(e.block) - 1
           /\ server_encoder' = [server_encoder EXCEPT !.enc = e.enc]
           /\ response_wire' = response_wire \o
                  [i \in DOMAIN ends |->
                      [type        |-> IF i = 1 THEN "headers" ELSE "continuation",
                       stream      |-> s,
                       fragment    |-> SubSeq(e.block, IF i = 1 THEN 1 ELSE ends[i - 1] + 1,
                                              ends[i]),
                       end_headers |-> i = Len(ends),
                       fields      |-> fields]]

-----------------------------------------------------------------------------
(* A stream that was reset, by either side, is cleaned up.                  *)
ForgetStream(s) ==
    /\ s \in header_streams
    /\ header_streams' = header_streams \ {s}

(* apply_remote_settings, for an acknowledgement.                           *)
ReadSettingsAck ==
    /\ response_wire # <<>> /\ Head(response_wire).type = "ack"
    /\ response_wire' = Tail(response_wire)
    /\ IF pending_settings # <<>>
       THEN LET n == Head(pending_settings) IN
            /\ decoder' = IF n # local_size THEN set_max_size(decoder, n) ELSE decoder
            /\ local_size' = n
            /\ pending_settings' = Tail(pending_settings)
       ELSE UNCHANGED <<decoder, local_size, pending_settings>>

(* decode_header_block refuses a list after decoding it.                    *)
ListFits(fields) == WeightOf(fields) <= MaxHeaderList

(* Mutant: a block for a stream that is gone is dropped before decoding.    *)
DropsForUnknown(s, block, sent) ==
    LET read == DecodeBlock(decoder, block, local_size) IN
    IF s \in header_streams
    THEN /\ decoder' = read.table
         /\ taken' = taken \cup {[stream |-> s, read |-> read.fields, sent |-> sent]}
    ELSE UNCHANGED <<decoder, taken>>

(* complete_headers: the block is decoded first, whoever it is for, since   *)
(* the table moves on; a list too large or for a stream unknown is refused  *)
(* after that.                                                              *)
complete_headers(s, block, sent) ==
    LET read == DecodeBlock(decoder, block, local_size) IN
    /\ decoder' = read.table
    /\ taken' = IF read.ok /\ ListFits(read.fields) /\ s \in header_streams
                THEN taken \cup {[stream |-> s, read |-> read.fields, sent |-> sent]}
                ELSE taken

(* push_headers: a complete block is not measured.                          *)
PushHeaders ==
    /\ response_wire # <<>> /\ Head(response_wire).type = "headers"
    /\ response_wire' = Tail(response_wire)
    /\ LET frame == Head(response_wire) IN
       \/ /\ frame.end_headers
          /\ complete_headers(frame.stream, frame.fragment, frame.fields)
          /\ UNCHANGED <<assembler, undecoded>>
       \/ /\ ~frame.end_headers /\ Len(frame.fragment) > MaxHeaderBlock
          /\ undecoded' = TRUE
          /\ UNCHANGED <<decoder, taken, assembler>>
       \/ /\ ~frame.end_headers /\ Len(frame.fragment) <= MaxHeaderBlock
          /\ assembler' = [stream |-> frame.stream, buf |-> frame.fragment, count |-> 0]
          /\ UNCHANGED <<decoder, taken, undecoded>>

(* push_continuation: without the HEADERS before it, or of another stream,  *)
(* it is an error, which an assembly given up makes of the frames that      *)
(* follow it.                                                               *)
Extended(frame) == [assembler EXCEPT !.buf = @ \o frame.fragment, !.count = @ + 1]

TooLong(a) == a.count > MaxContinuations \/ Len(a.buf) > MaxHeaderBlock

PushContinuation ==
    /\ response_wire # <<>> /\ Head(response_wire).type = "continuation"
    /\ response_wire' = Tail(response_wire)
    /\ LET frame == Head(response_wire)
           next  == Extended(frame)
       IN
       \/ /\ assembler.stream # frame.stream
          /\ UNCHANGED <<assembler, decoder, taken, undecoded>>
       \/ /\ assembler.stream = frame.stream /\ TooLong(next)
          /\ assembler' = NoAssembly
          /\ undecoded' = TRUE
          /\ UNCHANGED <<decoder, taken>>
       \/ /\ assembler.stream = frame.stream /\ ~TooLong(next)
          /\ IF frame.end_headers
             THEN /\ assembler' = NoAssembly
                  /\ complete_headers(frame.stream, next.buf, frame.fields)
             ELSE /\ assembler' = next
                  /\ UNCHANGED <<decoder, taken>>
          /\ UNCHANGED undecoded

HeadersInNext ==
    \/ /\ pending_settings # <<>> /\ \E n \in 0..pending_settings[1] : ServerTakesSettings(n)
       /\ UNCHANGED <<decoder, local_size, pending_settings, assembler, header_streams,
                      answers, taken, undecoded>>
    \/ /\ \E s \in HeaderStreams, fields \in FieldLists, cuts \in CutSets : ServerAnswers(s, fields, cuts)
       /\ UNCHANGED <<decoder, local_size, pending_settings, assembler, header_streams,
                      taken, undecoded>>
    \/ /\ \E s \in HeaderStreams : ForgetStream(s)
       /\ UNCHANGED <<decoder, local_size, pending_settings, assembler, response_wire,
                      server_encoder, answers, taken, undecoded>>
    \/ /\ ReadSettingsAck
       /\ UNCHANGED <<assembler, header_streams, server_encoder, answers, taken, undecoded>>
    \/ /\ PushHeaders \/ PushContinuation
       /\ UNCHANGED <<local_size, pending_settings, header_streams, server_encoder, answers>>

-----------------------------------------------------------------------------
(* What a stream takes as its response headers is what the server sent on   *)
(* it, also after blocks for streams that were cancelled, blocks cut into   *)
(* CONTINUATIONs, lists refused for their size and changes of the table     *)
(* size on either side, for as long as no block was given up undecoded; the *)
(* engine announces GOAWAY then.  An assembly ends where the block does.    *)
ResponsesReadRight ==
    /\ ~undecoded => \A t \in taken : t.read = t.sent
    /\ ~undecoded /\ assembler.stream # 0 =>
           /\ response_wire # <<>>
           /\ Head(response_wire).type = "continuation"
           /\ Head(response_wire).stream = assembler.stream
    /\ ~undecoded /\ response_wire = <<>> /\ server_encoder.enc.pending = <<>> =>
           IsPrefix(server_encoder.enc.table.entries, decoder.entries)
=============================================================================
