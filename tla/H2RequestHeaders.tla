-------------------------- MODULE H2RequestHeaders --------------------------
(***************************************************************************)
(* Header blocks from the engine to the server: the encoder's table follows *)
(* SETTINGS_HEADER_TABLE_SIZE of the server, whose decoder follows the      *)
(* blocks.  SETTINGS travel one way, acknowledgements and blocks the other, *)
(* each in order, so the two tables differ while frames are under way.      *)
(***************************************************************************)
EXTENDS Hpack

CONSTANTS
    TableSizes,      \* the sizes the server announces
    Policies,        \* the sets of fields a policy indexes
    FrameSize,       \* the server's SETTINGS_MAX_FRAME_SIZE, in instructions
    PriorityRoom,    \* what a priority takes from the first frame
    MaxSettings, MaxBlocks  \* bounds

VARIABLES
    h2_profile,      \* what the connection was made with: its policy, a priority or none
    encoder,         \* hpack_encoder
    remote_size,     \* remote_settings().header_table_size
    settings_wire,   \* SETTINGS under way to the engine
    request_wire,    \* frames under way to the server
    peer,            \* the server: table, limit, unacknowledged sizes, partial block,
                     \* and whether it has closed the connection
    request_counts,  \* SETTINGS sent and blocks encoded, for the bounds
    misread          \* the server read other fields than the request had

headers_out_vars == <<h2_profile, encoder, remote_size, settings_wire, request_wire, peer,
                      request_counts, misread>>

HeadersOutInit ==
    /\ h2_profile \in [indexing: Policies, priority: BOOLEAN]
    /\ encoder = NewEncoder(DefaultTable)
    /\ remote_size = DefaultTable
    /\ settings_wire = <<>>
    /\ request_wire = <<>>
    /\ peer = [table |-> NewTable(DefaultTable), limit |-> DefaultTable,
               unacked |-> <<>>, partial |-> <<>>, closed |-> FALSE]
    /\ request_counts = [settings |-> 0, blocks |-> 0]
    /\ misread = FALSE

-----------------------------------------------------------------------------
(* The server announces a size.  The frame may carry, behind the size, a    *)
(* value the engine refuses.                                                *)
PeerAnnounces(n, refused) ==
    /\ request_counts.settings < MaxSettings /\ ~peer.closed
    /\ request_counts' = [request_counts EXCEPT !.settings = @ + 1]
    /\ settings_wire' = Append(settings_wire, [size |-> n, refused |-> refused])
    /\ peer' = [peer EXCEPT !.unacked = IF refused THEN @ ELSE Append(@, n)]
    /\ UNCHANGED <<h2_profile, encoder, remote_size, request_wire, misread>>

(* handle_settings: parameters before the refused one stay applied, but the *)
(* encoder is not resized; GOAWAY goes out instead of the acknowledgement,  *)
(* and the driver goes on (handle_event only logs the error).               *)
SettingsRefused ==
    /\ settings_wire # <<>> /\ Head(settings_wire).refused
    /\ remote_size' = Head(settings_wire).size
    /\ settings_wire' = Tail(settings_wire)
    /\ request_wire' = Append(request_wire, [type |-> "goaway"])
    /\ UNCHANGED <<h2_profile, encoder, peer, request_counts, misread>>

SettingsApplied ==
    /\ settings_wire # <<>> /\ ~Head(settings_wire).refused
    /\ LET n == Head(settings_wire).size IN
       /\ remote_size' = n
       /\ encoder' = IF n # remote_size THEN ResizeEncoder(encoder, n) ELSE encoder
    /\ settings_wire' = Tail(settings_wire)
    /\ request_wire' = Append(request_wire, [type |-> "ack"])
    /\ UNCHANGED <<h2_profile, peer, request_counts, misread>>

-----------------------------------------------------------------------------
(* build_headers: HEADERS takes FrameSize less the room of a priority, each *)
(* CONTINUATION FrameSize, and the last frame ends the block.               *)
Cuts(len, first) ==
    IF len <= first THEN {len}
    ELSE {first} \cup {k \in first + 1 .. len : k = len \/ (k - first) % FrameSize = 0}

HeaderFrames(block, first, fields) ==
    LET ends == SetToSortSeq(Cuts(Len(block), first), LAMBDA a, b : a < b)
    IN  [i \in DOMAIN ends |->
            [type        |-> IF i = 1 THEN "headers" ELSE "continuation",
             fragment    |-> SubSeq(block, IF i = 1 THEN 1 ELSE ends[i - 1] + 1, ends[i]),
             end_headers |-> ends[i] = Len(block),
             fields      |-> fields]]

build_headers(fields) ==
    /\ request_counts.blocks < MaxBlocks
    /\ request_counts' = [request_counts EXCEPT !.blocks = @ + 1]
    /\ LET e     == EncodeBlock(encoder, fields, h2_profile.indexing)
           first == FrameSize - IF h2_profile.priority THEN PriorityRoom ELSE 0
       IN  /\ encoder' = e.enc
           /\ request_wire' = request_wire \o HeaderFrames(e.block, first, fields)
    /\ UNCHANGED <<h2_profile, remote_size, settings_wire, peer, misread>>

-----------------------------------------------------------------------------
(* The server (external).  An acknowledgement puts its size in force as     *)
(* the limit; some servers evict at once, others wait for the update.  An   *)
(* error GOAWAY makes it close the connection.                              *)
PeerReadsAck(evicts) ==
    /\ ~peer.closed
    /\ request_wire # <<>> /\ Head(request_wire).type = "ack"
    /\ LET n == Head(peer.unacked) IN
       peer' = [peer EXCEPT !.limit = n, !.unacked = Tail(@),
                            !.table = IF evicts /\ n < @.max THEN set_max_size(@, n) ELSE @]
    /\ request_wire' = Tail(request_wire)
    /\ UNCHANGED <<h2_profile, encoder, remote_size, settings_wire, request_counts, misread>>

PeerReadsGoaway ==
    /\ ~peer.closed
    /\ request_wire # <<>> /\ Head(request_wire).type = "goaway"
    /\ peer' = [peer EXCEPT !.closed = TRUE]
    /\ UNCHANGED <<h2_profile, encoder, remote_size, settings_wire, request_wire,
                   request_counts, misread>>

PeerReadsHeaders ==
    /\ ~peer.closed
    /\ request_wire # <<>> /\ Head(request_wire).type \in {"headers", "continuation"}
    /\ LET frame == Head(request_wire)
           block == peer.partial \o frame.fragment
           read  == DecodeBlock(peer.table, block, peer.limit)
       IN  IF frame.end_headers
           THEN /\ peer' = [peer EXCEPT !.table = read.table, !.partial = <<>>]
                /\ misread' = (misread \/ ~read.ok \/ read.fields # frame.fields)
           ELSE /\ peer' = [peer EXCEPT !.partial = block]
                /\ UNCHANGED misread
    /\ request_wire' = Tail(request_wire)
    /\ UNCHANGED <<h2_profile, encoder, remote_size, settings_wire, request_counts>>

HeadersOutNext ==
    \/ \E n \in TableSizes, refused \in BOOLEAN : PeerAnnounces(n, refused)
    \/ SettingsRefused
    \/ SettingsApplied
    \/ \E fields \in FieldLists : build_headers(fields)
    \/ \E evicts \in BOOLEAN : PeerReadsAck(evicts)
    \/ PeerReadsGoaway
    \/ PeerReadsHeaders

-----------------------------------------------------------------------------
(* Every request block is read by the server as the fields it was made of,  *)
(* whatever sizes were announced, refused or changed twice between blocks   *)
(* (set_max_table_size keeps only the last size, so a table that shrank and *)
(* grew again is shorter than the server's): when nothing is under way the  *)
(* encoder's table is a prefix of the server's, never more.  A CONTINUATION *)
(* ends each block and no frame is larger than the server allows.           *)
RequestsReadRight ==
    /\ ~misread
    /\ request_wire = <<>> /\ encoder.pending = <<>> =>
           IsPrefix(encoder.table.entries, peer.table.entries)
    /\ \A i \in DOMAIN request_wire :
           LET frame == request_wire[i] IN
           frame.type \in {"headers", "continuation"} =>
               /\ Len(frame.fragment) <= FrameSize
               /\ ~frame.end_headers => /\ i < Len(request_wire)
                                        /\ request_wire[i + 1].type = "continuation"
=============================================================================
