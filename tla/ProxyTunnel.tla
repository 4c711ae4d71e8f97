---------------------------- MODULE ProxyTunnel ----------------------------
(***************************************************************************)
(* A way through a chain of proxies: a TCP tunnel to the target (CONNECT    *)
(* over HTTP or SOCKS5, hop by hop on one stream), or a UDP association     *)
(* with one control connection per hop and datagrams with nested headers,   *)
(* or a probe of it.  Parties are numbered: hops from 1, then the target.   *)
(***************************************************************************)
EXTENDS Naturals, Sequences, SequencesExt

CONSTANTS
    Ways   \* [hops, addresses, aim]: hops is a sequence of [scheme, auth], addresses
           \* the number the target's name resolves to, aim "tunnel", "udp" or "probe"

ASSUME TunnelAssumption ==
    \A w \in Ways :
        /\ w.hops \in Seq([scheme : {"http", "socks5", "socks5h"}, auth : BOOLEAN])
        /\ w.hops # <<>> /\ w.addresses \in Nat /\ w.aim \in {"tunnel", "udp", "probe"}

VARIABLES
    way,       \* the ProxyConfig with its chain, and what is asked of it
    stream,    \* [at, unread, early]: who answers on the stream, what it has sent behind
               \* its last answer, and how much of that is still there to read
    turn,      \* [step, hop, goal, address, retried]: where the negotiation is
    refused,   \* addresses of the target that the last hop could not reach
    told,      \* <<h, p>>: the credentials of hop h were read by party p
    controls,  \* control_conns: the party at the end of each
    relays,    \* first_relay and inner_relays
    datagram,  \* [headers, at, trace]: a datagram under way
    verdict    \* the outcome

tunnel_vars == <<way, stream, turn, refused, told, controls, relays, datagram, verdict>>

Hops == Len(way.hops)
Target == Hops + 1
Hop(h) == way.hops[h]
IsSocks(h) == Hop(h).scheme \in {"socks5", "socks5h"}
Closed == [at |-> 0, unread |-> 0, early |-> 0]
NoDatagram == [headers |-> <<>>, at |-> 0, trace |-> <<>>]
Attempt(goal, address) ==
    [step |-> "dial", hop |-> 1, goal |-> goal, address |-> address, retried |-> FALSE]

\* The last hop is asked for an address when names are resolved here.
LocalTarget == Hop(Hops).scheme = "socks5"

\* udp_associate_chain refuses a chain with an HTTP hop, the probe an HTTP proxy.
TunnelInit ==
    /\ way \in Ways
    /\ stream = Closed /\ turn = Attempt(IF way.aim = "tunnel" THEN Target ELSE 1, 1)
    /\ refused = {} /\ told = {} /\ controls = <<>> /\ relays = <<>>
    /\ datagram = NoDatagram
    /\ verdict = IF \/ way.aim = "tunnel" /\ LocalTarget /\ way.addresses = 0
                    \/ way.aim # "tunnel" /\ \E h \in DOMAIN way.hops : ~IsSocks(h)
                 THEN "failed" ELSE "pending"

-----------------------------------------------------------------------------
(* The streams *)

\* An error returns, and with it go the streams, those of earlier hops too.
TunnelFails ==
    /\ verdict' = "failed" /\ stream' = Closed /\ controls' = <<>>
    /\ UNCHANGED <<turn, refused>>

\* The negotiation with hop h begins: hop h answers on the stream.
FirstStep(h) == IF Hop(h).scheme = "http" THEN "request" ELSE "greet"

\* connect_tcp_to_proxy: always to the first hop.
DialFirstHop ==
    /\ verdict = "pending" /\ turn.step = "dial"
    /\ \/ /\ stream' = [at |-> 1, unread |-> 0, early |-> 0]
          /\ turn' = [turn EXCEPT !.step = FirstStep(1), !.hop = 1]
          /\ UNCHANGED <<refused, controls, verdict>>
       \/ TunnelFails
    /\ UNCHANGED <<way, told, relays, datagram>>

\* An answer is read to its last byte and no further: byte by byte, or by the
\* lengths of the SOCKS5 reply.  early is what follows it.
ReadInBulk(early) == 0
ReadAnswer(early) == early

\* Hop h has connected to what it was asked for; the target may speak first.
HopConnected(h) ==
    IF h + 1 = turn.goal /\ turn.goal = Target
    THEN /\ \E early \in {0, 1} :
              stream' = [at |-> Target, unread |-> ReadAnswer(early), early |-> early]
         /\ verdict' = "tunnel" /\ UNCHANGED <<turn, refused>>
    ELSE /\ stream' = [stream EXCEPT !.at = h + 1]
         /\ turn' = [turn EXCEPT !.hop = h + 1, !.step = FirstStep(h + 1)]
         /\ UNCHANGED <<refused, verdict>>

Tells(h) == told' = IF Hop(h).auth THEN told \cup {<<h, stream.at>>} ELSE told

\* send_connect_request with the credentials, if there are any, and its answer.
\* A single proxy that wants (basic) credentials is dialled once more.
HttpConnect ==
    LET h == turn.hop IN
    /\ verdict = "pending" /\ turn.step = "request" /\ Tells(h)
    /\ \/ HopConnected(h) /\ UNCHANGED controls
       \/ /\ Hops = 1 /\ Hop(h).auth /\ ~turn.retried
          /\ turn' = [turn EXCEPT !.step = "dial", !.retried = TRUE]
          /\ stream' = Closed /\ UNCHANGED <<refused, controls, verdict>>
       \/ TunnelFails
    /\ UNCHANGED <<way, relays, datagram>>

\* After the greeting and the authentication, the command.
Command == IF turn.hop = turn.goal THEN "associate" ELSE "ask"

\* socks5_handshake: the method the proxy selects.
SocksGreet ==
    /\ verdict = "pending" /\ turn.step = "greet"
    /\ \/ /\ \/ turn' = [turn EXCEPT !.step = Command]
             \/ Hop(turn.hop).auth /\ turn' = [turn EXCEPT !.step = "auth"]
          /\ UNCHANGED <<stream, refused, controls, verdict>>
       \/ TunnelFails
    /\ UNCHANGED <<way, told, relays, datagram>>

SocksAuth ==
    /\ verdict = "pending" /\ turn.step = "auth" /\ Tells(turn.hop)
    /\ \/ /\ turn' = [turn EXCEPT !.step = Command]
          /\ UNCHANGED <<stream, refused, controls, verdict>>
       \/ TunnelFails
    /\ UNCHANGED <<way, relays, datagram>>

SameStreamAgain ==
    /\ refused' = refused \cup {turn.address}
    /\ IF turn.address < way.addresses
       THEN /\ turn' = [Attempt(Target, turn.address + 1) EXCEPT !.step = FirstStep(1)]
            /\ UNCHANGED <<stream, verdict>>
       ELSE verdict' = "exhausted" /\ stream' = Closed /\ UNCHANGED turn
\* is_retryable_socks5_target_error at the last hop: the next address, over a
\* new stream through the whole chain.
NextAddress ==
    /\ refused' = refused \cup {turn.address}
    /\ stream' = Closed
    /\ IF turn.address < way.addresses
       THEN turn' = Attempt(Target, turn.address + 1) /\ UNCHANGED verdict
       ELSE verdict' = "exhausted" /\ UNCHANGED turn

\* socks5_send_connect or socks5_send_connect_address, and the reply.
SocksConnect ==
    /\ verdict = "pending" /\ turn.step = "ask"
    /\ \/ HopConnected(turn.hop) /\ UNCHANGED controls
       \/ turn.hop = Hops /\ LocalTarget /\ NextAddress /\ UNCHANGED controls
       \/ TunnelFails
    /\ UNCHANGED <<way, told, relays, datagram>>

-----------------------------------------------------------------------------
(* UDP *)

\* The relay a hop names is its own address, or none: then the first hop is
\* where the control connection goes, an inner one is named as configured.
resolve_first_relay(concrete) == IF concrete THEN stream.at ELSE 1
RelayOfPeer(concrete) == resolve_first_relay(concrete)
resolve_inner_relay(concrete) == IF concrete THEN stream.at ELSE turn.hop

\* send_udp_associate at the hop a control connection is for.
UdpAssociate ==
    /\ verdict = "pending" /\ turn.step = "associate"
    /\ \/ /\ \E concrete \in BOOLEAN :
               relays' = Append(relays, IF turn.hop = 1 THEN resolve_first_relay(concrete)
                                                        ELSE resolve_inner_relay(concrete))
          /\ controls' = Append(controls, stream.at)
          /\ IF turn.goal < Hops
             THEN turn' = Attempt(turn.goal + 1, 1) /\ UNCHANGED verdict
             ELSE verdict' = "associated" /\ UNCHANGED turn
          /\ stream' = Closed /\ UNCHANGED refused
       \/ TunnelFails /\ UNCHANGED relays
    /\ UNCHANGED <<way, told, datagram>>

\* encode_socks5_udp_nested, sent to the first relay.
encode_socks5_udp_nested == Tail(relays) \o <<Target>>
SendDatagram ==
    /\ verdict = "associated" /\ way.aim = "udp" /\ datagram = NoDatagram
    /\ datagram' = [headers |-> encode_socks5_udp_nested, at |-> relays[1],
                    trace |-> <<relays[1]>>]
    /\ UNCHANGED <<way, stream, turn, refused, told, controls, relays, verdict>>

\* The probe knows only the first relay (encode_socks5_udp_target).
ProbeDatagram ==
    /\ verdict = "associated" /\ way.aim = "probe" /\ datagram = NoDatagram
    /\ datagram' = [headers |-> <<Target>>, at |-> relays[1], trace |-> <<relays[1]>>]
    /\ UNCHANGED <<way, stream, turn, refused, told, controls, relays, verdict>>

\* A probe that asks for the association only.
ProbeAssociateOnly ==
    /\ verdict = "associated" /\ way.aim = "probe" /\ datagram = NoDatagram
    /\ verdict' = "associate_ok" /\ controls' = <<>>
    /\ UNCHANGED <<way, stream, turn, refused, told, relays, datagram>>

\* A relay strips the outer header and passes the rest on to whom it names, as
\* long as its control connection is there.
ForwardDatagram ==
    /\ datagram.headers # <<>> /\ Contains(controls, datagram.at)
    /\ datagram' = [headers |-> Tail(datagram.headers), at |-> Head(datagram.headers),
                    trace |-> Append(datagram.trace, Head(datagram.headers))]
    /\ UNCHANGED <<way, stream, turn, refused, told, controls, relays, verdict>>

\* An answer comes back with a header of each hop on its way (poll_recv strips
\* one per hop; a datagram with fewer is skipped), the probe's with one.
decode_socks5_udp_nested(layers) == layers = Len(relays)
ReceiveReply ==
    /\ verdict = "associated" /\ datagram.at = Target
    /\ IF way.aim = "probe"
       THEN verdict' \in {"relay_ok", "failed"} /\ controls' = <<>>
       ELSE /\ decode_socks5_udp_nested(Len(datagram.trace) - 1)
            /\ verdict' = "answered" /\ UNCHANGED controls
    /\ UNCHANGED <<way, stream, turn, refused, told, relays, datagram>>

\* The caller's timeout drops the future with all its streams.
TunnelTimeout ==
    /\ verdict \in {"pending", "associated"}
    /\ TunnelFails
    /\ UNCHANGED <<way, told, relays, datagram>>

TunnelNext ==
    \/ DialFirstHop \/ HttpConnect \/ SocksGreet \/ SocksAuth \/ SocksConnect
    \/ UdpAssociate \/ SendDatagram \/ ProbeDatagram \/ ProbeAssociateOnly \/ ForwardDatagram
    \/ ReceiveReply \/ TunnelTimeout

TunnelSpec == TunnelInit /\ [][TunnelNext]_tunnel_vars

-----------------------------------------------------------------------------
(* Properties *)

Parties(n) == [i \in 1..n |-> i]

\* Through any chain, with its refusals, retries and second dials: the
\* credentials of a hop are read by that hop alone; a tunnel ends at the target
\* and has lost nothing of what the target said first; it is given up for all
\* addresses only when all were refused; an association has the control
\* connection of every hop, and a datagram visits the hops in their order.
CredentialsToTheirHop == \A t \in told : t[1] = t[2]
TunnelSound ==
    /\ CredentialsToTheirHop
    /\ verdict = "tunnel" => stream.at = Target /\ stream.unread = stream.early
    /\ verdict = "exhausted" => refused = 1..way.addresses
    /\ verdict \in {"associated", "answered"} => controls = Parties(Hops)
    /\ way.aim = "udp" => IsPrefix(datagram.trace, Parties(Target))
=============================================================================
