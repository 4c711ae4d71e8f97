------------------------------ MODULE MCParts ------------------------------
(***************************************************************************)
(* Components that share no state with each other, checked side by side on  *)
(* their safety properties: focus is the one that moves, since interleaving *)
(* independent components would only multiply their states.                 *)
(***************************************************************************)
EXTENDS H2Driver, H2SendWindow, H2RequestHeaders, H2ResponseHeaders,
        ProxyPool, Dial, ProxyTunnel, FfiOps, TLC

VARIABLE focus

h2_vars == <<vars, send_vars, headers_out_vars, headers_in_vars>>
route_vars == <<proxy_vars, dial_vars, tunnel_vars>>

PartsInit ==
    /\ focus \in {"driver", "send", "requests", "responses", "proxies", "dial", "tunnel", "ffi"}
    /\ focus = "tunnel" \/ way = (CHOOSE w \in Ways : TRUE)
    /\ Init /\ SendInit /\ HeadersOutInit /\ HeadersInInit /\ ProxyPoolInit /\ DialInit
    /\ focus # "requests" => h2_profile = [indexing |-> DOMAIN Weight, priority |-> FALSE]
    /\ focus # "responses" => pending_settings = <<CHOOSE n \in ProfileTables : TRUE>>
    /\ focus # "dial" => /\ connect_timeout = CHOOSE t \in Timeouts : TRUE
                         /\ fate = [a \in Address |-> "answers"]
    /\ TunnelInit
    /\ FfiInit
    /\ focus # "ffi" => kind = CHOOSE k \in OpKinds : TRUE

Driving ==
    /\ focus = "driver" /\ Next
    /\ UNCHANGED <<send_vars, headers_out_vars, headers_in_vars, route_vars, ffi_vars, focus>>
Sending ==
    /\ focus = "send" /\ SendNext
    /\ UNCHANGED <<vars, headers_out_vars, headers_in_vars, route_vars, ffi_vars, focus>>
Requesting ==
    /\ focus = "requests" /\ HeadersOutNext
    /\ UNCHANGED <<vars, send_vars, headers_in_vars, route_vars, ffi_vars, focus>>
Responding ==
    /\ focus = "responses" /\ HeadersInNext
    /\ UNCHANGED <<vars, send_vars, headers_out_vars, route_vars, ffi_vars, focus>>
Pooling ==
    /\ focus = "proxies" /\ ProxyPoolNext
    /\ UNCHANGED <<h2_vars, dial_vars, tunnel_vars, ffi_vars, focus>>
Dialing ==
    /\ focus = "dial" /\ DialNext
    /\ UNCHANGED <<h2_vars, proxy_vars, tunnel_vars, ffi_vars, focus>>
Tunnelling ==
    /\ focus = "tunnel" /\ TunnelNext
    /\ UNCHANGED <<h2_vars, proxy_vars, dial_vars, ffi_vars, focus>>
Operating ==
    /\ focus = "ffi" /\ FfiNext
    /\ UNCHANGED <<h2_vars, route_vars, focus>>

PartsNext ==
    \/ Driving \/ Sending \/ Requesting \/ Responding
    \/ Pooling \/ Dialing \/ Tunnelling
    \/ Operating

PartsSpec == PartsInit /\ [][PartsNext]_<<h2_vars, route_vars, ffi_vars, focus>>

(* Requests of the driver that are not uploads are interchangeable.         *)
Symmetry == Permutations(Req \ Uploads)

(* Header fields arrive as they were given, in both directions.             *)
HeadersReadRight == RequestsReadRight /\ ResponsesReadRight

-----------------------------------------------------------------------------
(* Instances *)

Bodies == <<3, 2>>

Static == <<<<"m", "1">>>>
Weights ==
    (<<"m", "1">> :> 1) @@ (<<"m", "2">> :> 1) @@ (<<"a", "1">> :> 1) @@ (<<"b", "1">> :> 2)
Lists == {<<<<"m", "1">>, <<"a", "1">>>>, <<<<"m", "2">>, <<"b", "1">>, <<"a", "1">>>>}
Indexings == {DOMAIN Weights, DOMAIN Weights \ {<<"a", "1">>}}

(* Chains of one to MaxHops hops of every kind, to a name of up to two      *)
(* addresses.                                                               *)
CONSTANT MaxHops
HopKinds == [scheme: {"http", "socks5", "socks5h"}, auth: BOOLEAN]
Chains ==
    [hops: UNION {[1..n -> HopKinds] : n \in 1..MaxHops}, addresses: 0..2,
     aim: {"tunnel", "udp", "probe"}]
=============================================================================
