----------------------------- MODULE MCSession -----------------------------
(***************************************************************************)
(* What a session does to reach a server securely, part by part:           *)
(* the TLS handshake, the record stream that follows it, the store of      *)
(* tickets, and the choice between TCP and QUIC.  They share no state at   *)
(* this level, so only the one in focus moves.                             *)
(***************************************************************************)
EXTENDS TlsHandshake, TlsStream, SessionStore, QuicChoice, TLC

CONSTANTS asker, forcer, socks, socks5h,
          Foci  \* what the instance checks

VARIABLE focus

session_vars == <<vars, tls_vars, store_vars, choice_vars, focus>>

SessionInit ==
    /\ focus \in Foci
    /\ Init /\ TlsInit /\ StoreInit /\ ChoiceInit
    /\ focus # "handshake" => conf = CHOOSE c \in Configs : TRUE

Shaking ==
    /\ focus = "handshake" /\ Next
    /\ UNCHANGED <<tls_vars, store_vars, choice_vars, focus>>
Recording ==
    /\ focus = "records" /\ TlsNext
    /\ UNCHANGED <<vars, store_vars, choice_vars, focus>>
Storing ==
    /\ focus = "store" /\ StoreNext
    /\ UNCHANGED <<vars, tls_vars, choice_vars, focus>>
Choosing ==
    /\ focus = "choice" /\ ChoiceNext
    /\ UNCHANGED <<vars, tls_vars, store_vars, focus>>

SessionNext == Shaking \/ Recording \/ Storing \/ Choosing

SessionSpec == SessionInit /\ [][SessionNext]_session_vars

-----------------------------------------------------------------------------
(* Instances *)

Client(quic, ticket, max13, ech, alps) ==
    [quic |-> quic, ticket |-> ticket, max13 |-> max13, ech |-> ech,
     alps |-> alps]

\* A first visit with ECH and one with ALPS, one with a ticket of each
\* version, one capped at TLS 1.2, and one over QUIC.
MCConfigs ==
    {Client(FALSE, "none", TRUE, TRUE, FALSE),
     Client(FALSE, "tls13", TRUE, FALSE, TRUE),
     Client(FALSE, "tls12", TRUE, FALSE, FALSE),
     Client(FALSE, "none", FALSE, FALSE, FALSE),
     Client(TRUE, "none", TRUE, FALSE, TRUE)}

WantsOf ==
    asker :> {[call |-> "request", route |-> socks, intent |-> "AcquireH3",
               acquisition |-> "reuse", upgrade |-> "force"],
              [call |-> "streaming", route |-> socks5h, intent |-> "AcquireH3",
               acquisition |-> "race", upgrade |-> "off"]}
    @@ forcer :> {[call |-> "preconnect", route |-> socks, intent |-> "H3Only",
                   acquisition |-> "best", upgrade |-> "off"]}
=============================================================================
