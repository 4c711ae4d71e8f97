----------------------------- MODULE MCSharing -----------------------------
(***************************************************************************)
(* The two places where callers share one piece of work, a QUIC handshake   *)
(* and a DNS lookup, checked side by side: focus is the one that moves.     *)
(* They share no state, so interleaving them would only multiply theirs.    *)
(***************************************************************************)
EXTENDS QuicInFlight, Dns

VARIABLE focus

SharingInit == focus \in {"quic", "dns"} /\ Init /\ DnsInit

Handshaking(A) == focus = "quic" /\ A /\ UNCHANGED <<dns_vars, focus>>
Resolving(A) == focus = "dns" /\ A /\ UNCHANGED <<vars, focus>>

SharingNext == Handshaking(Next) \/ Resolving(DnsNext)

sharing_vars == <<vars, dns_vars, focus>>

(* The runtime polls what is ready; handshakes, responses and lookups end,  *)
(* by their timeouts if need be.  Nothing makes a waiting request give up,  *)
(* and a lookup's runtime may be shut down but need not be.                 *)
SharingFairness ==
    /\ \A r \in Requests :
         /\ WF_sharing_vars(Handshaking(Step(r)))
         /\ WF_sharing_vars(Handshaking(Return(r) \/ Notify(r)))
    /\ \A c \in Callers : WF_sharing_vars(Resolving(TakeResult(c)))
    /\ \A f \in Flight :
         WF_sharing_vars(Resolving(TaskStarts(f) \/ TaskAnswers(f)))

SharingSpec == SharingInit /\ [][SharingNext]_sharing_vars /\ SharingFairness
=============================================================================
