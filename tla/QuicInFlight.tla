---------------------------- MODULE QuicInFlight ----------------------------
(***************************************************************************)
(* Transport::establish_and_send_quic: requests for one origin that has no *)
(* pooled HTTP/3 connection, and quic_in_flight, the map that is to let    *)
(* one of them drive the handshake while the others wait on its Notify.    *)
(*                                                                         *)
(* The map holds the marker of one key here; a Notify is named by the      *)
(* request that created it.  Steps are the stretches of code between locks *)
(* and awaits.  Granting a reservation is the ConnectionPool's business    *)
(* and may go either way; marking the origin working or broken is left     *)
(* out, since nothing here reads it.                                       *)
(***************************************************************************)
CONSTANTS Requests, None

ASSUME NoneAssumption == None \notin Requests

VARIABLES
    phase,     \* where each request is in the function
    wait,      \* the Notify it cloned, `existing`
    in_flight, \* quic_in_flight[conn_key]
    removed,   \* the Notify its guard took out of the map
    fired,     \* Notifys whose notify_waiters was called
    pooled,    \* the pool has a usable H3 connection for the key
    permit     \* requests that hold the reservation for the QUIC connection

vars == <<phase, wait, in_flight, removed, fired, pooled, permit>>

(* Phases in which the request holds its InFlightGuard.                    *)
Guarded == {"guarded", "handshake", "replay", "sending", "fallback", "tcp"}

Phases == Guarded \union
          {"new", "found", "waiting", "woken", "piggyback", "leaving", "done"}

Init ==
    /\ phase = [r \in Requests |-> "new"]
    /\ wait = [r \in Requests |-> None]
    /\ in_flight = None
    /\ removed = [r \in Requests |-> None]
    /\ fired = {}
    /\ pooled = FALSE
    /\ permit = {}

Go(r, p) == phase' = [phase EXCEPT ![r] = p]

-----------------------------------------------------------------------------
(* Under the map's lock: clone the marker, or put one's own.               *)
Start(r) ==
    /\ phase[r] = "new"
    /\ IF in_flight = None
       THEN in_flight' = r /\ Go(r, "guarded") /\ UNCHANGED wait
       ELSE /\ wait' = [wait EXCEPT ![r] = in_flight]
            /\ Go(r, "found")
            /\ UNCHANGED in_flight
    /\ UNCHANGED <<removed, fired, pooled, permit>>

(* After the lock is released: notified().  It hears the notify_waiters    *)
(* that come after it and no earlier one.                                  *)
Listen(r) ==
    /\ phase[r] = "found"
    /\ Go(r, "waiting")
    /\ UNCHANGED <<wait, in_flight, removed, fired, pooled, permit>>

(* Woken: the second pool lookup.  The request uses what it finds, or      *)
(* falls through to a handshake of its own, without a marker.              *)
Retry(r) ==
    /\ phase[r] = "woken"
    /\ Go(r, IF pooled THEN "piggyback" ELSE "guarded")
    /\ UNCHANGED <<wait, in_flight, removed, fired, pooled, permit>>

DropGuardForgets(r) ==
    /\ UNCHANGED <<removed, in_flight>>
    /\ Go(r, "done")
    /\ permit' = permit \ {r}

DropGuardSilent(r) ==
    /\ removed' = [removed EXCEPT ![r] = in_flight]
    /\ in_flight' = None
    /\ Go(r, "done")
    /\ permit' = permit \ {r}

(* The function returns, or its future is dropped: the reservation goes,   *)
(* then the guard takes whatever marker is in the map.                     *)
DropGuard(r) ==
    /\ removed' = [removed EXCEPT ![r] = in_flight]
    /\ in_flight' = None
    /\ Go(r, IF in_flight = None THEN "done" ELSE "leaving")
    /\ permit' = permit \ {r}

NotifyOne(r) ==
    /\ phase[r] = "leaving"
    /\ \E q \in Requests :
          phase' = [p \in Requests |->
                       IF p = r THEN "done"
                       ELSE IF p = q /\ phase[p] = "waiting" /\ wait[p] = removed[r] THEN "woken"
                       ELSE phase[p]]
    /\ fired' = fired \union {removed[r]}
    /\ UNCHANGED <<wait, in_flight, removed, pooled, permit>>

(* notify_waiters, after the map's lock is released.                       *)
Notify(r) ==
    /\ phase[r] = "leaving"
    /\ phase' = [p \in Requests |->
                    IF p = r THEN "done"
                    ELSE IF phase[p] = "waiting" /\ wait[p] = removed[r] THEN "woken"
                    ELSE phase[p]]
    /\ fired' = fired \union {removed[r]}
    /\ UNCHANGED <<wait, in_flight, removed, pooled, permit>>

-----------------------------------------------------------------------------
(* reserve_connection, granted or refused.                                 *)
Reserve(r) ==
    /\ phase[r] = "guarded"
    /\ \/ /\ permit' = permit \union {r}
          /\ Go(r, "handshake")
          /\ UNCHANGED <<in_flight, removed>>
       \/ DropGuard(r)
    /\ UNCHANGED <<wait, fired, pooled>>

(* insert_h3_reserved: the connection is pooled with its permit, or, when  *)
(* another one is there already, aborted and its permit released.          *)
Insert(r) == pooled' = TRUE /\ permit' = permit \ {r}

(* A connection by a full handshake, the first or the one that replays     *)
(* early data.  It is pooled, and the request goes out on it.              *)
Connected(r) ==
    /\ phase[r] \in {"handshake", "replay"}
    /\ Insert(r)
    /\ Go(r, "sending")
    /\ UNCHANGED <<wait, in_flight, removed, fired>>

(* Early data, which may carry the request to its response, be refused or  *)
(* lost and replayed on a fresh connection, or fail for good.              *)
ZeroRttAnswered(r) ==
    /\ phase[r] = "handshake"
    /\ pooled' = TRUE
    /\ DropGuard(r)
    /\ UNCHANGED <<wait, fired>>

ZeroRttReplay(r) ==
    /\ phase[r] = "handshake"
    /\ Go(r, "replay")
    /\ UNCHANGED <<wait, in_flight, removed, fired, pooled, permit>>

(* The handshake fails, and the policy permits the fall back to TCP.       *)
Fallback(r) ==
    /\ phase[r] = "handshake"
    /\ Go(r, "fallback")
    /\ UNCHANGED <<wait, in_flight, removed, fired, pooled, permit>>

(* establish_and_send_tcp gets a reservation of its own.                   *)
ReserveTcp(r) ==
    /\ phase[r] = "fallback"
    /\ Go(r, "tcp")
    /\ UNCHANGED <<wait, in_flight, removed, fired, pooled, permit>>

(* Every other way out of a guarded phase: the handshake or the replay     *)
(* fails, TCP has no reservation, the response is there, the request       *)
(* failed, timed out or lost a race against TCP.                           *)
Return(r) ==
    /\ phase[r] \in Guarded \ {"guarded"}
    /\ DropGuard(r)
    /\ UNCHANGED <<wait, fired, pooled>>

(* The response to a piggybacked request, or the end of a request that     *)
(* waits and is dropped.                                                   *)
Finish(r) ==
    /\ phase[r] = "piggyback"
    /\ Go(r, "done")
    /\ UNCHANGED <<wait, in_flight, removed, fired, pooled, permit>>

GiveUp(r) ==
    /\ phase[r] \in {"waiting", "woken"}
    /\ Go(r, "done")
    /\ UNCHANGED <<wait, in_flight, removed, fired, pooled, permit>>

(* The pooled connection ends.                                             *)
Disconnect ==
    /\ pooled
    /\ pooled' = FALSE
    /\ UNCHANGED <<phase, wait, in_flight, removed, fired, permit>>

-----------------------------------------------------------------------------
Step(r) ==
    \/ Start(r) \/ Listen(r) \/ Retry(r) \/ Notify(r) \/ Reserve(r)
    \/ Connected(r) \/ ZeroRttAnswered(r) \/ ZeroRttReplay(r)
    \/ Fallback(r) \/ ReserveTcp(r) \/ Return(r) \/ Finish(r)

Next == (\E r \in Requests : Step(r) \/ GiveUp(r)) \/ Disconnect

Spec == Init /\ [][Next]_vars

(* The runtime polls what is ready, and handshakes and responses end, by   *)
(* their timeouts if need be.  Nothing makes a waiting request give up.    *)
Fairness ==
    \A r \in Requests :
        /\ WF_vars(Step(r))
        /\ WF_vars(Return(r) \/ Notify(r))

FairSpec == Spec /\ Fairness

-----------------------------------------------------------------------------
(* Every variable keeps to its type; only a request under its guard holds  *)
(* a reservation.                                                          *)
TypeOK ==
    /\ phase \in [Requests -> Phases]
    /\ wait \in [Requests -> Requests \union {None}]
    /\ in_flight \in Requests \union {None}
    /\ removed \in [Requests -> Requests \union {None}]
    /\ fired \subseteq Requests
    /\ pooled \in BOOLEAN
    /\ permit \subseteq {r \in Requests : phase[r] \in Guarded}

(* No dead marker: the request that put the marker still holds its guard,  *)
(* so the marker is removed at the latest when that request ends.          *)
MarkerHasDriver ==
    in_flight # None => phase[in_flight] \in Guarded

(* A Notify that someone waits for is in the map, about to be fired, or    *)
(* was fired: none is taken out of the map and forgotten, whoever's guard  *)
(* took it out.                                                            *)
NoNotifyForgotten ==
    \A r \in Requests :
        phase[r] \in {"found", "waiting"} =>
            \/ wait[r] = in_flight
            \/ \E q \in Requests : phase[q] = "leaving" /\ removed[q] = wait[r]
            \/ wait[r] \in fired

(* The marker of a handshake under way: it goes with the request that put  *)
(* it, and whoever waits on it is not forgotten.                           *)
MarkerSound == MarkerHasDriver /\ NoNotifyForgotten

(* A request that listens in time is woken.                                *)
ListenersWoken ==
    \A r \in Requests :
        phase[r] = "waiting" /\ wait[r] \notin fired ~> phase[r] # "waiting"

(* "make sure we drop the in-flight marker and wake waiters": every        *)
(* request that found a marker stops waiting.                              *)
WaitersWoken ==
    \A r \in Requests : phase[r] = "waiting" ~> phase[r] # "waiting"
=============================================================================
