---------------------------- MODULE SessionStore ----------------------------
(***************************************************************************)
(* InMemorySessionStore: the tickets of a host, oldest first, shared by all  *)
(* the connections of a client.  Tickets are numbered in the order they are *)
(* stored.                                                                  *)
(***************************************************************************)
EXTENDS Naturals, Sequences

CONSTANTS
    Hosts,        \* host:port keys
    MaxTickets,   \* max_tickets_per_host
    MaxStored     \* how many tickets are ever stored

\* With 0 the loop that makes room in store() would not end.
ASSUME StoreAssumption == MaxTickets \in Nat \ {0} /\ MaxStored \in Nat

VARIABLES
    queue,     \* the VecDeque of every host
    stale,     \* tickets whose lifetime is over
    minted,    \* how many tickets were stored
    taken      \* [host, ticket, left]: what take() has returned, and what
               \* it left unexpired

store_vars == <<queue, stale, minted, taken>>

StoreInit ==
    /\ queue = [h \in Hosts |-> <<>>]
    /\ stale = {} /\ minted = 0 /\ taken = {}

Keep(q, n) == IF Len(q) <= n THEN q ELSE SubSeq(q, Len(q) - n + 1, Len(q))

\* store: room is made at the old end.
DropsNewest(h) ==
    /\ minted < MaxStored
    /\ minted' = minted + 1
    /\ queue' = [queue EXCEPT ![h] =
                    Append(SubSeq(@, 1, IF Len(@) < MaxTickets THEN Len(@)
                                        ELSE MaxTickets), minted + 1)]
    /\ UNCHANGED <<stale, taken>>
StoreTicket(h) ==
    /\ minted < MaxStored
    /\ minted' = minted + 1
    /\ queue' = [queue EXCEPT ![h] = Append(Keep(@, MaxTickets - 1), minted + 1)]
    /\ UNCHANGED <<stale, taken>>

Expire(t) ==
    /\ t \in 1 .. minted /\ t \notin stale
    /\ stale' = stale \cup {t}
    /\ UNCHANGED <<queue, minted, taken>>

\* The place of the newest ticket of q that has not expired, 0 if none.
Freshest(q) ==
    LET good == {i \in DOMAIN q : q[i] \notin stale}
    IN  IF good = {} THEN 0 ELSE CHOOSE i \in good : \A j \in good : j <= i

\* take: from the new end, what has expired is thrown away on the way.
LeavesTicket(h) ==
    LET i == Freshest(queue[h])
        left == {queue[h][j] : j \in 1 .. i - 1} \ stale
    IN  /\ queue[h] # <<>>
        /\ queue' = [queue EXCEPT ![h] = SubSeq(@, 1, i)]
        /\ taken' = IF i = 0 THEN taken
                    ELSE taken \cup {[host |-> h, ticket |-> queue[h][i],
                                      left |-> left]}
        /\ UNCHANGED <<stale, minted>>
TakeTicket(h) ==
    LET i == Freshest(queue[h])
        left == {queue[h][j] : j \in 1 .. i - 1} \ stale
    IN  /\ queue[h] # <<>>
        /\ queue' = [queue EXCEPT ![h] = SubSeq(@, 1, i - 1)]
        /\ taken' = IF i = 0 THEN taken
                    ELSE taken \cup {[host |-> h, ticket |-> queue[h][i],
                                      left |-> left]}
        /\ UNCHANGED <<stale, minted>>

StoreNext ==
    \/ \E h \in Hosts : StoreTicket(h) \/ TakeTicket(h)
    \/ \E t \in 1 .. MaxStored : Expire(t)

StoreSpec == StoreInit /\ [][StoreNext]_store_vars

-----------------------------------------------------------------------------

\* The queue of a host never exceeds max_tickets_per_host and keeps its order.
StoreTypeOK ==
    /\ minted \in 0 .. MaxStored /\ stale \subseteq 1 .. minted
    /\ \A h \in Hosts :
         /\ Len(queue[h]) <= MaxTickets
         /\ \A i, j \in DOMAIN queue[h] : i < j => queue[h][i] < queue[h][j]

\* A ticket is offered by one connection only: what take() returned is in no
\* queue and is returned to nobody else, and no fresher one was left behind.
TicketsUsedOnce ==
    /\ StoreTypeOK
    /\ \A x \in taken :
         /\ \A h \in Hosts : \A i \in DOMAIN queue[h] : queue[h][i] # x.ticket
         /\ \A y \in taken : y.ticket = x.ticket => y = x
         /\ \A t \in x.left : t < x.ticket
=============================================================================
