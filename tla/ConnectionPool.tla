--------------------------- MODULE ConnectionPool ---------------------------
(***************************************************************************)
(* The per-Session connection pool of lkrequest/src/connection_pool.rs and *)
(* the budget of physical connections it shares with the dialers.          *)
(*                                                                         *)
(* Every method of ConnectionPool runs under the mutex of SessionInner and *)
(* is one action here.  Three things do not wait for that mutex and        *)
(* interleave with it: ConnectionBudget::try_reserve_speculative, the drop *)
(* of a ConnectionPermit, and the driver and tracker tasks.  That is why   *)
(* try_reserve_connection, which drops permits and runs its compare-and-   *)
(* swap up to twice, is up to three steps (ReserveBegin, ReserveEvict,     *)
(* ReserveGranted or ReserveRefused) with the mutex held in between        *)
(* (`reserving`).                                                          *)
(***************************************************************************)
EXTENDS Integers, FiniteSets

CONSTANTS
    Key,        \* ConnectionKey values: scheme, host, port and route
    Conn,       \* physical connections; an identity is reused once it is fresh
    None,       \* "no connection"
    MaxTotal,   \* ConnectionPool::max_total
    MaxPerKey,  \* ConnectionPool::max_per_key
    UseLegacy   \* whether the deprecated low-level methods are called

ASSUME PoolAssumption ==
    /\ IsFiniteSet(Conn)
    /\ None \notin Conn
    /\ MaxTotal \in Nat
    /\ MaxPerKey \in Nat \ {0}
    /\ UseLegacy \in BOOLEAN

VARIABLES
    in_use,     \* connections_in_use, the shared AtomicUsize
    permit,     \* where the connection's ConnectionPermit lives
    proto,      \* protocol spoken once established
    origin,     \* the key the connection was opened for
    driver,     \* its driver task (JoinHandle)
    pooled,     \* connections that are entries of h1/h2/h3_connections
    older,      \* <<c, d>>: pooled c was last used before pooled d
    adopted,    \* connections counted by adopt_existing_connection
    lent,       \* H1 connections in the hands of deprecated callers
    reserving   \* the try_reserve_connection that holds the pool mutex

vars == <<in_use, permit, proto, origin, driver, pooled, older, adopted,
          lent, reserving>>

-----------------------------------------------------------------------------
Protos == {"h1", "h2", "h3"}

(* "dialer": the future that dials holds it; "speculative": a second dial   *)
(* attempt of the same future; "user": a request exchanges on the H1        *)
(* connection; "entry": the idle H1PoolEntry; "tracker": the task spawned   *)
(* by track_connection_task; "aborting": that task, abort requested;        *)
(* "legacy": the legacy_h1_permits map.                                     *)
PermitPlaces == {"none", "dialer", "speculative", "user", "entry", "tracker",
                 "aborting", "legacy"}

DriverStates == {"none", "running", "stopping", "finished"}

Idle == [phase |-> "none", conn |-> None]

Held == {c \in Conn : permit[c] # "none"}

(* The entries of one of the three maps under one key.                     *)
Entries(P, k, p) == {c \in P : origin[c] = k /\ proto[c] = p}

(* Front and back of a deque: entries are pushed at the back with          *)
(* last_used = now, so deque order is the order of last use.  Each is a    *)
(* singleton, or empty when S is.                                          *)
Oldest(S) == {c \in S : \A d \in S \ {c} : <<c, d>> \in older}
Newest(S) == {c \in S : \A d \in S \ {c} : <<d, c>> \in older}

(* Sets of entries whose idle time may exceed idle_timeout at one instant. *)
ExpirySets ==
    {E \in SUBSET pooled : \A e \in E, d \in pooled : <<d, e>> \in older => d \in E}

-----------------------------------------------------------------------------
Init ==
    /\ in_use = 0
    /\ permit = [c \in Conn |-> "none"]
    /\ proto = [c \in Conn |-> "none"]
    /\ origin = [c \in Conn |-> None]
    /\ driver = [c \in Conn |-> "none"]
    /\ pooled = {}
    /\ older = {}
    /\ adopted = {}
    /\ lent = {}
    /\ reserving = Idle

MutexFree == reserving = Idle

Fresh(c) ==
    /\ permit[c] = "none"
    /\ driver[c] \in {"none", "finished"}
    /\ c \notin pooled \union lent
    /\ reserving.conn # c

-----------------------------------------------------------------------------
(* Effects shared by the actions.                                          *)

(* Drop for ConnectionPermit on the permits of R, starting from places p.  *)
Dropped(p, R) == [c \in Conn |-> IF c \in R THEN "none" ELSE p[c]]

ReleaseTwice(p, R) ==
    /\ permit' = Dropped(p, R)
    /\ in_use' = in_use - 2 * Cardinality(R)
    /\ adopted' = adopted \ R

Release(p, R) ==
    /\ permit' = Dropped(p, R)
    /\ in_use' = in_use - Cardinality(R)
    /\ adopted' = adopted \ R

(* The permit moves to another owner, the counter does not change.         *)
Hand(c, place) == permit' = [permit EXCEPT ![c] = place]

(* A task asked to stop: abort() only requests it, and the driver of an H1 *)
(* connection ends by itself once its sender is dropped.                   *)
Stopping(S) ==
    [c \in Conn |-> IF c \in S /\ driver[c] = "running" THEN "stopping" ELSE driver[c]]

(* The pool keeps exactly the entries P; c, when it is one of them, was    *)
(* used just now.                                                          *)
Keep(P) == pooled' = P /\ older' = {o \in older : o[1] \in P /\ o[2] \in P}
KeepTouched(P, c) ==
    /\ pooled' = P
    /\ older' = {o \in older : o[1] \in P \ {c} /\ o[2] \in P \ {c}}
                  \union {<<d, c>> : d \in P \ {c}}

(* Of dropped entries only those of H1 own their permit and sender; the    *)
(* tracker of an H2 or H3 entry is detached and keeps running.             *)
OwnersInNone(E) == {}
OwnersIn(E) == {c \in E : proto[c] = "h1"}

-----------------------------------------------------------------------------
(* JoinHandle::is_finished as evict_closed asks it: an H1 entry and a      *)
(* legacy H3 entry ask the driver, the others the tracker.                 *)
IsFinished(c) ==
    IF proto[c] = "h1" \/ (proto[c] = "h3" /\ c \in adopted)
      THEN driver[c] = "finished"
      ELSE permit[c] = "none"

(* legacy_h1_permits records whose Weak is dead or whose task has ended.   *)
StaleLegacyAll == {c \in Conn : permit[c] = "legacy"}
StaleLegacy ==
    {c \in Conn : permit[c] = "legacy" /\ (c \notin lent \/ driver[c] = "finished")}

ClosedEntries == {c \in pooled : IsFinished(c)}

ReserveBegin(k, c) ==
    /\ MutexFree
    /\ Fresh(c)
    /\ Release(permit, OwnersIn(ClosedEntries) \union StaleLegacy)
    /\ Keep(pooled \ ClosedEntries)
    /\ origin' = [origin EXCEPT ![c] = k]
    /\ proto' = [proto EXCEPT ![c] = "none"]
    /\ driver' = [driver EXCEPT ![c] = "none"]
    /\ reserving' = [phase |-> "try", conn |-> c]
    /\ UNCHANGED lent

(* try_reserve_counter: the compare-and-swap loop, atomic.                 *)
TakeOneMore(c, place) ==
    /\ in_use <= MaxTotal
    /\ in_use' = in_use + 1
    /\ Hand(c, place)
Take(c, place) ==
    /\ in_use < MaxTotal
    /\ in_use' = in_use + 1
    /\ Hand(c, place)

IdleH1 == OwnersIn(pooled)

ReserveGranted ==
    /\ reserving.phase \in {"try", "retry"}
    /\ Take(reserving.conn, "dialer")
    /\ reserving' = Idle
    /\ UNCHANGED <<proto, origin, driver, pooled, older, adopted, lent>>

(* evict_one_idle_h1: the oldest idle H1 connection of any key.            *)
ReserveEvict ==
    /\ reserving.phase = "try"
    /\ in_use >= MaxTotal
    /\ IdleH1 # {}
    /\ LET victim == Oldest(IdleH1) IN
         /\ Release(permit, victim)
         /\ driver' = Stopping(victim)
         /\ Keep(pooled \ victim)
    /\ reserving' = [reserving EXCEPT !.phase = "retry"]
    /\ UNCHANGED <<proto, origin, lent>>

RefusalDueOnRetry == reserving.phase = "retry"
RefusalDue ==
    \/ reserving.phase = "try" /\ IdleH1 = {}
    \/ reserving.phase = "retry"

ReserveRefused ==
    /\ RefusalDue
    /\ in_use >= MaxTotal
    /\ reserving' = Idle
    /\ UNCHANGED <<in_use, permit, proto, origin, driver, pooled, older,
                   adopted, lent>>

(* ConnectionBudget, without the mutex: a second dial attempt of a future  *)
(* that already dials.                                                     *)
ReserveSpeculative(c) ==
    /\ Fresh(c)
    /\ \E d \in Conn : permit[d] = "dialer"
    /\ Take(c, "speculative")
    /\ driver' = [driver EXCEPT ![c] = "none"]
    /\ proto' = [proto EXCEPT ![c] = "none"]
    /\ origin' = [origin EXCEPT ![c] = None]
    /\ UNCHANGED <<pooled, older, adopted, lent, reserving>>

(* The attempt lost, failed, or won and rides on its dialer's permit.      *)
SpeculativeEnds(c) ==
    /\ permit[c] = "speculative"
    /\ Release(permit, {c})
    /\ UNCHANGED <<proto, origin, driver, pooled, older, lent, reserving>>

(* Connection establishment failed or its future was dropped.              *)
DialFails(c) ==
    /\ permit[c] = "dialer"
    /\ Release(permit, {c})
    /\ UNCHANGED <<proto, origin, driver, pooled, older, lent, reserving>>

Established(c, p) ==
    /\ proto' = [proto EXCEPT ![c] = p]
    /\ driver' = [driver EXCEPT ![c] = "running"]

-----------------------------------------------------------------------------
(* Inserting.                                                              *)

(* contains_key before an insertion into h2_connections, h3_connections.   *)
VacantUnchecked(k, p) == TRUE
Vacant(k, p) == Entries(pooled, k, p) = {}

InsertH2(c) ==
    /\ MutexFree
    /\ permit[c] = "dialer"
    /\ Established(c, "h2")
    /\ Hand(c, "tracker")
    /\ IF Vacant(origin[c], "h2")
         THEN KeepTouched(pooled \union {c}, c)
         ELSE UNCHANGED <<pooled, older>>
    /\ UNCHANGED <<in_use, origin, adopted, lent, reserving>>

InsertH3(c) ==
    /\ MutexFree
    /\ permit[c] = "dialer"
    /\ proto' = [proto EXCEPT ![c] = "h3"]
    /\ IF Vacant(origin[c], "h3")
         THEN /\ Hand(c, "tracker")
              /\ driver' = [driver EXCEPT ![c] = "running"]
              /\ KeepTouched(pooled \union {c}, c)
              /\ UNCHANGED <<in_use, adopted>>
         ELSE /\ Release(permit, {c})
              /\ driver' = [driver EXCEPT ![c] = "stopping"]
              /\ UNCHANGED <<pooled, older>>
    /\ UNCHANGED <<origin, lent, reserving>>

(* preconnect pools a new H1 connection; a request keeps it for itself.    *)
InsertH1(c) ==
    /\ MutexFree
    /\ permit[c] = "dialer"
    /\ Established(c, "h1")
    /\ Hand(c, "entry")
    /\ KeepTouched(pooled \union {c}, c)
    /\ UNCHANGED <<in_use, origin, adopted, lent, reserving>>

UseH1(c) ==
    /\ permit[c] = "dialer"
    /\ Established(c, "h1")
    /\ Hand(c, "user")
    /\ UNCHANGED <<in_use, origin, pooled, older, adopted, lent, reserving>>

(* return_h1_reserved: at max_per_key the front of the deque is aborted.   *)
Overflow(k) ==
    LET es == Entries(pooled, k, "h1") IN
    IF Cardinality(es) >= MaxPerKey THEN Oldest(es) ELSE {}

ReturnH1(c) ==
    /\ MutexFree
    /\ permit[c] = "user"
    /\ LET out == Overflow(origin[c]) IN
         /\ Release([permit EXCEPT ![c] = "entry"], out)
         /\ driver' = Stopping(out)
         /\ KeepTouched((pooled \ out) \union {c}, c)
    /\ UNCHANGED <<proto, origin, lent, reserving>>

(* Connection: close, a failed exchange, a stale sender, a dropped future. *)
DropH1(c) ==
    /\ permit[c] = "user"
    /\ Release(permit, {c})
    /\ driver' = Stopping({c})
    /\ UNCHANGED <<proto, origin, pooled, older, lent, reserving>>

-----------------------------------------------------------------------------
(* Looking up.  Each lookup first runs evict_idle (E expires).             *)

Lookup(P, k, prefs) ==
    LET of(p) == IF p \in prefs THEN Entries(P, k, p) ELSE {} IN
    IF of("h3") # {} THEN of("h3") ELSE
    IF of("h2") # {} THEN of("h2") ELSE
    IF of("h1") # {} THEN Newest(of("h1")) ELSE {}

AcquireInto(k, prefs, E, place) ==
    /\ MutexFree
    /\ LET left == pooled \ E
           got  == Lookup(left, k, prefs)
           h1   == OwnersIn(got)
       IN /\ Release([c \in Conn |-> IF c \in h1 THEN place ELSE permit[c]],
                     OwnersIn(E))
          /\ driver' = Stopping(OwnersIn(E))
          /\ \/ got = {} /\ Keep(left)
             \/ got = h1 /\ h1 # {} /\ Keep(left \ h1)
             \/ \E c \in got \ h1 : KeepTouched(left, c)
          /\ lent' = IF place = "legacy" THEN lent \union h1 ELSE lent
    /\ UNCHANGED <<proto, origin, reserving>>

(* try_acquire_internal, try_acquire_h{1,2,3}_pooled_internal and, with no *)
(* protocol asked for, the has_*connection queries.                        *)
Acquire(k, prefs, E) == AcquireInto(k, prefs, E, "user")

Remove(k) ==
    /\ MutexFree
    /\ LET gone == {c \in pooled : origin[c] = k} IN
         /\ Release(permit, OwnersIn(gone))
         /\ driver' = Stopping(OwnersIn(gone))
         /\ Keep(pooled \ gone)
    /\ UNCHANGED <<proto, origin, lent, reserving>>

(* clear: evict_closed, then every entry left is aborted.  Aborting an H2  *)
(* or H3 entry aborts its tracker, which is still to drop its permit.      *)
Clear ==
    /\ MutexFree
    /\ LET live == pooled \ ClosedEntries
           mux  == {c \in live : proto[c] # "h1"} IN
         /\ Release([c \in Conn |-> IF c \in mux THEN "aborting" ELSE permit[c]],
                    OwnersIn(pooled) \union StaleLegacy)
         /\ driver' = Stopping(OwnersIn(live) \union {c \in mux : proto[c] = "h3" /\ c \in adopted})
    /\ Keep({})
    /\ UNCHANGED <<proto, origin, lent, reserving>>

-----------------------------------------------------------------------------
(* Tasks.                                                                  *)

(* The peer closes, I/O fails, or nobody holds a sender any more.          *)
DriverExits(c) ==
    /\ driver[c] = "running"
    /\ driver' = [driver EXCEPT ![c] = "finished"]
    /\ UNCHANGED <<in_use, permit, proto, origin, pooled, older, adopted, lent,
                   reserving>>

DriverStops(c) ==
    /\ driver[c] = "stopping"
    /\ driver' = [driver EXCEPT ![c] = "finished"]
    /\ UNCHANGED <<in_use, permit, proto, origin, pooled, older, adopted, lent,
                   reserving>>

(* track_connection_task sees its driver end, or is cancelled and aborts   *)
(* the driver as it drops the permit.                                      *)
TrackerEndsWhenPooled(c) ==
    /\ permit[c] = "tracker" /\ driver[c] = "finished" /\ c \in pooled
    /\ Release(permit, {c})
    /\ UNCHANGED <<driver, proto, origin, pooled, older, lent, reserving>>

TrackerEnds(c) ==
    /\ \/ permit[c] = "tracker" /\ driver[c] = "finished"
       \/ permit[c] = "aborting"
    /\ Release(permit, {c})
    /\ driver' = Stopping({c})
    /\ UNCHANGED <<proto, origin, pooled, older, lent, reserving>>

-----------------------------------------------------------------------------
(* The deprecated methods: connections opened by the caller are counted    *)
(* above the limit, and a checked-out H1 permit waits in legacy_h1_permits.*)

Adopt(c, place) ==
    /\ permit' = [permit EXCEPT ![c] = place]
    /\ in_use' = in_use + 1
    /\ adopted' = adopted \union {c}

LegacyInsert(k, c, p) ==
    /\ UseLegacy
    /\ MutexFree
    /\ Fresh(c)
    /\ origin' = [origin EXCEPT ![c] = k]
    /\ Established(c, p)
    /\ Adopt(c, IF p = "h1" THEN "entry" ELSE "tracker")
    /\ IF p = "h1" \/ Vacant(k, p)
         THEN KeepTouched(pooled \union {c}, c)
         ELSE UNCHANGED <<pooled, older>>
    /\ UNCHANGED <<lent, reserving>>

LegacyAcquire(k, prefs, E) == UseLegacy /\ AcquireInto(k, prefs, E, "legacy")

(* The caller of try_acquire drops what it was given.                      *)
LegacyForget(c) ==
    /\ c \in lent
    /\ lent' = lent \ {c}
    /\ driver' = Stopping({c})
    /\ UNCHANGED <<in_use, permit, proto, origin, pooled, older, adopted, reserving>>

(* return_h1: without a record (evict_closed dropped it) it adopts anew.   *)
AdoptsAnewAlways(c) == TRUE
AdoptsAnew(c) == permit[c] # "legacy"

LegacyReturnH1(c) ==
    /\ MutexFree
    /\ c \in lent
    /\ LET out == Overflow(origin[c])
       IN /\ permit' = Dropped([permit EXCEPT ![c] = "entry"], out)
          /\ in_use' = (IF AdoptsAnew(c) THEN in_use + 1 ELSE in_use) - Cardinality(out)
          /\ adopted' = (IF AdoptsAnew(c) THEN adopted \union {c} ELSE adopted) \ out
          /\ driver' = Stopping(out)
          /\ KeepTouched((pooled \ out) \union {c}, c)
    /\ lent' = lent \ {c}
    /\ UNCHANGED <<proto, origin, reserving>>

-----------------------------------------------------------------------------
Prefs == {{}, {"h1"}, {"h2"}, {"h3"}, Protos}

Next ==
    \/ \E k \in Key, c \in Conn : ReserveBegin(k, c)
    \/ ReserveGranted
    \/ ReserveEvict
    \/ ReserveRefused
    \/ \E c \in Conn : ReserveSpeculative(c)
    \/ \E c \in Conn : SpeculativeEnds(c)
    \/ \E c \in Conn : DialFails(c)
    \/ \E c \in Conn : InsertH2(c)
    \/ \E c \in Conn : InsertH3(c)
    \/ \E c \in Conn : InsertH1(c)
    \/ \E c \in Conn : UseH1(c)
    \/ \E c \in Conn : ReturnH1(c)
    \/ \E c \in Conn : DropH1(c)
    \/ \E k \in Key, prefs \in Prefs, E \in ExpirySets : Acquire(k, prefs, E)
    \/ \E k \in Key : Remove(k)
    \/ Clear
    \/ \E c \in Conn : DriverExits(c)
    \/ \E c \in Conn : DriverStops(c)
    \/ \E c \in Conn : TrackerEnds(c)
    \/ \E k \in Key, c \in Conn, p \in Protos : LegacyInsert(k, c, p)
    \/ \E k \in Key, prefs \in Prefs, E \in ExpirySets : LegacyAcquire(k, prefs, E)
    \/ \E c \in Conn : LegacyForget(c)
    \/ \E c \in Conn : LegacyReturnH1(c)

Spec == Init /\ [][Next]_vars

(* Tasks are polled by the runtime, dialing is bounded by the connect      *)
(* timeout, and a driver outside the pool exits once the requests that     *)
(* still hold its sender are done.                                         *)
TaskFairness ==
    /\ WF_vars(ReserveGranted)
    /\ WF_vars(ReserveEvict)
    /\ WF_vars(ReserveRefused)
    /\ \A c \in Conn :
         /\ WF_vars(SpeculativeEnds(c))
         /\ WF_vars(DialFails(c))
         /\ WF_vars(DriverStops(c))
         /\ WF_vars(TrackerEnds(c))
         /\ WF_vars(c \notin pooled /\ permit[c] = "tracker" /\ DriverExits(c))

FairSpec == Spec /\ TaskFairness

-----------------------------------------------------------------------------
(* Properties.                                                             *)

(* The state's shape; the AtomicUsize never goes below zero, where         *)
(* fetch_sub would wrap around and lift the limit for good.                *)
TypeOK ==
    /\ in_use \in Nat
    /\ permit \in [Conn -> PermitPlaces]
    /\ proto \in [Conn -> Protos \union {"none"}]
    /\ origin \in [Conn -> Key \union {None}]
    /\ driver \in [Conn -> DriverStates]
    /\ pooled \in SUBSET Conn
    /\ older \in SUBSET (pooled \X pooled)
    /\ adopted \in SUBSET Conn
    /\ lent \in SUBSET Conn
    /\ reserving \in [phase : {"none", "try", "retry"}, conn : Conn \union {None}]

(* connections_in_use is the number of permits alive, whoever owns them:   *)
(* no path drops a permit twice or forgets one (Drop for ConnectionPermit).*)
BudgetConserved == in_use = Cardinality(Held)

(* try_reserve_counter never grants more than max_total permits, speculative*)
(* dials and lost slots included; only adopt_existing_connection may exceed.*)
HardLimit == Cardinality(Held \ adopted) <= MaxTotal

(* A connection whose driver runs and was not asked to stop is counted in  *)
(* the budget, pooled or not: insert races, remove, evict_idle, clear and   *)
(* the legacy records never let a live connection go uncounted.             *)
LiveIsCounted == \A c \in Conn : driver[c] = "running" => permit[c] # "none"

(* The budget is right: the counter is the number of permits, within the   *)
(* limit, and no live connection is outside it.                            *)
Accounting == BudgetConserved /\ HardLimit /\ LiveIsCounted

(* One pooled connection per key for the multiplexed protocols, whatever   *)
(* insertions race (insert_h2_reserved, insert_h3_reserved).                *)
MuxUnique ==
    \A c, d \in pooled :
        proto[c] = proto[d] /\ origin[c] = origin[d] /\ proto[c] # "h1" => c = d

(* An H1 connection is exclusive: idle in the pool, or in the hands of one *)
(* request or deprecated caller, and the permit is with whoever has it.    *)
H1Exclusive ==
    /\ \A c \in Conn : permit[c] = "entry" <=> c \in pooled /\ proto[c] = "h1"
    /\ lent \intersect pooled = {}

(* No two callers get what only one may have: a key has one multiplexed    *)
(* connection a protocol, and an H1 connection has one holder.             *)
Exclusivity == MuxUnique /\ H1Exclusive

(* No slot leaks: a permit outside the pool, a user's or a legacy record's *)
(* excepted, is given back or its connection is pooled or used.            *)
SlotsReturn ==
    \A c \in Conn :
        (c \notin pooled /\ permit[c] \in {"dialer", "speculative", "tracker", "aborting"})
            ~> (c \in pooled \/ permit[c] \in {"none", "user"})

(* try_reserve_connection always answers: the mutex is never held for good.*)
ReserveAnswers == reserving # Idle ~> reserving = Idle
=============================================================================
