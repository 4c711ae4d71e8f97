----------------------------- MODULE ProxyPool -----------------------------
(***************************************************************************)
(* ProxyPool and the SessionPool built on it: a semaphore of permits, the  *)
(* choice of a proxy for each permit, the queue of idle sessions that keep *)
(* theirs, and the books that take failing proxies out of the rotation.    *)
(*                                                                         *)
(* The list of proxies is a fixed one handed out in turn (ProxyRotator,    *)
(* RoundRobin); a dynamic provider skips all of the book-keeping.  Time    *)
(* only orders things here: a cooldown runs out, a failure leaves the      *)
(* window and an idle session becomes too old in actions of their own.     *)
(* Every lock of the code is held for one action below; the cooldown lock  *)
(* is held while the counts and the removed set are updated under it.     *)
(***************************************************************************)
EXTENDS Naturals, SequencesExt

CONSTANTS
    NumProxies,    \* number of proxies of the list, ProxyProvider::len
    Users,         \* tasks that acquire
    SessionUsers,  \* those that acquire through SessionPool
    Direct,        \* ProxyGuard::proxy() = None
    MaxProxies,    \* permits of the semaphore
    FailureThreshold, \* BadProxyConfig::failure_threshold
    MaxCooldowns,  \* BadProxyConfig::max_cooldowns
    Flaky,         \* bound: the proxies that fail in this instance
    MaxReports     \* bound: failures reported or found in a behaviour

Proxies == 1..NumProxies

ASSUME ProxyPoolAssumption ==
    /\ NumProxies \in Nat \ {0}
    /\ Direct \notin Proxies
    /\ IsFiniteSet(Users) /\ SessionUsers \subseteq Users
    /\ MaxProxies \in Nat \ {0}
    /\ FailureThreshold \in Nat \ {0}
    /\ MaxCooldowns \in Nat \ {0}
    /\ Flaky \subseteq Proxies
    /\ MaxReports \in Nat

VARIABLES
    free_permits, \* permits of the semaphore nobody holds
    waiters,    \* tasks waiting for a permit, in order
    at,         \* where the task stands in acquire
    proxy,      \* the proxy of its guard, or the one it is looking at
    old,        \* the guard kept across acquire_fresh, <<>> if none
    tries,      \* rounds of next_usable_proxy left
    cursor,     \* ProxyRotator::next, modulo the list
    cooling,    \* proxies of the cooldown map that have not expired
    failures,   \* failures of the proxy still in the window
    counts,     \* cooldown_counts
    removed,    \* permanently_removed
    recording,  \* spawned record_bad_proxy tasks, by proxy and next lock
    probing,    \* proxies the health check has yet to probe
    idle,       \* idle sessions: the proxies of their guards, oldest first
    aged,       \* how many of them are older than idle_timeout
    returning,  \* dropped sessions whose push_back has not run
    reported,   \* ghost: failures reported or found, by proxy
    barred,     \* ghost: the Bars in force ever since the choice began
    clear,      \* ghost: proxies usable ever since the choice began
    crossed     \* ghost: another task drew a proxy during the choice

permit_vars == <<free_permits, waiters>>
choice_state == <<at, proxy, old, tries, cursor>>
health_vars == <<cooling, failures, counts, removed, recording, probing, reported>>
idle_vars == <<idle, aged, returning>>
ghosts == <<barred, clear, crossed>>
proxy_vars == <<permit_vars, choice_state, health_vars, idle_vars, ghosts>>

Stage == {"check", "count", "clear", "cool"}
Places == {"out", "queued", "drawing", "checking", "using"}
Guard == Proxies \union {Direct}

InChoice(place) == place \in {"drawing", "checking"}
Choosing == {u \in Users : InChoice(at[u])}
Using == {u \in Users : at[u] = "using"}

(* Why a proxy is passed over.                                             *)
Bars == ({"removed"} \X removed) \union ({"cooling"} \X cooling)
Usable == Proxies \ (removed \union cooling)

ProxyPoolTypeOK ==
    /\ free_permits \in 0..MaxProxies
    /\ waiters \in Seq(Users)
    /\ at \in [Users -> Places]
    /\ proxy \in [Users -> Guard]
    /\ \A u \in Users : old[u] \in {<<>>} \union {<<g>> : g \in Guard}
    /\ tries \in [Users -> 0..NumProxies]
    /\ cursor \in Proxies
    /\ cooling \subseteq Proxies
    /\ failures \in [Proxies -> Nat]
    /\ counts \in [Proxies -> Nat]
    /\ removed \subseteq Proxies
    /\ recording \in [Proxies -> [Stage -> Nat]]
    /\ probing \subseteq Proxies
    /\ idle \in Seq(Guard) /\ aged \in 0..Len(idle)
    /\ returning \in Seq(Guard)

-----------------------------------------------------------------------------
ProxyPoolInit ==
    /\ free_permits = MaxProxies /\ waiters = <<>>
    /\ at = [u \in Users |-> "out"]
    /\ proxy = [u \in Users |-> Direct]
    /\ old = [u \in Users |-> <<>>]
    /\ tries = [u \in Users |-> 0]
    /\ cursor = 1
    /\ cooling = {}
    /\ failures = [p \in Proxies |-> 0]
    /\ counts = [p \in Proxies |-> 0]
    /\ removed = {}
    /\ recording = [p \in Proxies |-> [s \in Stage |-> 0]]
    /\ probing = {}
    /\ idle = <<>> /\ aged = 0 /\ returning = <<>>
    /\ reported = [p \in Proxies |-> 0]
    /\ barred = [u \in Users |-> {}]
    /\ clear = [u \in Users |-> {}]
    /\ crossed = [u \in Users |-> FALSE]

-----------------------------------------------------------------------------
(* The semaphore                                                           *)

least(a, b) == IF a < b THEN a ELSE b

RoundsShort == NumProxies - 1

(* proxy_count.max(1) rounds of next_usable_proxy.                         *)
Rounds == NumProxies

(* With free permits to give and the tasks of q waiting, those whose turn  *)
(* it is get one and start next_usable_proxy; tokio's semaphore is fair.   *)
(* place says where the tasks stand otherwise.                             *)
Hand(q, free, place) ==
    LET n == least(free, Len(q))
        starts(u) == \E i \in 1..n : q[i] = u
    IN  /\ free_permits' = free - n
        /\ waiters' = SubSeq(q, n + 1, Len(q))
        /\ at' = [u \in Users |-> IF starts(u) THEN "drawing" ELSE place[u]]
        /\ tries' = [u \in Users |-> IF starts(u) THEN Rounds
                        ELSE IF InChoice(place[u]) THEN tries[u] ELSE 0]
        /\ barred' = [u \in Users |-> IF starts(u) THEN Bars
                        ELSE IF InChoice(place[u]) THEN barred[u] ELSE {}]
        /\ clear' = [u \in Users |-> IF starts(u) THEN Usable
                        ELSE IF InChoice(place[u]) THEN clear[u] ELSE {}]
        /\ crossed' = [u \in Users |-> ~starts(u) /\ InChoice(place[u]) /\ crossed[u]]

(* ProxyPool::acquire after k permits have come back: u takes its turn.    *)
Ask(u, k) == Hand(Append(waiters, u), free_permits + k, [at EXCEPT ![u] = "queued"])

-----------------------------------------------------------------------------
(* next_usable_proxy                                                       *)

Forget(u) ==
    /\ tries' = [tries EXCEPT ![u] = 0]
    /\ barred' = [barred EXCEPT ![u] = {}]
    /\ clear' = [clear EXCEPT ![u] = {}]
    /\ crossed' = [crossed EXCEPT ![u] = FALSE]

IgnoresRemoved(p) == FALSE

IsRemoved(p) == p \in removed

(* One round: ProxyRotator::next_proxy and the look at the removed proxies; *)
(* or the end of the loop: no proxy, and the user will connect directly.   *)
Draw(u) ==
    /\ at[u] = "drawing"
    /\ \/ /\ tries[u] > 0
          /\ proxy' = [proxy EXCEPT ![u] = IF IsRemoved(cursor) THEN Direct ELSE cursor]
          /\ cursor' = IF cursor = NumProxies THEN 1 ELSE cursor + 1
          /\ tries' = [tries EXCEPT ![u] = @ - 1]
          /\ at' = [at EXCEPT ![u] = IF IsRemoved(cursor) THEN "drawing" ELSE "checking"]
          /\ crossed' = [v \in Users |-> crossed[v] \/ (v # u /\ v \in Choosing)]
          /\ UNCHANGED <<barred, clear>>
       \/ /\ tries[u] = 0
          /\ proxy' = [proxy EXCEPT ![u] = Direct]
          /\ at' = [at EXCEPT ![u] = "using"]
          /\ Forget(u)
          /\ UNCHANGED cursor
    /\ UNCHANGED <<permit_vars, old, health_vars, idle_vars>>

CheckCooldown(u) ==
    /\ at[u] = "checking"
    /\ \/ /\ proxy[u] \in cooling
          /\ proxy' = [proxy EXCEPT ![u] = Direct]
          /\ at' = [at EXCEPT ![u] = "drawing"]
          /\ UNCHANGED <<tries, ghosts>>
       \/ /\ proxy[u] \notin cooling
          /\ at' = [at EXCEPT ![u] = "using"]
          /\ Forget(u)
          /\ UNCHANGED proxy
    /\ UNCHANGED <<permit_vars, old, cursor, health_vars, idle_vars>>

-----------------------------------------------------------------------------
(* SessionPool::acquire and ProxyPool::acquire as a task calls them        *)

(* Looks through the idle queue under its lock: sessions that sat too long *)
(* are dropped with their permits, the first of the others is reused, and  *)
(* if there is none the task asks the proxy pool.                          *)
TakeIdle(u) ==
    IF aged < Len(idle)
    THEN /\ proxy' = [proxy EXCEPT ![u] = idle[aged + 1]]
         /\ idle' = SubSeq(idle, aged + 2, Len(idle)) /\ aged' = 0
         /\ Hand(waiters, free_permits + aged, [at EXCEPT ![u] = "using"])
    ELSE /\ idle' = <<>> /\ aged' = 0
         /\ Ask(u, aged)
         /\ UNCHANGED proxy

(* The two acquire()s: a task of the proxy pool goes for a permit at once. *)
Begin(u) ==
    IF u \in SessionUsers THEN TakeIdle(u)
    ELSE Ask(u, 0) /\ UNCHANGED <<proxy, idle, aged>>

AcquireProxy(u) ==
    /\ at[u] = "out"
    /\ Begin(u)
    /\ UNCHANGED <<old, cursor, health_vars, returning>>

AllReports == MapThenSumSet(LAMBDA p : reported[p], Proxies)

Counted(p) ==
    /\ p \in Flaky /\ AllReports < MaxReports
    /\ reported' = [reported EXCEPT ![p] = @ + 1]

(* mark_bad of a guard or of a session: spawns a record_bad_proxy.         *)
Spawn(p) ==
    /\ Counted(p)
    /\ recording' = [recording EXCEPT ![p]["check"] = @ + 1]

mark_bad(u) ==
    /\ at[u] = "using" /\ proxy[u] # Direct
    /\ Spawn(proxy[u])
    /\ UNCHANGED <<permit_vars, choice_state, cooling, failures, counts, removed,
                   probing, idle_vars, ghosts>>

(* The bad guard is borrowed, so it keeps its permit meanwhile.            *)
acquire_fresh(u) ==
    /\ at[u] = "using" /\ old[u] = <<>>
    /\ old' = [old EXCEPT ![u] = <<proxy[u]>>]
    /\ IF proxy[u] = Direct THEN UNCHANGED <<recording, reported>> ELSE Spawn(proxy[u])
    /\ Begin(u)
    /\ UNCHANGED <<cursor, cooling, failures, counts, removed, probing, returning>>

(* The future of acquire is dropped, with the permit it may have; after    *)
(* acquire_fresh the caller is back with its old guard.                    *)
Back(u) == IF old[u] = <<>> THEN "out" ELSE "using"

Cancel(u) ==
    /\ at[u] \notin {"out", "using"}
    /\ LET position == CHOOSE i \in DOMAIN waiters : waiters[i] = u
           left == IF at[u] = "queued" THEN RemoveAt(waiters, position) ELSE waiters
           place == [at EXCEPT ![u] = Back(u)]
       IN  Hand(left, free_permits + (IF u \in Choosing THEN 1 ELSE 0), place)
    /\ proxy' = [proxy EXCEPT ![u] = IF old[u] = <<>> THEN Direct ELSE Head(old[u])]
    /\ old' = [old EXCEPT ![u] = <<>>]
    /\ UNCHANGED <<cursor, health_vars, idle_vars>>

-----------------------------------------------------------------------------
(* Dropping a guard: a session goes to a task that puts it back in the idle *)
(* queue, unless there is no runtime to spawn it on; a proxy guard gives up *)
(* its permit.                                                             *)
Gone(u) ==
    /\ at[u] = "using"
    /\ proxy' = [proxy EXCEPT ![u] = IF old[u] = <<>> THEN Direct ELSE Head(old[u])]
    /\ old' = [old EXCEPT ![u] = <<>>]
    /\ UNCHANGED <<cursor, health_vars, idle, aged>>

DropGuard(u) ==
    /\ Gone(u)
    /\ Hand(waiters, free_permits + 1, [at EXCEPT ![u] = Back(u)])
    /\ UNCHANGED returning

DropSession(u) ==
    /\ u \in SessionUsers
    /\ Gone(u)
    /\ returning' = Append(returning, proxy[u])
    /\ at' = [at EXCEPT ![u] = Back(u)]
    /\ UNCHANGED <<permit_vars, tries, ghosts>>

PushBack ==
    \E i \in 1..Len(returning) :
        /\ idle' = Append(idle, returning[i])
        /\ returning' = RemoveAt(returning, i)
        /\ UNCHANGED <<permit_vars, choice_state, health_vars, aged, ghosts>>

(* The oldest session that was not too old yet becomes so.                 *)
IdleAges ==
    /\ aged < Len(idle)
    /\ aged' = aged + 1
    /\ UNCHANGED <<permit_vars, choice_state, health_vars, idle, returning, ghosts>>

(* SessionPool's maintenance task drops the sessions that are too old.     *)
EvictKeepsPermits ==
    /\ aged > 0
    /\ idle' = SubSeq(idle, aged + 1, Len(idle)) /\ aged' = 0
    /\ UNCHANGED <<permit_vars, choice_state, health_vars, returning, ghosts>>

EvictForgetsAge ==
    /\ aged > 0
    /\ idle' = SubSeq(idle, aged + 1, Len(idle))
    /\ Hand(waiters, free_permits + aged, at)
    /\ UNCHANGED <<proxy, old, cursor, health_vars, returning, aged>>

Evict ==
    /\ aged > 0
    /\ idle' = SubSeq(idle, aged + 1, Len(idle)) /\ aged' = 0
    /\ Hand(waiters, free_permits + aged, at)
    /\ UNCHANGED <<proxy, old, cursor, health_vars, returning>>

-----------------------------------------------------------------------------
(* record_bad_proxy, one lock at a time                                    *)

(* A change of the proxies' standing ends what the ghosts of a choice say. *)
Watch ==
    /\ barred' = [u \in Users |-> barred[u] \intersect Bars']
    /\ clear' = [u \in Users |-> clear[u] \intersect Usable']
    /\ UNCHANGED crossed

Recorder(p, s, next) ==
    /\ recording[p][s] > 0
    /\ recording' = [recording EXCEPT ![p] =
           [t \in Stage |-> @[t] - (IF t = s THEN 1 ELSE 0) + (IF t = next THEN 1 ELSE 0)]]

RecordCheck(p) ==
    /\ Recorder(p, "check", IF p \in removed THEN "done" ELSE "count")
    /\ UNCHANGED <<permit_vars, choice_state, cooling, failures, counts, removed,
                   probing, reported, idle_vars, ghosts>>

TripsEarly(n) == n + 1 >= FailureThreshold

Trips(n) == n >= FailureThreshold

RecordCount(p) ==
    /\ Recorder(p, "count", IF Trips(failures[p] + 1) THEN "clear" ELSE "done")
    /\ failures' = [failures EXCEPT ![p] = @ + 1]
    /\ UNCHANGED <<permit_vars, choice_state, cooling, counts, removed, probing,
                   reported, idle_vars, ghosts>>

RecordClear(p) ==
    /\ Recorder(p, "clear", "cool")
    /\ failures' = [failures EXCEPT ![p] = 0]
    /\ UNCHANGED <<permit_vars, choice_state, cooling, counts, removed, probing,
                   reported, idle_vars, ghosts>>

RecordCool(p) ==
    /\ Recorder(p, "cool", "done")
    /\ cooling' = cooling \union {p}
    /\ counts' = [counts EXCEPT ![p] = @ + 1]
    /\ removed' = IF counts[p] + 1 >= MaxCooldowns THEN removed \union {p} ELSE removed
    /\ UNCHANGED <<permit_vars, choice_state, failures, probing, reported, idle_vars>>
    /\ Watch

-----------------------------------------------------------------------------
(* Time, and the maintenance task of ProxyPool                             *)

WindowSlides(p) ==
    /\ failures[p] > 0
    /\ failures' = [failures EXCEPT ![p] = @ - 1]
    /\ UNCHANGED <<permit_vars, choice_state, cooling, counts, removed, recording,
                   probing, reported, idle_vars, ghosts>>

(* The maintenance task later drops the entry, which nobody can tell.      *)
CooldownExpires(p) ==
    /\ p \in cooling
    /\ cooling' = cooling \ {p}
    /\ UNCHANGED <<permit_vars, choice_state, failures, counts, removed, recording,
                   probing, reported, idle_vars>>
    /\ Watch

(* run_health_checks: the proxies not removed now are probed one by one.   *)
HealthCheck ==
    /\ probing = {}
    /\ probing' = Proxies \ removed
    /\ probing' # {}
    /\ UNCHANGED <<permit_vars, choice_state, cooling, failures, counts, removed,
                   recording, reported, idle_vars, ghosts>>

(* A probe that connects ends a cooldown; one that does not is a failure in *)
(* the window, and never starts a cooldown by itself.                      *)
ProbeOk(p) ==
    /\ p \in probing /\ \A q \in probing : p <= q
    /\ probing' = probing \ {p}
    /\ cooling' = cooling \ {p}
    /\ UNCHANGED <<permit_vars, choice_state, failures, counts, removed, recording,
                   reported, idle_vars>>
    /\ Watch

ProbeFails(p) ==
    /\ p \in probing /\ \A q \in probing : p <= q
    /\ probing' = probing \ {p}
    /\ Counted(p)
    /\ failures' = [failures EXCEPT ![p] = @ + 1]
    /\ UNCHANGED <<permit_vars, choice_state, cooling, counts, removed, recording,
                   idle_vars, ghosts>>

-----------------------------------------------------------------------------
UserStep(u) ==
    \/ AcquireProxy(u) \/ Draw(u) \/ CheckCooldown(u)
    \/ mark_bad(u) \/ acquire_fresh(u) \/ Cancel(u) \/ DropGuard(u) \/ DropSession(u)

ProxyStep(p) ==
    \/ RecordCheck(p) \/ RecordCount(p) \/ RecordClear(p) \/ RecordCool(p)
    \/ WindowSlides(p) \/ CooldownExpires(p) \/ ProbeOk(p) \/ ProbeFails(p)

ProxyPoolNext ==
    \/ \E u \in Users : UserStep(u)
    \/ \E p \in Proxies : ProxyStep(p)
    \/ PushBack \/ IdleAges \/ Evict \/ HealthCheck

ProxyPoolSpec == ProxyPoolInit /\ [][ProxyPoolNext]_proxy_vars

-----------------------------------------------------------------------------
(* Every permit is free, with a task that chooses or uses a proxy, with the *)
(* guard it kept, or with a session on its way to or in the idle queue; and *)
(* no task waits for one while one is free.  Eviction, cancellation and    *)
(* dropped guards all return permits.                                      *)
ProxyPermitsExact ==
    /\ ProxyPoolTypeOK
    /\ free_permits + Cardinality(Choosing) + Cardinality(Using)
         + Cardinality({u \in Users : old[u] # <<>>})
         + Len(idle) + Len(returning) = MaxProxies
    /\ waiters # <<>> => free_permits = 0

(* next_usable_proxy returns to u.  A choice that is dropped instead leaves *)
(* u with the old guard, if with any.                                      *)
Chosen(u) == u \in Choosing /\ at'[u] = "using" /\ old'[u] = old[u]

(* A proxy that was removed or cooling during all of next_usable_proxy is  *)
(* not what it returns, whatever expires, is recorded or is probed         *)
(* meanwhile.                                                              *)
UnusableNotChosen(u) ==
    Chosen(u) /\ proxy'[u] # Direct => \A b \in barred[u] : b[2] # proxy'[u]

(* A choice no other task drew proxies during goes round the whole list: it *)
(* ends without a proxy only if none was usable throughout.                *)
DirectWhenAlone(u) ==
    Chosen(u) /\ proxy'[u] = Direct /\ ~crossed[u] => clear[u] = {}

(* What next_usable_proxy gives a task: never a proxy that was unusable    *)
(* throughout, and none at all only when it has looked at every one.       *)
ProxyChosenWell ==
    [][\A u \in Users : UnusableNotChosen(u) /\ DirectWhenAlone(u)]_proxy_vars

(* ProxyGuard::proxy: "Returns `None` if no proxy was available from the   *)
(* provider (direct connection scenario)."                                 *)
DirectOnlyIfNone ==
    [][\A u \in Users :
         Chosen(u) /\ proxy'[u] = Direct
           => clear[u] = {}]_proxy_vars

(* A proxy is put in cooling, and at last removed, on evidence: its first  *)
(* cooldown takes failure_threshold reported failures and every other one  *)
(* at least one more, however the recording tasks interleave.              *)
CooldownHasEvidence ==
    \A p \in Proxies :
        counts[p] > 0 => counts[p] + FailureThreshold - 1 <= reported[p]

(* Permits and evidence are never lost or made up, whatever the tasks do.   *)
ProxiesAccounted == ProxyPermitsExact /\ CooldownHasEvidence
=============================================================================
