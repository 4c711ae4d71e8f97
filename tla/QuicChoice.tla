----------------------------- MODULE QuicChoice -----------------------------
(***************************************************************************)
(* How a session decides between TCP and QUIC: the Alt-Svc cache, the        *)
(* tracker of broken QUIC, discover_quic_support and decide_protocol, and    *)
(* what attempts and background probes report back.  Requests, streaming    *)
(* calls, preconnects and the probes they leave behind run concurrently,     *)
(* and report to the tracker and to the cache in several steps.  A key is a  *)
(* route and an origin behind it; tables keep the ticks left until an entry  *)
(* expires.                                                                  *)
(***************************************************************************)
EXTENDS Naturals, FiniteSets

CONSTANTS
    Tasks,            \* concurrent calls, each with the probe it may leave behind
    Routes, Origins,
    Socks,            \* routes over a SOCKS5 proxy
    HttpProxies,      \* routes over an HTTP proxy
    Wants,            \* the [call, route, intent, acquisition, upgrade] a task may come
                      \* with; call is "request", "streaming" or "preconnect"
    Enabled,          \* BrokenQuicConfig::enabled
    MaxBroken,        \* BrokenQuicConfig::max_entries
    MaxBrokenRoutes,  \* BrokenQuicConfig::max_route_entries
    InitialCooldown, MaxCooldown, Threshold, RouteCooldown,
    AltSvcAge         \* ma of the Alt-Svc headers

ASSUME QuicChoiceAssumption ==
    /\ {InitialCooldown, MaxCooldown, AltSvcAge} \subseteq Nat
    /\ {MaxBroken, MaxBrokenRoutes, Threshold, RouteCooldown} \subseteq Nat \ {0}
    /\ Socks \cup HttpProxies \subseteq Routes
    /\ Routes # {} /\ Origins # {}
    /\ \A t \in Tasks : Wants[t] # {} /\ \A p \in Wants[t] : p.route \in Routes
    /\ Enabled \in BOOLEAN

Keys == Routes \X Origins

VARIABLES
    alt_svc,       \* AltSvcCache::entries: ticks left of the h3 entry of a key
    validated,     \* AltSvcCache::validated
    broken,        \* BrokenQuicTracker::broken: [age, cooldown, count]
    broken_routes, \* BrokenQuicTracker::broken_routes: ticks left
    task,          \* [st, key, policy, status, alt, late] of every task; late is
                   \* history: the quarantines set since it looked ("origin" and
                   \* "route")
    failed,        \* history: keys QUIC failed to
    blamed         \* history: keys reported for the fault of the proxy before them

choice_vars == <<alt_svc, validated, broken, broken_routes, task, failed, blamed>>

ProtocolPolicies == UNION {Wants[t] : t \in Tasks}

\* A task that is idle, or has forgotten all but its key.
TaskAt(st, k) == [st |-> st, key |-> k, status |-> "unknown", alt |-> FALSE, late |-> {},
                  policy |-> CHOOSE p \in ProtocolPolicies : TRUE]
NoTaskYet == TaskAt("idle", CHOOSE k \in Keys : TRUE)
EmptyMap == [k \in {} |-> 0]

ChoiceInit ==
    /\ alt_svc = EmptyMap /\ validated = {}
    /\ broken = EmptyMap /\ broken_routes = EmptyMap
    /\ task = [t \in Tasks |-> NoTaskYet] /\ failed = {} /\ blamed = {}

Put(f, k, v) == [x \in DOMAIN f \cup {k} |-> IF x = k THEN v ELSE f[x]]
Drop(f, ks) == [x \in DOMAIN f \ ks |-> f[x]]

Becomes(t, st) == task' = [task EXCEPT ![t] = TaskAt(st, task[t].key)]
Ends(t) == task' = [task EXCEPT ![t] = NoTaskYet]

Less(n) == IF n > 0 THEN n - 1 ELSE 0

\* Time passes; entries expire but are removed only when they are looked at.
\* A route's entry has one reader, is_route_broken, to which an expired entry
\* is as good as none: it is removed at once here.
Tick ==
    /\ alt_svc' = [k \in DOMAIN alt_svc |-> Less(alt_svc[k])]
    /\ broken_routes' = [r \in {q \in DOMAIN broken_routes : broken_routes[q] > 1} |->
                           broken_routes[r] - 1]
    /\ broken' = [k \in DOMAIN broken |->
                     [broken[k] EXCEPT !.age = IF @ < broken[k].cooldown THEN @ + 1 ELSE @]]
    /\ UNCHANGED <<validated, task, failed, blamed>>

-----------------------------------------------------------------------------
(* The tracker *)

\* cooldown_for_failure: from the initial to the longest, linearly.
OffByOneStep(n) ==
    LET clamped == IF n < Threshold THEN n ELSE Threshold
        most == IF MaxCooldown > InitialCooldown THEN MaxCooldown ELSE InitialCooldown
    IN  IF clamped <= 1
        THEN IF InitialCooldown < MaxCooldown THEN InitialCooldown ELSE MaxCooldown
        ELSE InitialCooldown + ((clamped - 1) * (most - InitialCooldown)) \div Threshold
CooldownForFailure(n) ==
    LET clamped == IF n < Threshold THEN n ELSE Threshold
        most == IF MaxCooldown > InitialCooldown THEN MaxCooldown ELSE InitialCooldown
    IN  IF clamped <= 1
        THEN IF InitialCooldown < MaxCooldown THEN InitialCooldown ELSE MaxCooldown
        ELSE InitialCooldown
               + ((clamped - 1) * (most - InitialCooldown))
                   \div (IF Threshold > 1 THEN Threshold - 1 ELSE 1)

Cooling(k) == k \in DOMAIN broken /\ broken[k].age < broken[k].cooldown

\* mark_broken_for_route: a failure in the cooldown escalates (the model counts
\* no further than the threshold, as the code tells no more apart); the oldest
\* entry makes room.
NoVictims(k) == {}
Victims(k) ==
    IF k \in DOMAIN broken \/ Cardinality(DOMAIN broken) < MaxBroken THEN {}
    ELSE {CHOOSE v \in DOMAIN broken :
            \A w \in DOMAIN broken : broken[v].age >= broken[w].age}

KeyedByOriginOnly(k) ==
    LET any == <<CHOOSE r \in Routes : TRUE, k[2]>>
    IN  broken' = Put(Drop(broken, Victims(any)), any,
                      [age |-> 0, cooldown |-> CooldownForFailure(1), count |-> 1])
MarkBroken(k) ==
    LET n == IF Cooling(k) THEN broken[k].count + 1 ELSE 1
        capped == IF n > Threshold THEN Threshold ELSE n
    IN  broken' = Put(Drop(broken, Victims(k)), k,
                      [age |-> 0, cooldown |-> CooldownForFailure(n), count |-> capped])

\* mark_route_broken makes room in the same way; all routes cool down for the
\* same time, so the oldest entry is the one with the least time left.
RouteVictims(r) ==
    IF r \in DOMAIN broken_routes \/ Cardinality(DOMAIN broken_routes) < MaxBrokenRoutes
    THEN {}
    ELSE {CHOOSE v \in DOMAIN broken_routes :
            \A w \in DOMAIN broken_routes : broken_routes[v] <= broken_routes[w]}
MarkRouteBroken(r) ==
    broken_routes' = Put(Drop(broken_routes, RouteVictims(r)), r, RouteCooldown)

\* is_route_broken.
RouteBroken(r) ==
    Enabled /\ r \in DOMAIN broken_routes

\* h3_reachability_for_route, which does not look at config.enabled.
Reachability(k) ==
    IF Cooling(k)
    THEN IF broken[k].count >= Threshold THEN "failed_persistently"
                                         ELSE "failed_transiently"
    ELSE "none"

-----------------------------------------------------------------------------
(* The Alt-Svc cache *)

\* store_alt_svc: an h3 entry, or "clear".
StoreAltSvc(k) ==
    /\ \/ alt_svc' = Put(alt_svc, k, AltSvcAge) /\ UNCHANGED validated
       \/ /\ k \in DOMAIN alt_svc \cup validated
          /\ alt_svc' = Drop(alt_svc, {k}) /\ validated' = validated \ {k}
    /\ UNCHANGED <<broken, broken_routes, task, failed, blamed>>

\* evict_expired.
EvictExpired ==
    LET gone == {k \in DOMAIN alt_svc : alt_svc[k] = 0}
    IN  /\ gone # {}
        /\ alt_svc' = Drop(alt_svc, gone) /\ validated' = validated \ gone
        /\ UNCHANGED <<broken, broken_routes, task, failed, blamed>>

AltSvcFresh(k) == k \in DOMAIN alt_svc /\ alt_svc[k] > 0

-----------------------------------------------------------------------------
(* Deciding *)

\* learned_protocol_state_for_route: find_h3, last_validated_at and
\* h3_reachability, with the entries they remove.
Learn(t, k, p) ==
    /\ task[t].st = "idle"
    /\ LET gone == k \in DOMAIN alt_svc /\ ~AltSvcFresh(k)
           status == IF Reachability(k) # "none" THEN Reachability(k)
                     ELSE IF k \in validated /\ ~gone THEN "validated"
                     ELSE IF AltSvcFresh(k) THEN "advertised" ELSE "unknown"
       IN  /\ alt_svc' = IF gone THEN Drop(alt_svc, {k}) ELSE alt_svc
           /\ validated' = IF gone THEN validated \ {k} ELSE validated
           /\ broken' = IF Cooling(k) THEN broken ELSE Drop(broken, {k})
           /\ task' = [task EXCEPT ![t] = [st |-> "learned", key |-> k, policy |-> p,
                                           status |-> status, alt |-> AltSvcFresh(k),
                                           late |-> {}]]
    /\ UNCHANGED <<broken_routes, failed, blamed>>

\* The rest of discover_quic_support, after the HTTPS record of the origin
\* was looked up: offered is whether that record or Alt-Svc offers h3.  The
\* record is not looked up for a route over an HTTP proxy, which resolves names.
OverlooksRoute(t, offered) ==
    IF ~offered \/ task[t].policy.intent = "H3Only" THEN "none"
    ELSE IF task[t].key[1] \in HttpProxies THEN "http_proxy"
    ELSE IF task[t].status \in {"failed_transiently", "failed_persistently"}
         THEN "broken_origin" ELSE "none"
SkipReason(t, offered) ==
    LET r == task[t].key[1]
        force == task[t].policy.intent = "H3Only"
    IN  IF RouteBroken(r) /\ ~force THEN "proxy_udp_unavailable"
        ELSE IF ~offered \/ force THEN "none"
        ELSE IF r \in HttpProxies THEN "http_proxy"
        ELSE IF task[t].status \in {"failed_transiently", "failed_persistently"}
             THEN "broken_origin" ELSE "none"

Ready(status) == status \in {"advertised", "validated"}

\* decide_protocol; acquisition is "reuse", "best", "race" (both jobs),
\* "race_h3" (only when advertised) or "race_one" (one job), upgrade is "off",
\* "probe", "migrate" or "force".
DecideProtocol(policy, status, skip) ==
    LET races == policy.acquisition \in {"race", "race_h3"}
        upgrades == policy.upgrade \in {"migrate", "force"} /\ status = "validated"
    IN  CASE policy.intent = "H2Only" -> "tcp"
          [] policy.intent = "H3Only" -> "quic"
          [] policy.intent \notin {"H2Only", "H3Only"} /\ (skip # "none" \/ ~Ready(status))
               -> "tcp"
          [] OTHER ->
               IF races THEN "race"
               ELSE IF policy.intent = "AcquireH3"
               THEN IF policy.acquisition = "reuse"
                    THEN IF policy.upgrade = "force" /\ status = "validated"
                         THEN "quic" ELSE "tcp"
                    ELSE "quic"
               ELSE IF policy.acquisition \in {"best", "reuse"} /\ upgrades
                    THEN "quic" ELSE "tcp"

\* should_background_probe.
Probes(policy, status, skip) ==
    policy.upgrade # "off" /\ status = "advertised" /\ skip = "none"

\* A task decides: it attempts QUIC, or works over TCP with a probe to follow
\* ("tcp") or without one, for the reason skip if there is one.
Decide(t) ==
    /\ task[t].st = "learned"
    /\ \E by_dns \in IF task[t].key[1] \in HttpProxies THEN {FALSE} ELSE BOOLEAN :
         LET skip == SkipReason(t, by_dns \/ task[t].alt)
             d == DecideProtocol(task[t].policy, task[t].status, skip)
         IN  IF d # "tcp" \/ Probes(task[t].policy, task[t].status, skip)
             THEN task' = [task EXCEPT ![t] = [@ EXCEPT !.st = d, !.status = "unknown",
                                                        !.alt = FALSE]]
             ELSE IF skip = "none" THEN Ends(t) ELSE Becomes(t, skip)
    /\ UNCHANGED <<alt_svc, validated, broken, broken_routes, failed, blamed>>

\* The TCP request or preconnect succeeded, or TCP won the race and the policy
\* keeps a probe: spawn_background_quic_probe, which attempts on the discovery
\* made before, without another look at the tracker.
SpawnProbe(t) ==
    /\ task[t].st \in {"tcp", "race"} /\ task' = [task EXCEPT ![t].st = "probe"]
    /\ UNCHANGED <<alt_svc, validated, broken, broken_routes, failed, blamed>>

-----------------------------------------------------------------------------
(* Attempts and what they report *)

Attempting(t) == task[t].st \in {"quic", "race", "probe"}
Handshakes(t) == Attempting(t) /\ task[t].key[1] \notin HttpProxies

\* A streaming call and a preconnect report whatever error ends an attempt of
\* theirs; a request and a probe only one of the handshake class.
MarksAnyError(t) == task[t].st \in {"quic", "race"} /\ task[t].policy.call # "request"

\* The tasks that heed a quarantine, looked before it was set and act after it.
Forced(t) == task[t].policy.intent = "H3Only"
Overtakes(what, us) ==
    [u \in Tasks |-> IF u \in us THEN [task[u] EXCEPT !.late = @ \cup {what}] ELSE task[u]]
ActsOn(k) == {u \in Tasks : /\ task[u].key = k /\ ~Forced(u)
                            /\ task[u].st \in {"learned", "tcp", "quic", "race", "probe"}}
ActsOver(r) == {u \in Tasks : /\ task[u].key[1] = r /\ ~Forced(u)
                              /\ task[u].st \in {"tcp", "quic", "race", "probe"}}

\* A handshake over QUIC: mark_working, mark_route_working, and then
\* mark_h3_validated.
Connects(t) ==
    /\ Handshakes(t) /\ Becomes(t, "working")
    /\ broken' = Drop(broken, {task[t].key})
    /\ broken_routes' = Drop(broken_routes, {task[t].key[1]})
    /\ UNCHANGED <<alt_svc, validated, failed, blamed>>

Validates(t) ==
    /\ task[t].st = "working" /\ Ends(t)
    /\ validated' = validated \cup {task[t].key}
    /\ UNCHANGED <<alt_svc, broken, broken_routes, failed, blamed>>

\* A failure of the handshake (a timeout of it too, if any error is marked):
\* mark_broken, and then clear_h3_validation.
Reports(t) ==
    /\ MarkBroken(task[t].key)
    /\ task' = [Overtakes("origin", ActsOn(task[t].key)) EXCEPT
                  ![t] = TaskAt("failing", task[t].key)]
    /\ UNCHANGED <<alt_svc, validated, broken_routes>>
HandshakeFails(t) ==
    /\ Handshakes(t) /\ Reports(t)
    /\ failed' = failed \cup {task[t].key} /\ UNCHANGED blamed

Invalidates(t) ==
    /\ task[t].st = "failing" /\ Ends(t)
    /\ validated' = validated \ {task[t].key}
    /\ UNCHANGED <<alt_svc, broken, broken_routes, failed, blamed>>

\* connect_quic_via_socks5: UDP ASSOCIATE fails, which is the proxy's fault.
\* The error, a timeout or one of the proxy, is not of the handshake class.
RelayFails(t) ==
    /\ Attempting(t) /\ task[t].key[1] \in Socks
    /\ MarkRouteBroken(task[t].key[1])
    /\ task' = [Overtakes("route", ActsOver(task[t].key[1])) EXCEPT
                  ![t] = IF MarksAnyError(t) THEN TaskAt("relay_down", task[t].key)
                                             ELSE NoTaskYet]
    /\ UNCHANGED <<alt_svc, validated, broken, failed, blamed>>

\* The streaming call or preconnect marks the origin for the proxy's error: the
\* one above, or that an HTTP proxy cannot relay.  (A profile whose parameters
\* are invalid, which fails every attempt alike, is left out.)
ProxyAtFault(t) ==
    task[t].st = "relay_down" \/ (MarksAnyError(t) /\ task[t].key[1] \in HttpProxies)
BlamesOrigin(t) ==
    /\ ProxyAtFault(t) /\ Reports(t)
    /\ blamed' = blamed \cup {task[t].key} /\ UNCHANGED failed

\* The task ends without a report: TCP was used, its request failed, an error
\* that is not reported, a probe without a connection slot, a dropped future.
EndsSilently(t) ==
    /\ task[t].st \notin {"idle", "working", "failing", "relay_down"} /\ Ends(t)
    /\ UNCHANGED <<alt_svc, validated, broken, broken_routes, failed, blamed>>

ChoiceNext ==
    \/ Tick \/ EvictExpired \/ \E k \in Keys : StoreAltSvc(k)
    \/ \E t \in Tasks :
         \/ \E o \in Origins, p \in Wants[t] : Learn(t, <<p.route, o>>, p)
         \/ Decide(t) \/ SpawnProbe(t) \/ Connects(t) \/ Validates(t) \/ HandshakeFails(t)
         \/ Invalidates(t) \/ RelayFails(t) \/ BlamesOrigin(t) \/ EndsSilently(t)

ChoiceSpec == ChoiceInit /\ [][ChoiceNext]_choice_vars

-----------------------------------------------------------------------------
(* Properties *)

\* The types; the tracker keeps to its capacities however many origins and
\* proxies fail.
ChoiceTypeOK ==
    /\ DOMAIN alt_svc \cup validated \cup DOMAIN broken \cup failed \cup blamed \subseteq Keys
    /\ DOMAIN broken_routes \subseteq Socks
    /\ \A k \in DOMAIN broken : broken[k].age \in 0 .. broken[k].cooldown
    /\ Cardinality(DOMAIN broken) <= MaxBroken
    /\ Cardinality(DOMAIN broken_routes) <= MaxBrokenRoutes
    /\ \A t \in Tasks : task[t].key \in Keys /\ task[t].policy \in ProtocolPolicies

\* Failures in a row lengthen the quarantine from the initial to the longest
\* cooldown, which Threshold of them reach (cooldown_for_failure).
CooldownEscalates ==
    \A k \in DOMAIN broken :
       /\ broken[k].cooldown <= MaxCooldown
       /\ broken[k].count >= Threshold => broken[k].cooldown = MaxCooldown
       /\ broken[k].count > 1 => broken[k].cooldown > InitialCooldown

\* An origin is skipped as broken on a route only if QUIC failed to that
\* origin on that route, whatever happens on the others meanwhile, or a
\* streaming call or a preconnect blamed it for the proxy of that route.
SkipsOnlyFailed ==
    \A t \in Tasks : task[t].st = "broken_origin" => task[t].key \in failed \cup blamed

\* QUIC is avoided only where a failure was reported, and for a time that
\* grows with the failures in a row.
QuarantineJustified == ChoiceTypeOK /\ CooldownEscalates /\ SkipsOnlyFailed

\* QUIC is attempted in spite of a quarantine only by a task that was forced
\* to, or that another one overtook: the origin's was set after the task read
\* the tracker (before it awaited the HTTPS record of discover_quic_support),
\* or the route's after it decided.  A probe, which starts when the whole TCP
\* request is over and looks at nothing again, is such a task for longest.
QuarantineBinds ==
    \A t \in Tasks : Attempting(t) /\ ~Forced(t) =>
       /\ Cooling(task[t].key) => "origin" \in task[t].late
       /\ RouteBroken(task[t].key[1]) => "route" \in task[t].late
=============================================================================
