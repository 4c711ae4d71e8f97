-------------------------------- MODULE Dns --------------------------------
(***************************************************************************)
(* CachedSystemDns over the process-wide SystemDnsFlightGroup: callers of    *)
(* the same name share one lookup task, whose result reaches them over a    *)
(* watch channel.  Flights are numbered, and the addresses a lookup finds   *)
(* are the number of its flight.  A caller's future may be dropped wherever *)
(* it waits, and a runtime that shuts down drops its tasks.                  *)
(***************************************************************************)
EXTENDS Naturals, Sequences, FiniteSets

CONSTANTS
    Callers, Names,
    MaxFlights,    \* lookups ever started
    MaxEntries,    \* SystemDnsCacheConfig::max_entries, 0 for no cache
    CanStop        \* whether the runtime of a flight may be shut down

ASSUME DnsAssumption ==
    /\ IsFiniteSet(Callers) /\ Names # {} /\ MaxFlights \in Nat /\ MaxEntries \in Nat
    /\ CanStop \in BOOLEAN

Flight == 1 .. MaxFlights
NoFlight == 0

VARIABLES
    caller,     \* [state, name, flight, answer]
    flight,     \* [name, task, result] of every flight
    entries,    \* SystemDnsFlightGroup.entries: the flight of a name, or NoFlight
    cache,      \* SystemDnsCache.entries [name, addr], by the time they expire
    expired     \* how many of them have expired

dns_vars == <<caller, flight, entries, cache, expired>>

IdleCaller(n) ==
    [state |-> "idle", name |-> n, flight |-> NoFlight, answer |-> NoFlight]

NoTask(n) == [name |-> n, task |-> "none", result |-> "none"]

AnyName == CHOOSE n \in Names : TRUE

DnsInit ==
    /\ caller = [c \in Callers |-> IdleCaller(AnyName)]
    /\ flight = [f \in Flight |-> NoTask(AnyName)]
    /\ entries = [m \in Names |-> NoFlight]
    /\ cache = <<>> /\ expired = 0

Unstarted == {f \in Flight : flight[f].task = "none"}
InState(s) == {c \in Callers : caller[c].state = s}

-----------------------------------------------------------------------------
(* The cache *)

Fresh == SubSeq(cache, expired + 1, Len(cache))
Holds(s, n) == \E i \in DOMAIN s : s[i].name = n
Without(s, n) ==
    LET i == CHOOSE i \in DOMAIN s : s[i].name = n
    IN  IF Holds(s, n) THEN SubSeq(s, 1, i - 1) \o SubSeq(s, i + 1, Len(s)) ELSE s

\* insert_cached: expired entries go, and the oldest one of a full cache.
NeverEvicts(n, addr) ==
    /\ cache' = Append(Without(Fresh, n), [name |-> n, addr |-> addr])
    /\ expired' = 0
InsertCached(n, addr) ==
    IF MaxEntries = 0 THEN UNCHANGED <<cache, expired>>
    ELSE /\ cache' = Append(IF Len(Fresh) >= MaxEntries /\ ~Holds(Fresh, n)
                            THEN Tail(Fresh) ELSE Without(Fresh, n),
                            [name |-> n, addr |-> addr])
         /\ expired' = 0

CacheExpires ==
    /\ expired < Len(cache) /\ expired' = expired + 1
    /\ UNCHANGED <<caller, flight, entries, cache>>

-----------------------------------------------------------------------------
(* A caller *)

\* resolve_with of the cache up to the flight group: get_cached, which removes
\* an expired entry.  The guard leaves every caller a flight.
Resolve(c, n) ==
    /\ caller[c].state = "idle"
    /\ Cardinality(InState("missed")) < Cardinality(Unstarted)
    /\ IF Holds(Fresh, n)
       THEN /\ \E i \in DOMAIN Fresh :
                  /\ Fresh[i].name = n
                  /\ caller' = [caller EXCEPT ![c] =
                       [state |-> "done", name |-> n, flight |-> NoFlight,
                        answer |-> Fresh[i].addr]]
            /\ UNCHANGED <<cache, expired>>
       ELSE /\ caller' = [caller EXCEPT ![c] = [IdleCaller(n) EXCEPT !.state = "missed"]]
            /\ cache' = Without(cache, n)
            /\ expired' = expired - (Len(cache) - Len(cache'))
    /\ UNCHANGED <<flight, entries>>

\* resolve_with of the group: the first of a name spawns the task.
Join(c) ==
    LET n == caller[c].name
        leads == entries[n] = NoFlight
        f == IF leads THEN CHOOSE g \in Unstarted : TRUE ELSE entries[n]
    IN  /\ caller[c].state = "missed"
        /\ caller' = [caller EXCEPT ![c] = [@ EXCEPT !.state = "joined", !.flight = f]]
        /\ entries' = [entries EXCEPT ![n] = f]
        /\ flight' = IF leads
                     THEN [flight EXCEPT ![f] = [name |-> n, task |-> "spawned",
                                                 result |-> "none"]]
                     ELSE flight
        /\ UNCHANGED <<cache, expired>>

\* The loop over the watch channel, and what the cache does with the answer.
WaitsForResultOnly(c) ==
    LET f == caller[c].flight
        n == caller[c].name
    IN  /\ caller[c].state = "joined" /\ flight[f].result # "none"
        /\ caller' = [caller EXCEPT ![c] = [@ EXCEPT !.state = "done",
                        !.answer = IF flight[f].result = "ok" THEN f ELSE NoFlight]]
        /\ IF flight[f].result = "ok" THEN InsertCached(n, f)
                                      ELSE UNCHANGED <<cache, expired>>
        /\ UNCHANGED <<flight, entries>>
TakeResult(c) ==
    LET f == caller[c].flight
        n == caller[c].name
    IN  /\ caller[c].state = "joined"
        /\ flight[f].result # "none" \/ flight[f].task = "dropped"
        /\ caller' = [caller EXCEPT ![c] = [@ EXCEPT !.state = "done",
                        !.answer = IF flight[f].result = "ok" THEN f ELSE NoFlight]]
        /\ IF flight[f].result = "ok" THEN InsertCached(n, f)
                                      ELSE UNCHANGED <<cache, expired>>
        /\ UNCHANGED <<flight, entries>>

\* The caller's future ends or is dropped; the lookup goes on without it.
LeaderTakesEntry(c) ==
    /\ caller[c].state # "idle"
    /\ caller' = [caller EXCEPT ![c] = IdleCaller(@.name)]
    /\ entries' = IF caller[c].state = "joined"
                  THEN [entries EXCEPT ![caller[c].name] = NoFlight] ELSE entries
    /\ UNCHANGED <<flight, cache, expired>>
LeaveLookup(c) ==
    /\ caller[c].state # "idle"
    /\ caller' = [caller EXCEPT ![c] = IdleCaller(@.name)]
    /\ UNCHANGED <<flight, entries, cache, expired>>

-----------------------------------------------------------------------------
(* The lookup task *)

\* The first poll of the spawned block creates the guard.
TaskStarts(f) ==
    /\ flight[f].task = "spawned"
    /\ flight' = [flight EXCEPT ![f] = [@ EXCEPT !.task = "running"]]
    /\ UNCHANGED <<caller, entries, cache, expired>>

\* complete: send_replace, and then remove_entry.
TaskAnswers(f) ==
    /\ flight[f].task = "running"
    /\ \E r \in {"ok", "error"} :
         flight' = [flight EXCEPT ![f] = [@ EXCEPT !.task = "answered", !.result = r]]
    /\ UNCHANGED <<caller, entries, cache, expired>>

RemoveEntry(f) ==
    entries' = IF entries[flight[f].name] = f
               THEN [entries EXCEPT ![flight[f].name] = NoFlight] ELSE entries

TaskRemoves(f) ==
    /\ flight[f].task = "answered"
    /\ flight' = [flight EXCEPT ![f] = [@ EXCEPT !.task = "ended"]]
    /\ RemoveEntry(f)
    /\ UNCHANGED <<caller, cache, expired>>

\* The runtime drops the task.  A task that has run drops its guard, whose
\* Drop answers Interrupted and removes the entry; one that was never polled
\* has no guard and only drops the sender.
DropsGuardSilently(f) ==
    /\ CanStop /\ flight[f].task \in {"spawned", "running"}
    /\ flight' = [flight EXCEPT ![f].task = IF @ = "running" THEN "ended" ELSE "dropped",
                                ![f].result = IF flight[f].task = "running" THEN "error"
                                                                          ELSE @]
    /\ UNCHANGED <<caller, entries, cache, expired>>
TaskDropped(f) ==
    /\ CanStop /\ flight[f].task \in {"spawned", "running"}
    /\ IF flight[f].task = "running"
       THEN /\ flight' = [flight EXCEPT ![f] = [@ EXCEPT !.task = "ended", !.result = "error"]]
            /\ RemoveEntry(f)
       ELSE /\ flight' = [flight EXCEPT ![f] = [@ EXCEPT !.task = "dropped"]]
            /\ UNCHANGED entries
    /\ UNCHANGED <<caller, cache, expired>>

DnsNext ==
    \/ \E c \in Callers, n \in Names : Resolve(c, n)
    \/ \E c \in Callers : Join(c) \/ TakeResult(c) \/ LeaveLookup(c)
    \/ \E f \in Flight : TaskStarts(f) \/ TaskAnswers(f) \/ TaskRemoves(f)
                           \/ TaskDropped(f)
    \/ CacheExpires

DnsSpec == DnsInit /\ [][DnsNext]_dns_vars

-----------------------------------------------------------------------------
(* Properties *)

\* The types; the cache keeps one entry a name and no more than its capacity
\* (insert_cached).
DnsTypeOK ==
    /\ caller \in [Callers -> [state : {"idle", "missed", "joined", "done"},
                               name : Names, flight : Flight \cup {NoFlight},
                               answer : Flight \cup {NoFlight}]]
    /\ flight \in [Flight -> [name : Names, result : {"none", "ok", "error"},
                    task : {"none", "spawned", "running", "answered", "ended",
                            "dropped"}]]
    /\ entries \in [Names -> Flight \cup {NoFlight}]
    /\ Len(cache) <= MaxEntries /\ expired \in 0 .. Len(cache)
    /\ \A i, j \in DOMAIN cache : cache[i].name = cache[j].name => i = j

\* What an outsider sees of the callers, and of the flights.
AskOf(x) ==
    [state |-> IF x.state \in {"missed", "joined"} THEN "asking"
               ELSE IF x.state = "done" THEN "answered" ELSE "idle",
     name |-> x.name, answer |-> x.answer]
Asks == [c \in Callers |-> AskOf(caller[c])]
BusyFlights == {f \in Flight : flight[f].task \in {"spawned", "running"}}
BusyNames == {flight[f].name : f \in BusyFlights}
FoundFor == [n \in Names |-> {f \in Flight : flight[f].name = n /\ flight[f].result = "ok"}]

\* The group and its cache implement the resolver of SingleLookup: one lookup
\* of a name at a time whoever leaves, and every address handed out was found
\* by a lookup of the name asked for.
Lookup == INSTANCE SingleLookup WITH
    Askers <- Callers, ask <- Asks, busy <- BusyNames, found <- FoundFor

LookupSpec == Lookup!Spec

\* Whoever waits for a lookup and stays gets an answer, also when the runtime
\* that ran the lookup is gone.
CallersAnswered ==
    \A c \in Callers : caller[c].state = "joined" ~> caller[c].state # "joined"

\* A lookup that was polled at least once leaves no entry behind, whether it
\* completed or was dropped with its runtime (InFlightTaskGuard); later callers
\* of the name start a new one.  A lookup dropped before its first poll has no
\* guard and does leave its entry.
EntryHasTask ==
    /\ DnsTypeOK
    /\ \A n \in Names :
         entries[n] # NoFlight =>
            /\ flight[entries[n]].name = n
            /\ flight[entries[n]].task # "ended"
=============================================================================
