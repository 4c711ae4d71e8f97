--------------------------- MODULE SharingProofs ---------------------------
(***************************************************************************)
(* Proofs about what requests share while it is being looked up: the       *)
(* resolver, which has one lookup of a name under way at a time and        *)
(* implements SingleLookup, and the in-flight marker of a QUIC connection. *)
(* Both hold for any number of callers and requests.                       *)
(***************************************************************************)
EXTENDS QuicInFlight, Dns, FiniteSetTheorems, SequenceTheorems, TLAPS

-----------------------------------------------------------------------------
(* The invariant of the resolver                                           *)

CallerType ==
    [state : {"idle", "missed", "joined", "done"}, name : Names,
     flight : Flight \cup {NoFlight}, answer : Flight \cup {NoFlight}]
FlightType ==
    [name : Names, result : {"none", "ok", "error"},
     task : {"none", "spawned", "running", "answered", "ended", "dropped"}]
CacheEntry == [name : Names, addr : Flight]
OneEach(s) == \A i, j \in DOMAIN s : s[i].name = s[j].name => i = j

DnsTypes ==
    /\ caller \in [Callers -> CallerType]
    /\ flight \in [Flight -> FlightType]
    /\ entries \in [Names -> Flight \cup {NoFlight}]
    /\ cache \in Seq(CacheEntry) /\ Len(cache) <= MaxEntries /\ OneEach(cache)
    /\ expired \in 0 .. Len(cache)

\* The entry of a name is its lookup under way, or one that has answered or
\* was dropped unpolled.
FlightsSound ==
    /\ \A f \in Flight : flight[f].task = "none" => flight[f].result = "none"
    /\ \A f \in Flight : flight[f].task \in {"spawned", "running"} =>
          flight[f].result = "none" /\ entries[flight[f].name] = f
    /\ \A n \in Names : entries[n] # NoFlight =>
          flight[entries[n]].name = n /\ flight[entries[n]].task \notin {"none", "ended"}

\* Who waits, waits for a lookup of the name asked for.
JoinedSound ==
    \A c \in Callers : caller[c].state = "joined" =>
        /\ caller[c].flight \in Flight
        /\ flight[caller[c].flight].name = caller[c].name
        /\ flight[caller[c].flight].task # "none"

\* What is cached was found by a lookup of that name.
CacheSound ==
    \A i \in DOMAIN cache :
        flight[cache[i].addr].name = cache[i].name /\ flight[cache[i].addr].result = "ok"

RoomLeft == Cardinality(InState("missed")) <= Cardinality(Unstarted)

DnsInv == DnsTypes /\ FlightsSound /\ JoinedSound /\ CacheSound /\ RoomLeft

-----------------------------------------------------------------------------
(* The cache                                                               *)

(* What follows the p-th element of a sequence.                            *)
LEMMA RestOf ==
    ASSUME NEW S, NEW s \in Seq(S), NEW p \in 1 .. Len(s)
    PROVE  /\ SubSeq(s, p + 1, Len(s)) \in Seq(S) /\ Len(SubSeq(s, p + 1, Len(s))) = Len(s) - p
           /\ \A i \in 1 .. Len(s) - p : SubSeq(s, p + 1, Len(s))[i] = s[p + i]
<1>1. SubSeq(s, p + 1, Len(s)) \in Seq(S) /\ Len(SubSeq(s, p + 1, Len(s))) = Len(s) - p
  OBVIOUS
<1>2. \A i \in 1 .. Len(s) - p : SubSeq(s, p + 1, Len(s))[i] = s[p + i]
  OBVIOUS
<1>3. QED
  BY <1>1, <1>2

(* Without takes out the entry of a name and leaves the others in order.   *)
LEMMA WithoutEntry ==
    ASSUME NEW s \in Seq(CacheEntry), OneEach(s), NEW n
    PROVE  /\ Without(s, n) \in Seq(CacheEntry) /\ OneEach(Without(s, n))
           /\ Len(Without(s, n)) = IF Holds(s, n) THEN Len(s) - 1 ELSE Len(s)
           /\ \A i \in DOMAIN Without(s, n) :
                \E j \in DOMAIN s : Without(s, n)[i] = s[j] /\ s[j].name # n
<1>1. CASE ~Holds(s, n)
  BY <1>1 DEF Without, Holds
<1>2. CASE Holds(s, n)
  <2> DEFINE p == CHOOSE i \in DOMAIN s : s[i].name = n
             a == SubSeq(s, 1, p - 1)
             b == SubSeq(s, p + 1, Len(s))
             w == a \o b
  <2>1. p \in 1 .. Len(s) /\ s[p].name = n /\ DOMAIN s = 1 .. Len(s) /\ Len(s) \in Nat
    BY <1>2 DEF Holds
  <2>2. Without(s, n) = w
    BY <1>2 DEF Without
  <2> HIDE DEF p
  <2>3. /\ a \in Seq(CacheEntry) /\ Len(a) = p - 1
        /\ \A i \in 1 .. p - 1 : a[i] = s[i]
    BY <2>1
  <2>4. /\ b \in Seq(CacheEntry) /\ Len(b) = Len(s) - p
        /\ \A i \in 1 .. Len(s) - p : b[i] = s[p + i]
    BY <2>1, RestOf
  <2> HIDE DEF a, b
  <2>5. /\ w \in Seq(CacheEntry) /\ Len(w) = Len(s) - 1
        /\ \A i \in 1 .. Len(s) - 1 : w[i] = IF i < p THEN s[i] ELSE s[i + 1]
    <3>1. w \in Seq(CacheEntry) /\ Len(w) = Len(a) + Len(b)
      BY <2>3, <2>4, SMTT(40)
    <3>2. Len(w) = Len(s) - 1
      BY <2>1, <2>3, <2>4, <3>1
    <3>3. ASSUME NEW i \in 1 .. Len(s) - 1 PROVE w[i] = IF i < p THEN s[i] ELSE s[i + 1]
      <4>1. CASE i < p
        BY <4>1, <2>1, <2>3, <2>4
      <4>2. CASE ~(i < p)
        <5>1. w[i] = b[i - (p - 1)]
          BY <4>2, <2>1, <2>3, <2>4
        <5>2. i - (p - 1) \in 1 .. Len(s) - p /\ p + (i - (p - 1)) = i + 1
          BY <4>2, <2>1
        <5>3. QED
          BY <4>2, <5>1, <5>2, <2>4
      <4>3. QED
        BY <4>1, <4>2
    <3>4. QED
      BY <3>1, <3>2, <3>3
  <2> HIDE DEF w
  <2>6. ASSUME NEW i \in DOMAIN w
        PROVE  \E j \in DOMAIN s : w[i] = s[j] /\ s[j].name # n
               /\ j = IF i < p THEN i ELSE i + 1
    <3>1. i \in 1 .. Len(s) - 1
      BY <2>5
    <3>2. CASE i < p
      BY <3>1, <3>2, <2>1, <2>5 DEF OneEach
    <3>3. CASE ~(i < p)
      <4>1. i + 1 \in DOMAIN s /\ i + 1 # p /\ w[i] = s[i + 1]
        BY <3>1, <3>3, <2>1, <2>5
      <4>2. s[i + 1].name # n
        BY <4>1, <2>1 DEF OneEach
      <4>3. QED
        BY <3>3, <4>1, <4>2
    <3>4. QED
      BY <3>2, <3>3
  <2>7. OneEach(w)
    <3>1. SUFFICES ASSUME NEW i \in DOMAIN w, NEW j \in DOMAIN w, w[i].name = w[j].name
                   PROVE  i = j
      BY DEF OneEach
    <3>2. PICK k \in DOMAIN s : w[i] = s[k] /\ k = IF i < p THEN i ELSE i + 1
      BY <2>6
    <3>3. PICK m \in DOMAIN s : w[j] = s[m] /\ m = IF j < p THEN j ELSE j + 1
      BY <2>6
    <3>4. k = m
      BY <3>1, <3>2, <3>3 DEF OneEach
    <3>5. i \in Nat /\ j \in Nat
      BY <2>5, <2>1
    <3>6. QED
      BY <3>2, <3>3, <3>4, <3>5, <2>1
  <2>8. QED
    BY <1>2, <2>2, <2>5, <2>6, <2>7
<1>3. QED
  BY <1>1, <1>2

(* The entries that have not expired.                                      *)
LEMMA FreshEntries ==
    ASSUME DnsTypes
    PROVE  /\ Fresh \in Seq(CacheEntry) /\ OneEach(Fresh) /\ Len(Fresh) = Len(cache) - expired
           /\ Len(Fresh) <= MaxEntries /\ Len(Fresh) \in Nat
           /\ \A i \in DOMAIN Fresh : expired + i \in DOMAIN cache /\ Fresh[i] = cache[expired + i]
<1>1. /\ cache \in Seq(CacheEntry) /\ expired \in 0 .. Len(cache) /\ Len(cache) \in Nat
      /\ OneEach(cache) /\ Len(cache) <= MaxEntries /\ MaxEntries \in Nat
  BY DnsAssumption DEF DnsTypes
<1>2. /\ Fresh \in Seq(CacheEntry) /\ Len(Fresh) = Len(cache) - expired
      /\ \A i \in 1 .. Len(cache) - expired : Fresh[i] = cache[expired + i]
  BY <1>1 DEF Fresh
<1>3. \A i \in DOMAIN Fresh : expired + i \in DOMAIN cache /\ Fresh[i] = cache[expired + i]
  BY <1>1, <1>2
<1>4. OneEach(Fresh)
  <2>1. SUFFICES ASSUME NEW i \in DOMAIN Fresh, NEW j \in DOMAIN Fresh,
                        Fresh[i].name = Fresh[j].name
                 PROVE  i = j
    BY DEF OneEach
  <2>2. expired + i = expired + j
    BY <1>1, <1>3, <2>1 DEF OneEach
  <2>3. QED
    BY <1>1, <1>2, <2>2
<1>5. QED
  BY <1>1, <1>2, <1>3, <1>4

(* insert_cached keeps the cache within its size, with one entry a name.   *)
LEMMA InsertSound ==
    ASSUME DnsInv, NEW n \in Names, NEW f \in Flight, InsertCached(n, f),
           flight[f].name = n, flight[f].result = "ok", flight' = flight
    PROVE  /\ cache' \in Seq(CacheEntry) /\ Len(cache') <= MaxEntries /\ OneEach(cache')
           /\ expired' \in 0 .. Len(cache') /\ CacheSound'
<1>1. CASE MaxEntries = 0
  BY <1>1 DEF InsertCached, DnsInv, DnsTypes, CacheSound, OneEach
<1>2. CASE MaxEntries # 0
  <2> DEFINE old == IF Len(Fresh) >= MaxEntries /\ ~Holds(Fresh, n)
                    THEN Tail(Fresh) ELSE Without(Fresh, n)
             e == [name |-> n, addr |-> f]
  <2>1. cache' = Append(old, e) /\ expired' = 0 /\ e \in CacheEntry
    BY <1>2 DEF InsertCached, CacheEntry
  <2>2. DnsTypes /\ MaxEntries \in Nat
    BY DnsAssumption DEF DnsInv
  <2>3. /\ old \in Seq(CacheEntry) /\ Len(old) <= MaxEntries - 1 /\ OneEach(old)
        /\ \A i \in DOMAIN old : \E j \in DOMAIN Fresh : old[i] = Fresh[j] /\ Fresh[j].name # n
    <3>1. CASE Len(Fresh) >= MaxEntries /\ ~Holds(Fresh, n)
      <4>1. old = Tail(Fresh) /\ Fresh # <<>> /\ Fresh \in Seq(CacheEntry)
            /\ Len(Fresh) = MaxEntries
        BY <1>2, <3>1, <2>2, FreshEntries
      <4> HIDE DEF old
      <4>2. /\ old \in Seq(CacheEntry) /\ Len(old) = Len(Fresh) - 1 /\ Len(Fresh) \in Nat
            /\ \A i \in 1 .. Len(old) : old[i] = Fresh[i + 1]
        BY <4>1, HeadTailProperties
      <4>3. \A i \in DOMAIN old : i + 1 \in DOMAIN Fresh /\ old[i] = Fresh[i + 1]
        BY <4>1, <4>2
      <4>4. OneEach(old)
        <5>1. SUFFICES ASSUME NEW i \in DOMAIN old, NEW j \in DOMAIN old, old[i].name = old[j].name
                       PROVE  i = j
          BY DEF OneEach
        <5>2. i + 1 = j + 1
          BY <4>3, <5>1, <2>2, FreshEntries DEF OneEach
        <5>3. QED
          BY <5>2, <4>2
      <4>5. QED
        BY <4>1, <4>2, <4>3, <4>4, <2>2, <3>1 DEF Holds
    <3>2. CASE ~(Len(Fresh) >= MaxEntries /\ ~Holds(Fresh, n))
      <4>1. old = Without(Fresh, n)
        BY <3>2
      <4> HIDE DEF old
      <4>2. /\ Fresh \in Seq(CacheEntry) /\ OneEach(Fresh) /\ Len(Fresh) <= MaxEntries
            /\ Len(Fresh) \in Nat
        BY <2>2, FreshEntries
      <4>3. Len(old) <= MaxEntries - 1
        BY <4>1, <4>2, <3>2, <2>2, WithoutEntry
      <4>4. QED
        BY <4>1, <4>2, <4>3, WithoutEntry
    <3>3. QED
      BY <3>1, <3>2
  <2> HIDE DEF old, e
  <2>4. /\ cache' \in Seq(CacheEntry) /\ Len(cache') = Len(old) + 1 /\ Len(old) \in Nat
        /\ cache'[Len(old) + 1] = e /\ \A i \in 1 .. Len(old) : cache'[i] = old[i]
    BY <2>1, <2>3
  <2>5. \A i \in 1 .. Len(old) : cache'[i].name # n
    BY <2>3, <2>4
  <2>6. OneEach(cache')
    <3>1. SUFFICES ASSUME NEW i \in DOMAIN cache', NEW j \in DOMAIN cache',
                          cache'[i].name = cache'[j].name
                   PROVE  i = j
      BY DEF OneEach
    <3>2. e.name = n
      BY DEF e
    <3>3. i \in 1 .. Len(old) + 1 /\ j \in 1 .. Len(old) + 1
      BY <2>4
    <3>4. CASE i \in 1 .. Len(old) /\ j \in 1 .. Len(old)
      BY <3>1, <3>4, <2>3, <2>4 DEF OneEach
    <3>5. CASE i = Len(old) + 1 \/ j = Len(old) + 1
      BY <3>1, <3>2, <3>3, <3>5, <2>4, <2>5
    <3>6. QED
      BY <3>3, <3>4, <3>5, <2>4
  <2>7. CacheSound'
    <3>1. SUFFICES ASSUME NEW i \in DOMAIN cache'
                   PROVE  /\ flight[cache'[i].addr].name = cache'[i].name
                          /\ flight[cache'[i].addr].result = "ok"
      BY DEF CacheSound
    <3>2. CASE i = Len(old) + 1
      BY <3>2, <2>4 DEF e
    <3>3. CASE i \in 1 .. Len(old)
      <4>1. PICK j \in DOMAIN Fresh : cache'[i] = Fresh[j]
        BY <3>3, <2>3, <2>4
      <4>2. PICK k \in DOMAIN cache : cache'[i] = cache[k]
        BY <4>1, <2>2, FreshEntries
      <4>3. QED
        BY <4>2 DEF DnsInv, CacheSound
    <3>4. QED
      BY <3>2, <3>3, <2>4
  <2>8. QED
    BY <2>1, <2>2, <2>3, <2>4, <2>6, <2>7
<1>3. QED
  BY <1>1, <1>2
-----------------------------------------------------------------------------
(* The callers and the lookups                                             *)

(* The callers and the lookups not started are finitely many.              *)
LEMMA DnsFinite ==
    /\ \A st : IsFiniteSet(InState(st)) /\ Cardinality(InState(st)) \in Nat
    /\ IsFiniteSet(Unstarted) /\ Cardinality(Unstarted) \in Nat
<1>1. IsFiniteSet(Flight)
  BY DnsAssumption, FS_Interval DEF Flight
<1>2. IsFiniteSet(Unstarted)
  BY <1>1, FS_Subset DEF Unstarted
<1>3. ASSUME NEW st PROVE IsFiniteSet(InState(st))
  BY DnsAssumption, FS_Subset DEF InState
<1>4. QED
  BY <1>2, <1>3, FS_CardinalityType

(* A caller that does not become missed leaves room for the others.        *)
LEMMA RoomKept ==
    ASSUME DnsInv, Unstarted' = Unstarted, InState("missed")' \subseteq InState("missed")
    PROVE  RoomLeft'
<1>1. Cardinality(InState("missed")') <= Cardinality(InState("missed"))
  BY DnsFinite, FS_Subset
<1>2. Cardinality(InState("missed")') \in Nat
  BY DnsFinite, FS_Subset, FS_CardinalityType
<1>3. QED
  BY <1>1, <1>2, DnsFinite DEF DnsInv, RoomLeft

(* The caller types.                                                       *)
LEMMA CallerTypes ==
    ASSUME DnsInv
    PROVE  /\ \A c \in Callers : caller[c] \in CallerType /\ caller[c].name \in Names
           /\ \A f \in Flight : flight[f] \in FlightType /\ flight[f].name \in Names
           /\ \A n \in Names : IdleCaller(n) \in CallerType
           /\ NoFlight \notin Flight
  BY DEF DnsInv, DnsTypes, CallerType, FlightType, IdleCaller, Flight, NoFlight

(* A step that moves one caller, as the abstract resolver sees it.         *)
LEMMA CallerMoves ==
    ASSUME DnsInv, NEW c \in Callers, NEW x \in CallerType, caller' = [caller EXCEPT ![c] = x]
    PROVE  /\ caller' \in [Callers -> CallerType] /\ Asks' = [Asks EXCEPT ![c] = AskOf(x)]
           /\ AskOf(x) = AskOf(caller[c]) => Asks' = Asks
           /\ Asks[c] = AskOf(caller[c])
  BY DEF DnsInv, DnsTypes, Asks

(* Nothing else of it changes with the callers.                            *)
LEMMA FlightsKept ==
    ASSUME flight' = flight
    PROVE  BusyNames' = BusyNames /\ FoundFor' = FoundFor /\ Unstarted' = Unstarted
  BY DEF BusyNames, BusyFlights, FoundFor, Unstarted

Simulates == Lookup!Next \/ UNCHANGED <<Asks, BusyNames, FoundFor>>

(* resolve_with up to the flight group: an answer from the cache was found *)
(* by a lookup of the name.                                                *)
LEMMA ResolveInv ==
    ASSUME DnsInv, NEW c \in Callers, NEW n \in Names, Resolve(c, n)
    PROVE  DnsInv' /\ Simulates
<1>1. caller[c].state = "idle" /\ flight' = flight /\ entries' = entries
  BY DEF Resolve
<1>2. CASE Holds(Fresh, n)
  <2>1. PICK i \in DOMAIN Fresh :
          /\ Fresh[i].name = n
          /\ caller' = [caller EXCEPT ![c] = [state |-> "done", name |-> n, flight |-> NoFlight,
                                              answer |-> Fresh[i].addr]]
    BY <1>2 DEF Resolve
  <2>2. UNCHANGED <<cache, expired>>
    BY <1>2 DEF Resolve
  <2> DEFINE v == Fresh[i].addr
             x == [state |-> "done", name |-> n, flight |-> NoFlight, answer |-> v]
  <2>3. v \in Flight /\ flight[v].name = n /\ flight[v].result = "ok"
    <3>1. PICK k \in DOMAIN cache : Fresh[i] = cache[k]
      BY FreshEntries DEF DnsInv
    <3>2. cache[k] \in CacheEntry
      BY DEF DnsInv, DnsTypes
    <3>3. QED
      BY <2>1, <3>1, <3>2 DEF DnsInv, CacheSound, CacheEntry
  <2> HIDE DEF v
  <2>4. x \in CallerType /\ x.state = "done"
        /\ AskOf(x) = [state |-> "answered", name |-> n, answer |-> v]
    BY <2>3 DEF CallerType, AskOf
  <2>5. caller' = [caller EXCEPT ![c] = x]
    BY <2>1 DEF v
  <2> HIDE DEF x
  <2>6. caller' \in [Callers -> CallerType] /\ Asks' = [Asks EXCEPT ![c] = AskOf(x)]
        /\ Asks[c] = AskOf(caller[c])
    BY <2>4, <2>5, CallerMoves
  <2>7. JoinedSound'
    BY <1>1, <2>4, <2>5 DEF DnsInv, DnsTypes, JoinedSound
  <2>8. RoomLeft'
    <3>1. InState("missed")' \subseteq InState("missed") /\ Unstarted' = Unstarted
      BY <1>1, <2>4, <2>5 DEF DnsInv, DnsTypes, InState, Unstarted
    <3>2. QED
      BY <3>1, RoomKept
  <2>9. DnsInv'
    BY <1>1, <2>2, <2>6, <2>7, <2>8 DEF DnsInv, DnsTypes, FlightsSound, CacheSound, OneEach
  <2>10. Lookup!Recall(c)
    <3>1. Asks[c].state = "idle"
      BY <1>1, <2>6 DEF AskOf
    <3>2. v \in FoundFor[n]
      BY <2>3 DEF FoundFor
    <3>3. Asks' = [Asks EXCEPT ![c] = [state |-> "answered", name |-> n, answer |-> v]]
      BY <2>4, <2>6
    <3>4. QED
      BY <1>1, <3>1, <3>2, <3>3, FlightsKept DEF Lookup!Recall
  <2>11. QED
    BY <2>9, <2>10 DEF Simulates, Lookup!Next
<1>3. CASE ~Holds(Fresh, n)
  <2>1. /\ caller' = [caller EXCEPT ![c] = [IdleCaller(n) EXCEPT !.state = "missed"]]
        /\ cache' = Without(cache, n)
        /\ expired' = expired - (Len(cache) - Len(cache'))
    BY <1>3 DEF Resolve
  <2> DEFINE x == [IdleCaller(n) EXCEPT !.state = "missed"]
  <2>2. x = [state |-> "missed", name |-> n, flight |-> NoFlight, answer |-> NoFlight]
    BY DEF IdleCaller
  <2>3. x \in CallerType /\ x.state = "missed"
        /\ AskOf(x) = [state |-> "asking", name |-> n, answer |-> NoFlight]
    BY <2>2 DEF CallerType, AskOf
  <2>4. caller' = [caller EXCEPT ![c] = x]
    BY <2>1
  <2> HIDE DEF x
  <2>5. /\ cache' \in Seq(CacheEntry) /\ OneEach(cache') /\ Len(cache') <= MaxEntries
        /\ expired' \in 0 .. Len(cache')
    <3>1. /\ cache \in Seq(CacheEntry) /\ OneEach(cache) /\ expired \in 0 .. Len(cache)
          /\ Len(cache) <= MaxEntries /\ Len(cache) \in Nat /\ MaxEntries \in Nat
      BY DnsAssumption DEF DnsInv, DnsTypes
    <3>2. /\ cache' \in Seq(CacheEntry) /\ OneEach(cache')
          /\ Len(cache') = IF Holds(cache, n) THEN Len(cache) - 1 ELSE Len(cache)
      BY <2>1, <3>1, WithoutEntry
    <3>3. Holds(cache, n) => expired >= 1
      <4>1. SUFFICES ASSUME Holds(cache, n), expired = 0 PROVE FALSE
        BY <3>1
      <4>2. Fresh = cache
        BY <3>1, <4>1 DEF Fresh
      <4>3. QED
        BY <1>3, <4>1, <4>2
    <3>4. QED
      BY <2>1, <3>1, <3>2, <3>3
  <2>6. CacheSound'
    <3>1. \A i \in DOMAIN cache' : \E j \in DOMAIN cache : cache'[i] = cache[j]
      BY <2>1, WithoutEntry DEF DnsInv, DnsTypes
    <3>2. QED
      BY <1>1, <3>1 DEF DnsInv, CacheSound
  <2>7. JoinedSound'
    BY <1>1, <2>3, <2>4 DEF DnsInv, DnsTypes, JoinedSound
  <2>8. RoomLeft'
    <3>1. Unstarted' = Unstarted /\ InState("missed")' = InState("missed") \cup {c}
      BY <1>1, <2>3, <2>4 DEF DnsInv, DnsTypes, InState, Unstarted
    <3>2. c \notin InState("missed")
      BY <1>1 DEF InState
    <3>3. Cardinality(InState("missed") \cup {c}) = Cardinality(InState("missed")) + 1
      BY <3>2, DnsFinite, FS_AddElement
    <3>4. Cardinality(InState("missed")) < Cardinality(Unstarted)
      BY DEF Resolve
    <3>5. QED
      BY <3>1, <3>3, <3>4, DnsFinite DEF RoomLeft
  <2>9. caller' \in [Callers -> CallerType] /\ Asks' = [Asks EXCEPT ![c] = AskOf(x)]
        /\ Asks[c] = AskOf(caller[c])
    BY <2>3, <2>4, CallerMoves
  <2>10. DnsInv'
    BY <1>1, <2>5, <2>6, <2>7, <2>8, <2>9 DEF DnsInv, DnsTypes, FlightsSound
  <2>11. Lookup!Ask(c)
    <3>1. Asks[c].state = "idle"
      BY <1>1, <2>9 DEF AskOf
    <3>2. Asks' = [Asks EXCEPT ![c] = [Lookup!Idle(n) EXCEPT !.state = "asking"]]
      BY <2>3, <2>9 DEF Lookup!Idle, Lookup!Nothing, NoFlight
    <3>3. QED
      BY <1>1, <3>1, <3>2, FlightsKept DEF Lookup!Ask
  <2>12. QED
    BY <2>10, <2>11 DEF Simulates, Lookup!Next
<1>4. QED
  BY <1>2, <1>3

(* resolve_with of the group: the first of a name starts its only lookup.  *)
LEMMA JoinInv ==
    ASSUME DnsInv, NEW c \in Callers, Join(c)
    PROVE  DnsInv' /\ Simulates
<1> DEFINE n == caller[c].name
           leads == entries[n] = NoFlight
           f == IF leads THEN CHOOSE g \in Unstarted : TRUE ELSE entries[n]
           x == [caller[c] EXCEPT !.state = "joined", !.flight = f]
           y == [name |-> n, task |-> "spawned", result |-> "none"]
<1>1. /\ caller[c].state = "missed" /\ caller' = [caller EXCEPT ![c] = x]
      /\ entries' = [entries EXCEPT ![n] = f] /\ UNCHANGED <<cache, expired>>
      /\ flight' = IF leads THEN [flight EXCEPT ![f] = y] ELSE flight
  BY DEF Join
<1>2. n \in Names /\ caller[c] \in CallerType
  BY CallerTypes
<1>3. c \in InState("missed") /\ Cardinality(InState("missed")) # 0
  <2>1. c \in InState("missed")
    BY <1>1 DEF InState
  <2>2. QED
    BY <2>1, DnsFinite, FS_EmptySet
<1>4. f \in Flight /\ (leads => flight[f].task = "none")
      /\ (~leads => flight[f].name = n /\ flight[f].task \notin {"none", "ended"})
  <2>1. CASE leads
    <3>1. Cardinality(Unstarted) # 0
      BY <1>3, DnsFinite DEF DnsInv, RoomLeft
    <3>2. Unstarted # {}
      BY <3>1, FS_EmptySet
    <3>3. f \in Unstarted
      BY <2>1, <3>2
    <3>4. QED
      BY <2>1, <3>3 DEF Unstarted
  <2>2. CASE ~leads
    BY <2>2, <1>2 DEF DnsInv, DnsTypes, FlightsSound
  <2>3. QED
    BY <2>1, <2>2
<1> HIDE DEF f
<1>5. x \in CallerType /\ x.state = "joined" /\ x.flight = f /\ x.name = n
      /\ x.answer = caller[c].answer
  BY <1>2, <1>4 DEF CallerType
<1> HIDE DEF x, n
<1>6. AskOf(x) = AskOf(caller[c])
  BY <1>1, <1>5 DEF AskOf, n
<1>7. caller' \in [Callers -> CallerType] /\ Asks' = Asks
  BY <1>1, <1>5, <1>6, CallerMoves
<1>8. entries' \in [Names -> Flight \cup {NoFlight}]
  BY <1>1, <1>2, <1>4 DEF DnsInv, DnsTypes
<1>9. InState("missed")' = InState("missed") \ {c}
  BY <1>1, <1>5 DEF DnsInv, DnsTypes, InState
<1>10. CASE ~leads
  <2>1. flight' = flight /\ entries' = entries
    BY <1>1, <1>2, <1>10 DEF f, DnsInv, DnsTypes
  <2>2. JoinedSound'
    BY <1>1, <1>4, <1>5, <1>10, <2>1 DEF DnsInv, DnsTypes, JoinedSound
  <2>3. RoomLeft'
    BY <2>1, <1>9, FlightsKept, RoomKept
  <2>4. DnsInv'
    <3>1. UNCHANGED <<flight, entries, cache, expired>>
      BY <1>1, <2>1
    <3>2. DnsTypes'
      BY <1>7, <3>1 DEF DnsInv, DnsTypes, OneEach
    <3>3. FlightsSound' /\ CacheSound'
      BY <3>1 DEF DnsInv, FlightsSound, CacheSound
    <3>4. QED
      BY <2>2, <2>3, <3>2, <3>3 DEF DnsInv
  <2>5. QED
    BY <1>7, <2>1, <2>4, FlightsKept DEF Simulates
<1>11. CASE leads
  <2> USE DEF y
  <2>1. flight' = [flight EXCEPT ![f] = y] /\ y \in FlightType
    BY <1>1, <1>2, <1>11 DEF FlightType
  <2>2. flight[f].result = "none" /\ flight[f].task = "none" /\ entries[n] = NoFlight
    BY <1>4, <1>11 DEF DnsInv, FlightsSound
  <2>3. /\ flight' \in [Flight -> FlightType] /\ flight'[f] = y
        /\ \A g \in Flight : g # f => flight'[g] = flight[g]
    BY <1>4, <2>1 DEF DnsInv, DnsTypes
  <2>4. f # NoFlight
    BY <1>4, CallerTypes
  <2>5. /\ entries'[n] = f
        /\ \A m \in Names : m # n => entries'[m] = entries[m]
    BY <1>1, <1>2 DEF DnsInv, DnsTypes
  <2>6. FlightsSound'
    <3>1. ASSUME NEW g \in Flight
          PROVE  /\ flight'[g].task = "none" => flight'[g].result = "none"
                 /\ flight'[g].task \in {"spawned", "running"} =>
                      flight'[g].result = "none" /\ entries'[flight'[g].name] = g
      <4>1. CASE g = f
        BY <4>1, <2>3, <2>5
      <4>2. CASE g # f
        BY <4>2, <2>2, <2>3, <2>5, CallerTypes DEF DnsInv, FlightsSound
      <4>3. QED
        BY <4>1, <4>2
    <3>2. ASSUME NEW m \in Names, entries'[m] # NoFlight
          PROVE  /\ flight'[entries'[m]].name = m
                 /\ flight'[entries'[m]].task \notin {"none", "ended"}
      <4>1. CASE m = n
        BY <4>1, <2>3, <2>5
      <4>2. CASE m # n
        BY <3>2, <4>2, <2>2, <2>3, <2>5 DEF DnsInv, DnsTypes, FlightsSound
      <4>3. QED
        BY <4>1, <4>2
    <3>3. QED
      BY <3>1, <3>2 DEF FlightsSound
  <2>7. JoinedSound'
    <3>1. SUFFICES ASSUME NEW d \in Callers, caller'[d].state = "joined"
                   PROVE  /\ caller'[d].flight \in Flight
                          /\ flight'[caller'[d].flight].name = caller'[d].name
                          /\ flight'[caller'[d].flight].task # "none"
      BY DEF JoinedSound
    <3>2. CASE d = c
      <4>1. caller'[d] = x
        BY <3>2, <1>1 DEF DnsInv, DnsTypes
      <4>2. QED
        BY <4>1, <1>4, <1>5, <2>3
    <3>3. CASE d # c
      <4>1. caller'[d] = caller[d]
        BY <3>3, <1>1 DEF DnsInv, DnsTypes
      <4>2. QED
        BY <3>1, <4>1, <2>2, <2>3 DEF DnsInv, JoinedSound
    <3>4. QED
      BY <3>2, <3>3
  <2>8. CacheSound'
    BY <1>1, <2>2, <2>3 DEF DnsInv, DnsTypes, CacheSound, CacheEntry
  <2>9. RoomLeft'
    <3>1. Unstarted' = Unstarted \ {f} /\ f \in Unstarted
      BY <1>4, <2>2, <2>3 DEF Unstarted
    <3>2. Cardinality(Unstarted') = Cardinality(Unstarted) - 1
      BY <3>1, DnsFinite, FS_RemoveElement
    <3>3. Cardinality(InState("missed")') = Cardinality(InState("missed")) - 1
      BY <1>3, <1>9, DnsFinite, FS_RemoveElement
    <3>4. QED
      BY <3>2, <3>3, DnsFinite DEF DnsInv, RoomLeft
  <2>10. DnsInv'
    BY <1>1, <1>7, <1>8, <2>3, <2>6, <2>7, <2>8, <2>9 DEF DnsInv, DnsTypes, OneEach
  <2>11. Lookup!Begin(n)
    <3>1. n \notin BusyNames
      BY <2>2, CallerTypes DEF DnsInv, FlightsSound, BusyNames, BusyFlights
    <3>2. BusyFlights' = BusyFlights \cup {f} /\ f \notin BusyFlights
      BY <1>4, <2>2, <2>3 DEF BusyFlights
    <3>3. BusyNames' = BusyNames \cup {n}
      BY <1>4, <2>3, <3>2 DEF BusyNames, BusyFlights
    <3>4. FoundFor' = FoundFor
      BY <1>4, <2>2, <2>3 DEF FoundFor
    <3>5. QED
      BY <1>7, <3>1, <3>3, <3>4 DEF Lookup!Begin
  <2>12. QED
    BY <1>2, <2>10, <2>11 DEF Simulates, Lookup!Next
<1>12. QED
  BY <1>10, <1>11

(* The result of a lookup reaches a caller that waited for it.             *)
LEMMA TakeResultInv ==
    ASSUME DnsInv, NEW c \in Callers, TakeResult(c)
    PROVE  DnsInv' /\ Simulates
<1> DEFINE f == caller[c].flight
           n == caller[c].name
           v == IF flight[f].result = "ok" THEN f ELSE NoFlight
           x == [caller[c] EXCEPT !.state = "done", !.answer = v]
<1>1. /\ caller[c].state = "joined" /\ caller' = [caller EXCEPT ![c] = x]
      /\ UNCHANGED <<flight, entries>>
      /\ flight[f].result = "ok" => InsertCached(n, f)
      /\ flight[f].result # "ok" => UNCHANGED <<cache, expired>>
  BY DEF TakeResult
<1>2. f \in Flight /\ flight[f].name = n /\ n \in Names /\ caller[c] \in CallerType
  BY <1>1, CallerTypes DEF DnsInv, JoinedSound
<1>3. v \in Flight \cup {NoFlight} /\ (v # NoFlight => v \in FoundFor[n])
  BY <1>2 DEF FoundFor
<1> HIDE DEF v
<1>4. x \in CallerType /\ x.state = "done" /\ x.answer = v /\ x.name = n
  BY <1>2, <1>3 DEF CallerType
<1> HIDE DEF x
<1>5. caller' \in [Callers -> CallerType] /\ Asks' = [Asks EXCEPT ![c] = AskOf(x)]
      /\ Asks[c] = AskOf(caller[c])
  BY <1>1, <1>4, CallerMoves
<1>6. /\ cache' \in Seq(CacheEntry) /\ Len(cache') <= MaxEntries /\ OneEach(cache')
      /\ expired' \in 0 .. Len(cache') /\ CacheSound'
  <2>1. CASE flight[f].result = "ok"
    BY <1>1, <1>2, <2>1, InsertSound
  <2>2. CASE flight[f].result # "ok"
    BY <1>1, <2>2 DEF DnsInv, DnsTypes, CacheSound, OneEach
  <2>3. QED
    BY <2>1, <2>2
<1>7. JoinedSound'
  BY <1>1, <1>4 DEF DnsInv, DnsTypes, JoinedSound
<1>8. RoomLeft'
  <2>1. InState("missed")' \subseteq InState("missed")
    BY <1>1, <1>4 DEF DnsInv, DnsTypes, InState
  <2>2. QED
    BY <1>1, <2>1, FlightsKept, RoomKept
<1>9. DnsInv'
  BY <1>1, <1>5, <1>6, <1>7, <1>8 DEF DnsInv, DnsTypes, FlightsSound
<1>10. Lookup!Answer(c)
  <2>1. Asks[c].state = "asking" /\ Asks[c].name = n
    BY <1>1, <1>5 DEF AskOf
  <2>2. AskOf(x) = [state |-> "answered", name |-> n, answer |-> v]
    BY <1>4 DEF AskOf
  <2>3. v \in FoundFor[n] \cup {0}
    BY <1>3 DEF NoFlight
  <2>4. QED
    BY <1>1, <1>5, <2>1, <2>2, <2>3, FlightsKept DEF Lookup!Answer, Lookup!Nothing
<1>11. QED
  BY <1>9, <1>10 DEF Simulates, Lookup!Next

(* A caller leaves; its lookup goes on.                                    *)
LEMMA LeaveInv ==
    ASSUME DnsInv, NEW c \in Callers, LeaveLookup(c)
    PROVE  DnsInv' /\ Simulates
<1> DEFINE x == IdleCaller(caller[c].name)
<1>1. /\ caller[c].state # "idle" /\ caller' = [caller EXCEPT ![c] = x]
      /\ UNCHANGED <<flight, entries, cache, expired>>
  BY DEF LeaveLookup
<1>2. x \in CallerType /\ caller[c] \in CallerType
  BY CallerTypes
<1>3. x.state = "idle" /\ AskOf(x) = Lookup!Idle(caller[c].name)
  BY DEF IdleCaller, AskOf, Lookup!Idle, Lookup!Nothing, NoFlight
<1> HIDE DEF x
<1>4. caller' \in [Callers -> CallerType] /\ Asks' = [Asks EXCEPT ![c] = AskOf(x)]
      /\ Asks[c] = AskOf(caller[c])
  BY <1>1, <1>2, CallerMoves
<1>5. JoinedSound'
  BY <1>1, <1>3 DEF DnsInv, DnsTypes, JoinedSound
<1>6. RoomLeft'
  <2>1. InState("missed")' \subseteq InState("missed")
    BY <1>1, <1>3 DEF DnsInv, DnsTypes, InState
  <2>2. QED
    BY <1>1, <2>1, FlightsKept, RoomKept
<1>7. DnsInv'
  BY <1>1, <1>4, <1>5, <1>6 DEF DnsInv, DnsTypes, FlightsSound, CacheSound, OneEach
<1>8. Lookup!Leave(c)
  <2>1. Asks[c].state \in {"asking", "answered"} /\ Asks[c].name = caller[c].name
    BY <1>1, <1>2, <1>4 DEF AskOf, CallerType
  <2>2. QED
    BY <1>1, <1>3, <1>4, <2>1, FlightsKept DEF Lookup!Leave
<1>9. QED
  BY <1>7, <1>8 DEF Simulates, Lookup!Next

(* A task moves on to y: what is left to show is the entry of its name.    *)
LEMMA TaskMovesInv ==
    ASSUME DnsInv, NEW f \in Flight, NEW y \in FlightType, flight' = [flight EXCEPT ![f] = y],
           UNCHANGED <<caller, cache, expired>>, y.name = flight[f].name, y.task # "none",
           flight[f].task # "none", flight[f].result = "ok" => y.result = "ok",
           entries' \in [Names -> Flight \cup {NoFlight}], FlightsSound'
    PROVE  /\ DnsInv' /\ Asks' = Asks
           /\ flight'[f] = y /\ \A g \in Flight : g # f => flight'[g] = flight[g]
<1>1. /\ flight' \in [Flight -> FlightType] /\ flight'[f] = y
      /\ \A g \in Flight : g # f => flight'[g] = flight[g]
  BY DEF DnsInv, DnsTypes
<1>2. JoinedSound'
  BY <1>1 DEF DnsInv, JoinedSound
<1>3. CacheSound'
  BY <1>1 DEF DnsInv, DnsTypes, CacheSound, CacheEntry
<1>4. RoomLeft'
  <2>1. Unstarted' = Unstarted
    BY <1>1 DEF Unstarted
  <2>2. InState("missed")' \subseteq InState("missed")
    BY DEF InState
  <2>3. QED
    BY <2>1, <2>2, RoomKept
<1>5. QED
  BY <1>1, <1>2, <1>3, <1>4 DEF DnsInv, DnsTypes, OneEach, Asks

(* A lookup under way ends with what the abstract one may find.            *)
LEMMA LookupEnds ==
    ASSUME DnsInv, NEW f \in BusyFlights, Asks' = Asks,
           \A g \in Flight : g # f => flight'[g] = flight[g],
           flight'[f].name = flight[f].name, flight'[f].task \notin {"spawned", "running"}
    PROVE  Simulates
<1> DEFINE n == flight[f].name
<1>1. f \in Flight /\ n \in Names /\ entries[n] = f /\ flight[f].result = "none"
  BY CallerTypes DEF BusyFlights, DnsInv, FlightsSound
<1>2. BusyFlights' = BusyFlights \ {f}
  BY <1>1 DEF BusyFlights
<1>3. \A g \in BusyFlights : g # f => flight[g].name # n
  BY <1>1 DEF BusyFlights, DnsInv, FlightsSound
<1>4. n \in BusyNames
  BY DEF BusyNames
<1>5. BusyNames' = BusyNames \ {n}
  BY <1>1, <1>2, <1>3 DEF BusyNames, BusyFlights
<1>6. FoundFor' = IF flight'[f].result = "ok"
                  THEN [FoundFor EXCEPT ![n] = @ \cup {f}] ELSE FoundFor
  <2>1. CASE flight'[f].result # "ok"
    BY <1>1, <2>1 DEF FoundFor
  <2>2. CASE flight'[f].result = "ok"
    BY <1>1, <2>2, ZenonT(60) DEF FoundFor
  <2>3. QED
    BY <2>1, <2>2
<1>7. f \notin FoundFor[n] /\ f # 0
  BY <1>1, CallerTypes DEF FoundFor, NoFlight
<1>8. Lookup!End(n)
  <2>1. CASE FoundFor' = FoundFor
    BY <1>4, <1>5, <2>1 DEF Lookup!End
  <2>2. CASE FoundFor' = [FoundFor EXCEPT ![n] = @ \cup {f}]
    <3>1. f \in FoundFor'[n] \ (FoundFor[n] \cup {0})
      BY <1>1, <1>7, <2>2 DEF FoundFor
    <3>2. QED
      BY <1>4, <1>5, <2>2, <3>1 DEF Lookup!End, Lookup!Nothing
  <2>3. QED
    BY <1>6, <2>1, <2>2
<1>9. QED
  BY <1>1, <1>8 DEF Simulates, Lookup!Next

(* The first poll of a task, its answer, its end and its being dropped.    *)
LEMMA TaskInv ==
    ASSUME DnsInv, NEW f \in Flight,
           TaskStarts(f) \/ TaskAnswers(f) \/ TaskRemoves(f) \/ TaskDropped(f)
    PROVE  DnsInv' /\ Simulates
<1>1. flight[f] \in FlightType /\ flight[f].name \in Names /\ f # NoFlight
  BY CallerTypes
<1> DEFINE n == flight[f].name
<1>2. CASE TaskStarts(f)
  <2> DEFINE y == [flight[f] EXCEPT !.task = "running"]
  <2>1. flight' = [flight EXCEPT ![f] = y] /\ UNCHANGED <<caller, entries, cache, expired>>
        /\ flight[f].task = "spawned"
    BY <1>2 DEF TaskStarts
  <2>2. y \in FlightType /\ y.task = "running" /\ y.name = n /\ y.result = flight[f].result
    BY <1>1 DEF FlightType
  <2> HIDE DEF y
  <2>3. FlightsSound'
    BY <2>1, <2>2 DEF DnsInv, DnsTypes, FlightsSound
  <2>4. DnsInv' /\ Asks' = Asks
        /\ flight'[f] = y /\ \A g \in Flight : g # f => flight'[g] = flight[g]
    BY <2>1, <2>2, <2>3, TaskMovesInv DEF DnsInv, DnsTypes
  <2>5. BusyFlights' = BusyFlights /\ \A g \in Flight : flight'[g].name = flight[g].name
        /\ flight'[g].result = flight[g].result
    BY <2>1, <2>2, <2>4 DEF BusyFlights
  <2>6. BusyNames' = BusyNames /\ FoundFor' = FoundFor
    BY <2>5 DEF BusyNames, BusyFlights, FoundFor
  <2>7. QED
    BY <2>4, <2>6 DEF Simulates
<1>3. CASE TaskAnswers(f)
  <2>1. PICK r \in {"ok", "error"} :
          flight' = [flight EXCEPT ![f] = [flight[f] EXCEPT !.task = "answered", !.result = r]]
    BY <1>3 DEF TaskAnswers
  <2>2. UNCHANGED <<caller, entries, cache, expired>> /\ flight[f].task = "running"
        /\ flight[f].result = "none"
    BY <1>3 DEF TaskAnswers, DnsInv, FlightsSound
  <2> DEFINE y == [flight[f] EXCEPT !.task = "answered", !.result = r]
  <2>3. y \in FlightType /\ y.task = "answered" /\ y.name = n
    BY <1>1 DEF FlightType
  <2>4. flight' = [flight EXCEPT ![f] = y]
    BY <2>1
  <2> HIDE DEF y
  <2>5. FlightsSound'
    BY <2>2, <2>3, <2>4 DEF DnsInv, DnsTypes, FlightsSound
  <2>6. DnsInv' /\ Asks' = Asks
        /\ flight'[f] = y /\ \A g \in Flight : g # f => flight'[g] = flight[g]
    BY <2>2, <2>3, <2>4, <2>5, TaskMovesInv DEF DnsInv, DnsTypes
  <2>7. f \in BusyFlights
    BY <2>2 DEF BusyFlights
  <2>8. QED
    BY <2>3, <2>6, <2>7, LookupEnds
<1>4. ASSUME flight[f].task \in {"answered", "running"}, RemoveEntry(f),
             NEW y \in FlightType, flight' = [flight EXCEPT ![f] = y], y.task = "ended",
             y.name = n, flight[f].result = "ok" => y.result = "ok",
             UNCHANGED <<caller, cache, expired>>
      PROVE  DnsInv' /\ Asks' = Asks
             /\ flight'[f] = y /\ \A g \in Flight : g # f => flight'[g] = flight[g]
  <2>1. /\ entries' \in [Names -> Flight \cup {NoFlight}] /\ entries'[n] # f
        /\ \A m \in Names : entries'[m] = entries[m] \/ (entries'[m] = NoFlight /\ m = n)
        /\ entries[n] # f => entries' = entries
    BY <1>1, <1>4 DEF RemoveEntry, DnsInv, DnsTypes
  <2>2. /\ flight'[f] = y /\ \A g \in Flight : g # f => flight'[g] = flight[g]
    BY <1>4 DEF DnsInv, DnsTypes
  <2>3. FlightsSound'
    <3>1. ASSUME NEW g \in Flight
          PROVE  /\ flight'[g].task = "none" => flight'[g].result = "none"
                 /\ flight'[g].task \in {"spawned", "running"} =>
                      flight'[g].result = "none" /\ entries'[flight'[g].name] = g
      <4>1. CASE g = f
        BY <4>1, <1>4, <2>2
      <4>2. CASE g # f
        BY <4>2, <2>1, <2>2, CallerTypes DEF DnsInv, FlightsSound
      <4>3. QED
        BY <4>1, <4>2
    <3>2. ASSUME NEW m \in Names, entries'[m] # NoFlight
          PROVE  /\ flight'[entries'[m]].name = m
                 /\ flight'[entries'[m]].task \notin {"none", "ended"}
      <4>1. entries'[m] = entries[m] /\ entries[m] \in Flight
        BY <3>2, <2>1 DEF DnsInv, DnsTypes
      <4>2. flight[entries[m]].name = m /\ flight[entries[m]].task \notin {"none", "ended"}
        BY <3>2, <4>1 DEF DnsInv, FlightsSound
      <4>3. entries[m] # f
        BY <4>1, <4>2, <2>1
      <4>4. QED
        BY <4>1, <4>2, <4>3, <2>2
    <3>3. QED
      BY <3>1, <3>2 DEF FlightsSound
  <2>4. QED
    BY <1>4, <2>1, <2>3, TaskMovesInv
<1>5. CASE TaskRemoves(f)
  <2> DEFINE y == [flight[f] EXCEPT !.task = "ended"]
  <2>1. flight' = [flight EXCEPT ![f] = y] /\ UNCHANGED <<caller, cache, expired>>
        /\ flight[f].task = "answered" /\ RemoveEntry(f)
    BY <1>5 DEF TaskRemoves
  <2>2. y \in FlightType /\ y.task = "ended" /\ y.name = n /\ y.result = flight[f].result
    BY <1>1 DEF FlightType
  <2> HIDE DEF y
  <2>3. DnsInv' /\ Asks' = Asks
        /\ flight'[f] = y /\ \A g \in Flight : g # f => flight'[g] = flight[g]
    BY <2>1, <2>2, <1>4
  <2>4. BusyFlights' = BusyFlights /\ \A g \in Flight : flight'[g].name = flight[g].name
        /\ flight'[g].result = flight[g].result
    BY <2>1, <2>2, <2>3 DEF BusyFlights
  <2>5. BusyNames' = BusyNames /\ FoundFor' = FoundFor
    BY <2>4 DEF BusyNames, BusyFlights, FoundFor
  <2>6. QED
    BY <2>3, <2>5 DEF Simulates
<1>6. CASE TaskDropped(f) /\ flight[f].task = "running"
  <2> DEFINE y == [flight[f] EXCEPT !.task = "ended", !.result = "error"]
  <2>1. flight' = [flight EXCEPT ![f] = y] /\ UNCHANGED <<caller, cache, expired>>
        /\ flight[f].task = "running" /\ RemoveEntry(f) /\ flight[f].result = "none"
    BY <1>6 DEF TaskDropped, DnsInv, FlightsSound
  <2>2. y \in FlightType /\ y.task = "ended" /\ y.name = n
    BY <1>1 DEF FlightType
  <2> HIDE DEF y
  <2>3. DnsInv' /\ Asks' = Asks
        /\ flight'[f] = y /\ \A g \in Flight : g # f => flight'[g] = flight[g]
    BY <2>1, <2>2, <1>4
  <2>4. f \in BusyFlights
    BY <2>1 DEF BusyFlights
  <2>5. QED
    BY <2>2, <2>3, <2>4, LookupEnds
<1>7. CASE TaskDropped(f) /\ flight[f].task # "running"
  <2> DEFINE y == [flight[f] EXCEPT !.task = "dropped"]
  <2>1. flight' = [flight EXCEPT ![f] = y] /\ UNCHANGED <<caller, entries, cache, expired>>
        /\ flight[f].task = "spawned"
    BY <1>7 DEF TaskDropped
  <2>2. y \in FlightType /\ y.task = "dropped" /\ y.name = n /\ y.result = flight[f].result
    BY <1>1 DEF FlightType
  <2> HIDE DEF y
  <2>3. FlightsSound'
    BY <2>1, <2>2 DEF DnsInv, DnsTypes, FlightsSound
  <2>4. DnsInv' /\ Asks' = Asks
        /\ flight'[f] = y /\ \A g \in Flight : g # f => flight'[g] = flight[g]
    BY <2>1, <2>2, <2>3, TaskMovesInv DEF DnsInv, DnsTypes
  <2>5. f \in BusyFlights
    BY <2>1 DEF BusyFlights
  <2>6. QED
    BY <2>2, <2>4, <2>5, LookupEnds
<1>8. QED
  BY <1>2, <1>3, <1>5, <1>6, <1>7

-----------------------------------------------------------------------------
(* The start of the resolver.                                              *)
LEMMA DnsStarts == DnsInit => DnsInv /\ Lookup!Init
<1> SUFFICES ASSUME DnsInit PROVE DnsInv /\ Lookup!Init
  OBVIOUS
<1>1. AnyName \in Names
  BY DnsAssumption DEF AnyName
<1>2. IdleCaller(AnyName) \in CallerType /\ NoTask(AnyName) \in FlightType
  BY <1>1 DEF IdleCaller, CallerType, NoTask, FlightType
<1>3. DnsTypes
  BY <1>2, DnsAssumption DEF DnsInit, DnsTypes, OneEach
<1>4. \A c \in Callers : caller[c].state = "idle" /\ AskOf(caller[c]) = Lookup!Idle(AnyName)
  BY DEF DnsInit, IdleCaller, AskOf, Lookup!Idle, Lookup!Nothing, NoFlight
<1>5. \A f \in Flight : flight[f].task = "none" /\ flight[f].result = "none"
  BY DEF DnsInit, NoTask
<1>6. FlightsSound /\ JoinedSound /\ CacheSound
  BY <1>4, <1>5 DEF DnsInit, FlightsSound, JoinedSound, CacheSound
<1>7. RoomLeft
  <2>1. InState("missed") = {}
    BY <1>4 DEF InState
  <2>2. QED
    BY <2>1, DnsFinite, FS_EmptySet DEF RoomLeft
<1>8. Asks \in [Callers -> {Lookup!Idle(n) : n \in Names}]
  BY <1>1, <1>4 DEF Asks
<1>9. BusyNames = {} /\ FoundFor = [n \in Names |-> {}]
  BY <1>5 DEF BusyNames, BusyFlights, FoundFor
<1>10. QED
  BY <1>3, <1>6, <1>7, <1>8, <1>9 DEF DnsInv, Lookup!Init

(* Every step keeps the invariant and is a step of the abstract resolver.  *)
LEMMA DnsStep ==
    ASSUME DnsInv, [DnsNext]_dns_vars
    PROVE  DnsInv' /\ Simulates
<1>1. CASE UNCHANGED dns_vars
  <2>1. UNCHANGED <<caller, flight, entries, cache, expired>>
    BY <1>1 DEF dns_vars
  <2>2. DnsInv'
    BY <2>1 DEF DnsInv, DnsTypes, FlightsSound, JoinedSound, CacheSound, RoomLeft, OneEach,
                InState, Unstarted
  <2>3. QED
    BY <2>1, <2>2, FlightsKept DEF Simulates, Asks
<1>2. CASE CacheExpires
  <2>1. /\ UNCHANGED <<caller, flight, entries, cache>> /\ expired' \in 0 .. Len(cache)
    BY <1>2 DEF CacheExpires, DnsInv, DnsTypes
  <2>2. DnsInv'
    BY <2>1 DEF DnsInv, DnsTypes, FlightsSound, JoinedSound, CacheSound, RoomLeft, OneEach,
                InState, Unstarted
  <2>3. QED
    BY <2>1, <2>2, FlightsKept DEF Simulates, Asks
<1>3. QED
  BY <1>1, <1>2, ResolveInv, JoinInv, TakeResultInv, LeaveInv, TaskInv DEF DnsNext

(* The invariant of the resolver holds whoever joins, leaves or is shut    *)
(* down (SystemDnsFlightGroup, CachedSystemDns).                           *)
THEOREM DnsInvariance == DnsSpec => []DnsInv
<1>1. DnsInit => DnsInv
  BY DnsStarts
<1>2. DnsInv /\ [DnsNext]_dns_vars => DnsInv'
  BY DnsStep
<1>3. QED
  BY <1>1, <1>2, PTL DEF DnsSpec

(* A lookup that was polled leaves no entry behind, and the cache keeps    *)
(* one entry a name within its capacity (InFlightTaskGuard, insert_cached).*)
THEOREM EntriesHaveTasks == DnsSpec => []EntryHasTask
<1>1. DnsInv => EntryHasTask
  <2> SUFFICES ASSUME DnsInv PROVE EntryHasTask
    OBVIOUS
  <2>1. DnsTypeOK
    BY DEF DnsInv, DnsTypes, DnsTypeOK, CallerType, FlightType, OneEach
  <2>2. QED
    BY <2>1 DEF DnsInv, FlightsSound, EntryHasTask
<1>2. QED
  BY <1>1, DnsInvariance, PTL

(* The flight group with its cache implements SingleLookup: one lookup of  *)
(* a name at a time, and every address handed out was found by a lookup of *)
(* the name asked for (SystemDnsFlightGroup::resolve_with).                *)
THEOREM ResolverRefines == DnsSpec => LookupSpec
<1>1. DnsInit => Lookup!Init
  BY DnsStarts
<1>2. DnsInv /\ [DnsNext]_dns_vars => [Lookup!Next]_<<Asks, BusyNames, FoundFor>>
  BY DnsStep DEF Simulates
<1>3. QED
  BY <1>1, <1>2, DnsInvariance, PTL DEF DnsSpec, LookupSpec, Lookup!Spec

-----------------------------------------------------------------------------
(* The in-flight marker of a QUIC connection                               *)


(* Whoever found a marker waits for somebody's Notify, and a guard that is *)
(* about to notify did take one out.                                       *)
SomeNotify ==
    \A r \in Requests :
        /\ phase[r] \in {"found", "waiting", "woken"} => wait[r] \in Requests
        /\ phase[r] = "leaving" => removed[r] \in Requests

IndInv == TypeOK /\ MarkerHasDriver /\ SomeNotify /\ NoNotifyForgotten

USE NoneAssumption

-----------------------------------------------------------------------------
(* The initial state.                                                      *)
LEMMA InitInv == Init => IndInv
BY DEF Init, IndInv, TypeOK, MarkerHasDriver, SomeNotify, NoNotifyForgotten, Guarded, Phases

(* IndInv is kept by taking or cloning the marker.                         *)
LEMMA StartInv ==
    ASSUME IndInv, NEW r \in Requests, Start(r)
    PROVE  IndInv'
<1> USE DEF IndInv, Start, Go
<1>1. TypeOK'
  BY DEF TypeOK, Guarded, Phases
<1>2. MarkerHasDriver'
  BY DEF TypeOK, MarkerHasDriver, Guarded
<1>3. SomeNotify'
  BY DEF TypeOK, SomeNotify, Guarded
<1>4. NoNotifyForgotten'
  <2>1. CASE in_flight = None
    BY <2>1 DEF TypeOK, SomeNotify, NoNotifyForgotten, Guarded
  <2>2. CASE in_flight # None
    BY <2>2 DEF TypeOK, NoNotifyForgotten
  <2>3. QED
    BY <2>1, <2>2
<1>5. QED
  BY <1>1, <1>2, <1>3, <1>4

(* IndInv is kept by the steps that move one request and leave the map.    *)
LEMMA MoveInv ==
    ASSUME IndInv, NEW r \in Requests, NEW p \in Phases,
           phase' = [phase EXCEPT ![r] = p],
           phase[r] \in Guarded => p \in Guarded,
           phase[r] # "leaving", p # "leaving",
           p = "found" => FALSE,
           p = "waiting" => phase[r] = "found",
           p = "woken" => FALSE,
           UNCHANGED <<wait, in_flight, removed, fired>>,
           pooled' \in BOOLEAN, permit' \subseteq permit \union {r},
           r \in permit' => p \in Guarded
    PROVE  IndInv'
<1> USE DEF IndInv
<1>1. TypeOK'
  BY DEF TypeOK
<1>2. MarkerHasDriver'
  BY DEF TypeOK, MarkerHasDriver
<1>3. SomeNotify'
  BY DEF TypeOK, SomeNotify
<1>4. NoNotifyForgotten'
  BY DEF TypeOK, NoNotifyForgotten
<1>5. QED
  BY <1>1, <1>2, <1>3, <1>4

(* IndInv is kept by a guard that goes: the marker it takes out is the one *)
(* it is about to fire.                                                    *)
LEMMA DropGuardInv ==
    ASSUME IndInv, NEW r \in Requests, phase[r] \in Guarded, DropGuard(r),
           UNCHANGED <<wait, fired>>, pooled' \in BOOLEAN
    PROVE  IndInv'
<1> USE DEF IndInv, DropGuard, Go
<1>1. TypeOK'
  BY DEF TypeOK, Phases
<1>2. MarkerHasDriver'
  BY DEF MarkerHasDriver
<1>3. SomeNotify'
  BY DEF TypeOK, SomeNotify
<1>4. NoNotifyForgotten'
  <2> SUFFICES ASSUME NEW q \in Requests, phase'[q] \in {"found", "waiting"}
               PROVE  \/ wait[q] = None
                      \/ \E z \in Requests : phase'[z] = "leaving" /\ removed'[z] = wait[q]
                      \/ wait[q] \in fired
    BY DEF NoNotifyForgotten
  <2>1. phase[q] \in {"found", "waiting"} /\ wait[q] \in Requests
    BY DEF TypeOK, SomeNotify
  <2>2. CASE wait[q] = in_flight
    BY <2>1, <2>2 DEF TypeOK
  <2>3. CASE wait[q] \in fired
    BY <2>3
  <2>4. ASSUME NEW z \in Requests, phase[z] = "leaving", removed[z] = wait[q]
        PROVE  phase'[z] = "leaving" /\ removed'[z] = wait[q]
    BY <2>4 DEF TypeOK, Guarded
  <2>5. QED
    BY <2>1, <2>2, <2>3, <2>4 DEF NoNotifyForgotten
<1>5. QED
  BY <1>1, <1>2, <1>3, <1>4

(* IndInv is kept by notify_waiters.                                       *)
LEMMA NotifyInv ==
    ASSUME IndInv, NEW r \in Requests, Notify(r)
    PROVE  IndInv'
<1> USE DEF IndInv, Notify
<1>1. TypeOK'
  BY DEF TypeOK, Phases, Guarded, SomeNotify
<1>2. MarkerHasDriver'
  BY DEF TypeOK, MarkerHasDriver, Guarded
<1>3. SomeNotify'
  BY DEF TypeOK, SomeNotify
<1>4. NoNotifyForgotten'
  <2> SUFFICES ASSUME NEW q \in Requests, phase'[q] \in {"found", "waiting"}
               PROVE  \/ wait[q] = in_flight
                      \/ \E z \in Requests : phase'[z] = "leaving" /\ removed[z] = wait[q]
                      \/ wait[q] \in fired'
    BY DEF NoNotifyForgotten
  <2>1. phase[q] \in {"found", "waiting"}
    BY DEF TypeOK
  <2>2. ASSUME NEW z \in Requests, phase[z] = "leaving", removed[z] = wait[q]
        PROVE  phase'[z] = "leaving" \/ wait[q] \in fired'
    BY <2>2 DEF TypeOK
  <2>3. QED
    BY <2>1, <2>2 DEF NoNotifyForgotten
<1>5. QED
  BY <1>1, <1>2, <1>3, <1>4

-----------------------------------------------------------------------------
(* IndInv holds in every reachable state.                                  *)
THEOREM Invariance == Spec => []IndInv
<1>1. Init => IndInv
  BY InitInv
<1>2. IndInv /\ [Next]_vars => IndInv'
  <2> SUFFICES ASSUME IndInv, [Next]_vars PROVE IndInv'
    OBVIOUS
  <2>1. pooled \in BOOLEAN
    BY DEF IndInv, TypeOK
  <2>2. ASSUME NEW r \in Requests, Start(r) \/ Notify(r) PROVE IndInv'
    BY <2>2, StartInv, NotifyInv
  <2>3. ASSUME NEW r \in Requests, Return(r) \/ ZeroRttAnswered(r) PROVE IndInv'
    BY <2>1, <2>3, DropGuardInv DEF Return, ZeroRttAnswered, Guarded
  <2>4. ASSUME NEW r \in Requests, Reserve(r) PROVE IndInv'
    <3>1. CASE DropGuard(r)
      BY <2>1, <2>4, <3>1, DropGuardInv DEF Reserve, Guarded
    <3>2. CASE ~DropGuard(r)
      BY <2>1, <2>4, <3>2, MoveInv DEF Reserve, Go, Guarded, Phases
    <3>3. QED
      BY <3>1, <3>2
  <2>5. ASSUME NEW r \in Requests,
               \/ Listen(r) \/ Connected(r) \/ ZeroRttReplay(r) \/ Fallback(r)
               \/ ReserveTcp(r) \/ Finish(r) \/ GiveUp(r)
        PROVE  IndInv'
    <3>1. CASE Listen(r)
      <4>1. /\ phase' = [phase EXCEPT ![r] = "waiting"] /\ phase[r] = "found"
            /\ UNCHANGED <<wait, in_flight, removed, fired, pooled, permit>>
        BY <3>1 DEF Listen, Go
      <4>2. phase[r] \notin Guarded /\ r \notin permit /\ "waiting" \in Phases
        BY <4>1 DEF Guarded, Phases, IndInv, TypeOK
      <4>3. QED
        BY <2>1, <4>1, <4>2, MoveInv
    <3>2. CASE Connected(r)
      <4>1. /\ phase' = [phase EXCEPT ![r] = "sending"] /\ pooled' \in BOOLEAN
            /\ phase[r] \in {"handshake", "replay"} /\ permit' \subseteq permit
            /\ UNCHANGED <<wait, in_flight, removed, fired>>
        BY <3>2 DEF Connected, Insert, Go
      <4>2. "sending" \in Guarded /\ "sending" \in Phases /\ phase[r] # "leaving"
        BY <4>1 DEF Guarded, Phases
      <4>3. QED
        BY <4>1, <4>2, MoveInv
    <3>3. CASE ZeroRttReplay(r) \/ Fallback(r) \/ ReserveTcp(r)
      <4>1. PICK p \in {"replay", "fallback", "tcp"} :
               /\ phase' = [phase EXCEPT ![r] = p]
               /\ phase[r] \in Guarded
               /\ UNCHANGED <<wait, in_flight, removed, fired, pooled, permit>>
        BY <3>3 DEF ZeroRttReplay, Fallback, ReserveTcp, Go, Guarded
      <4>2. p \in Guarded /\ p \in Phases
        BY DEF Guarded, Phases
      <4>3. phase[r] # "leaving"
        BY <4>1 DEF Guarded
      <4>4. QED
        BY <2>1, <4>1, <4>2, <4>3, MoveInv
    <3>4. CASE Finish(r) \/ GiveUp(r)
      <4>1. /\ phase' = [phase EXCEPT ![r] = "done"]
            /\ phase[r] \in {"piggyback", "waiting", "woken"}
            /\ UNCHANGED <<wait, in_flight, removed, fired, pooled, permit>>
        BY <3>4 DEF Finish, GiveUp, Go
      <4>2. phase[r] \notin Guarded /\ r \notin permit /\ "done" \in Phases
        BY <4>1 DEF Guarded, Phases, IndInv, TypeOK
      <4>3. QED
        BY <2>1, <4>1, <4>2, MoveInv
    <3>5. QED
      BY <2>5, <3>1, <3>2, <3>3, <3>4
  <2>6. ASSUME NEW r \in Requests, Retry(r) PROVE IndInv'
    <3>1. PICK p \in {"piggyback", "guarded"} :
             /\ phase' = [phase EXCEPT ![r] = p]
             /\ phase[r] = "woken"
             /\ UNCHANGED <<wait, in_flight, removed, fired, pooled, permit>>
      BY <2>6 DEF Retry, Go
    <3>2. phase[r] \notin Guarded /\ r \notin permit /\ p \in Phases
      BY <3>1 DEF Guarded, Phases, IndInv, TypeOK
    <3>3. QED
      BY <2>1, <3>1, <3>2, MoveInv
  <2>7. CASE Disconnect
    BY <2>7 DEF Disconnect, IndInv, TypeOK, MarkerHasDriver, SomeNotify, NoNotifyForgotten
  <2>8. CASE UNCHANGED vars
    BY <2>8 DEF vars, IndInv, TypeOK, MarkerHasDriver, SomeNotify, NoNotifyForgotten
  <2>9. QED
    BY <2>2, <2>3, <2>4, <2>5, <2>6, <2>7, <2>8 DEF Next, Step
<1>3. QED
  BY <1>1, <1>2, PTL DEF Spec

(* Every variable keeps to its type.                                       *)
THEOREM TypeCorrect == Spec => []TypeOK
BY Invariance, PTL DEF IndInv

(* No marker outlives the request that put it.                             *)
THEOREM NoDeadMarker == Spec => []MarkerHasDriver
BY Invariance, PTL DEF IndInv

(* Every Notify that was waited for is fired or still to be fired.         *)
THEOREM EveryNotifyFires == Spec => []NoNotifyForgotten
BY Invariance, PTL DEF IndInv

(* No marker outlives its request, and nobody who waits on one is lost.    *)
THEOREM MarkerIsSound == Spec => []MarkerSound
BY NoDeadMarker, EveryNotifyFires, PTL DEF MarkerSound
=============================================================================
