-------------------------------- MODULE Dial --------------------------------
(***************************************************************************)
(* dial_tcp_addresses: one host, several addresses, a primary attempt and, *)
(* after HAPPY_EYEBALLS_DELAY, a speculative one beside it if the budget   *)
(* of connections has room; if it has none, the primary is cut off when    *)
(* its share of the time is over.                                          *)
(*                                                                         *)
(* The loop is polled before the clock moves on, but which of the ready    *)
(* branches of its select! runs is open.  An address answers or refuses    *)
(* within Latency, or hangs beyond the deadline.                           *)
(***************************************************************************)
EXTENDS Naturals, Sequences, FiniteSets

CONSTANTS
    NumAddresses, \* addresses, in the order of interleave_address_families
    Delay,        \* HAPPY_EYEBALLS_DELAY
    MaxSerial,    \* MAX_SERIAL_ATTEMPT
    Timeouts,     \* the values of connect_timeout
    Latency       \* bound: how long a responsive address takes

ASSUME DialAssumption ==
    /\ NumAddresses \in Nat \ {0}
    /\ Delay \in Nat \ {0} /\ MaxSerial \in Nat /\ Timeouts \subseteq Nat
    /\ Delay < MaxSerial \* 250 ms and 2 s
    /\ Latency \in Nat

VARIABLES
    connect_timeout,
    fate,          \* what each address does
    clock,
    spot,          \* "top" of the loop or "select"; or how the dial ended
    next_address,  \* addresses tried
    attempt,       \* the primary and the speculative attempt in the JoinSet
    serial,        \* primary_started and primary_cutoff
    timer,         \* next_timer
    dial_errors    \* errors: the addresses pushed

setting == <<connect_timeout, fate>>
dial_vars ==
    <<setting, clock, spot, next_address, attempt, serial, timer, dial_errors>>

Kind == {"primary", "speculative"}
Address == 1..NumAddresses
NoAttempt == [address |-> 0, state |-> "none", since |-> 0]
Never == connect_timeout + 1

active(k) == attempt[k].state # "none"
more == next_address < NumAddresses

DialInit ==
    /\ connect_timeout \in Timeouts
    /\ fate \in [Address -> {"answers", "refuses", "hangs"}]
    /\ clock = 0 /\ spot = "top" /\ next_address = 0
    /\ attempt = [k \in Kind |-> NoAttempt]
    /\ serial = [started |-> Never, cutoff |-> Never]
    /\ timer = 0 /\ dial_errors = <<>>

-----------------------------------------------------------------------------
Smaller(a, b) == IF a < b THEN a ELSE b
Larger(a, b) == IF a > b THEN a ELSE b

(* The time the primary has before it is cut off; `left` addresses share   *)
(* what remains.                                                           *)
serial_window(left) ==
    LET remaining == connect_timeout - clock
    IN  Smaller(Smaller(Larger(remaining \div left, Delay), MaxSerial), remaining)

WindowFromNow(left) == [started |-> clock, cutoff |-> clock + serial_window(left)]
NoWindow == [started |-> Never, cutoff |-> Never]

spawn_dial_attempt(k) ==
    /\ attempt' = [attempt EXCEPT ![k] =
                     [address |-> next_address + 1, state |-> "dialing", since |-> clock]]
    /\ next_address' = next_address + 1

-----------------------------------------------------------------------------
(* The top of the loop                                                     *)

StartPrimary ==
    /\ spot = "top" /\ ~active("primary") /\ more
    /\ spawn_dial_attempt("primary")
    /\ serial' = WindowFromNow(NumAddresses - next_address)
    /\ UNCHANGED <<setting, clock, spot, timer, dial_errors>>

AllFailed ==
    /\ spot = "top" /\ ~active("primary") /\ ~active("speculative") /\ ~more
    /\ spot' = "failed"
    /\ UNCHANGED <<setting, clock, next_address, attempt, serial, timer, dial_errors>>

Started == active("primary") \/ (~more /\ active("speculative"))

DeadlinePasses ==
    /\ spot = "top" /\ Started /\ clock >= connect_timeout
    /\ spot' = "timeout"
    /\ attempt' = [k \in Kind |-> NoAttempt]
    /\ UNCHANGED <<setting, clock, next_address, serial, timer, dial_errors>>

fallback_at == IF serial.started = Never THEN Never ELSE serial.started + Delay

Timers == {t \in {connect_timeout, fallback_at, serial.cutoff} :
             clock < t /\ t <= connect_timeout}

Await ==
    /\ spot = "top" /\ Started /\ clock < connect_timeout
    /\ spot' = "select"
    /\ timer' = CHOOSE t \in Timers : \A u \in Timers : t <= u
    /\ UNCHANGED <<setting, clock, next_address, attempt, serial, dial_errors>>

-----------------------------------------------------------------------------
(* An attempt is joined                                                    *)

Connected(k) ==
    /\ spot = "select" /\ attempt[k].state = "ok"
    /\ spot' = "connected"
    /\ attempt' = [j \in Kind |-> NoAttempt]
    /\ UNCHANGED <<setting, clock, next_address, serial, timer, dial_errors>>

NeverRestarts(k) == FALSE

(* A speculative attempt that fails gives the primary a new window.        *)
Restarts(k) == k = "speculative" /\ active("primary") /\ more

AttemptFails(k) ==
    /\ spot = "select" /\ attempt[k].state = "error"
    /\ spot' = "top"
    /\ attempt' = [attempt EXCEPT ![k] = NoAttempt]
    /\ dial_errors' = Append(dial_errors, attempt[k].address)
    /\ serial' = CASE k = "primary" -> NoWindow
                   [] Restarts(k) -> WindowFromNow(NumAddresses - next_address + 1)
                   [] OTHER -> serial
    /\ UNCHANGED <<setting, clock, next_address, timer>>

-----------------------------------------------------------------------------
(* The timer fires                                                         *)

TimerDue == spot = "select" /\ clock >= timer
Alone == active("primary") /\ ~active("speculative") /\ more /\ clock < connect_timeout
FallbackDue == Alone /\ clock >= fallback_at
CutoffDue == Alone /\ clock >= serial.cutoff

(* try_reserve_speculative found room.                                     *)
Speculate ==
    /\ TimerDue /\ FallbackDue
    /\ spawn_dial_attempt("speculative")
    /\ serial' = [serial EXCEPT !.cutoff = Never]
    /\ spot' = "top"
    /\ UNCHANGED <<setting, clock, timer, dial_errors>>

ForgetsCutoff == UNCHANGED dial_errors

NotesCutoff == dial_errors' = Append(dial_errors, attempt["primary"].address)

(* It found none, or it is not time: abort() and join_next(), whose result *)
(* is dropped, a connection made in this moment included.                  *)
CutOff ==
    /\ TimerDue /\ CutoffDue
    /\ attempt' = [attempt EXCEPT !["primary"] = NoAttempt]
    /\ serial' = NoWindow
    /\ NotesCutoff
    /\ spot' = "top"
    /\ UNCHANGED <<setting, clock, next_address, timer>>

(* Nothing to do, or no room and time left.                                *)
GoesRound ==
    /\ TimerDue /\ ~CutoffDue
    /\ spot' = "top"
    /\ UNCHANGED <<setting, clock, next_address, attempt, serial, timer, dial_errors>>

-----------------------------------------------------------------------------
Finish(k) ==
    /\ attempt[k].state = "dialing" /\ fate[attempt[k].address] # "hangs"
    /\ attempt' = [attempt EXCEPT ![k].state =
                     IF fate[attempt[k].address] = "answers" THEN "ok" ELSE "error"]
    /\ UNCHANGED <<setting, clock, spot, next_address, serial, timer, dial_errors>>

Tick ==
    /\ spot = "select" /\ clock < timer
    /\ \A k \in Kind :
         /\ attempt[k].state \in {"none", "dialing"}
         /\ attempt[k].state = "dialing" /\ fate[attempt[k].address] # "hangs"
              => clock - attempt[k].since < Latency
    /\ clock' = clock + 1
    /\ UNCHANGED <<setting, spot, next_address, attempt, serial, timer, dial_errors>>

DialNext ==
    \/ StartPrimary \/ AllFailed \/ DeadlinePasses \/ Await
    \/ \E k \in Kind : Connected(k) \/ AttemptFails(k) \/ Finish(k)
    \/ Speculate \/ CutOff \/ GoesRound \/ Tick

DialSpec == DialInit /\ [][DialNext]_dial_vars

-----------------------------------------------------------------------------
DialOver == spot \in {"connected", "failed", "timeout"}

(* Each address is tried once, in its turn, and is either under way or     *)
(* among the errors: "failed for all addresses" is true of every address,  *)
(* and an attempt never outlives the dial.                                 *)
DialAccounted ==
    LET Failing == {dial_errors[i] : i \in DOMAIN dial_errors}
        UnderWay == {attempt[k].address : k \in {j \in Kind : active(j)}}
    IN  /\ Cardinality(Failing) = Len(dial_errors)
        /\ Failing \intersect UnderWay = {}
        /\ ~DialOver => Failing \union UnderWay = 1..next_address
        /\ DialOver => UnderWay = {}
        /\ spot = "failed" => Failing = Address

Hanging == {a \in Address : fate[a] = "hangs"}

(* A host with an address that answers is reached if at most one of the    *)
(* others hangs, the rest answer or refuse within the fallback delay, and  *)
(* connect_timeout covers a serial window and an answer for each, whatever *)
(* room the budget has for speculative attempts and whenever it has it.    *)
(* (Two that hang keep the primary and the speculative attempt busy until  *)
(* the deadline.)                                                          *)
ReachableFound ==
    spot \in {"failed", "timeout"} =>
        \/ \A a \in Address : fate[a] # "answers"
        \/ Cardinality(Hanging) > 1
        \/ Latency > Delay \/ connect_timeout < NumAddresses * (MaxSerial + Latency)

(* What dial_tcp_addresses promises: every address accounted for, and a    *)
(* reachable one found.                                                    *)
DialSound == DialAccounted /\ ReachableFound
=============================================================================
