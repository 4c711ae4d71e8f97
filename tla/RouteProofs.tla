---- MODULE RouteProofs ----
(***************************************************************************)
(* What is proved of the way to a server for every value of the constants: *)
(* a dial answers for every address it was given (DialAccounts) and        *)
(* reaches a host that can be reached in time (DialIsSound), a chain       *)
(* of proxies hands credentials, names and verdicts to the hop they belong *)
(* to (TunnelIsSound), and the proxy pool loses no permit, cools no proxy  *)
(* down without the reports and chooses a usable one (ProxiesAccount,      *)
(* SearchEndsWell).  The inductive invariants are DialInv, ReachInv,       *)
(* TunnelInv, PermitInv, EvidenceInv and SearchInv.                        *)
(***************************************************************************)
EXTENDS Dial, ProxyTunnel, ProxyPool, FiniteSetTheorems, SequenceTheorems, TLAPS

-----------------------------------------------------------------------------
(* The dial                                                                *)

Spots == {"top", "select", "connected", "failed", "timeout"}
AttemptType ==
    [address : 0..NumAddresses, state : {"none", "dialing", "ok", "error"}, since : Nat]

DialTypes ==
    /\ spot \in Spots /\ clock \in Nat /\ next_address \in 0..NumAddresses
    /\ attempt \in [Kind -> AttemptType] /\ dial_errors \in Seq(Address)

Failed(a) == \E i \in DOMAIN dial_errors : dial_errors[i] = a
Trying(a) == \E k \in Kind : active(k) /\ attempt[k].address = a

\* Attempts and errors are about different addresses, of those tried ...
Apart ==
    /\ \A k \in Kind : active(k) => attempt[k].address \in 1..next_address
    /\ \A j, k \in Kind : active(j) /\ active(k) /\ j # k =>
          attempt[j].address # attempt[k].address
    /\ \A i \in DOMAIN dial_errors :
          /\ dial_errors[i] \in 1..next_address
          /\ \A j \in DOMAIN dial_errors : dial_errors[i] = dial_errors[j] => i = j
          /\ \A k \in Kind : active(k) => attempt[k].address # dial_errors[i]

\* ... and leave none of these out.
Complete ==
    /\ ~DialOver => \A a \in 1..next_address : Failed(a) \/ Trying(a)
    /\ DialOver => \A k \in Kind : ~active(k)
    /\ spot = "failed" => \A a \in Address : Failed(a)

DialInv == DialTypes /\ Apart /\ Complete

(* A new attempt is about an address not tried before.                     *)
LEMMA SpawnInv ==
    ASSUME DialInv, ~DialOver, NEW k \in Kind, ~active(k), more,
           spawn_dial_attempt(k), UNCHANGED <<clock, dial_errors>>, spot' = "top"
    PROVE  DialInv'
<1> DEFINE n == next_address + 1
           x == [address |-> n, state |-> "dialing", since |-> clock]
<1>1. /\ n \in Address /\ next_address' = n /\ attempt' = [attempt EXCEPT ![k] = x]
      /\ x \in AttemptType /\ x.address = n /\ x.state = "dialing"
      /\ next_address \in Nat /\ 1..n = (1..next_address) \cup {n}
  BY DialAssumption DEF DialInv, DialTypes, spawn_dial_attempt, more, AttemptType, Address
<1> HIDE DEF x
<1>2. /\ attempt' \in [Kind -> AttemptType] /\ attempt'[k] = x
      /\ \A j \in Kind : j # k => attempt'[j] = attempt[j]
  BY <1>1 DEF DialInv, DialTypes
<1>3. active(k)' /\ \A j \in Kind : j # k => (active(j)' <=> active(j))
  BY <1>1, <1>2 DEF active
<1>4. DialTypes'
  BY <1>1, <1>2, DialAssumption DEF DialInv, DialTypes, Spots, Address
<1>5. n \notin 1..next_address
  BY <1>1
<1> HIDE DEF n
<1>6. Apart'
  BY <1>1, <1>2, <1>3, <1>5 DEF DialInv, Apart
<1>7. ASSUME NEW a \in 1..n PROVE Failed(a)' \/ Trying(a)'
  <2>1. CASE a = n
    BY <1>1, <1>2, <1>3, <2>1 DEF Trying
  <2>2. CASE a \in 1..next_address
    BY <1>2, <1>3, <2>2 DEF DialInv, Complete, Failed, Trying
  <2>3. QED
    BY <1>1, <2>1, <2>2
<1>8. QED
  BY <1>1, <1>4, <1>6, <1>7 DEF DialInv, Complete, DialOver

(* An attempt that fails or is cut off is among the errors.                *)
LEMMA GiveUpInv ==
    ASSUME DialInv, ~DialOver, NEW k \in Kind, active(k),
           attempt' = [attempt EXCEPT ![k] = NoAttempt],
           dial_errors' = Append(dial_errors, attempt[k].address),
           UNCHANGED <<clock, next_address>>, spot' = "top"
    PROVE  DialInv'
<1> DEFINE a == attempt[k].address
           e == dial_errors
           m == Len(dial_errors)
<1>1. /\ a \in Address /\ a \in 1..next_address /\ e \in Seq(Address) /\ m \in Nat
      /\ NoAttempt \in AttemptType /\ NoAttempt.state = "none"
  BY DialAssumption DEF DialInv, DialTypes, Apart, Address, NoAttempt, AttemptType
<1>2. /\ dial_errors' \in Seq(Address) /\ DOMAIN dial_errors' = 1..(m + 1)
      /\ DOMAIN e = 1..m /\ dial_errors'[m + 1] = a
      /\ \A i \in 1..m : dial_errors'[i] = e[i]
  <2> HIDE DEF a
  <2>1. QED
    BY <1>1 DEF a
<1>3. /\ attempt' \in [Kind -> AttemptType] /\ attempt'[k] = NoAttempt
      /\ \A j \in Kind : j # k => attempt'[j] = attempt[j]
  BY <1>1 DEF DialInv, DialTypes
<1>4. ~active(k)' /\ \A j \in Kind : j # k => (active(j)' <=> active(j))
  BY <1>1, <1>3 DEF active
<1>5. DialTypes'
  BY <1>2, <1>3 DEF DialInv, DialTypes, Spots
<1> HIDE DEF e, m
<1>6. \A i \in DOMAIN dial_errors' : i \in 1..m \/ i = m + 1
  BY <1>1, <1>2
<1>7. \A i \in 1..m : i # m + 1 /\ e[i] # a /\ e[i] \in 1..next_address
        /\ (\A j \in 1..m : e[i] = e[j] => i = j)
        /\ \A j \in Kind : active(j) => attempt[j].address # e[i]
  BY <1>1, <1>2, ZenonT(60) DEF DialInv, Apart, e
<1>8. Apart'
  <2>1. \A j \in Kind : active(j)' =>
          j # k /\ active(j) /\ attempt'[j] = attempt[j] /\ attempt[j].address # a
    BY <1>3, <1>4 DEF DialInv, Apart
  <2>2. /\ \A j \in Kind : active(j)' => attempt'[j].address \in 1..next_address
        /\ \A i, j \in Kind : active(i)' /\ active(j)' /\ i # j =>
              attempt'[i].address # attempt'[j].address
    BY <2>1 DEF DialInv, Apart
  <2>3. ASSUME NEW i \in DOMAIN dial_errors'
        PROVE  /\ dial_errors'[i] \in 1..next_address
               /\ \A j \in DOMAIN dial_errors' : dial_errors'[i] = dial_errors'[j] => i = j
               /\ \A j \in Kind : active(j)' => attempt'[j].address # dial_errors'[i]
    <3> HIDE DEF a
    <3>1. CASE i = m + 1
      BY <1>1, <1>2, <1>6, <1>7, <2>1, <3>1
    <3>2. CASE i \in 1..m
      BY <1>1, <1>2, <1>6, <1>7, <2>1, <3>2
    <3>3. QED
      BY <1>6, <3>1, <3>2
  <2>4. QED
    BY <2>2, <2>3 DEF Apart
<1>9. ASSUME NEW b \in 1..next_address PROVE Failed(b)' \/ Trying(b)'
  <2>1. CASE Failed(b)
    <3>1. PICK i \in DOMAIN dial_errors : dial_errors[i] = b
      BY <2>1 DEF Failed
    <3>2. i \in DOMAIN dial_errors' /\ dial_errors'[i] = b
      BY <1>1, <1>2, <3>1 DEF e
    <3>3. QED
      BY <3>2 DEF Failed
  <2>2. CASE Trying(b)
    <3>1. PICK j \in Kind : active(j) /\ attempt[j].address = b
      BY <2>2 DEF Trying
    <3>2. CASE j = k
      <4>1. m + 1 \in DOMAIN dial_errors' /\ dial_errors'[m + 1] = b
        BY <1>1, <1>2, <3>1, <3>2
      <4>2. QED
        BY <4>1 DEF Failed
    <3>3. CASE j # k
      BY <1>3, <1>4, <3>1, <3>3 DEF Trying
    <3>4. QED
      BY <3>2, <3>3
  <2>3. QED
    BY <2>1, <2>2 DEF DialInv, Complete
<1>10. QED
  BY <1>5, <1>8, <1>9 DEF DialInv, Complete, DialOver

(* A dial that ends drops its attempts.                                    *)
LEMMA EndInv ==
    ASSUME DialInv, ~DialOver, UNCHANGED <<clock, next_address, dial_errors>>,
           spot' \in {"connected", "timeout"},
           attempt' = [k \in Kind |-> NoAttempt]
    PROVE  DialInv'
<1>1. /\ NoAttempt \in AttemptType /\ \A k \in Kind : ~active(k)'
  BY DialAssumption DEF NoAttempt, AttemptType, active
<1>2. QED
  BY <1>1 DEF DialInv, DialTypes, Apart, Complete, DialOver, Spots, active

(* A step that leaves attempts and errors alone.                           *)
LEMMA RoundInv ==
    ASSUME DialInv, ~DialOver, UNCHANGED <<next_address, attempt, dial_errors>>,
           clock' \in Nat, spot' \in {"top", "select"}
    PROVE  DialInv'
BY DEF DialInv, DialTypes, Apart, Complete, DialOver, Spots, active, Failed, Trying

(* An attempt that ends in the background keeps its address.               *)
LEMMA FinishInv ==
    ASSUME DialInv, NEW k \in Kind, Finish(k)
    PROVE  DialInv'
<1> DEFINE s == IF fate[attempt[k].address] = "answers" THEN "ok" ELSE "error"
<1>1. /\ UNCHANGED <<clock, spot, next_address, dial_errors>> /\ attempt[k].state = "dialing"
      /\ attempt' = [attempt EXCEPT ![k].state = s] /\ s \in {"ok", "error"}
  BY DEF Finish
<1> HIDE DEF s
<1>2. /\ attempt' \in [Kind -> AttemptType]
      /\ \A j \in Kind : attempt'[j].address = attempt[j].address
      /\ \A j \in Kind : active(j)' <=> active(j)
  BY <1>1 DEF DialInv, DialTypes, AttemptType, active
<1>3. DialTypes'
  BY <1>1, <1>2 DEF DialInv, DialTypes
<1>4. Apart'
  BY <1>1, <1>2 DEF DialInv, Apart
<1>5. Complete'
  BY <1>1, <1>2 DEF DialInv, Complete, Failed, Trying, DialOver
<1>6. QED
  BY <1>3, <1>4, <1>5 DEF DialInv

(* The dial accounts for every address it tries, in every step.            *)
THEOREM DialInvariance == DialSpec => []DialInv
<1>1. DialInit => DialInv
  <2> SUFFICES ASSUME DialInit PROVE DialInv
    OBVIOUS
  <2>1. NoAttempt \in AttemptType /\ \A k \in Kind : ~active(k)
    BY DialAssumption DEF DialInit, NoAttempt, AttemptType, active
  <2>2. QED
    BY <2>1, DialAssumption
    DEF DialInit, DialInv, DialTypes, Apart, Complete, DialOver, Spots
<1>2. DialInv /\ [DialNext]_dial_vars => DialInv'
  <2> SUFFICES ASSUME DialInv, [DialNext]_dial_vars PROVE DialInv'
    OBVIOUS
  <2> USE DEF DialOver
  <2>1. CASE StartPrimary
    BY <2>1, SpawnInv DEF StartPrimary, Kind
  <2>2. CASE AllFailed
    <3>1. \A k \in Kind : ~active(k)
      BY <2>2 DEF AllFailed, Kind
    <3>2. next_address = NumAddresses
      BY <2>2, DialAssumption DEF AllFailed, more, DialInv, DialTypes
    <3>3. \A a \in Address : Failed(a)
      BY <2>2, <3>1, <3>2 DEF AllFailed, DialInv, Complete, Trying, Address
    <3>4. QED
      BY <2>2, <3>1, <3>3
      DEF AllFailed, DialInv, DialTypes, Apart, Complete, Spots, active, Failed
  <2>3. CASE DeadlinePasses
    BY <2>3, EndInv DEF DeadlinePasses
  <2>4. CASE Await
    BY <2>4, RoundInv DEF Await, DialInv, DialTypes
  <2>5. ASSUME NEW k \in Kind, Connected(k) PROVE DialInv'
    BY <2>5, EndInv DEF Connected
  <2>6. ASSUME NEW k \in Kind, AttemptFails(k) PROVE DialInv'
    BY <2>6, GiveUpInv DEF AttemptFails, active
  <2>7. ASSUME NEW k \in Kind, Finish(k) PROVE DialInv'
    BY <2>7, FinishInv
  <2>8. CASE Speculate
    BY <2>8, SpawnInv DEF Speculate, TimerDue, FallbackDue, Alone, Kind
  <2>9. CASE CutOff
    BY <2>9, GiveUpInv DEF CutOff, NotesCutoff, TimerDue, CutoffDue, Alone, Kind
  <2>10. CASE GoesRound
    BY <2>10, RoundInv DEF GoesRound, TimerDue, DialInv, DialTypes
  <2>11. CASE Tick
    BY <2>11, RoundInv DEF Tick, DialInv, DialTypes
  <2>12. CASE UNCHANGED dial_vars
    BY <2>12 DEF dial_vars, DialInv, DialTypes, Apart, Complete, active, Failed, Trying
  <2>13. QED
    BY <2>1, <2>2, <2>3, <2>4, <2>5, <2>6, <2>7, <2>8, <2>9, <2>10, <2>11, <2>12
    DEF DialNext
<1>3. QED
  BY <1>1, <1>2, PTL DEF DialSpec

(* Each address is tried once, in its turn, and is under way or among the  *)
(* errors; "failed for all addresses" is true of every address, and no     *)
(* attempt outlives the dial.                                              *)
THEOREM DialAccounts == DialSpec => []DialAccounted
<1>1. DialInv => DialAccounted
  <2> SUFFICES ASSUME DialInv PROVE DialAccounted
    OBVIOUS
  <2> DEFINE Failing == {dial_errors[i] : i \in DOMAIN dial_errors}
             UnderWay == {attempt[k].address : k \in {j \in Kind : active(j)}}
  <2>1. /\ \A a : a \in Failing <=> Failed(a)
        /\ \A a : a \in UnderWay <=> Trying(a)
    BY DEF Failed, Trying
  <2>2. Cardinality(Failing) = Len(dial_errors)
    <3>1. /\ dial_errors \in [1..Len(dial_errors) -> Failing] /\ Len(dial_errors) \in Nat
          /\ DOMAIN dial_errors = 1..Len(dial_errors)
      BY DEF DialInv, DialTypes
    <3>2. dial_errors \in Bijection(1..Len(dial_errors), Failing)
      <4>1. \A i, j \in 1..Len(dial_errors) : dial_errors[i] = dial_errors[j] => i = j
        BY <3>1 DEF DialInv, Apart
      <4>2. \A a \in Failing : \E i \in 1..Len(dial_errors) : dial_errors[i] = a
        BY <3>1
      <4> HIDE DEF Failing
      <4>3. QED
        BY <3>1, <4>1, <4>2 DEF Bijection, Injection, Surjection, IsInjective
    <3>3. ExistsBijection(1..Len(dial_errors), Failing)
      BY <3>2 DEF ExistsBijection
    <3>4. IsFiniteSet(1..Len(dial_errors)) /\ Cardinality(1..Len(dial_errors)) = Len(dial_errors)
      BY <3>1, FS_Interval
    <3> HIDE DEF Failing
    <3>5. QED
      BY <3>3, <3>4, FS_Bijection
  <2> HIDE DEF Failing, UnderWay
  <2>3. \A a : Failed(a) \/ Trying(a) => a \in 1..next_address
    BY DEF DialInv, Apart, Failed, Trying
  <2>4. Failing \cap UnderWay = {}
    BY <2>1 DEF DialInv, Apart, Failed, Trying
  <2>5. ~DialOver => Failing \cup UnderWay = 1..next_address
    BY <2>1, <2>3 DEF DialInv, Complete
  <2>6. DialOver => UnderWay = {}
    BY <2>1 DEF DialInv, Complete, Trying
  <2>7. spot = "failed" => Failing = Address
    <3>1. 1..next_address \subseteq Address
      BY DialAssumption DEF DialInv, DialTypes, Address
    <3>2. QED
      BY <2>1, <2>3, <3>1 DEF DialInv, Complete
  <2>8. QED
    BY <2>2, <2>4, <2>5, <2>6, <2>7 DEF DialAccounted, Failing, UnderWay
<1>2. QED
  BY <1>1, DialInvariance, PTL

-----------------------------------------------------------------------------
(* A reachable host                                                        *)

Primary == "primary"
Speculative == "speculative"

\* The time an address may take: a serial window, and an answer beside it.
Step == MaxSerial + Latency
Span(n) == n * Step

\* What ReachableFound asks of the host and of connect_timeout.
Hope ==
    /\ \E a \in Address : fate[a] = "answers"
    /\ Cardinality(Hanging) <= 1 /\ Latency <= Delay
    /\ connect_timeout >= Span(NumAddresses)

ReachTypes ==
    /\ connect_timeout \in Nat /\ fate \in [Address -> {"answers", "refuses", "hangs"}]
    /\ serial \in [started : Nat, cutoff : Nat]
    /\ timer \in 0..connect_timeout /\ clock \in 0..connect_timeout

Hangs(k) == fate[attempt[k].address] = "hangs"

\* What an attempt has come to, and by when.
Honest ==
    \A k \in Kind : active(k) =>
        /\ attempt[k].since <= clock
        /\ attempt[k].state = "ok" => fate[attempt[k].address] = "answers"
        /\ attempt[k].state = "error" => fate[attempt[k].address] = "refuses"
        /\ ~Hangs(k) => clock <= attempt[k].since + Latency

NoneLost == \A i \in DOMAIN dial_errors : fate[dial_errors[i]] # "answers"

\* How much time the addresses tried so far can have taken.
Pace ==
    /\ ~active(Primary) /\ ~active(Speculative) => clock <= Span(next_address)
    /\ active(Primary) => attempt[Primary].since <= serial.started
    /\ active(Primary) /\ ~active(Speculative) =>
         serial.started + Step <= Span(next_address)
    /\ active(Primary) /\ active(Speculative) =>
         serial.started + Step + Step <= Span(next_address)
    /\ active(Speculative) => clock + Step <= Span(next_address)
    /\ active(Speculative) /\ ~Hangs(Speculative) =>
         attempt[Speculative].since + Latency + Step <= Span(next_address)
    /\ active(Primary) /\ ~active(Speculative) /\ more =>
         /\ serial.cutoff = serial.started + MaxSerial
         /\ spot = "top" => clock < serial.cutoff
         /\ spot = "select" => clock <= timer /\ timer <= serial.cutoff
    /\ spot = "select" => Started

ReachInv ==
    /\ ReachTypes
    /\ Hope => /\ Honest /\ NoneLost
               /\ ~DialOver => Pace
               /\ spot \notin {"failed", "timeout"}

(* The times of one more address.                                          *)
LEMMA SpanFacts ==
    /\ Step \in Nat /\ Step > 0
    /\ \A n \in Nat : Span(n) \in Nat /\ Span(n + 1) = Span(n) + Step
    /\ \A n \in 0..NumAddresses :
         /\ Span(n) <= Span(NumAddresses)
         /\ n < NumAddresses => Span(n) + Step <= Span(NumAddresses)
         /\ Span(NumAddresses) = Span(n) + Span(NumAddresses - n)
<1> DEFINE w == MaxSerial + Latency
<1>1. w \in Nat /\ w > 0
  BY DialAssumption
<1> HIDE DEF w
<1>2. \A n \in Nat : n * w \in Nat /\ (n + 1) * w = n * w + w
  BY <1>1
<1>3. \A n \in 0..NumAddresses :
         /\ n * w <= NumAddresses * w
         /\ n < NumAddresses => n * w + w <= NumAddresses * w
         /\ NumAddresses * w = n * w + (NumAddresses - n) * w
  <2> TAKE n \in 0..NumAddresses
  <2> DEFINE d == NumAddresses - n
  <2>1. d \in Nat /\ n \in Nat /\ NumAddresses = n + d /\ (n < NumAddresses => d > 0)
    BY DialAssumption
  <2> HIDE DEF d
  <2>2. (n + d) * w = n * w + d * w /\ n * w \in Nat /\ d * w \in Nat
        /\ (d > 0 => d * w >= w)
    BY <1>1, <2>1
  <2>3. QED
    BY <1>1, <2>1, <2>2 DEF d
<1>4. QED
  BY <1>1, <1>2, <1>3 DEF Span, Step, w

(* The share of several addresses of what remains.                         *)
LEMMA Share ==
    ASSUME NEW r \in Nat, NEW left \in Nat, left >= 1, NEW w \in Nat, left * w <= r
    PROVE  r \div left >= w /\ r >= w /\ r \div left \in Nat
<1> DEFINE q == r \div left
<1>1. q \in Nat /\ left * q <= r /\ r < left * q + left
  BY Z3
<1> HIDE DEF q
<1>2. r >= w
  BY Z3
<1>3. CASE q < w
  <2> DEFINE d == w - 1 - q
  <2>1. d \in Nat /\ w = q + 1 + d
    BY <1>1, <1>3
  <2> HIDE DEF d
  <2>2. left * (q + 1 + d) = left * q + left + left * d /\ left * d \in Nat /\ left * q \in Nat
    BY <1>1, <2>1
  <2>3. QED
    BY <1>1, <2>1, <2>2
<1>4. QED
  BY <1>1, <1>2, <1>3 DEF q

(* While the addresses keep their pace, the window of a primary is the     *)
(* whole of MAX_SERIAL_ATTEMPT.                                            *)
LEMMA FullWindow ==
    ASSUME DialInv, ReachTypes, Hope, NEW n \in 0..NumAddresses, n < NumAddresses,
           clock <= Span(n)
    PROVE  serial_window(NumAddresses - n) = MaxSerial
<1> DEFINE left == NumAddresses - n
           remaining == connect_timeout - clock
<1>1. left \in Nat /\ left >= 1 /\ n \in Nat /\ clock \in Nat /\ connect_timeout \in Nat
      /\ MaxSerial \in Nat /\ Delay \in Nat /\ Delay < MaxSerial /\ Latency \in Nat
  BY DialAssumption DEF DialInv, DialTypes, ReachTypes
<1>2. Span(left) <= remaining /\ remaining \in Nat
  <2>1. Span(left) \in Nat /\ Span(n) \in Nat /\ Span(NumAddresses) = Span(n) + Span(left)
    BY <1>1, SpanFacts
  <2>2. connect_timeout >= Span(NumAddresses)
    BY DEF Hope
  <2> HIDE DEF left
  <2>3. QED
    BY <1>1, <2>1, <2>2
<1> HIDE DEF left, remaining
<1>3. left * Step <= remaining /\ Step \in Nat
  BY <1>2, SpanFacts DEF Span
<1>4. remaining \div left >= Step /\ remaining >= Step /\ remaining \div left \in Nat
  BY <1>1, <1>2, <1>3, Share
<1> DEFINE q == remaining \div left
<1>5. q >= Step /\ q \in Nat /\ remaining >= Step
  BY <1>4
<1> HIDE DEF q
<1>6. q >= MaxSerial /\ remaining >= MaxSerial
  BY <1>1, <1>2, <1>5, SpanFacts DEF Step
<1>7. Smaller(Smaller(Larger(q, Delay), MaxSerial), remaining) = MaxSerial
  BY <1>1, <1>2, <1>5, <1>6 DEF Smaller, Larger
<1>8. QED
  BY <1>7 DEF serial_window, q, left, remaining

(* The numbers the arithmetic below is about.                              *)
LEMMA ReachNumbers ==
    ASSUME DialInv, ReachTypes
    PROVE  /\ {clock, serial.started, serial.cutoff, timer, connect_timeout, next_address,
               NumAddresses, Delay, MaxSerial, Latency, Step,
               Span(next_address), Span(NumAddresses)} \subseteq Nat
           /\ Step = MaxSerial + Latency /\ Delay < MaxSerial
           /\ Span(next_address) <= Span(NumAddresses)
           /\ more => Span(next_address) + Step <= Span(NumAddresses)
           /\ ~more => next_address = NumAddresses
           /\ Span(next_address + 1) = Span(next_address) + Step
           /\ \A k \in Kind : attempt[k].since \in Nat /\ attempt[k].address \in 0..NumAddresses
           /\ \A k \in Kind : active(k) => attempt[k].address \in Address
           /\ \A k \in Kind : active(k) => attempt[k].state \in {"dialing", "ok", "error"}
<1>1. next_address \in 0..NumAddresses /\ next_address \in Nat /\ NumAddresses \in Nat
  BY DialAssumption DEF DialInv, DialTypes
<1>2. \A k \in Kind : attempt[k] \in AttemptType
  BY DEF DialInv, DialTypes
<1>3. \A k \in Kind :
        /\ attempt[k].since \in Nat /\ attempt[k].address \in 0..NumAddresses
        /\ active(k) => attempt[k].state \in {"dialing", "ok", "error"}
  BY <1>2 DEF AttemptType, active
<1>4. \A k \in Kind : active(k) => attempt[k].address \in Address
  BY <1>1, <1>3 DEF DialInv, Apart, Address
<1>5. serial.started \in Nat /\ serial.cutoff \in Nat
  BY DEF ReachTypes
<1>6. /\ Step \in Nat /\ Span(next_address) \in Nat /\ Span(NumAddresses) \in Nat
      /\ Span(next_address) <= Span(NumAddresses)
      /\ more => Span(next_address) + Step <= Span(NumAddresses)
      /\ Span(next_address + 1) = Span(next_address) + Step
  BY <1>1, SpanFacts DEF more
<1>7. ~more => next_address = NumAddresses
  BY <1>1 DEF more
<1>8. QED
  BY <1>1, <1>3, <1>4, <1>5, <1>6, <1>7, DialAssumption
  DEF DialInv, DialTypes, ReachTypes, Step

(* At most one address hangs.                                              *)
LEMMA OneHangs ==
    ASSUME Hope, NEW a \in Address, NEW b \in Address, fate[a] = "hangs", fate[b] = "hangs"
    PROVE  a = b
<1>1. IsFiniteSet(Hanging)
  <2>1. IsFiniteSet(1..NumAddresses)
    BY DialAssumption, FS_Interval
  <2>2. QED
    BY <2>1, FS_Subset DEF Hanging, Address
<1>2. a \in Hanging /\ b \in Hanging
  BY DEF Hanging
<1>3. ASSUME a # b PROVE FALSE
  <2>1. {a, b} \subseteq Hanging /\ IsFiniteSet({a, b}) /\ Cardinality({a, b}) = 2
    <3>1. IsFiniteSet({a}) /\ Cardinality({a}) = 1
      BY FS_Singleton
    <3>2. /\ IsFiniteSet({a} \cup {b}) /\ b \notin {a}
          /\ Cardinality({a} \cup {b}) = Cardinality({a}) + 1
      BY <1>3, <3>1, FS_AddElement
    <3>3. {a} \cup {b} = {a, b}
      OBVIOUS
    <3>4. QED
      BY <1>2, <3>1, <3>2, <3>3
  <2>2. Cardinality({a, b}) <= Cardinality(Hanging) /\ Cardinality(Hanging) \in Nat
    BY <1>1, <2>1, FS_Subset, FS_CardinalityType
  <2>3. QED
    BY <2>1, <2>2 DEF Hope
<1>4. QED
  BY <1>3

(* An address that answers is not tried yet, or is under way.              *)
LEMMA AnswerAhead ==
    ASSUME DialInv, NoneLost, Hope, ~DialOver
    PROVE  more \/ \E k \in Kind : active(k) /\ ~Hangs(k)
<1>1. PICK a \in Address : fate[a] = "answers"
  BY DEF Hope
<1>2. ~Failed(a)
  BY <1>1 DEF NoneLost, Failed
<1>3. CASE a \in 1..next_address
  <2>1. Trying(a)
    BY <1>2, <1>3 DEF DialInv, Complete
  <2>2. QED
    BY <1>1, <2>1 DEF Trying, Hangs
<1>4. CASE a \notin 1..next_address
  BY <1>4, DialAssumption DEF DialInv, DialTypes, Address, more
<1>5. QED
  BY <1>3, <1>4

(* What the deadline needs: a dial with an attempt under way is within it. *)
LEMMA InTime ==
    ASSUME DialInv, ReachTypes, Hope, Honest, NoneLost, Pace, Started,
           spot \in {"top", "select"}
    PROVE  clock < connect_timeout
<1>1. connect_timeout >= Span(NumAddresses) /\ Latency <= Delay
  BY DEF Hope
<1>2. CASE active(Speculative)
  <2>1. clock + Step <= Span(next_address)
    BY <1>2 DEF Pace
  <2>2. QED
    BY <1>1, <2>1, ReachNumbers
<1>3. CASE active(Primary) /\ ~active(Speculative) /\ more
  <2>1. /\ serial.started + Step <= Span(next_address)
        /\ serial.cutoff = serial.started + MaxSerial /\ clock <= serial.cutoff
    BY <1>3, ReachNumbers DEF Pace
  <2>2. QED
    BY <1>1, <1>3, <2>1, ReachNumbers
<1>4. CASE active(Primary) /\ ~active(Speculative) /\ ~more
  <2>1. ~Hangs(Primary)
    BY <1>4, AnswerAhead DEF DialOver, Kind, Primary, Speculative
  <2>2. /\ serial.started + Step <= Span(next_address)
        /\ attempt[Primary].since <= serial.started
        /\ clock <= attempt[Primary].since + Latency
        /\ Primary \in Kind
    BY <1>4, <2>1 DEF Pace, Honest, Kind, Primary
  <2>3. QED
    BY <1>1, <1>4, <2>2, ReachNumbers
<1>5. QED
  BY <1>2, <1>3, <1>4 DEF Started, Primary, Speculative

(* The two kinds of attempt.                                               *)
LEMMA Kinds == Kind = {Primary, Speculative} /\ Primary # Speculative
BY DEF Kind, Primary, Speculative

(* The timer is the first of the three that lie ahead.                     *)
LEMMA FirstTimer ==
    ASSUME DialInv, ReachTypes, clock < connect_timeout
    PROVE  LET t == CHOOSE t \in Timers : \A u \in Timers : t <= u
           IN  t \in Timers /\ \A u \in Timers : t <= u
<1> DEFINE a == connect_timeout
           b == fallback_at
           c == serial.cutoff
<1>1. a \in Nat /\ b \in Nat /\ c \in Nat /\ clock \in Nat
  <2>1. serial.started \in Nat /\ serial.cutoff \in Nat /\ Delay \in Nat
    BY DialAssumption DEF ReachTypes
  <2>2. QED
    BY <2>1 DEF fallback_at, Never, ReachTypes
<1>2. Timers = {t \in {a, b, c} : clock < t /\ t <= a} /\ a \in Timers
  BY <1>1 DEF Timers
<1> HIDE DEF a, b, c
<1>3. \E t \in Timers : \A u \in Timers : t <= u
  <2>1. \A t : t \in Timers <=> t \in {a, b, c} /\ clock < t /\ t <= a
    BY <1>2
  <2>2. CASE b \in Timers /\ (c \in Timers => b <= c)
    BY <1>1, <2>1, <2>2
  <2>3. CASE c \in Timers /\ (b \in Timers => c <= b)
    BY <1>1, <2>1, <2>3
  <2>4. CASE b \notin Timers /\ c \notin Timers
    BY <1>1, <1>2, <2>1, <2>4
  <2>5. QED
    BY <1>1, <2>2, <2>3, <2>4
<1>4. QED
  BY <1>3, Zenon

(* A window from now is a number of ticks.                                 *)
LEMMA WindowType ==
    ASSUME DialInv, ReachTypes, NEW left \in Nat, left >= 1
    PROVE  WindowFromNow(left) \in [started : Nat, cutoff : Nat]
<1> DEFINE r == connect_timeout - clock
           q == r \div left
<1>1. r \in Nat /\ clock \in Nat /\ Delay \in Nat /\ MaxSerial \in Nat
  BY DialAssumption DEF DialInv, DialTypes, ReachTypes
<1> HIDE DEF r
<1>2. q \in Nat
  BY <1>1
<1> HIDE DEF q
<1>3. Smaller(Smaller(Larger(q, Delay), MaxSerial), r) \in Nat
  BY <1>1, <1>2 DEF Smaller, Larger
<1>4. serial_window(left) \in Nat
  BY <1>3 DEF serial_window, q, r
<1>5. QED
  BY <1>1, <1>4 DEF WindowFromNow

(* The clock stops at the deadline.                                        *)
LEMMA ReachTypesKept ==
    ASSUME DialInv, ReachTypes, [DialNext]_dial_vars
    PROVE  ReachTypes'
<1>1. NoWindow \in [started : Nat, cutoff : Nat]
  BY DEF NoWindow, Never, ReachTypes
<1>2. more => NumAddresses - next_address \in Nat /\ NumAddresses - next_address >= 1
              /\ NumAddresses - next_address + 1 \in Nat /\ NumAddresses - next_address + 1 >= 1
  BY DialAssumption DEF more, DialInv, DialTypes
<1>3. CASE StartPrimary
  BY <1>2, <1>3, WindowType DEF StartPrimary, ReachTypes, setting
<1>4. CASE Await
  <2> DEFINE t == CHOOSE t \in Timers : \A u \in Timers : t <= u
  <2>1. t \in Timers
    BY <1>4, FirstTimer DEF Await
  <2>2. timer' = t /\ UNCHANGED <<setting, clock, serial>>
    BY <1>4 DEF Await
  <2> HIDE DEF t
  <2>3. t \in 0..connect_timeout
    <3>1. serial.started \in Nat /\ serial.cutoff \in Nat /\ Delay \in Nat
      BY DialAssumption DEF ReachTypes
    <3>2. fallback_at \in Nat
      BY <3>1 DEF fallback_at, Never, ReachTypes
    <3>3. QED
      BY <2>1, <3>1, <3>2 DEF Timers, ReachTypes
  <2>4. QED
    BY <2>2, <2>3 DEF ReachTypes, setting
<1>5. ASSUME NEW k \in Kind, AttemptFails(k) PROVE ReachTypes'
  <2>1. UNCHANGED <<setting, clock, timer>>
    BY <1>5 DEF AttemptFails
  <2>2. CASE k = "primary"
    <3>1. serial' = NoWindow
      BY <1>5, <2>2 DEF AttemptFails, Restarts
    <3>2. QED
      BY <1>1, <2>1, <3>1 DEF ReachTypes, setting
  <2>3. CASE k # "primary" /\ Restarts(k)
    <3>1. serial' = WindowFromNow(NumAddresses - next_address + 1) /\ more
      BY <1>5, <2>3 DEF AttemptFails, Restarts
    <3>2. QED
      BY <1>2, <2>1, <3>1, WindowType DEF ReachTypes, setting
  <2>4. CASE k # "primary" /\ ~Restarts(k)
    <3>1. serial' = serial
      BY <1>5, <2>4 DEF AttemptFails
    <3>2. QED
      BY <2>1, <3>1 DEF ReachTypes, setting
  <2>5. QED
    BY <2>2, <2>3, <2>4
<1>6. CASE Speculate
  BY <1>6 DEF Speculate, ReachTypes, setting, Never
<1>7. CASE CutOff
  BY <1>1, <1>7 DEF CutOff, ReachTypes, setting
<1>8. CASE Tick
  BY <1>8 DEF Tick, ReachTypes, setting
<1>9. CASE UNCHANGED <<setting, clock, serial, timer>>
  BY <1>9 DEF ReachTypes, setting
<1>10. QED
  BY <1>3, <1>4, <1>5, <1>6, <1>7, <1>8, <1>9
  DEF DialNext, dial_vars, AllFailed, DeadlinePasses, Connected, Finish, GoesRound

(* One more address is tried: the new attempt of kind k has all its time.  *)
LEMMA SpawnReach ==
    ASSUME DialInv, ReachTypes, Honest, NoneLost, ~DialOver, NEW k \in Kind, ~active(k),
           spawn_dial_attempt(k), UNCHANGED <<setting, clock, dial_errors>>
    PROVE  /\ Honest' /\ NoneLost'
           /\ active(k)' /\ attempt'[k].since = clock
           /\ \A j \in Kind : j # k => attempt'[j] = attempt[j]
<1> DEFINE x == [address |-> next_address + 1, state |-> "dialing", since |-> clock]
<1>1. x.state = "dialing" /\ x.since = clock
  OBVIOUS
<1>2. attempt' = [attempt EXCEPT ![k] = x] /\ clock \in Nat /\ Latency \in Nat
  BY DialAssumption DEF spawn_dial_attempt, DialInv, DialTypes
<1> HIDE DEF x
<1>3. attempt'[k] = x /\ \A j \in Kind : j # k => attempt'[j] = attempt[j]
  BY <1>2 DEF DialInv, DialTypes
<1>4. NoneLost' /\ active(k)'
  BY <1>1, <1>3 DEF NoneLost, setting, active
<1>5. ASSUME NEW j \in Kind, active(j)'
      PROVE  /\ attempt'[j].since <= clock
             /\ attempt'[j].state = "ok" => fate[attempt'[j].address] = "answers"
             /\ attempt'[j].state = "error" => fate[attempt'[j].address] = "refuses"
             /\ ~Hangs(j)' => clock <= attempt'[j].since + Latency
  <2>1. CASE j = k
    BY <1>1, <1>2, <1>3, <2>1
  <2>2. CASE j # k
    BY <1>3, <1>5, <2>2 DEF Honest, Hangs, active, setting
  <2>3. QED
    BY <2>1, <2>2
<1>6. QED
  BY <1>1, <1>3, <1>4, <1>5 DEF Honest, setting

(* An attempt is given up that was not about an address that answers.      *)
LEMMA GiveUpReach ==
    ASSUME DialInv, ReachTypes, Honest, NoneLost, NEW k \in Kind, active(k),
           fate[attempt[k].address] # "answers",
           attempt' = [attempt EXCEPT ![k] = NoAttempt],
           dial_errors' = Append(dial_errors, attempt[k].address),
           UNCHANGED <<setting, clock>>
    PROVE  /\ Honest' /\ NoneLost' /\ ~active(k)'
           /\ \A j \in Kind : j # k => attempt'[j] = attempt[j]
<1> DEFINE a == attempt[k].address
<1>1. a \in Address /\ dial_errors \in Seq(Address)
  BY ReachNumbers DEF DialInv, DialTypes
<1>2. attempt'[k] = NoAttempt /\ \A j \in Kind : j # k => attempt'[j] = attempt[j]
  BY DEF DialInv, DialTypes
<1>3. ~active(k)'
  BY <1>2 DEF active, NoAttempt
<1>4. Honest'
  BY <1>2, <1>3 DEF Honest, Hangs, active, setting
<1>5. NoneLost'
  <2>1. dial_errors' = Append(dial_errors, a) /\ fate[a] # "answers"
    OBVIOUS
  <2> HIDE DEF a
  <2>2. \A i \in DOMAIN dial_errors' : dial_errors'[i] = a \/
          (i \in DOMAIN dial_errors /\ dial_errors'[i] = dial_errors[i])
    BY <1>1, <2>1
  <2>3. QED
    BY <2>1, <2>2 DEF NoneLost, setting
<1>6. QED
  BY <1>2, <1>3, <1>4, <1>5

(* StartPrimary.                                                           *)
LEMMA StartPrimaryReach ==
    ASSUME DialInv, ReachTypes, Hope, Honest, NoneLost, Pace, StartPrimary
    PROVE  Honest' /\ NoneLost' /\ Pace'
<1>1. /\ spot = "top" /\ ~active(Primary) /\ more /\ Primary \in Kind
      /\ spawn_dial_attempt(Primary) /\ UNCHANGED <<setting, clock, dial_errors>>
      /\ serial' = WindowFromNow(NumAddresses - next_address) /\ spot' = "top"
      /\ next_address' = next_address + 1
  BY Kinds DEF StartPrimary, Primary, spawn_dial_attempt
<1>2. /\ Honest' /\ NoneLost' /\ active(Primary)' /\ attempt'[Primary].since = clock
      /\ attempt'[Speculative] = attempt[Speculative]
  BY <1>1, SpawnReach, Kinds DEF DialOver
<1>3. active(Speculative)' <=> active(Speculative)
  BY <1>2 DEF active
<1>4. /\ clock <= Span(next_address)
      /\ active(Speculative) => clock + Step <= Span(next_address)
  BY <1>1, ReachNumbers DEF Pace
<1>5. serial'.started = clock /\ serial'.cutoff = clock + MaxSerial
  <2>1. next_address \in 0..NumAddresses /\ next_address < NumAddresses
    BY <1>1 DEF more, DialInv, DialTypes
  <2>2. serial_window(NumAddresses - next_address) = MaxSerial
    BY <1>4, <2>1, FullWindow
  <2>3. QED
    BY <1>1, <2>2 DEF WindowFromNow
<1>6. Span(next_address)' = Span(next_address) + Step
  BY <1>1, ReachNumbers DEF Span
<1> DEFINE s == Span(next_address)
           s1 == Span(next_address)'
           c1 == clock'
           b == serial'.started
           e == serial'.cutoff
           h == attempt[Speculative].since
<1>7. /\ s1 = s + Step /\ c1 = clock /\ b = clock /\ e = clock + MaxSerial /\ spot' = "top"
      /\ {s, Step, clock, MaxSerial, Latency, h} \subseteq Nat /\ MaxSerial > 0
      /\ attempt'[Primary].since = clock /\ attempt'[Speculative].since = h
      /\ clock <= s
      /\ active(Speculative) => clock + Step <= s
      /\ active(Speculative) /\ ~Hangs(Speculative) => h + Latency + Step <= s
      /\ active(Primary)' /\ (active(Speculative)' <=> active(Speculative))
      /\ Hangs(Speculative)' <=> Hangs(Speculative)
  BY <1>1, <1>2, <1>3, <1>4, <1>5, <1>6, ReachNumbers, Kinds, DialAssumption
  DEF Pace, Hangs, setting
<1> HIDE DEF s, s1, c1, b, e, h
<1>8. /\ c1 <= s1 /\ clock <= b /\ b + Step <= s1
      /\ active(Speculative) => b + Step + Step <= s1 /\ c1 + Step <= s1
      /\ active(Speculative) /\ ~Hangs(Speculative) => h + Latency + Step <= s1
      /\ e = b + MaxSerial /\ c1 < e
  BY <1>7
<1>9. Pace'
  BY <1>7, <1>8 DEF Pace, s1, c1, b, e
<1>10. QED
  BY <1>2, <1>9

(* Speculate: the fallback starts before the cutoff it replaces.           *)
LEMMA SpeculateReach ==
    ASSUME DialInv, ReachTypes, Hope, Honest, NoneLost, Pace, Speculate
    PROVE  Honest' /\ NoneLost' /\ Pace'
<1>1. /\ spot = "select" /\ active(Primary) /\ ~active(Speculative) /\ more
      /\ Speculative \in Kind /\ spot' = "top"
      /\ spawn_dial_attempt(Speculative) /\ UNCHANGED <<setting, clock, dial_errors>>
      /\ serial' = [serial EXCEPT !.cutoff = Never]
      /\ next_address' = next_address + 1
  BY Kinds
  DEF Speculate, TimerDue, FallbackDue, Alone, Primary, Speculative, spawn_dial_attempt
<1>2. /\ Honest' /\ NoneLost' /\ active(Speculative)' /\ attempt'[Speculative].since = clock
      /\ attempt'[Primary] = attempt[Primary]
  BY <1>1, SpawnReach, Kinds DEF DialOver
<1>3. active(Primary)'
  BY <1>1, <1>2 DEF active
<1>4. serial'.started = serial.started
  BY <1>1 DEF ReachTypes
<1>5. Span(next_address)' = Span(next_address) + Step
  BY <1>1, ReachNumbers DEF Span
<1> DEFINE s == Span(next_address)
           s1 == Span(next_address)'
           c1 == clock'
           b == serial.started
           b1 == serial'.started
           h == attempt[Primary].since
<1>6. /\ s1 = s + Step /\ c1 = clock /\ b1 = b /\ spot' = "top"
      /\ {s, Step, clock, MaxSerial, Latency, h, b, timer, serial.cutoff} \subseteq Nat
      /\ Step = MaxSerial + Latency
      /\ attempt'[Primary].since = h /\ attempt'[Speculative].since = clock
      /\ h <= b /\ b + Step <= s
      /\ serial.cutoff = b + MaxSerial /\ clock <= timer /\ timer <= serial.cutoff
      /\ active(Primary)' /\ active(Speculative)'
  BY <1>1, <1>2, <1>3, <1>4, <1>5, ReachNumbers, Kinds DEF Pace
<1> HIDE DEF s, s1, c1, b, b1, h
<1>7. /\ h <= b1 /\ b1 + Step + Step <= s1 /\ c1 + Step <= s1
      /\ clock + Latency + Step <= s1
  BY <1>6
<1>8. Pace'
  BY <1>6, <1>7 DEF Pace, s1, c1, b1
<1>9. QED
  BY <1>2, <1>8

(* CutOff: an address that answers would have done so by then.             *)
LEMMA CutOffReach ==
    ASSUME DialInv, ReachTypes, Hope, Honest, NoneLost, Pace, CutOff
    PROVE  Honest' /\ NoneLost' /\ Pace'
<1>1. /\ spot = "select" /\ active(Primary) /\ ~active(Speculative) /\ more
      /\ Primary \in Kind /\ spot' = "top" /\ clock >= serial.cutoff
      /\ attempt' = [attempt EXCEPT ![Primary] = NoAttempt]
      /\ dial_errors' = Append(dial_errors, attempt[Primary].address)
      /\ UNCHANGED <<setting, clock, next_address>>
  BY Kinds
  DEF CutOff, TimerDue, CutoffDue, Alone, Primary, Speculative, NotesCutoff
<1>2. /\ attempt[Primary].since <= serial.started /\ Latency <= Delay
      /\ serial.cutoff = serial.started + MaxSerial
      /\ clock <= timer /\ timer <= serial.cutoff
      /\ serial.started + Step <= Span(next_address)
      /\ ~Hangs(Primary) => clock <= attempt[Primary].since + Latency
  BY <1>1 DEF Pace, Hope, Honest
<1>3. Hangs(Primary)
  <2> DEFINE h == attempt[Primary].since
             b == serial.started
  <2>1. {h, b, clock, Delay, MaxSerial, Latency} \subseteq Nat /\ Delay < MaxSerial
    BY <1>1, ReachNumbers
  <2> HIDE DEF h, b
  <2>2. ~(clock <= h + Latency /\ h <= b /\ clock >= b + MaxSerial /\ Latency <= Delay)
    BY <2>1
  <2>3. QED
    BY <1>1, <1>2, <2>2 DEF h, b
<1>4. fate[attempt[Primary].address] # "answers"
  BY <1>3 DEF Hangs
<1>5. /\ Honest' /\ NoneLost' /\ ~active(Primary)'
      /\ attempt'[Speculative] = attempt[Speculative]
  BY <1>1, <1>4, GiveUpReach, Kinds
<1>6. ~active(Speculative)'
  BY <1>1, <1>5 DEF active
<1>7. clock <= Span(next_address)
  BY <1>2, ReachNumbers
<1>8. QED
  BY <1>1, <1>5, <1>6, <1>7 DEF Pace, Span

(* AttemptFails: the time a failed attempt took is that of its address.    *)
LEMMA AttemptFailsReach ==
    ASSUME DialInv, ReachTypes, Hope, Honest, NoneLost, Pace, NEW k \in Kind,
           AttemptFails(k)
    PROVE  Honest' /\ NoneLost' /\ Pace'
<1>1. /\ spot = "select" /\ active(k) /\ spot' = "top" /\ attempt[k].state = "error"
      /\ attempt' = [attempt EXCEPT ![k] = NoAttempt]
      /\ dial_errors' = Append(dial_errors, attempt[k].address)
      /\ UNCHANGED <<setting, clock, next_address>>
  BY DEF AttemptFails, active
<1>2. fate[attempt[k].address] = "refuses"
  BY <1>1 DEF Honest
<1>3. /\ Honest' /\ NoneLost' /\ ~active(k)'
      /\ \A j \in Kind : j # k => attempt'[j] = attempt[j]
  BY <1>1, <1>2, GiveUpReach
<1>4. \A j \in Kind : j # k => (active(j)' <=> active(j)) /\ (Hangs(j)' <=> Hangs(j))
  BY <1>1, <1>3 DEF active, Hangs, setting
<1>5. Span(next_address)' = Span(next_address) /\ (more' <=> more)
  BY <1>1 DEF Span, more
<1>6. CASE k = Primary
  <2>1. clock <= Span(next_address)
    <3>1. CASE active(Speculative)
      BY <3>1, ReachNumbers DEF Pace
    <3>2. CASE ~active(Speculative)
      <4>1. /\ attempt[Primary].since <= serial.started
            /\ serial.started + Step <= Span(next_address)
            /\ clock <= attempt[Primary].since + Latency
        BY <1>1, <1>2, <1>6, <3>2, Kinds DEF Pace, Honest, Hangs
      <4>2. QED
        BY <4>1, ReachNumbers, Kinds
    <3>3. QED
      BY <3>1, <3>2
  <2>2. ~active(Primary)' /\ (active(Speculative)' <=> active(Speculative))
        /\ (Hangs(Speculative)' <=> Hangs(Speculative))
        /\ attempt'[Speculative] = attempt[Speculative]
    BY <1>3, <1>4, <1>6, Kinds
  <2>3. Pace'
    BY <1>1, <1>5, <2>1, <2>2 DEF Pace
  <2>4. QED
    BY <1>3, <2>3
<1>7. CASE k = Speculative /\ ~active(Primary)
  <2>1. ~active(Primary)' /\ ~active(Speculative)'
    BY <1>3, <1>4, <1>7, Kinds
  <2>2. clock <= Span(next_address)
    <3>1. clock + Step <= Span(next_address)
      BY <1>1, <1>7 DEF Pace
    <3>2. QED
      BY <3>1, ReachNumbers
  <2>3. clock' <= Span(next_address)' /\ spot' = "top"
    BY <1>1, <1>5, <2>2
  <2>4. Pace'
    BY <2>1, <2>3 DEF Pace
  <2>5. QED
    BY <1>3, <2>4
<1>8. CASE k = Speculative /\ active(Primary)
  <2>1. /\ active(Primary)' /\ ~active(Speculative)' /\ attempt'[Primary] = attempt[Primary]
    BY <1>3, <1>4, <1>8, Kinds
  <2>2. /\ clock + Step <= Span(next_address)
        /\ serial.started + Step + Step <= Span(next_address)
        /\ attempt[Primary].since <= serial.started
        /\ attempt[Primary].since <= clock
    BY <1>1, <1>8, Kinds DEF Pace, Honest
  <2>3. CASE more
    <3>1. serial' = WindowFromNow(NumAddresses - next_address + 1)
      BY <1>8, <2>3 DEF AttemptFails, Restarts, Primary, Speculative
    <3> DEFINE n == next_address - 1
    <3>2. n \in 0..NumAddresses /\ n < NumAddresses /\ next_address = n + 1
          /\ NumAddresses - n = NumAddresses - next_address + 1 /\ n \in Nat
      <4>1. next_address >= 1
        <5>1. attempt[k].address \in 1..next_address /\ next_address \in Nat
          BY <1>1, ReachNumbers DEF DialInv, Apart
        <5>2. QED
          BY <5>1
      <4>2. QED
        BY <4>1, DialAssumption DEF DialInv, DialTypes
    <3>3. clock <= Span(n)
      <4>1. Span(next_address) = Span(n) + Step /\ Span(n) \in Nat
        BY <3>2, SpanFacts
      <4> HIDE DEF n
      <4>2. QED
        BY <2>2, <4>1, ReachNumbers
    <3>4. serial_window(NumAddresses - n) = MaxSerial
      <4> HIDE DEF n
      <4>1. QED
        BY <3>2, <3>3, FullWindow
    <3>5. serial'.started = clock /\ serial'.cutoff = clock + MaxSerial
      BY <3>1, <3>2, <3>4 DEF WindowFromNow
    <3>6. clock < clock + MaxSerial
      BY ReachNumbers
    <3>7. QED
      BY <1>1, <1>3, <1>5, <2>1, <2>2, <3>5, <3>6 DEF Pace
  <2>4. CASE ~more
    <3>1. serial' = serial
      BY <1>8, <2>4, Kinds DEF AttemptFails, Restarts, Primary
    <3>2. serial.started + Step <= Span(next_address)
      BY <2>2, ReachNumbers
    <3>3. QED
      BY <1>1, <1>3, <1>5, <2>1, <2>2, <2>4, <3>1, <3>2 DEF Pace
  <2>5. QED
    BY <2>3, <2>4
<1>9. QED
  BY <1>6, <1>7, <1>8, Kinds

(* Tick: no responsive attempt is older than Latency, and a primary that   *)
(* hangs is looked at again before its window is over.                     *)
LEMMA TickReach ==
    ASSUME DialInv, ReachTypes, Hope, Honest, NoneLost, Pace, Tick
    PROVE  Honest' /\ NoneLost' /\ Pace'
<1>1. /\ spot = "select" /\ clock < timer /\ clock' = clock + 1
      /\ UNCHANGED <<setting, spot, next_address, attempt, serial, timer, dial_errors>>
      /\ \A k \in Kind :
           /\ attempt[k].state \in {"none", "dialing"}
           /\ attempt[k].state = "dialing" /\ fate[attempt[k].address] # "hangs"
                => clock - attempt[k].since < Latency
  BY DEF Tick
<1>2. \A k \in Kind : active(k) /\ ~Hangs(k) => clock + 1 <= attempt[k].since + Latency
  BY <1>1, ReachNumbers DEF active, Hangs
<1>3. Honest' /\ NoneLost'
  <2>1. \A k \in Kind : active(k) => attempt[k].since <= clock + 1
    BY ReachNumbers DEF Honest
  <2>2. QED
    BY <1>1, <1>2, <2>1 DEF Honest, NoneLost, active, Hangs, setting
<1>4. CASE active(Speculative)
  <2>1. clock + 1 + Step <= Span(next_address)
    <3>1. CASE ~Hangs(Speculative)
      <4>1. /\ attempt[Speculative].since + Latency + Step <= Span(next_address)
            /\ clock + 1 <= attempt[Speculative].since + Latency
        BY <1>2, <1>4, <3>1, Kinds DEF Pace
      <4>2. QED
        BY <4>1, ReachNumbers, Kinds
    <3>2. CASE Hangs(Speculative)
      <4>1. active(Primary) /\ ~Hangs(Primary)
        <5>1. CASE active(Primary)
          <6>1. /\ attempt[Primary].address # attempt[Speculative].address
                /\ attempt[Primary].address \in Address
                /\ attempt[Speculative].address \in Address
            BY <1>4, <5>1, Kinds, ReachNumbers DEF DialInv, Apart
          <6>2. QED
            BY <3>2, <5>1, <6>1, OneHangs DEF Hangs
        <5>2. CASE ~active(Primary)
          <6>1. ~more
            BY <1>1, <5>2 DEF Pace, Started, Primary
          <6>2. QED
            BY <1>1, <3>2, <5>2, <6>1, AnswerAhead, Kinds DEF DialOver
        <5>3. QED
          BY <5>1, <5>2
      <4>2. /\ clock + 1 <= attempt[Primary].since + Latency
            /\ attempt[Primary].since <= serial.started
            /\ serial.started + Step + Step <= Span(next_address)
        BY <1>2, <1>4, <4>1, Kinds DEF Pace
      <4>3. QED
        BY <4>2, ReachNumbers, Kinds
    <3>3. QED
      BY <3>1, <3>2
  <2>2. Pace'
    BY <1>1, <1>4, <2>1 DEF Pace, active, Hangs, more, Started, Span, setting
  <2>3. QED
    BY <1>3, <2>2
<1>5. CASE ~active(Speculative)
  <2>1. active(Primary)
    BY <1>1, <1>5 DEF Pace, Started, Primary, Speculative
  <2>2. clock + 1 <= timer
    BY <1>1, ReachNumbers
  <2>3. Pace'
    BY <1>1, <1>5, <2>1, <2>2 DEF Pace, active, Hangs, more, Started, Span, setting
  <2>4. QED
    BY <1>3, <2>3
<1>6. QED
  BY <1>4, <1>5

(* The other steps leave the attempts where they are, or end the dial.     *)
LEMMA QuietReach ==
    ASSUME DialInv, ReachTypes, Hope, Honest, NoneLost, Pace, ~DialOver,
           Await \/ GoesRound
    PROVE  Honest' /\ NoneLost' /\ Pace' /\ ~DialOver'
<1>1. /\ UNCHANGED <<setting, clock, next_address, attempt, serial, dial_errors>>
      /\ spot' \in {"top", "select"}
  BY DEF Await, GoesRound
<1>2. Honest' /\ NoneLost' /\ ~DialOver'
  BY <1>1 DEF Honest, NoneLost, active, Hangs, setting, DialOver
<1>3. /\ \A k \in Kind : (active(k)' <=> active(k)) /\ (Hangs(k)' <=> Hangs(k))
      /\ (more' <=> more) /\ Span(next_address)' = Span(next_address)
      /\ (Started' <=> Started)
  BY <1>1 DEF active, Hangs, more, Span, Started, setting
<1>4. ASSUME active(Primary), ~active(Speculative), more
      PROVE  /\ serial.cutoff = serial.started + MaxSerial
             /\ spot' = "top" => clock < serial.cutoff
             /\ spot' = "select" => clock <= timer' /\ timer' <= serial.cutoff
  <2>1. /\ serial.cutoff = serial.started + MaxSerial
        /\ serial.started + Step <= Span(next_address)
    BY <1>4 DEF Pace
  <2>2. serial.cutoff <= connect_timeout
    <3>1. connect_timeout >= Span(NumAddresses)
      BY DEF Hope
    <3>2. QED
      BY <2>1, <3>1, ReachNumbers
  <2>3. CASE Await
    <3> DEFINE t == CHOOSE t \in Timers : \A u \in Timers : t <= u
    <3>1. timer' = t /\ t \in Timers /\ \A u \in Timers : t <= u
      BY <2>3, FirstTimer DEF Await
    <3> HIDE DEF t
    <3>2. clock < serial.cutoff /\ spot' = "select"
      BY <1>4, <2>3 DEF Pace, Await
    <3>3. serial.cutoff \in Timers
      BY <2>2, <3>2 DEF Timers
    <3>4. clock < t
      BY <3>1 DEF Timers
    <3>5. t \in Nat
      BY <3>1, ReachTypesKept, <2>3 DEF ReachTypes, DialNext
    <3>6. QED
      BY <2>1, <3>1, <3>2, <3>3, <3>4, <3>5, ReachNumbers
  <2>4. CASE GoesRound
    <3>1. spot' = "top" /\ spot = "select" /\ ~CutoffDue
      BY <2>4 DEF GoesRound, TimerDue
    <3>2. clock < connect_timeout
      BY <3>1, InTime DEF Pace
    <3>3. ~(clock >= serial.cutoff)
      BY <1>4, <3>1, <3>2 DEF CutoffDue, Alone, Primary, Speculative
    <3>4. QED
      BY <2>1, <3>1, <3>3, ReachNumbers
  <2>5. QED
    BY <2>3, <2>4
<1>5. spot' = "select" => Started
  BY DEF Await, GoesRound
<1>6. Pace'
  BY <1>1, <1>3, <1>4, <1>5, Kinds DEF Pace
<1>7. QED
  BY <1>2, <1>6

(* An attempt that ends in the background keeps its address and its time.  *)
LEMMA FinishReach ==
    ASSUME DialInv, ReachTypes, Hope, Honest, NoneLost, ~DialOver => Pace,
           NEW k \in Kind, Finish(k)
    PROVE  Honest' /\ NoneLost' /\ (~DialOver' => Pace')
<1> DEFINE a == attempt[k].address
           s == IF fate[a] = "answers" THEN "ok" ELSE "error"
<1>1. /\ UNCHANGED <<setting, clock, spot, next_address, serial, timer, dial_errors>>
      /\ attempt[k].state = "dialing" /\ attempt' = [attempt EXCEPT ![k].state = s]
      /\ fate[a] # "hangs"
  BY DEF Finish
<1>2. /\ s = "ok" => fate[a] = "answers"
      /\ s = "error" => fate[a] = "refuses"
      /\ s # "none"
  <2>1. a \in Address
    BY <1>1, ReachNumbers DEF active
  <2>2. fate[a] \in {"answers", "refuses", "hangs"}
    BY <2>1 DEF ReachTypes
  <2>3. QED
    BY <1>1, <2>2
<1> HIDE DEF s
<1>3. /\ \A j \in Kind : attempt'[j].address = attempt[j].address
      /\ \A j \in Kind : attempt'[j].since = attempt[j].since
      /\ \A j \in Kind : active(j)' <=> active(j)
      /\ \A j \in Kind : j # k => attempt'[j].state = attempt[j].state
      /\ attempt'[k].state = s
  BY <1>1, <1>2 DEF DialInv, DialTypes, AttemptType, active
<1>4. \A j \in Kind : Hangs(j)' <=> Hangs(j)
  BY <1>1, <1>3 DEF Hangs, setting
<1>5. Honest'
  BY <1>1, <1>2, <1>3, <1>4 DEF Honest, setting
<1>6. NoneLost'
  BY <1>1 DEF NoneLost, setting
<1>7. (Started' <=> Started) /\ (more' <=> more) /\ Span(next_address)' = Span(next_address)
  BY <1>1, <1>3, Kinds DEF Started, more, Span, Primary, Speculative
<1>8. ~DialOver' => Pace'
  BY <1>1, <1>3, <1>4, <1>7, Kinds DEF Pace, DialOver
<1>9. QED
  BY <1>5, <1>6, <1>8

(* A dial whose host can be reached neither gives up nor runs out of time. *)
THEOREM ReachInvariance == DialSpec => []ReachInv
<1>1. DialInit => ReachInv
  <2> SUFFICES ASSUME DialInit PROVE ReachInv
    OBVIOUS
  <2>1. \A k \in Kind : ~active(k)
    BY DEF DialInit, active, NoAttempt
  <2>2. Span(0) \in Nat
    BY SpanFacts
  <2>3. ReachTypes
    BY DialAssumption DEF DialInit, ReachTypes, Never
  <2>4. Honest /\ NoneLost /\ spot = "top"
    BY <2>1 DEF DialInit, Honest, NoneLost
  <2>5. Pace
    BY <2>1, <2>2, <2>4, Kinds DEF Pace, DialInit
  <2>6. QED
    BY <2>3, <2>4, <2>5 DEF ReachInv
<1>2. ASSUME DialInv, ReachInv, [DialNext]_dial_vars PROVE ReachInv'
  <2>1. ReachTypes /\ ReachTypes'
    BY <1>2, ReachTypesKept DEF ReachInv
  <2>2. UNCHANGED setting
    BY <1>2 DEF DialNext, dial_vars, StartPrimary, AllFailed, DeadlinePasses, Await,
       Connected, AttemptFails, Finish, Speculate, CutOff, GoesRound, Tick
  <2>3. SUFFICES ASSUME Hope
                 PROVE  /\ Honest' /\ NoneLost' /\ (~DialOver' => Pace')
                        /\ spot' \notin {"failed", "timeout"}
    BY <2>1, <2>2 DEF ReachInv, Hope, setting, Hanging
  <2>4. Honest /\ NoneLost /\ (~DialOver => Pace) /\ spot \notin {"failed", "timeout"}
    BY <1>2, <2>3 DEF ReachInv
  <2>5. spot \in {"top", "select"} => ~DialOver /\ Pace
    BY <2>4 DEF DialOver
  <2>6. CASE StartPrimary
    BY <1>2, <2>1, <2>3, <2>4, <2>5, <2>6, StartPrimaryReach DEF StartPrimary
  <2>7. CASE AllFailed
    <3>1. ~DialOver /\ ~more /\ \A k \in Kind : ~active(k)
      BY <2>5, <2>7, Kinds DEF AllFailed, Primary, Speculative
    <3>2. QED
      BY <1>2, <2>3, <2>4, <3>1, AnswerAhead
  <2>8. CASE DeadlinePasses
    <3>1. /\ spot = "top" /\ Started /\ clock >= connect_timeout /\ Pace
      BY <2>5, <2>8 DEF DeadlinePasses
    <3>2. clock < connect_timeout
      BY <1>2, <2>1, <2>3, <2>4, <3>1, InTime
    <3>3. clock \in Nat /\ connect_timeout \in Nat
      BY <2>1 DEF ReachTypes
    <3>4. QED
      BY <3>1, <3>2, <3>3
  <2>9. CASE Await \/ GoesRound
    <3>1. ~DialOver /\ Pace
      BY <2>5, <2>9 DEF Await, GoesRound, TimerDue
    <3>2. QED
      BY <1>2, <2>1, <2>3, <2>4, <2>9, <3>1, QuietReach DEF DialOver
  <2>10. ASSUME NEW k \in Kind, Connected(k)
         PROVE  /\ Honest' /\ NoneLost' /\ (~DialOver' => Pace')
                /\ spot' \notin {"failed", "timeout"}
    <3>1. /\ spot' = "connected" /\ dial_errors' = dial_errors
          /\ attempt' = [j \in Kind |-> NoAttempt]
      BY <2>10 DEF Connected
    <3>2. \A j \in Kind : ~active(j)'
      BY <3>1 DEF active, NoAttempt
    <3>3. QED
      BY <2>2, <2>4, <3>1, <3>2 DEF Honest, NoneLost, DialOver, setting
  <2>11. ASSUME NEW k \in Kind, AttemptFails(k)
         PROVE  /\ Honest' /\ NoneLost' /\ (~DialOver' => Pace')
                /\ spot' \notin {"failed", "timeout"}
    BY <1>2, <2>1, <2>3, <2>4, <2>5, <2>11, AttemptFailsReach DEF AttemptFails
  <2>12. ASSUME NEW k \in Kind, Finish(k)
         PROVE  /\ Honest' /\ NoneLost' /\ (~DialOver' => Pace')
                /\ spot' \notin {"failed", "timeout"}
    <3>1. spot' = spot
      BY <2>12 DEF Finish
    <3>2. QED
      BY <1>2, <2>1, <2>3, <2>4, <2>12, <3>1, FinishReach
  <2>13. CASE Speculate
    BY <1>2, <2>1, <2>3, <2>4, <2>5, <2>13, SpeculateReach DEF Speculate, TimerDue
  <2>14. CASE CutOff
    BY <1>2, <2>1, <2>3, <2>4, <2>5, <2>14, CutOffReach DEF CutOff, TimerDue
  <2>15. CASE Tick
    BY <1>2, <2>1, <2>3, <2>4, <2>5, <2>15, TickReach DEF Tick
  <2>16. CASE UNCHANGED dial_vars
    BY <2>4, <2>16
    DEF dial_vars, setting, Honest, NoneLost, Pace, DialOver, active, Hangs, more, Started, Span
  <2>17. QED
    BY <1>2, <2>6, <2>7, <2>8, <2>9, <2>10, <2>11, <2>12, <2>13, <2>14, <2>15, <2>16
    DEF DialNext
<1>3. QED
  BY <1>1, <1>2, DialInvariance, PTL DEF DialSpec

(* A host with an address that answers is reached, if at most one of the   *)
(* others hangs and connect_timeout has room for a window and an answer of *)
(* each: for any number of addresses, and whenever the connection budget   *)
(* lets dial_tcp_addresses speculate.  And it accounts for every address.  *)
THEOREM DialIsSound == DialSpec => []DialSound
<1>1. ReachInv => ReachableFound
  <2> SUFFICES ASSUME ReachInv, spot \in {"failed", "timeout"}, Latency <= Delay,
                      ~(\A a \in Address : fate[a] # "answers"),
                      ~(Cardinality(Hanging) > 1),
                      ~(connect_timeout < NumAddresses * (MaxSerial + Latency))
               PROVE  FALSE
    <3>1. Latency > Delay \/ Latency <= Delay
      BY DialAssumption
    <3>2. QED
      BY <3>1 DEF ReachableFound
  <2>1. connect_timeout >= Span(NumAddresses)
    <3>1. Span(NumAddresses) \in Nat /\ connect_timeout \in Nat
      BY SpanFacts, DialAssumption DEF ReachInv, ReachTypes
    <3>2. ~(connect_timeout < Span(NumAddresses))
      BY DEF Span, Step
    <3>3. QED
      BY <3>1, <3>2
  <2>2. Cardinality(Hanging) <= 1
    <3>1. IsFiniteSet(1..NumAddresses)
      BY DialAssumption, FS_Interval
    <3>2. IsFiniteSet(Hanging)
      BY <3>1, FS_Subset DEF Hanging, Address
    <3>3. Cardinality(Hanging) \in Nat
      BY <3>2, FS_CardinalityType
    <3>4. QED
      BY <3>3
  <2>3. Hope
    BY <2>1, <2>2 DEF Hope
  <2>4. QED
    BY <2>3 DEF ReachInv
<1>2. DialAccounted /\ ReachableFound => DialSound
  BY DEF DialSound
<1>3. QED
  BY <1>1, <1>2, ReachInvariance, DialAccounts, PTL

-----------------------------------------------------------------------------
(* The way through proxies                                                 *)

TunnelSteps == {"dial", "request", "greet", "auth", "ask", "associate"}
TurnType ==
    [step : TunnelSteps, hop : Nat, goal : Nat, address : Nat, retried : BOOLEAN]

TunnelTypes ==
    /\ way \in Ways /\ turn \in TurnType
    /\ stream \in [at : Nat, unread : Nat, early : Nat]
    /\ datagram.headers \in Seq(Nat) /\ datagram.trace \in Seq(Nat)

\* Who is at the end of the stream, and what it will be asked.
Negotiating ==
    verdict = "pending" =>
      /\ turn.hop \in 1..Hops /\ turn.hop <= turn.goal
      /\ turn.step # "dial" => stream.at = turn.hop
      /\ turn.step = "ask" => turn.hop < turn.goal
      /\ turn.step = "associate" => turn.hop = turn.goal
      /\ way.aim = "tunnel" => turn.goal = Target
      /\ way.aim # "tunnel" =>
           /\ \A h \in 1..Hops : IsSocks(h)
           /\ turn.goal \in 1..Hops /\ turn.step # "request"
           /\ controls = Parties(turn.goal - 1) /\ relays = Parties(turn.goal - 1)

\* The addresses before the one asked for were refused.
Refusals ==
    verdict = "pending" /\ way.aim = "tunnel" /\ LocalTarget =>
      turn.address \in 1..way.addresses /\ refused = 1..(turn.address - 1)

\* What the verdict says of the streams.
Verdicts ==
    /\ verdict = "tunnel" => stream.at = Target /\ stream.unread = stream.early
    /\ verdict = "exhausted" => refused = 1..way.addresses
    /\ verdict \in {"associated", "answered"} => controls = Parties(Hops)
    /\ verdict = "associated" => relays = Parties(Hops)

\* The hops behind a datagram and those before it are all, in their order.
OnItsWay(d) ==
    /\ Len(d.trace) + Len(d.headers) = Target
    /\ \A i \in 1..Len(d.trace) : d.trace[i] = i
    /\ \A i \in 1..Len(d.headers) : d.headers[i] = Len(d.trace) + i
Datagrams == way.aim = "udp" => datagram = NoDatagram \/ OnItsWay(datagram)

TunnelInv ==
    /\ TunnelTypes /\ Negotiating /\ Refusals /\ Verdicts /\ Datagrams
    /\ CredentialsToTheirHop

(* What the assumption says of the way.                                    *)
LEMMA WayFacts ==
    ASSUME way \in Ways
    PROVE  /\ Hops \in Nat /\ Hops >= 1 /\ Target \in Nat /\ Target = Hops + 1
           /\ way.addresses \in Nat /\ DOMAIN way.hops = 1..Hops
           /\ \A h : FirstStep(h) \in {"request", "greet"}
           /\ \A h : IsSocks(h) => FirstStep(h) = "greet"
           /\ \A h : Command \in {"ask", "associate"}
<1>1. way.hops \in Seq([scheme : {"http", "socks5", "socks5h"}, auth : BOOLEAN])
      /\ way.hops # <<>> /\ way.addresses \in Nat
  BY TunnelAssumption
<1>2. Hops \in Nat /\ Hops >= 1 /\ DOMAIN way.hops = 1..Hops
  BY <1>1 DEF Hops
<1>3. QED
  BY <1>1, <1>2 DEF Target, FirstStep, IsSocks, Command

(* The parties up to n, and one more.                                      *)
LEMMA OneMoreParty ==
    ASSUME NEW n \in Nat
    PROVE  /\ Parties(n) \in Seq(Nat) /\ Len(Parties(n)) = n
           /\ \A i \in 1..n : Parties(n)[i] = i
           /\ Append(Parties(n), n + 1) = Parties(n + 1)
<1>1. /\ Parties(n) \in Seq(Nat) /\ Len(Parties(n)) = n
      /\ \A i \in 1..n : Parties(n)[i] = i
  BY DEF Parties
<1>2. /\ Parties(n + 1) \in Seq(Nat) /\ Len(Parties(n + 1)) = n + 1
      /\ \A i \in 1..(n + 1) : Parties(n + 1)[i] = i
  BY DEF Parties
<1> DEFINE p == Parties(n)
           q == Parties(n + 1)
<1> HIDE DEF p, q
<1>3. /\ Append(p, n + 1) \in Seq(Nat) /\ Len(Append(p, n + 1)) = n + 1
      /\ \A i \in 1..(n + 1) : Append(p, n + 1)[i] = i
  BY <1>1 DEF p
<1>4. Append(p, n + 1) = q
  BY <1>2, <1>3, SeqEqual DEF q
<1>5. QED
  BY <1>1, <1>4 DEF p, q

(* A call that fails keeps what is true of its credentials and datagram.   *)
LEMMA TunnelFailsInv ==
    ASSUME TunnelInv, TunnelFails, UNCHANGED <<way, datagram>>, CredentialsToTheirHop'
    PROVE  TunnelInv'
BY DEF TunnelInv, TunnelFails, TunnelTypes, Closed, Negotiating, Refusals, Verdicts, Datagrams,
   OnItsWay, Target, Hops

(* The credentials of a hop go to the hop at the end of the stream.        *)
LEMMA TellsInv ==
    ASSUME TunnelInv, verdict = "pending", turn.step # "dial", Tells(turn.hop)
    PROVE  CredentialsToTheirHop'
BY DEF TunnelInv, Negotiating, Tells, CredentialsToTheirHop

(* A step of the negotiation that stays with the hop and with the address. *)
LEMMA TurnInv ==
    ASSUME TunnelInv, verdict = "pending", verdict' = "pending",
           UNCHANGED <<way, datagram, refused, controls, relays>>, CredentialsToTheirHop',
           stream' \in [at : Nat, unread : Nat, early : Nat],
           turn' \in TurnType, turn'.goal = turn.goal, turn'.address = turn.address,
           turn'.hop \in 1..Hops, turn'.hop <= turn.goal,
           turn'.step # "dial" => stream'.at = turn'.hop,
           turn'.step = "ask" => turn'.hop < turn.goal,
           turn'.step = "associate" => turn'.hop = turn.goal,
           way.aim # "tunnel" => turn'.step # "request"
    PROVE  TunnelInv'
<1>1. Hops' = Hops /\ Target' = Target /\ LocalTarget' = LocalTarget
      /\ \A h : IsSocks(h)' = IsSocks(h)
  BY DEF Hops, Target, LocalTarget, Hop, IsSocks
<1>2. TunnelTypes' /\ Verdicts' /\ Datagrams'
  BY <1>1 DEF TunnelInv, TunnelTypes, Verdicts, Datagrams, OnItsWay
<1>3. Negotiating'
  BY <1>1 DEF TunnelInv, Negotiating
<1>4. Refusals'
  BY <1>1 DEF TunnelInv, Refusals
<1>5. QED
  BY <1>2, <1>3, <1>4 DEF TunnelInv

(* A hop that has connected is followed by the next, or by the target.     *)
LEMMA HopConnectedInv ==
    ASSUME TunnelInv, verdict = "pending", turn.step \in {"request", "ask"},
           HopConnected(turn.hop), UNCHANGED <<way, datagram, controls, relays>>,
           CredentialsToTheirHop'
    PROVE  TunnelInv'
<1>1. /\ way \in Ways /\ turn \in TurnType /\ turn.hop \in 1..Hops /\ turn.hop <= turn.goal
      /\ stream.at = turn.hop /\ turn.goal \in Nat
      /\ way.aim = "tunnel" => turn.goal = Target
      /\ way.aim # "tunnel" => turn.step # "request" /\ turn.goal \in 1..Hops
      /\ turn.step = "ask" => turn.hop < turn.goal
  BY DEF TunnelInv, TunnelTypes, Negotiating, TurnType
<1>2. Hops' = Hops /\ Target' = Target /\ LocalTarget' = LocalTarget
  BY DEF Hops, Target, LocalTarget, Hop
<1>3. CASE turn.hop + 1 = turn.goal /\ turn.goal = Target
  <2>1. /\ verdict' = "tunnel" /\ turn' = turn /\ stream'.at = Target
        /\ stream'.unread = stream'.early
        /\ stream' \in [at : Nat, unread : Nat, early : Nat]
    BY <1>1, <1>3, WayFacts DEF HopConnected, ReadAnswer
  <2>2. QED
    BY <1>2, <2>1 DEF TunnelInv, TunnelTypes, Negotiating, Refusals, Verdicts, Datagrams,
       OnItsWay
<1>4. CASE ~(turn.hop + 1 = turn.goal /\ turn.goal = Target)
  <2> DEFINE h == turn.hop + 1
             f == FirstStep(h)
  <2>1. h \in 1..Hops /\ h \in Nat /\ h <= turn.goal /\ f \in {"request", "greet"}
    BY <1>1, <1>4, WayFacts
  <2>2. way.aim # "tunnel" => f = "greet"
    BY <2>1, <1>1, WayFacts DEF TunnelInv, Negotiating
  <2>3. /\ verdict' = verdict /\ refused' = refused
        /\ stream' = [stream EXCEPT !.at = h]
        /\ turn' = [turn EXCEPT !.hop = h, !.step = f]
    BY <1>4 DEF HopConnected
  <2> HIDE DEF h, f
  <2>4. /\ turn' \in TurnType /\ turn'.goal = turn.goal /\ turn'.address = turn.address
        /\ turn'.hop = h /\ turn'.step = f
    <3>1. f \in TunnelSteps
      BY <2>1 DEF TunnelSteps
    <3>2. QED
      BY <1>1, <2>1, <2>3, <3>1 DEF TurnType
  <2>5. stream'.at = h /\ stream' \in [at : Nat, unread : Nat, early : Nat]
    BY <1>1, <2>1, <2>3, WayFacts DEF TunnelInv, TunnelTypes
  <2>6. QED
    BY <2>1, <2>2, <2>3, <2>4, <2>5, TurnInv
<1>5. QED
  BY <1>3, <1>4

(* Dialing the first hop.                                                  *)
LEMMA DialFirstHopInv == TunnelInv /\ DialFirstHop => TunnelInv'
<1> SUFFICES ASSUME TunnelInv, DialFirstHop PROVE TunnelInv'
  OBVIOUS
<1>1. /\ verdict = "pending" /\ UNCHANGED <<way, told, relays, datagram>>
      /\ way \in Ways /\ turn \in TurnType
      /\ CredentialsToTheirHop'
  BY DEF DialFirstHop, TunnelInv, TunnelTypes, CredentialsToTheirHop
<1>2. CASE /\ stream' = [at |-> 1, unread |-> 0, early |-> 0]
           /\ turn' = [turn EXCEPT !.step = FirstStep(1), !.hop = 1]
           /\ UNCHANGED <<refused, controls, verdict>>
  <2> DEFINE f == FirstStep(1)
  <2>1. 1 \in 1..Hops /\ f \in {"request", "greet"} /\ (way.aim # "tunnel" => f = "greet")
    BY <1>1, WayFacts DEF TunnelInv, Negotiating
  <2>2. 1 <= turn.goal
    BY <1>1, WayFacts DEF TunnelInv, Negotiating
  <2> HIDE DEF f
  <2>3. /\ turn' \in TurnType /\ turn'.goal = turn.goal /\ turn'.address = turn.address
        /\ turn'.hop = 1 /\ turn'.step = f
    BY <1>1, <1>2, <2>1 DEF TurnType, TunnelSteps, f
  <2>4. stream' \in [at : Nat, unread : Nat, early : Nat] /\ stream'.at = 1
    BY <1>2
  <2>5. QED
    BY <1>1, <1>2, <2>1, <2>2, <2>3, <2>4, TurnInv
<1>3. CASE TunnelFails
  BY <1>1, <1>3, TunnelFailsInv
<1>4. QED
  BY <1>2, <1>3 DEF DialFirstHop

(* CONNECT, and its answer.                                                *)
LEMMA HttpConnectInv == TunnelInv /\ HttpConnect => TunnelInv'
<1> SUFFICES ASSUME TunnelInv, HttpConnect PROVE TunnelInv'
  OBVIOUS
<1>1. /\ verdict = "pending" /\ turn.step = "request" /\ UNCHANGED <<way, relays, datagram>>
      /\ way \in Ways /\ turn \in TurnType /\ Tells(turn.hop)
  BY DEF HttpConnect, TunnelInv, TunnelTypes
<1>2. CredentialsToTheirHop'
  BY <1>1, TellsInv
<1>3. CASE HopConnected(turn.hop) /\ UNCHANGED controls
  BY <1>1, <1>2, <1>3, HopConnectedInv
<1>4. CASE /\ turn' = [turn EXCEPT !.step = "dial", !.retried = TRUE]
           /\ stream' = Closed /\ UNCHANGED <<refused, controls, verdict>>
  <2>1. /\ turn' \in TurnType /\ turn'.goal = turn.goal /\ turn'.address = turn.address
        /\ turn'.hop = turn.hop /\ turn'.step = "dial"
    BY <1>1, <1>4 DEF TurnType, TunnelSteps
  <2>2. stream' \in [at : Nat, unread : Nat, early : Nat]
    BY <1>4 DEF Closed
  <2>3. QED
    BY <1>1, <1>2, <1>4, <2>1, <2>2, TurnInv DEF TunnelInv, Negotiating
<1>5. CASE TunnelFails
  BY <1>1, <1>2, <1>5, TunnelFailsInv
<1>6. QED
  BY <1>3, <1>4, <1>5 DEF HttpConnect

(* The command of a hop is ASSOCIATE exactly at the goal.                  *)
LEMMA CommandInv ==
    ASSUME TunnelInv, verdict = "pending", turn.step # "dial", CredentialsToTheirHop',
           UNCHANGED <<way, stream, refused, controls, relays, datagram, verdict>>,
           NEW c \in {Command, "auth"}, turn' = [turn EXCEPT !.step = c]
    PROVE  TunnelInv'
<1>1. way \in Ways /\ turn \in TurnType /\ stream' \in [at : Nat, unread : Nat, early : Nat]
  BY DEF TunnelInv, TunnelTypes
<1>2. /\ turn.hop \in 1..Hops /\ turn.hop <= turn.goal /\ turn.goal \in Nat /\ Hops \in Nat
      /\ stream'.at = turn.hop
  BY <1>1, WayFacts DEF TunnelInv, Negotiating, TurnType
<1>3. /\ c \in {"ask", "associate", "auth"} /\ (c = "ask" => turn.hop < turn.goal)
      /\ c = "associate" => turn.hop = turn.goal
  BY <1>2 DEF Command
<1>4. /\ turn' \in TurnType /\ turn'.goal = turn.goal /\ turn'.address = turn.address
      /\ turn'.hop = turn.hop /\ turn'.step = c
  BY <1>1, <1>3 DEF TurnType, TunnelSteps
<1>5. QED
  BY <1>1, <1>2, <1>3, <1>4, TurnInv

(* The greeting of SOCKS5, and its authentication.                         *)
LEMMA SocksInv == TunnelInv /\ (SocksGreet \/ SocksAuth) => TunnelInv'
<1> SUFFICES ASSUME TunnelInv, SocksGreet \/ SocksAuth PROVE TunnelInv'
  OBVIOUS
<1>1. /\ verdict = "pending" /\ turn.step # "dial" /\ UNCHANGED <<way, relays, datagram>>
  BY DEF SocksGreet, SocksAuth
<1>2. CredentialsToTheirHop'
  <2>1. CASE SocksGreet
    BY <2>1 DEF SocksGreet, TunnelInv, CredentialsToTheirHop
  <2>2. CASE SocksAuth
    BY <1>1, <2>2, TellsInv DEF SocksAuth
  <2>3. QED
    BY <2>1, <2>2
<1>3. CASE TunnelFails
  BY <1>1, <1>2, <1>3, TunnelFailsInv
<1>4. CASE /\ \E c \in {Command, "auth"} : turn' = [turn EXCEPT !.step = c]
           /\ UNCHANGED <<stream, refused, controls, verdict>>
  BY <1>1, <1>2, <1>4, CommandInv
<1>5. QED
  BY <1>3, <1>4 DEF SocksGreet, SocksAuth

(* The next address, once the last hop could not reach the one before.     *)
LEMMA NextAddressInv ==
    ASSUME TunnelInv, verdict = "pending", turn.step = "ask", turn.hop = Hops, LocalTarget,
           NextAddress, UNCHANGED <<way, told, controls, relays, datagram>>
    PROVE  TunnelInv'
<1>1. /\ way \in Ways /\ Hops \in Nat /\ Hops >= 1 /\ turn.hop < turn.goal
      /\ Target = Hops + 1 /\ way.addresses \in Nat
  BY WayFacts DEF TunnelInv, TunnelTypes, Negotiating
<1>2. way.aim = "tunnel"
  BY <1>1 DEF TunnelInv, Negotiating
<1>3. turn.address \in 1..way.addresses /\ refused = 1..(turn.address - 1)
  BY <1>2 DEF TunnelInv, Refusals
<1>4. refused' = 1..turn.address
  BY <1>3 DEF NextAddress
<1>5. Hops' = Hops /\ Target' = Target /\ LocalTarget' = LocalTarget
  BY DEF Hops, Target, LocalTarget, Hop
<1>6. stream' \in [at : Nat, unread : Nat, early : Nat]
  BY DEF NextAddress, Closed
<1>7. CredentialsToTheirHop' /\ Datagrams'
  BY <1>5 DEF TunnelInv, CredentialsToTheirHop, Datagrams, OnItsWay
<1>8. CASE turn.address < way.addresses
  <2> DEFINE x == Attempt(Target, turn.address + 1)
  <2>1. turn' = x /\ verdict' = "pending"
    BY <1>8 DEF NextAddress
  <2>2. /\ x \in TurnType /\ x.step = "dial" /\ x.hop = 1 /\ x.goal = Target
        /\ x.address = turn.address + 1
    BY <1>1, <1>3 DEF Attempt, TurnType, TunnelSteps
  <2> HIDE DEF x
  <2>3. TunnelTypes' /\ Verdicts'
    BY <1>6, <2>1, <2>2 DEF TunnelInv, TunnelTypes, Verdicts
  <2>4. Negotiating'
    BY <1>1, <1>2, <1>5, <2>1, <2>2 DEF Negotiating
  <2>5. Refusals'
    <3>1. /\ turn.address + 1 \in 1..way.addresses
          /\ refused' = 1..((turn.address + 1) - 1)
      BY <1>1, <1>3, <1>4, <1>8
    <3>2. QED
      BY <2>1, <2>2, <3>1 DEF Refusals
  <2>6. QED
    BY <1>7, <2>3, <2>4, <2>5 DEF TunnelInv
<1>9. CASE ~(turn.address < way.addresses)
  <2>1. turn' = turn /\ verdict' = "exhausted" /\ turn.address = way.addresses
    BY <1>1, <1>3, <1>9 DEF NextAddress
  <2>2. QED
    BY <1>4, <1>6, <1>7, <2>1 DEF TunnelInv, TunnelTypes, Verdicts, Negotiating, Refusals
<1>10. QED
  BY <1>8, <1>9

(* CONNECT of SOCKS5, and its reply.                                       *)
LEMMA SocksConnectInv == TunnelInv /\ SocksConnect => TunnelInv'
<1> SUFFICES ASSUME TunnelInv, SocksConnect PROVE TunnelInv'
  OBVIOUS
<1>1. /\ verdict = "pending" /\ turn.step = "ask" /\ UNCHANGED <<way, told, relays, datagram>>
      /\ CredentialsToTheirHop'
  BY DEF SocksConnect, TunnelInv, CredentialsToTheirHop
<1>2. CASE HopConnected(turn.hop) /\ UNCHANGED controls
  BY <1>1, <1>2, HopConnectedInv
<1>3. CASE turn.hop = Hops /\ LocalTarget /\ NextAddress /\ UNCHANGED controls
  BY <1>1, <1>3, NextAddressInv
<1>4. CASE TunnelFails
  BY <1>1, <1>4, TunnelFailsInv
<1>5. QED
  BY <1>2, <1>3, <1>4 DEF SocksConnect

(* A control connection and a relay more.                                  *)
LEMMA UdpAssociateInv == TunnelInv /\ UdpAssociate => TunnelInv'
<1> SUFFICES ASSUME TunnelInv, UdpAssociate PROVE TunnelInv'
  OBVIOUS
<1>1. /\ verdict = "pending" /\ turn.step = "associate" /\ UNCHANGED <<way, told, datagram>>
      /\ CredentialsToTheirHop' /\ way \in Ways /\ turn \in TurnType
  BY DEF UdpAssociate, TunnelInv, TunnelTypes, CredentialsToTheirHop
<1>2. CASE TunnelFails /\ UNCHANGED relays
  BY <1>1, <1>2, TunnelFailsInv
<1>3. CASE /\ \E concrete \in BOOLEAN :
                relays' = Append(relays, IF turn.hop = 1 THEN resolve_first_relay(concrete)
                                                         ELSE resolve_inner_relay(concrete))
           /\ controls' = Append(controls, stream.at)
           /\ IF turn.goal < Hops
              THEN turn' = Attempt(turn.goal + 1, 1) /\ UNCHANGED verdict
              ELSE verdict' = "associated" /\ UNCHANGED turn
           /\ stream' = Closed /\ UNCHANGED refused
  <2> DEFINE g == turn.goal
  <2>1. /\ turn.hop = g /\ stream.at = g /\ g \in Nat /\ g \in 1..Hops /\ Hops \in Nat
        /\ Target = Hops + 1
    BY <1>1, WayFacts DEF TunnelInv, Negotiating, TurnType
  <2>2. way.aim # "tunnel"
    BY <1>1, <2>1 DEF TunnelInv, Negotiating
  <2>3. /\ controls = Parties(g - 1) /\ relays = Parties(g - 1)
        /\ \A h \in 1..Hops : IsSocks(h)
    BY <1>1, <2>2 DEF TunnelInv, Negotiating
  <2>4. controls' = Append(controls, g) /\ relays' = Append(relays, g)
    BY <1>3, <2>1 DEF resolve_first_relay, resolve_inner_relay
  <2>5. Append(Parties(g - 1), g) = Parties(g)
    <3>1. g - 1 \in Nat /\ (g - 1) + 1 = g
      BY <2>1
    <3>2. QED
      BY <3>1, OneMoreParty
  <2>6. controls' = Parties(g) /\ relays' = Parties(g)
    BY <2>3, <2>4, <2>5
  <2>7. /\ Hops' = Hops /\ Target' = Target /\ \A h : IsSocks(h)' = IsSocks(h)
    BY <1>1 DEF Hops, Target, Hop, IsSocks
  <2>8. stream' \in [at : Nat, unread : Nat, early : Nat] /\ Datagrams'
    BY <1>1, <1>3, <2>7 DEF Closed, TunnelInv, Datagrams, OnItsWay
  <2>9. CASE g < Hops
    <3> DEFINE x == Attempt(g + 1, 1)
    <3>1. turn' = x /\ verdict' = "pending"
      BY <1>1, <1>3, <2>9
    <3>2. /\ x \in TurnType /\ x.step = "dial" /\ x.hop = 1 /\ x.goal = g + 1
          /\ x.address = 1
      BY <2>1 DEF Attempt, TurnType, TunnelSteps
    <3> HIDE DEF x
    <3>3. TunnelTypes' /\ Verdicts' /\ Refusals'
      BY <1>1, <2>2, <2>8, <3>1, <3>2 DEF TunnelInv, TunnelTypes, Verdicts, Refusals
    <3>4. g + 1 \in 1..Hops /\ (g + 1) - 1 = g /\ 1 \in 1..Hops /\ 1 <= g + 1
      BY <2>1, <2>9
    <3> HIDE DEF g
    <3>5. Negotiating'
      BY <1>1, <2>2, <2>3, <2>6, <2>7, <3>1, <3>2, <3>4 DEF Negotiating
    <3>6. QED
      BY <1>1, <2>8, <3>3, <3>5 DEF TunnelInv
  <2>10. CASE ~(g < Hops)
    <3>1. turn' = turn /\ verdict' = "associated" /\ g = Hops
      BY <1>3, <2>1, <2>10
    <3> HIDE DEF g
    <3>2. QED
      BY <1>1, <2>6, <2>7, <2>8, <3>1
      DEF TunnelInv, TunnelTypes, Verdicts, Negotiating, Refusals
  <2>11. QED
    BY <2>9, <2>10
<1>4. QED
  BY <1>2, <1>3 DEF UdpAssociate

(* A datagram starts behind the first relay with the hops that remain.     *)
LEMMA SendDatagramInv == TunnelInv /\ SendDatagram => TunnelInv'
<1> SUFFICES ASSUME TunnelInv, SendDatagram PROVE TunnelInv'
  OBVIOUS
<1>1. /\ UNCHANGED <<way, stream, turn, refused, told, controls, relays, verdict>>
      /\ relays = Parties(Hops) /\ Hops \in Nat /\ Hops >= 1 /\ Target = Hops + 1
  BY WayFacts DEF SendDatagram, TunnelInv, TunnelTypes, Verdicts
<1>2. relays \in Seq(Nat) /\ Len(relays) = Hops /\ \A i \in 1..Hops : relays[i] = i
  BY <1>1, OneMoreParty
<1> DEFINE t == Tail(relays)
           e == t \o <<Target>>
<1>3. /\ t \in Seq(Nat) /\ Len(t) = Hops - 1
      /\ \A i \in 1..(Hops - 1) : t[i] = relays[i + 1]
  BY <1>1, <1>2
<1> HIDE DEF t
<1>4. /\ e \in Seq(Nat) /\ Len(e) = Hops
      /\ \A i \in 1..Hops : e[i] = IF i <= Hops - 1 THEN t[i] ELSE Target
  <2>1. <<Target>> \in Seq(Nat) /\ Len(<<Target>>) = 1 /\ <<Target>>[1] = Target
    BY <1>1
  <2>2. /\ e \in Seq(Nat) /\ Len(e) = Hops
        /\ \A i \in 1..(Len(t) + 1) :
              e[i] = IF i <= Len(t) THEN t[i] ELSE <<Target>>[i - Len(t)]
    BY <1>1, <1>3, <2>1, ConcatProperties
  <2>3. QED
    BY <1>1, <1>3, <2>1, <2>2
<1> HIDE DEF e
<1>5. \A i \in 1..Hops : e[i] = i + 1
  <2>1. SUFFICES ASSUME NEW i \in 1..Hops PROVE e[i] = i + 1
    OBVIOUS
  <2>2. CASE i <= Hops - 1
    <3>1. i \in 1..(Hops - 1) /\ i + 1 \in 1..Hops
      BY <1>1, <2>2
    <3>2. QED
      BY <1>2, <1>3, <1>4, <2>2, <3>1
  <2>3. CASE ~(i <= Hops - 1)
    <3>1. i = Hops
      BY <1>1, <2>3
    <3>2. QED
      BY <1>1, <1>4, <2>3, <3>1
  <2>4. QED
    BY <2>2, <2>3
<1>6. datagram' = [headers |-> e, at |-> relays[1], trace |-> <<relays[1]>>]
  BY DEF SendDatagram, encode_socks5_udp_nested, e, t
<1>7. /\ datagram'.headers = e /\ datagram'.trace = <<1>>
  BY <1>1, <1>2, <1>6
<1>8. OnItsWay(datagram)'
  BY <1>1, <1>4, <1>5, <1>7 DEF OnItsWay, Target, Hops
<1>9. <<1>> \in Seq(Nat)
  OBVIOUS
<1>10. QED
  BY <1>1, <1>4, <1>7, <1>8, <1>9
  DEF TunnelInv, TunnelTypes, Negotiating, Refusals, Verdicts, Datagrams,
      CredentialsToTheirHop, Target, Hops, LocalTarget, Hop, IsSocks

(* A relay passes on what it strips its own header from.                   *)
LEMMA ForwardInv == TunnelInv /\ ForwardDatagram => TunnelInv'
<1> SUFFICES ASSUME TunnelInv, ForwardDatagram PROVE TunnelInv'
  OBVIOUS
<1> DEFINE h == datagram.headers
           t == datagram.trace
           x == Head(h)
           h1 == Tail(h)
           t1 == Append(t, x)
<1>1. /\ UNCHANGED <<way, stream, turn, refused, told, controls, relays, verdict>>
      /\ h \in Seq(Nat) /\ t \in Seq(Nat) /\ h # <<>>
      /\ datagram'.headers = h1 /\ datagram'.trace = t1
  BY DEF ForwardDatagram, TunnelInv, TunnelTypes
<1> HIDE DEF h, t
<1>2. /\ x \in Nat /\ x = h[1] /\ Len(h) >= 1 /\ Len(h) \in Nat
      /\ h1 \in Seq(Nat) /\ Len(h1) = Len(h) - 1
      /\ \A i \in 1..(Len(h) - 1) : h1[i] = h[i + 1]
  BY <1>1
<1> HIDE DEF x, h1
<1>3. /\ t1 \in Seq(Nat) /\ Len(t1) = Len(t) + 1 /\ Len(t) \in Nat /\ t1[Len(t) + 1] = x
      /\ \A i \in 1..Len(t) : t1[i] = t[i]
  BY <1>1, <1>2
<1> HIDE DEF t1
<1>4. ASSUME OnItsWay(datagram) PROVE OnItsWay(datagram)'
  <2>1. /\ Len(t) + Len(h) = Target /\ \A i \in 1..Len(t) : t[i] = i
        /\ \A i \in 1..Len(h) : h[i] = Len(t) + i
    BY <1>4 DEF OnItsWay, h, t
  <2>2. Target' = Target
    BY <1>1 DEF Target, Hops
  <2>3. Len(t1) + Len(h1) = Target
    BY <1>2, <1>3, <2>1
  <2>4. ASSUME NEW i \in 1..Len(t1) PROVE t1[i] = i
    <3>1. i \in 1..Len(t) \/ i = Len(t) + 1
      BY <1>3
    <3>2. x = Len(t) + 1
      BY <1>2, <1>3, <2>1
    <3>3. QED
      BY <1>3, <2>1, <3>1, <3>2
  <2>5. ASSUME NEW i \in 1..Len(h1) PROVE h1[i] = Len(t1) + i
    <3>1. i \in 1..(Len(h) - 1) /\ i + 1 \in 1..Len(h)
      BY <1>2
    <3>2. h1[i] = Len(t) + (i + 1)
      BY <1>2, <2>1, <3>1
    <3>3. QED
      BY <1>3, <3>1, <3>2
  <2>6. QED
    BY <1>1, <2>2, <2>3, <2>4, <2>5 DEF OnItsWay
<1>5. datagram # NoDatagram
  BY <1>1 DEF NoDatagram, h
<1>6. Datagrams'
  BY <1>1, <1>4, <1>5 DEF TunnelInv, Datagrams
<1>7. QED
  BY <1>1, <1>2, <1>3, <1>6
  DEF TunnelInv, TunnelTypes, Negotiating, Refusals, Verdicts,
      CredentialsToTheirHop, Target, Hops, LocalTarget, Hop, IsSocks

(* A step that leaves the negotiation and the datagram alone and changes   *)
(* the verdict on an association.                                          *)
LEMMA VerdictInv ==
    ASSUME TunnelInv, UNCHANGED <<way, stream, turn, refused, told, relays, datagram>>,
           \/ verdict' \in {"associate_ok", "relay_ok", "failed"}
           \/ /\ verdict = "associated" /\ verdict' = "answered"
              /\ UNCHANGED controls
           \/ UNCHANGED <<verdict, controls>>
    PROVE  TunnelInv'
<1>1. Hops' = Hops /\ Target' = Target /\ LocalTarget' = LocalTarget
      /\ \A h : IsSocks(h)' = IsSocks(h)
  BY DEF Hops, Target, LocalTarget, Hop, IsSocks
<1>2. TunnelTypes' /\ Datagrams' /\ CredentialsToTheirHop'
  BY <1>1 DEF TunnelInv, TunnelTypes, Datagrams, OnItsWay, CredentialsToTheirHop
<1>3. Negotiating'
  BY <1>1 DEF TunnelInv, Negotiating
<1>4. Refusals' /\ Verdicts'
  BY <1>1 DEF TunnelInv, Refusals, Verdicts
<1>5. QED
  BY <1>2, <1>3, <1>4 DEF TunnelInv

(* A way through proxies is negotiated hop by hop, whatever fails.         *)
THEOREM TunnelInvariance == TunnelSpec => []TunnelInv
<1>1. TunnelInit => TunnelInv
  <2> SUFFICES ASSUME TunnelInit PROVE TunnelInv
    OBVIOUS
  <2> DEFINE g == IF way.aim = "tunnel" THEN Target ELSE 1
  <2>1. way \in Ways /\ turn = Attempt(g, 1) /\ datagram = NoDatagram /\ stream = Closed
        /\ told = {} /\ refused = {} /\ verdict \in {"pending", "failed"}
        /\ controls = <<>> /\ relays = <<>>
    BY DEF TunnelInit
  <2>2. /\ Hops \in Nat /\ Hops >= 1 /\ Target = Hops + 1 /\ way.addresses \in Nat
        /\ DOMAIN way.hops = 1..Hops
    BY <2>1, WayFacts
  <2>3. g \in Nat /\ g >= 1
    BY <2>2
  <2>4. /\ turn \in TurnType /\ turn.step = "dial" /\ turn.hop = 1 /\ turn.goal = g
        /\ turn.address = 1
    <3> HIDE DEF g
    <3>1. QED
      BY <2>1, <2>3 DEF Attempt, TurnType, TunnelSteps
  <2>5. TunnelTypes
    BY <2>1, <2>4 DEF TunnelTypes, NoDatagram, Closed
  <2>6. Parties(0) = <<>>
    BY DEF Parties
  <2>7. verdict = "pending" /\ way.aim # "tunnel" => \A h \in 1..Hops : IsSocks(h)
    BY <2>2 DEF TunnelInit
  <2>8. Negotiating
    BY <2>1, <2>2, <2>4, <2>6, <2>7 DEF Negotiating
  <2>9. Refusals
    BY <2>1, <2>2, <2>4 DEF Refusals, TunnelInit
  <2>10. QED
    BY <2>1, <2>5, <2>8, <2>9 DEF TunnelInv, Verdicts, Datagrams, CredentialsToTheirHop
<1>2. TunnelInv /\ [TunnelNext]_tunnel_vars => TunnelInv'
  <2> SUFFICES ASSUME TunnelInv, [TunnelNext]_tunnel_vars PROVE TunnelInv'
    OBVIOUS
  <2>1. CASE DialFirstHop \/ HttpConnect \/ SocksGreet \/ SocksAuth \/ SocksConnect
    BY <2>1, DialFirstHopInv, HttpConnectInv, SocksInv, SocksConnectInv
  <2>2. CASE UdpAssociate \/ SendDatagram \/ ForwardDatagram
    BY <2>2, UdpAssociateInv, SendDatagramInv, ForwardInv
  <2>3. CASE ProbeDatagram
    <3> DEFINE d == [headers |-> <<Target>>, at |-> relays[1], trace |-> <<relays[1]>>]
    <3>1. /\ UNCHANGED <<way, stream, turn, refused, told, controls, relays, verdict>>
          /\ relays = Parties(Hops) /\ Hops \in Nat /\ Hops >= 1 /\ Target \in Nat
          /\ way.aim = "probe" /\ datagram' = d
      BY <2>3, WayFacts DEF ProbeDatagram, TunnelInv, TunnelTypes, Verdicts
    <3>2. relays[1] \in Nat
      <4>1. 1 \in 1..Hops /\ Parties(Hops)[1] = 1
        BY <3>1, OneMoreParty
      <4>2. QED
        BY <3>1, <4>1
    <3>3. d.headers \in Seq(Nat) /\ d.trace \in Seq(Nat)
      BY <3>1, <3>2
    <3> HIDE DEF d
    <3>4. QED
      BY <3>1, <3>3 DEF TunnelInv, TunnelTypes, Negotiating, Refusals, Verdicts, Datagrams,
         CredentialsToTheirHop, Target, Hops, LocalTarget, Hop, IsSocks
  <2>4. CASE ProbeAssociateOnly \/ ReceiveReply
    BY <2>4, VerdictInv DEF ProbeAssociateOnly, ReceiveReply
  <2>5. CASE TunnelTimeout
    BY <2>5, TunnelFailsInv DEF TunnelTimeout, TunnelInv, CredentialsToTheirHop
  <2>6. CASE UNCHANGED tunnel_vars
    BY <2>6, VerdictInv DEF tunnel_vars
  <2>7. QED
    BY <2>1, <2>2, <2>3, <2>4, <2>5, <2>6 DEF TunnelNext
<1>3. QED
  BY <1>1, <1>2, PTL DEF TunnelSpec

(* Through any chain of any length: credentials go to their own hop, a     *)
(* tunnel ends at the target with nothing of it lost, all addresses were   *)
(* refused when it says so, an association has every control connection,   *)
(* and a datagram visits the hops in their order.                          *)
THEOREM TunnelIsSound == TunnelSpec => []TunnelSound
<1>1. TunnelInv => TunnelSound
  <2> SUFFICES ASSUME TunnelInv PROVE TunnelSound
    OBVIOUS
  <2> DEFINE t == datagram.trace
             p == Parties(Target)
  <2>1. Target \in Nat /\ t \in Seq(Nat) /\ datagram.headers \in Seq(Nat)
    BY WayFacts DEF TunnelInv, TunnelTypes
  <2>2. p \in Seq(Nat) /\ Len(p) = Target /\ \A i \in 1..Target : p[i] = i
    BY <2>1, OneMoreParty
  <2>3. ASSUME way.aim = "udp" PROVE IsPrefix(t, p)
    <3>1. t = <<>> \/ OnItsWay(datagram)
      BY <2>3 DEF TunnelInv, Datagrams, NoDatagram
    <3>2. Len(t) \in Nat /\ Len(t) <= Len(p) /\ \A i \in 1..Len(t) : t[i] = p[i]
      <4>1. CASE t = <<>>
        BY <2>1, <2>2, <4>1
      <4>2. CASE OnItsWay(datagram)
        <5> DEFINE h == datagram.headers
        <5>1. Len(t) + Len(h) = Target /\ \A i \in 1..Len(t) : t[i] = i
          BY <4>2 DEF OnItsWay
        <5> HIDE DEF t, h, p
        <5>2. Len(t) \in Nat /\ Len(h) \in Nat
          BY <2>1 DEF h
        <5>3. QED
          BY <2>1, <2>2, <5>1, <5>2
      <4>3. QED
        BY <3>1, <4>1, <4>2
    <3> HIDE DEF t, p
    <3>3. SubSeq(t, 1, Len(t)) = SubSeq(p, 1, Len(t))
      <4> DEFINE a == SubSeq(t, 1, Len(t))
                 b == SubSeq(p, 1, Len(t))
      <4>1. a \in Seq(Nat) /\ Len(a) = Len(t) /\ \A i \in 1..Len(t) : a[i] = t[i]
        BY <2>1, <3>2
      <4>2. b \in Seq(Nat) /\ Len(b) = Len(t) /\ \A i \in 1..Len(t) : b[i] = p[i]
        BY <2>2, <3>2
      <4> HIDE DEF a, b
      <4>3. a = b
        BY <3>2, <4>1, <4>2, SeqEqual
      <4>4. QED
        BY <4>3 DEF a, b
    <3>4. QED
      BY <3>2, <3>3 DEF IsPrefix
  <2>4. QED
    BY <2>3 DEF TunnelInv, Verdicts, TunnelSound
<1>2. QED
  BY <1>1, TunnelInvariance, PTL

-----------------------------------------------------------------------------
(* The permits of the proxy pool                                           *)

Holding == {"drawing", "checking", "using"}
Holders(f) == {u \in Users : f[u] \in Holding}
Keepers(f) == {u \in Users : f[u] # <<>>}

\* Who waits, once each, is who is in the queue.
Waits(q, u) == \E i \in DOMAIN q : q[i] = u
OneTurn(q) == \A i, j \in DOMAIN q : q[i] = q[j] => i = j
InLine(q, f) == \A u \in Users : f[u] = "queued" <=> Waits(q, u)

Kept == {<<>>} \cup {<<g>> : g \in Guard}

PermitTypes ==
    /\ free_permits \in Nat /\ waiters \in Seq(Users) /\ at \in [Users -> Places]
    /\ proxy \in [Users -> Guard] /\ old \in [Users -> Kept]
    /\ tries \in [Users -> 0..NumProxies] /\ cursor \in Proxies
    /\ idle \in Seq(Guard) /\ aged \in 0..Len(idle) /\ returning \in Seq(Guard)

Balance ==
    free_permits + Cardinality(Holders(at)) + Cardinality(Keepers(old))
      + Len(idle) + Len(returning) = MaxProxies

PermitInv ==
    /\ PermitTypes /\ OneTurn(waiters) /\ InLine(waiters, at) /\ Balance
    /\ waiters # <<>> => free_permits = 0

(* The first n of a sequence without repetition are n.                     *)
LEMMA FirstOnes ==
    ASSUME NEW S, NEW q \in Seq(S), NEW n \in 0..Len(q), OneTurn(q)
    PROVE  /\ IsFiniteSet({q[i] : i \in 1..n}) /\ Cardinality({q[i] : i \in 1..n}) = n
<1> DEFINE T == {q[i] : i \in 1..n}
           f == [i \in 1..n |-> q[i]]
<1>1. n \in Nat /\ 1..n \subseteq DOMAIN q
  OBVIOUS
<1>2. f \in [1..n -> T] /\ \A t \in T : \E i \in 1..n : f[i] = t
  OBVIOUS
<1>3. \A i, j \in 1..n : f[i] = f[j] => i = j
  BY <1>1 DEF OneTurn
<1> HIDE DEF T, f
<1>4. f \in Bijection(1..n, T)
  BY <1>2, <1>3 DEF Bijection, Injection, Surjection, IsInjective
<1>5. ExistsBijection(1..n, T)
  BY <1>4 DEF ExistsBijection
<1>6. IsFiniteSet(1..n) /\ Cardinality(1..n) = n
  BY <1>1, FS_Interval
<1>7. IsFiniteSet(T) /\ Cardinality(T) = n
  BY <1>5, <1>6, FS_Bijection
<1>8. QED
  BY <1>7 DEF T

(* The sets of tasks are finite.                                           *)
LEMMA TasksFinite ==
    ASSUME NEW f
    PROVE  Cardinality(Holders(f)) \in Nat /\ Cardinality(Keepers(f)) \in Nat
BY ProxyPoolAssumption, FS_Subset, FS_CardinalityType DEF Holders, Keepers

(* Their numbers change together with the permits that are free, with the  *)
(* idle sessions and with those on their way back.                         *)
LEMMA InBalance ==
    ASSUME PermitTypes, Balance,
           free_permits' \in Nat, idle' \in Seq(Guard), returning' \in Seq(Guard),
           NEW d \in Int, NEW e \in Int,
           free_permits' + Cardinality(Holders(at')) + Len(idle')
             = free_permits + Cardinality(Holders(at)) + Len(idle) + d,
           Cardinality(Keepers(old')) = Cardinality(Keepers(old)) + e,
           Len(returning') = Len(returning) - d - e
    PROVE  Balance'
<1> DEFINE h == Cardinality(Holders(at))
           k == Cardinality(Keepers(old))
           h1 == Cardinality(Holders(at'))
           k1 == Cardinality(Keepers(old'))
           i == Len(idle)
           i1 == Len(idle')
           r == Len(returning)
           r1 == Len(returning')
           p == free_permits
           p1 == free_permits'
<1>1. h \in Nat /\ k \in Nat /\ h1 \in Nat /\ k1 \in Nat
  BY TasksFinite
<1>2. i \in Nat /\ i1 \in Nat /\ r \in Nat /\ r1 \in Nat /\ p \in Nat /\ p1 \in Nat
  BY DEF PermitTypes
<1>3. /\ p + h + k + i + r = MaxProxies /\ p1 + h1 + i1 = p + h + i + d
      /\ k1 = k + e /\ r1 = r - d - e
  BY DEF Balance
<1>4. MaxProxies \in Nat
  BY ProxyPoolAssumption
<1> HIDE DEF h, k, h1, k1, i, i1, r, r1, p, p1
<1>5. p1 + h1 + k1 + i1 + r1 = MaxProxies
  BY <1>1, <1>2, <1>3, <1>4
<1>6. QED
  BY <1>5 DEF Balance, h1, k1, i1, r1, p1

(* The sets of tasks are finite, and what one task does changes them by    *)
(* that task.                                                              *)
LEMMA HoldersMove ==
    ASSUME NEW f \in [Users -> Places], NEW u \in Users, NEW w \in Places
    PROVE  /\ IsFiniteSet(Holders(f)) /\ Cardinality(Holders(f)) \in Nat
           /\ [f EXCEPT ![u] = w] \in [Users -> Places]
           /\ Cardinality(Holders([f EXCEPT ![u] = w]))
                = Cardinality(Holders(f)) - (IF f[u] \in Holding THEN 1 ELSE 0)
                    + (IF w \in Holding THEN 1 ELSE 0)
<1> DEFINE H == Holders(f)
           g == [f EXCEPT ![u] = w]
<1>1. IsFiniteSet(H) /\ Cardinality(H) \in Nat
  BY ProxyPoolAssumption, FS_Subset, FS_CardinalityType DEF Holders
<1>2. Holders(g) = IF w \in Holding THEN H \cup {u} ELSE H \ {u}
  BY DEF Holders
<1>3. u \in H <=> f[u] \in Holding
  BY DEF Holders
<1> HIDE DEF H
<1>4. /\ Cardinality(H \cup {u}) = IF u \in H THEN Cardinality(H) ELSE Cardinality(H) + 1
      /\ Cardinality(H \ {u}) = IF u \in H THEN Cardinality(H) - 1 ELSE Cardinality(H)
  BY <1>1, FS_AddElement, FS_RemoveElement
<1>5. g \in [Users -> Places]
  OBVIOUS
<1> HIDE DEF g
<1>6. Cardinality(Holders(g)) = Cardinality(H) - (IF f[u] \in Holding THEN 1 ELSE 0)
                                  + (IF w \in Holding THEN 1 ELSE 0)
  BY <1>1, <1>2, <1>3, <1>4
<1>7. QED
  BY <1>1, <1>5, <1>6 DEF H, g

(* The same of the guards kept across acquire_fresh.                       *)
LEMMA KeepersMove ==
    ASSUME NEW f \in [Users -> Kept], NEW u \in Users, NEW w \in Kept
    PROVE  /\ IsFiniteSet(Keepers(f)) /\ Cardinality(Keepers(f)) \in Nat
           /\ [f EXCEPT ![u] = w] \in [Users -> Kept]
           /\ Cardinality(Keepers([f EXCEPT ![u] = w]))
                = Cardinality(Keepers(f)) - (IF f[u] # <<>> THEN 1 ELSE 0)
                    + (IF w # <<>> THEN 1 ELSE 0)
<1> DEFINE H == Keepers(f)
           g == [f EXCEPT ![u] = w]
<1>1. IsFiniteSet(H) /\ Cardinality(H) \in Nat
  BY ProxyPoolAssumption, FS_Subset, FS_CardinalityType DEF Keepers
<1>2. Keepers(g) = IF w # <<>> THEN H \cup {u} ELSE H \ {u}
  BY DEF Keepers
<1>3. u \in H <=> f[u] # <<>>
  BY DEF Keepers
<1> HIDE DEF H
<1>4. /\ Cardinality(H \cup {u}) = IF u \in H THEN Cardinality(H) ELSE Cardinality(H) + 1
      /\ Cardinality(H \ {u}) = IF u \in H THEN Cardinality(H) - 1 ELSE Cardinality(H)
  BY <1>1, FS_AddElement, FS_RemoveElement
<1>5. g \in [Users -> Kept]
  OBVIOUS
<1> HIDE DEF g
<1>6. Cardinality(Keepers(g)) = Cardinality(H) - (IF f[u] # <<>> THEN 1 ELSE 0)
                                  + (IF w # <<>> THEN 1 ELSE 0)
  BY <1>1, <1>2, <1>3, <1>4
<1>7. QED
  BY <1>1, <1>5, <1>6 DEF H, g

\* The semaphore after a step.
Handed ==
    /\ free_permits' \in Nat /\ waiters' \in Seq(Users) /\ at' \in [Users -> Places]
    /\ tries' \in [Users -> 0..NumProxies]
    /\ OneTurn(waiters') /\ InLine(waiters', at')
    /\ waiters' # <<>> => free_permits' = 0

(* What is left of a sequence after its first n.                           *)
LEMMA RestOf ==
    ASSUME NEW S, NEW q \in Seq(S), NEW n \in 0..Len(q)
    PROVE  /\ SubSeq(q, n + 1, Len(q)) \in Seq(S)
           /\ Len(SubSeq(q, n + 1, Len(q))) = Len(q) - n
           /\ \A i \in 1..(Len(q) - n) : SubSeq(q, n + 1, Len(q))[i] = q[i + n]
OBVIOUS

(* The semaphore hands permits to those whose turn it is and makes up and  *)
(* loses none: what is free and what is held stays the same in sum.        *)
LEMMA HandKeeps ==
    ASSUME NEW q \in Seq(Users), NEW free \in Nat, NEW place \in [Users -> Places],
           OneTurn(q), InLine(q, place), tries \in [Users -> 0..NumProxies],
           Hand(q, free, place)
    PROVE  /\ Handed
           /\ free_permits' + Cardinality(Holders(at')) = free + Cardinality(Holders(place))
<1> DEFINE n == least(free, Len(q))
           S == {q[i] : i \in 1..n}
           W == SubSeq(q, n + 1, Len(q))
<1>1. /\ n \in 0..Len(q) /\ n \in Nat /\ n <= free /\ Len(q) \in Nat
      /\ n # Len(q) => n = free
  BY DEF least
<1>2. /\ free_permits' = free - n /\ waiters' = W
      /\ at' = [u \in Users |-> IF u \in S THEN "drawing" ELSE place[u]]
      /\ tries' = [u \in Users |-> IF u \in S THEN NumProxies
                                   ELSE IF InChoice(place[u]) THEN tries[u] ELSE 0]
  BY DEF Hand, Rounds
<1>3. /\ W \in Seq(Users) /\ Len(W) = Len(q) - n
      /\ \A i \in 1..(Len(q) - n) : W[i] = q[i + n]
  <2> HIDE DEF n
  <2>1. QED
    BY <1>1, RestOf
<1> HIDE DEF n, W
<1>4. /\ IsFiniteSet(S) /\ Cardinality(S) = n /\ S \subseteq Users
      /\ \A u \in S : place[u] = "queued"
  <2>1. IsFiniteSet(S) /\ Cardinality(S) = n
    BY <1>1, FirstOnes
  <2>2. \A i \in 1..n : i \in DOMAIN q /\ q[i] \in Users
    BY <1>1
  <2>3. QED
    BY <2>1, <2>2 DEF InLine, Waits
<1>5. /\ free_permits' \in Nat /\ at' \in [Users -> Places]
      /\ tries' \in [Users -> 0..NumProxies]
  BY <1>1, <1>2, ProxyPoolAssumption DEF Places
<1>6. \A i \in 1..(Len(q) - n) : i + n \in DOMAIN q /\ i + n \notin 1..n
  BY <1>1
<1>7. DOMAIN W = 1..(Len(q) - n)
  BY <1>1, <1>3
<1>8. OneTurn(W)
  <2>1. \A i, j \in DOMAIN W : W[i] = W[j] => i + n = j + n
    BY <1>3, <1>6, <1>7 DEF OneTurn
  <2>2. QED
    BY <1>1, <1>7, <2>1 DEF OneTurn
<1>9. ASSUME NEW u \in Users PROVE at'[u] = "queued" <=> Waits(W, u)
  <2>1. at'[u] = "queued" <=> u \notin S /\ Waits(q, u)
    BY <1>2 DEF InLine
  <2>2. ASSUME u \notin S, Waits(q, u) PROVE Waits(W, u)
    <3>1. PICK i \in DOMAIN q : q[i] = u
      BY <2>2 DEF Waits
    <3>2. i \in Nat /\ i > n /\ i <= Len(q)
      BY <1>1, <2>2, <3>1
    <3>3. i - n \in 1..(Len(q) - n) /\ (i - n) + n = i
      BY <1>1, <3>2
    <3>4. QED
      BY <1>3, <1>7, <3>1, <3>3 DEF Waits
  <2>3. ASSUME Waits(W, u) PROVE u \notin S /\ Waits(q, u)
    <3>1. PICK i \in DOMAIN W : W[i] = u
      BY <2>3 DEF Waits
    <3>2. i + n \in DOMAIN q /\ q[i + n] = u /\ i + n \notin 1..n
      BY <1>3, <1>6, <1>7, <3>1
    <3>3. \A j \in 1..n : j \in DOMAIN q /\ q[j] # u
      BY <1>1, <3>2 DEF OneTurn
    <3>4. QED
      BY <3>2, <3>3 DEF Waits
  <2>4. QED
    BY <2>1, <2>2, <2>3
<1>10. Cardinality(Holders(at')) = Cardinality(Holders(place)) + n
       /\ Cardinality(Holders(place)) \in Nat
  <2>1. Holders(at') = Holders(place) \cup S /\ Holders(place) \cap S = {}
    BY <1>2, <1>4 DEF Holders, Holding
  <2>2. IsFiniteSet(Holders(place)) /\ Cardinality(Holders(place)) \in Nat
    BY ProxyPoolAssumption, FS_Subset, FS_CardinalityType DEF Holders
  <2> HIDE DEF S
  <2>3. Cardinality(Holders(place) \cup S)
          = Cardinality(Holders(place)) + Cardinality(S) - Cardinality({})
    BY <1>4, <2>1, <2>2, FS_Union
  <2>4. QED
    BY <1>1, <1>4, <2>1, <2>2, <2>3, FS_EmptySet
<1>11. free_permits' + Cardinality(Holders(at')) = free + Cardinality(Holders(place))
  BY <1>1, <1>2, <1>10
<1>12. W # <<>> => free_permits' = 0
  BY <1>1, <1>2, <1>3
<1>13. QED
  BY <1>2, <1>3, <1>5, <1>8, <1>9, <1>11, <1>12 DEF InLine, Handed

(* A sequence without its p-th element.                                    *)
LEMMA WithoutOne ==
    ASSUME NEW S, NEW q \in Seq(S), NEW p \in DOMAIN q
    PROVE  /\ RemoveAt(q, p) \in Seq(S) /\ Len(RemoveAt(q, p)) = Len(q) - 1
           /\ \A i \in 1..(Len(q) - 1) :
                 RemoveAt(q, p)[i] = IF i < p THEN q[i] ELSE q[i + 1]
<1> DEFINE a == SubSeq(q, 1, p - 1)
           b == SubSeq(q, p + 1, Len(q))
           r == a \o b
<1>1. p \in 1..Len(q) /\ Len(q) \in Nat
  OBVIOUS
<1>2. a \in Seq(S) /\ Len(a) = p - 1 /\ \A i \in 1..(p - 1) : a[i] = q[i]
  BY <1>1
<1>3. /\ b \in Seq(S) /\ Len(b) = Len(q) - p
      /\ \A i \in 1..(Len(q) - p) : b[i] = q[p + 1 + i - 1]
  BY <1>1
<1> HIDE DEF a, b
<1>4. /\ r \in Seq(S) /\ Len(r) = Len(a) + Len(b)
      /\ \A i \in 1..(Len(a) + Len(b)) : r[i] = IF i <= Len(a) THEN a[i] ELSE b[i - Len(a)]
  BY <1>2, <1>3, ConcatProperties
<1> HIDE DEF r
<1>5. ASSUME NEW i \in 1..(Len(q) - 1) PROVE r[i] = IF i < p THEN q[i] ELSE q[i + 1]
  <2>1. CASE i < p
    <3>1. i \in 1..(p - 1) /\ i <= Len(a) /\ i \in 1..(Len(a) + Len(b))
      BY <1>1, <1>2, <1>3, <2>1
    <3>2. QED
      BY <1>2, <1>4, <2>1, <3>1
  <2>2. CASE ~(i < p)
    <3>1. /\ ~(i <= Len(a)) /\ i \in 1..(Len(a) + Len(b)) /\ i - Len(a) \in 1..(Len(q) - p)
          /\ p + 1 + (i - Len(a)) - 1 = i + 1
      BY <1>1, <1>2, <1>3, <2>2, SMTT(40)
    <3>2. QED
      BY <1>3, <1>4, <2>2, <3>1
  <2>3. QED
    BY <2>1, <2>2
<1>6. Len(r) = Len(q) - 1
  BY <1>1, <1>2, <1>3, <1>4
<1>7. QED
  BY <1>4, <1>5, <1>6 DEF RemoveAt, r, a, b

(* A task that joins the queue waits in it, the others as before.          *)
LEMMA JoinsQueue ==
    ASSUME NEW q \in Seq(Users), OneTurn(q), NEW u \in Users, ~Waits(q, u)
    PROVE  /\ Append(q, u) \in Seq(Users) /\ OneTurn(Append(q, u))
           /\ \A v \in Users : Waits(Append(q, u), v) <=> Waits(q, v) \/ v = u
<1> DEFINE a == Append(q, u)
<1>1. /\ a \in Seq(Users) /\ DOMAIN a = 1..(Len(q) + 1) /\ a[Len(q) + 1] = u
      /\ Len(q) \in Nat /\ DOMAIN q = 1..Len(q) /\ \A i \in 1..Len(q) : a[i] = q[i]
  OBVIOUS
<1> HIDE DEF a
<1>2. \A i \in DOMAIN a : i \in 1..Len(q) \/ i = Len(q) + 1
  BY <1>1
<1>3. \A i \in 1..Len(q) : i \in DOMAIN a /\ i # Len(q) + 1 /\ q[i] # u
  BY <1>1 DEF Waits
<1>4. OneTurn(a)
  BY <1>1, <1>2, <1>3 DEF OneTurn
<1>5. \A v \in Users : Waits(a, v) <=> Waits(q, v) \/ v = u
  <2>1. Len(q) + 1 \in DOMAIN a
    BY <1>1
  <2>2. QED
    BY <1>1, <1>2, <1>3, <2>1 DEF Waits
<1>6. QED
  BY <1>1, <1>4, <1>5 DEF a

(* And one that leaves it does not.                                        *)
LEMMA LeavesQueue ==
    ASSUME NEW q \in Seq(Users), OneTurn(q), NEW u \in Users, Waits(q, u)
    PROVE  LET r == RemoveAt(q, CHOOSE i \in DOMAIN q : q[i] = u)
           IN  /\ r \in Seq(Users) /\ OneTurn(r) /\ (r # <<>> => q # <<>>)
               /\ \A v \in Users : Waits(r, v) <=> Waits(q, v) /\ v # u
<1> DEFINE p == CHOOSE i \in DOMAIN q : q[i] = u
           r == RemoveAt(q, p)
<1>1. p \in DOMAIN q /\ q[p] = u
  BY DEF Waits
<1> HIDE DEF p
<1>2. /\ r \in Seq(Users) /\ Len(r) = Len(q) - 1
      /\ \A i \in 1..(Len(q) - 1) : r[i] = IF i < p THEN q[i] ELSE q[i + 1]
  BY <1>1, WithoutOne
<1> HIDE DEF r
<1>3. /\ DOMAIN r = 1..(Len(q) - 1) /\ DOMAIN q = 1..Len(q) /\ Len(q) \in Nat
      /\ p \in 1..Len(q)
  BY <1>1, <1>2
<1> DEFINE k(i) == IF i < p THEN i ELSE i + 1
<1>4. \A i \in DOMAIN r : k(i) \in DOMAIN q /\ k(i) # p /\ r[i] = q[k(i)]
  BY <1>2, <1>3
<1>5. \A i, j \in DOMAIN r : k(i) = k(j) => i = j
  BY <1>3
<1> HIDE DEF k
<1>6. OneTurn(r)
  BY <1>4, <1>5 DEF OneTurn
<1>7. ASSUME NEW v \in Users PROVE Waits(r, v) <=> Waits(q, v) /\ v # u
  <2>1. ASSUME Waits(r, v) PROVE Waits(q, v) /\ v # u
    BY <1>1, <1>4, <2>1 DEF Waits, OneTurn
  <2>2. ASSUME Waits(q, v), v # u PROVE Waits(r, v)
    <3>1. PICK j \in DOMAIN q : q[j] = v
      BY <2>2 DEF Waits
    <3>2. j # p
      BY <1>1, <2>2, <3>1
    <3> DEFINE i == IF j < p THEN j ELSE j - 1
    <3>3. i \in DOMAIN r /\ k(i) = j
      BY <1>3, <3>1, <3>2 DEF k
    <3>4. QED
      BY <1>4, <3>1, <3>3 DEF Waits
  <2>3. QED
    BY <2>1, <2>2
<1>8. q # <<>>
  BY <1>1
<1>9. QED
  BY <1>2, <1>6, <1>7, <1>8 DEF r, p

(* acquire: the two pools, and the idle sessions in front of one of them.  *)
LEMMA BeginKeeps ==
    ASSUME PermitInv, NEW u \in Users, at[u] \in {"out", "using"}, Begin(u)
    PROVE  /\ Handed /\ proxy' \in [Users -> Guard]
           /\ idle' \in Seq(Guard) /\ aged' \in 0..Len(idle')
           /\ free_permits' + Cardinality(Holders(at')) + Len(idle')
                = free_permits + Cardinality(Holders(at)) + Len(idle)
                    - (IF at[u] = "using" THEN 1 ELSE 0)
<1>1. /\ free_permits \in Nat /\ waiters \in Seq(Users) /\ at \in [Users -> Places]
      /\ proxy \in [Users -> Guard] /\ tries \in [Users -> 0..NumProxies]
      /\ idle \in Seq(Guard) /\ aged \in 0..Len(idle) /\ Len(idle) \in Nat
      /\ OneTurn(waiters) /\ InLine(waiters, at)
  BY DEF PermitInv, PermitTypes
<1>2. /\ "queued" \in Places /\ "using" \in Places /\ Cardinality(Holders(at)) \in Nat
      /\ (at[u] \in Holding <=> at[u] = "using") /\ "queued" \notin Holding
      /\ "using" \in Holding
  BY <1>1, HoldersMove DEF Places, Holding
<1>3. ASSUME NEW k \in Nat, Ask(u, k)
      PROVE  /\ Handed
             /\ free_permits' + Cardinality(Holders(at'))
                  = free_permits + k + Cardinality(Holders(at))
                      - (IF at[u] = "using" THEN 1 ELSE 0)
  <2> DEFINE q == Append(waiters, u)
             f == [at EXCEPT ![u] = "queued"]
  <2>1. ~Waits(waiters, u)
    BY <1>1 DEF InLine
  <2>2. /\ q \in Seq(Users) /\ OneTurn(q)
        /\ \A v \in Users : Waits(q, v) <=> Waits(waiters, v) \/ v = u
    BY <1>1, <2>1, JoinsQueue
  <2>3. /\ f \in [Users -> Places]
        /\ Cardinality(Holders(f))
             = Cardinality(Holders(at)) - (IF at[u] \in Holding THEN 1 ELSE 0)
                 + (IF "queued" \in Holding THEN 1 ELSE 0)
    BY <1>1, <1>2, HoldersMove
  <2>4. InLine(q, f)
    BY <1>1, <2>2 DEF InLine
  <2>5. Hand(q, free_permits + k, f)
    BY <1>3 DEF Ask
  <2> HIDE DEF q, f
  <2>6. free_permits + k \in Nat
    BY <1>1
  <2>7. Handed /\ free_permits' + Cardinality(Holders(at'))
                     = free_permits + k + Cardinality(Holders(f))
    BY <1>1, <2>2, <2>3, <2>4, <2>5, <2>6, HandKeeps
  <2>8. QED
    BY <1>1, <1>2, <2>3, <2>7
<1>4. CASE u \notin SessionUsers
  <2>1. Ask(u, 0) /\ UNCHANGED <<proxy, idle, aged>>
    BY <1>4 DEF Begin
  <2>2. QED
    BY <1>1, <1>2, <1>3, <2>1
<1>5. CASE u \in SessionUsers /\ aged < Len(idle)
  <2> DEFINE f == [at EXCEPT ![u] = "using"]
             s == SubSeq(idle, aged + 2, Len(idle))
             g == idle[aged + 1]
  <2>1. /\ proxy' = [proxy EXCEPT ![u] = g] /\ idle' = s /\ aged' = 0
        /\ Hand(waiters, free_permits + aged, f)
    BY <1>5 DEF Begin, TakeIdle
  <2>2. g \in Guard
    BY <1>1, <1>5
  <2>3. s \in Seq(Guard) /\ Len(s) = Len(idle) - aged - 1
    BY <1>1, <1>5
  <2>4. /\ f \in [Users -> Places]
        /\ Cardinality(Holders(f))
             = Cardinality(Holders(at)) - (IF at[u] \in Holding THEN 1 ELSE 0)
                 + (IF "using" \in Holding THEN 1 ELSE 0)
    BY <1>1, <1>2, HoldersMove
  <2>5. InLine(waiters, f)
    BY <1>1 DEF InLine
  <2> HIDE DEF f, s, g
  <2>6. free_permits + aged \in Nat
    BY <1>1
  <2>7. Handed /\ free_permits' + Cardinality(Holders(at'))
                     = free_permits + aged + Cardinality(Holders(f))
    BY <1>1, <2>1, <2>4, <2>5, <2>6, HandKeeps
  <2>8. free_permits' + Cardinality(Holders(at')) + Len(idle')
          = free_permits + Cardinality(Holders(at)) + Len(idle)
              - (IF at[u] = "using" THEN 1 ELSE 0)
    BY <1>1, <1>2, <1>5, <2>1, <2>3, <2>4, <2>7
  <2>9. proxy' \in [Users -> Guard] /\ idle' \in Seq(Guard) /\ aged' \in 0..Len(idle')
    BY <1>1, <1>5, <2>1, <2>2, <2>3
  <2>10. QED
    BY <2>7, <2>8, <2>9
<1>6. CASE u \in SessionUsers /\ ~(aged < Len(idle))
  <2>1. /\ idle' = <<>> /\ aged' = 0 /\ Ask(u, aged) /\ UNCHANGED proxy /\ aged = Len(idle)
        /\ aged \in Nat
    BY <1>1, <1>6 DEF Begin, TakeIdle
  <2>2. /\ Handed
        /\ free_permits' + Cardinality(Holders(at'))
             = free_permits + aged + Cardinality(Holders(at))
                 - (IF at[u] = "using" THEN 1 ELSE 0)
    BY <1>3, <2>1
  <2>3. idle' \in Seq(Guard) /\ Len(idle') = 0 /\ aged' \in 0..Len(idle')
    BY <2>1
  <2>4. Cardinality(Holders(at')) \in Nat /\ free_permits' \in Nat
    <3>1. at' \in [Users -> Places] /\ free_permits' \in Nat
      BY <2>2 DEF Handed
    <3>2. QED
      BY <1>2, <3>1, HoldersMove
  <2>5. QED
    BY <1>1, <1>2, <2>1, <2>2, <2>3, <2>4, SMTT(40)
<1>7. QED
  BY <1>4, <1>5, <1>6

(* The guard that is kept, and the one that is had without it.             *)
LEMMA KeptFacts ==
    /\ <<>> \in Kept /\ \A g \in Guard : <<g>> \in Kept /\ <<g>> # <<>>
    /\ Direct \in Guard /\ Proxies \subseteq Guard
    /\ \A o \in Kept : o # <<>> => Head(o) \in Guard
BY DEF Kept, Guard

(* A guard is given up, by its drop or before there is one: the one that   *)
(* was kept, if any, is back.                                              *)
LEMMA GuardBack ==
    ASSUME PermitInv, NEW u \in Users,
           proxy' = [proxy EXCEPT ![u] = IF old[u] = <<>> THEN Direct ELSE Head(old[u])],
           old' = [old EXCEPT ![u] = <<>>]
    PROVE  /\ proxy' \in [Users -> Guard] /\ old' \in [Users -> Kept]
           /\ Cardinality(Keepers(old')) = Cardinality(Keepers(old))
                                             - (IF old[u] # <<>> THEN 1 ELSE 0)
           /\ [at EXCEPT ![u] = Back(u)] \in [Users -> Places]
           /\ Cardinality(Holders([at EXCEPT ![u] = Back(u)]))
                = Cardinality(Holders(at)) - (IF at[u] \in Holding THEN 1 ELSE 0)
                    + (IF old[u] # <<>> THEN 1 ELSE 0)
           /\ Cardinality(Keepers(old)) \in Nat /\ Cardinality(Keepers(old')) \in Nat
           /\ Cardinality(Holders(at)) \in Nat
           /\ Cardinality(Holders([at EXCEPT ![u] = Back(u)])) \in Nat
<1>1. /\ proxy \in [Users -> Guard] /\ old \in [Users -> Kept] /\ at \in [Users -> Places]
  BY DEF PermitInv, PermitTypes
<1> DEFINE g == IF old[u] = <<>> THEN Direct ELSE Head(old[u])
           b == Back(u)
           f == [at EXCEPT ![u] = b]
<1>2. g \in Guard
  BY <1>1, KeptFacts
<1>3. proxy' \in [Users -> Guard]
  <2> HIDE DEF g
  <2>1. QED
    BY <1>1, <1>2 DEF g
<1>4. /\ old' \in [Users -> Kept] /\ Cardinality(Keepers(old)) \in Nat
      /\ Cardinality(Keepers(old')) = Cardinality(Keepers(old))
            - (IF old[u] # <<>> THEN 1 ELSE 0) + (IF <<>> # <<>> THEN 1 ELSE 0)
  BY <1>1, KeptFacts, KeepersMove
<1>5. b \in Places /\ (b \in Holding <=> old[u] # <<>>)
  BY DEF Back, Places, Holding
<1> HIDE DEF b
<1>6. /\ f \in [Users -> Places] /\ Cardinality(Holders(at)) \in Nat
      /\ Cardinality(Holders(f))
           = Cardinality(Holders(at)) - (IF at[u] \in Holding THEN 1 ELSE 0)
               + (IF b \in Holding THEN 1 ELSE 0)
  BY <1>1, <1>5, HoldersMove
<1> HIDE DEF f
<1>7. Cardinality(Holders(f)) \in Nat
  BY <1>5, <1>6, HoldersMove
<1>8. Cardinality(Keepers(old')) \in Nat
  BY <1>4, KeptFacts, KeepersMove
<1>9. QED
  BY <1>3, <1>4, <1>5, <1>6, <1>7, <1>8 DEF f, b

(* acquire_fresh puts the guard aside and starts again; acquire starts.    *)
LEMMA AcquireInv ==
    ASSUME PermitInv, NEW u \in Users, AcquireProxy(u) \/ acquire_fresh(u)
    PROVE  PermitInv'
<1>1. Begin(u) /\ at[u] \in {"out", "using"} /\ cursor' = cursor /\ returning' = returning
  BY DEF AcquireProxy, acquire_fresh
<1>2. /\ Handed /\ proxy' \in [Users -> Guard]
      /\ idle' \in Seq(Guard) /\ aged' \in 0..Len(idle')
      /\ free_permits' + Cardinality(Holders(at')) + Len(idle')
           = free_permits + Cardinality(Holders(at)) + Len(idle)
               - (IF at[u] = "using" THEN 1 ELSE 0)
  BY <1>1, BeginKeeps
<1>3. /\ PermitTypes /\ proxy[u] \in Guard /\ at[u] \in Places
  BY DEF PermitInv, PermitTypes
<1>4. /\ old' \in [Users -> Kept] /\ Cardinality(Keepers(old)) \in Nat
      /\ Cardinality(Keepers(old'))
           = Cardinality(Keepers(old)) + (IF at[u] = "using" THEN 1 ELSE 0)
  <2>1. old \in [Users -> Kept] /\ <<>> \in Kept
    BY <1>3, KeptFacts DEF PermitTypes
  <2>2. CASE AcquireProxy(u)
    BY <2>1, <2>2, KeepersMove DEF AcquireProxy
  <2>3. CASE acquire_fresh(u)
    <3> DEFINE k == <<proxy[u]>>
    <3>1. /\ k \in Kept /\ k # <<>> /\ old' = [old EXCEPT ![u] = k]
          /\ old[u] = <<>> /\ at[u] = "using"
      BY <1>3, <2>3, KeptFacts DEF acquire_fresh
    <3> HIDE DEF k
    <3> DEFINE f == [old EXCEPT ![u] = k]
    <3>2. k \in Kept
      BY <3>1
    <3>3. /\ f \in [Users -> Kept] /\ Cardinality(Keepers(old)) \in Nat
          /\ Cardinality(Keepers(f)) = Cardinality(Keepers(old))
                - (IF old[u] # <<>> THEN 1 ELSE 0) + (IF k # <<>> THEN 1 ELSE 0)
      BY <2>1, <3>2, KeepersMove
    <3>4. /\ old' \in [Users -> Kept] /\ Cardinality(Keepers(old)) \in Nat
          /\ Cardinality(Keepers(old')) = Cardinality(Keepers(old)) - 0 + 1
      <4>1. old' = f /\ old[u] = <<>> /\ k # <<>>
        BY <3>1
      <4> HIDE DEF f
      <4>2. QED
        BY <3>3, <4>1
    <3>5. QED
      BY <3>1, <3>4
  <2>4. QED
    BY <2>2, <2>3
<1>5. /\ free_permits' \in Nat /\ returning' \in Seq(Guard) /\ Len(returning) \in Nat
      /\ free_permits \in Nat /\ Cardinality(Holders(at)) \in Nat /\ Len(idle) \in Nat
  <2>1. Cardinality(Holders(at)) \in Nat
    BY TasksFinite
  <2>2. QED
    BY <1>1, <1>2, <1>3, <2>1 DEF Handed, PermitTypes
<1>6. Balance'
  <2> DEFINE e == IF at[u] = "using" THEN 1 ELSE 0
  <2>1. e \in Int /\ -e \in Int /\ Len(returning') = Len(returning) - (-e) - e
    BY <1>1, <1>5
  <2>2. /\ free_permits' + Cardinality(Holders(at')) + Len(idle')
             = free_permits + Cardinality(Holders(at)) + Len(idle) + (-e)
        /\ Cardinality(Keepers(old')) = Cardinality(Keepers(old)) + e
    BY <1>2, <1>4, <1>5
  <2> HIDE DEF e
  <2>3. QED
    BY <1>2, <1>3, <1>5, <2>1, <2>2, InBalance DEF PermitInv
<1>7. QED
  BY <1>1, <1>2, <1>3, <1>4, <1>6 DEF PermitInv, PermitTypes, Handed

(* The future of acquire is dropped, in the queue or with a permit.        *)
LEMMA CancelInv ==
    ASSUME PermitInv, NEW u \in Users, Cancel(u)
    PROVE  PermitInv'
<1> DEFINE p == CHOOSE i \in DOMAIN waiters : waiters[i] = u
           left == IF at[u] = "queued" THEN RemoveAt(waiters, p) ELSE waiters
           f == [at EXCEPT ![u] = Back(u)]
           k == IF u \in Choosing THEN 1 ELSE 0
<1>1. /\ at[u] \notin {"out", "using"} /\ Hand(left, free_permits + k, f)
      /\ UNCHANGED <<cursor, idle, aged, returning>>
  BY DEF Cancel, idle_vars
<1>2. /\ PermitTypes /\ OneTurn(waiters) /\ InLine(waiters, at)
      /\ waiters \in Seq(Users) /\ at[u] \in Places
  BY DEF PermitInv, PermitTypes
<1>3. /\ left \in Seq(Users) /\ OneTurn(left)
      /\ \A v \in Users : Waits(left, v) <=> Waits(waiters, v) /\ v # u
  <2>1. CASE at[u] = "queued"
    <3>1. Waits(waiters, u)
      BY <1>2, <2>1 DEF InLine
    <3>2. LET r == RemoveAt(waiters, p)
          IN  /\ r \in Seq(Users) /\ OneTurn(r)
              /\ \A v \in Users : Waits(r, v) <=> Waits(waiters, v) /\ v # u
      BY <1>2, <3>1, LeavesQueue
    <3>3. QED
      BY <2>1, <3>2
  <2>2. CASE at[u] # "queued"
    BY <1>2, <2>2 DEF InLine
  <2>3. QED
    BY <2>1, <2>2
<1> HIDE DEF left
<1>4. InLine(left, f)
  <2>1. f[u] # "queued" /\ \A v \in Users \ {u} : f[v] = at[v]
    BY <1>2 DEF PermitTypes, Back
  <2> HIDE DEF f
  <2>2. QED
    BY <1>2, <1>3, <2>1 DEF InLine
<1>5. /\ proxy' \in [Users -> Guard] /\ old' \in [Users -> Kept] /\ f \in [Users -> Places]
      /\ Cardinality(Keepers(old')) = Cardinality(Keepers(old))
                                        - (IF old[u] # <<>> THEN 1 ELSE 0)
      /\ Cardinality(Holders(f))
           = Cardinality(Holders(at)) - (IF at[u] \in Holding THEN 1 ELSE 0)
               + (IF old[u] # <<>> THEN 1 ELSE 0)
      /\ Cardinality(Keepers(old)) \in Nat /\ Cardinality(Keepers(old')) \in Nat
      /\ Cardinality(Holders(at)) \in Nat /\ Cardinality(Holders(f)) \in Nat
  BY GuardBack DEF Cancel
<1> HIDE DEF f
<1>6. k \in Nat /\ k = (IF at[u] \in Holding THEN 1 ELSE 0)
  BY <1>1, <1>2 DEF Choosing, InChoice, Holding
<1> HIDE DEF k
<1>7. /\ Handed
      /\ free_permits' + Cardinality(Holders(at')) = free_permits + k + Cardinality(Holders(f))
  <2>1. free_permits + k \in Nat /\ tries \in [Users -> 0..NumProxies]
    BY <1>2, <1>6 DEF PermitTypes
  <2>2. QED
    BY <1>1, <1>3, <1>4, <1>5, <2>1, HandKeeps
<1>8. /\ free_permits' \in Nat /\ Cardinality(Holders(at')) \in Nat /\ free_permits \in Nat
      /\ Len(idle) \in Nat /\ Len(returning) \in Nat
  BY <1>2, <1>7, TasksFinite DEF Handed, PermitTypes
<1>9. Balance'
  <2> DEFINE e == IF old[u] # <<>> THEN 1 ELSE 0
  <2>1. e \in Int /\ -e \in Int /\ Len(returning') = Len(returning) - e - (-e)
    BY <1>1, <1>8
  <2>2. Cardinality(Keepers(old')) = Cardinality(Keepers(old)) + (-e)
    BY <1>5
  <2>3. Cardinality(Holders(f)) = Cardinality(Holders(at)) - k + e
    BY <1>5, <1>6
  <2> HIDE DEF e
  <2>4. free_permits' + Cardinality(Holders(at')) + Len(idle')
          = free_permits + Cardinality(Holders(at)) + Len(idle) + e
    <3> DEFINE h == Cardinality(Holders(at))
               h1 == Cardinality(Holders(at'))
               hf == Cardinality(Holders(f))
               i == Len(idle)
    <3>1. /\ free_permits' \in Int /\ h1 \in Int /\ k \in Int /\ free_permits \in Int
          /\ h \in Int /\ hf \in Int /\ i \in Int /\ Len(idle') = i /\ e \in Int
      BY <1>1, <1>5, <1>6, <1>8, <2>1
    <3>2. free_permits' + h1 = free_permits + k + hf /\ hf = h - k + e
      BY <1>7, <2>1, <2>3
    <3> HIDE DEF h, h1, hf, i
    <3> DEFINE p0 == free_permits
               p1 == free_permits'
    <3>3. p0 \in Int /\ p1 \in Int /\ p1 + h1 = p0 + k + hf
      BY <3>1, <3>2
    <3> HIDE DEF p0, p1
    <3>4. hf + k = h + e
      BY <3>1, <3>2
    <3>5. p1 + h1 = p0 + h + e
      BY <3>1, <3>3, <3>4
    <3>6. p1 + h1 + i = p0 + h + i + e
      BY <3>1, <3>3, <3>5
    <3>7. free_permits' + h1 + i = free_permits + h + i + e
      BY <3>6 DEF p0, p1
    <3>8. QED
      BY <3>1, <3>7 DEF h, h1, i
  <2>5. idle' \in Seq(Guard) /\ returning' \in Seq(Guard)
    BY <1>1, <1>2 DEF PermitTypes
  <2>6. QED
    BY <1>2, <1>8, <2>1, <2>2, <2>4, <2>5, InBalance DEF PermitInv
<1>10. QED
  BY <1>1, <1>2, <1>5, <1>7, <1>9 DEF PermitInv, PermitTypes, Handed

(* A guard is dropped: its permit goes to the next, or with the session.   *)
LEMMA DropInv ==
    ASSUME PermitInv, NEW u \in Users, DropGuard(u) \/ DropSession(u)
    PROVE  PermitInv'
<1> DEFINE f == [at EXCEPT ![u] = Back(u)]
<1>1. /\ at[u] = "using" /\ UNCHANGED <<cursor, idle, aged>> /\ at[u] \in Holding
      /\ at[u] # "queued" /\ Gone(u)
  BY DEF DropGuard, DropSession, Gone, Holding
<1>2. /\ PermitTypes /\ OneTurn(waiters) /\ InLine(waiters, at)
      /\ waiters \in Seq(Users) /\ at \in [Users -> Places] /\ proxy[u] \in Guard
  BY DEF PermitInv, PermitTypes
<1>3. /\ proxy' \in [Users -> Guard] /\ old' \in [Users -> Kept] /\ f \in [Users -> Places]
      /\ Cardinality(Keepers(old')) = Cardinality(Keepers(old))
                                        - (IF old[u] # <<>> THEN 1 ELSE 0)
      /\ Cardinality(Holders(f)) = Cardinality(Holders(at)) - 1
                                     + (IF old[u] # <<>> THEN 1 ELSE 0)
      /\ Cardinality(Keepers(old)) \in Nat /\ Cardinality(Keepers(old')) \in Nat
      /\ Cardinality(Holders(at)) \in Nat /\ Cardinality(Holders(f)) \in Nat
  BY <1>1, GuardBack DEF Gone
<1>4. InLine(waiters, f)
  <2>1. f[u] # "queued" /\ \A v \in Users \ {u} : f[v] = at[v]
    BY <1>2 DEF Back
  <2> HIDE DEF f
  <2>2. QED
    BY <1>1, <1>2, <2>1 DEF InLine
<1>5. /\ free_permits \in Nat /\ Len(idle) \in Nat /\ Len(returning) \in Nat
      /\ idle' \in Seq(Guard)
  BY <1>1, <1>2 DEF PermitTypes
<1> DEFINE e == IF old[u] # <<>> THEN 1 ELSE 0
<1>6. /\ e \in Int /\ -e \in Int
      /\ Cardinality(Keepers(old')) = Cardinality(Keepers(old)) + (-e)
      /\ Cardinality(Holders(f)) = Cardinality(Holders(at)) - 1 + e
  BY <1>3
<1> HIDE DEF e
<1>7. CASE DropGuard(u)
  <2>1. Hand(waiters, free_permits + 1, f) /\ returning' = returning
    BY <1>7 DEF DropGuard
  <2> HIDE DEF f
  <2>2. /\ Handed
        /\ free_permits' + Cardinality(Holders(at'))
             = free_permits + 1 + Cardinality(Holders(f))
    <3>1. free_permits + 1 \in Nat /\ tries \in [Users -> 0..NumProxies]
      BY <1>2, <1>5 DEF PermitTypes
    <3>2. QED
      BY <1>2, <1>3, <1>4, <2>1, <3>1, HandKeeps
  <2>3. free_permits' \in Nat /\ Cardinality(Holders(at')) \in Nat
    BY <2>2, TasksFinite DEF Handed
  <2>4. free_permits' + Cardinality(Holders(at')) + Len(idle')
          = free_permits + Cardinality(Holders(at)) + Len(idle) + e
    <3> DEFINE h == Cardinality(Holders(at))
               h1 == Cardinality(Holders(at'))
               hf == Cardinality(Holders(f))
               i == Len(idle)
    <3>1. /\ free_permits' \in Int /\ h1 \in Int /\ 1 \in Int /\ free_permits \in Int
          /\ h \in Int /\ hf \in Int /\ i \in Int /\ Len(idle') = i /\ e \in Int
      BY <1>1, <1>3, <1>5, <2>3, <1>6
    <3>2. free_permits' + h1 = free_permits + 1 + hf /\ hf = h - 1 + e
      BY <1>6, <2>2
    <3> HIDE DEF h, h1, hf, i
    <3> DEFINE p0 == free_permits
               p1 == free_permits'
    <3>3. p0 \in Int /\ p1 \in Int /\ p1 + h1 = p0 + 1 + hf
      BY <3>1, <3>2
    <3> HIDE DEF p0, p1
    <3>4. hf + 1 = h + e
      BY <3>1, <3>2
    <3>5. p1 + h1 = p0 + h + e
      BY <3>1, <3>3, <3>4
    <3>6. p1 + h1 + i = p0 + h + i + e
      BY <3>1, <3>3, <3>5
    <3>7. free_permits' + h1 + i = free_permits + h + i + e
      BY <3>6 DEF p0, p1
    <3>8. QED
      BY <3>1, <3>7 DEF h, h1, i
  <2>5. Balance'
    <3>1. Len(returning') = Len(returning) - e - (-e) /\ returning' \in Seq(Guard)
      BY <1>2, <1>5, <1>6, <2>1 DEF PermitTypes
    <3>2. QED
      BY <1>2, <1>5, <1>6, <2>3, <2>4, <3>1, InBalance DEF PermitInv
  <2>6. QED
    BY <1>1, <1>2, <1>3, <2>1, <2>2, <2>5 DEF PermitInv, PermitTypes, Handed
<1>8. CASE DropSession(u)
  <2> DEFINE g == proxy[u]
  <2>1. /\ returning' = Append(returning, g) /\ at' = f
        /\ UNCHANGED <<free_permits, waiters, tries>>
    BY <1>8 DEF DropSession, permit_vars
  <2> HIDE DEF f, g
  <2>2. returning' \in Seq(Guard) /\ Len(returning') = Len(returning) + 1
    BY <1>2, <2>1 DEF PermitTypes, g
  <2>3. Balance'
    <3> DEFINE d == e - 1
    <3>1. d \in Int /\ Len(returning') = Len(returning) - d - (-e)
      BY <1>5, <1>6, <2>2
    <3>2. free_permits' + Cardinality(Holders(at')) + Len(idle')
            = free_permits + Cardinality(Holders(at)) + Len(idle) + d
      <4>1. /\ Cardinality(Holders(at')) = Cardinality(Holders(at)) + d
            /\ Cardinality(Holders(at)) \in Nat
        BY <1>3, <1>6, <2>1
      <4> HIDE DEF d
      <4>2. QED
        BY <1>1, <1>5, <2>1, <3>1, <4>1
    <3> HIDE DEF d
    <3>3. free_permits' \in Nat
      BY <1>5, <2>1
    <3>4. QED
      BY <1>2, <1>5, <1>6, <2>2, <3>1, <3>2, <3>3, InBalance DEF PermitInv
  <2>4. QED
    BY <1>1, <1>2, <1>3, <1>4, <2>1, <2>2, <2>3 DEF PermitInv, PermitTypes
<1>9. QED
  BY <1>7, <1>8

(* next_usable_proxy keeps its permit.                                     *)
LEMMA ChoiceKeepsPermit ==
    ASSUME PermitInv, NEW u \in Users, Draw(u) \/ CheckCooldown(u)
    PROVE  PermitInv'
<1>1. PICK w \in Holding, g \in Guard :
        at' = [at EXCEPT ![u] = w] /\ proxy' = [proxy EXCEPT ![u] = g]
  <2>1. cursor \in Guard /\ Direct \in Guard
    BY KeptFacts DEF PermitInv, PermitTypes
  <2>2. proxy[u] \in Guard /\ proxy = [proxy EXCEPT ![u] = proxy[u]]
    BY DEF PermitInv, PermitTypes
  <2>3. CASE Draw(u)
    BY <2>1, <2>3 DEF Draw, Holding
  <2>4. CASE CheckCooldown(u)
    BY <2>1, <2>2, <2>4 DEF CheckCooldown, Holding
  <2>5. QED
    BY <2>3, <2>4
<1>2. /\ at[u] \in Holding /\ UNCHANGED <<free_permits, waiters, old, idle, aged, returning>>
      /\ at[u] # "queued" /\ w # "queued"
  BY DEF Draw, CheckCooldown, Holding, permit_vars, idle_vars
<1>3. /\ at \in [Users -> Places] /\ proxy \in [Users -> Guard]
      /\ tries \in [Users -> 0..NumProxies] /\ cursor \in Proxies /\ InLine(waiters, at)
      /\ NumProxies \in Nat
  BY ProxyPoolAssumption DEF PermitInv, PermitTypes
<1>4. w \in Places
  BY DEF Holding, Places
<1>5. /\ at' \in [Users -> Places] /\ Cardinality(Holders(at)) \in Nat
      /\ Cardinality(Holders(at')) = Cardinality(Holders(at)) - 1 + 1
  BY <1>1, <1>2, <1>3, <1>4, HoldersMove
<1>6. proxy' \in [Users -> Guard]
  BY <1>1, <1>3
<1>7. InLine(waiters', at')
  BY <1>1, <1>2, <1>3 DEF InLine
<1>8. tries' \in [Users -> 0..NumProxies]
  <2>1. CASE tries[u] > 0 /\ tries' = [tries EXCEPT ![u] = tries[u] - 1]
    <3>1. tries[u] - 1 \in 0..NumProxies
      BY <1>3, <2>1
    <3>2. QED
      BY <1>3, <2>1, <3>1
  <2>2. CASE tries' = [tries EXCEPT ![u] = 0]
    BY <1>3, <2>2
  <2>3. CASE tries' = tries
    BY <1>3, <2>3
  <2>4. QED
    BY <2>1, <2>2, <2>3 DEF Draw, CheckCooldown, Forget
<1>9. cursor' \in Proxies
  BY <1>3 DEF Draw, CheckCooldown, Proxies
<1>10. Balance'
  BY <1>2, <1>5 DEF PermitInv, Balance
<1>11. QED
  BY <1>2, <1>5, <1>6, <1>7, <1>8, <1>9, <1>10 DEF PermitInv, PermitTypes

(* Sessions come back to the idle queue, grow old there and are evicted.   *)
LEMMA IdleInv ==
    ASSUME PermitInv, PushBack \/ IdleAges \/ Evict
    PROVE  PermitInv'
<1>1. /\ PermitTypes /\ idle \in Seq(Guard) /\ aged \in 0..Len(idle)
      /\ returning \in Seq(Guard) /\ Len(idle) \in Nat /\ Len(returning) \in Nat
      /\ OneTurn(waiters) /\ InLine(waiters, at)
  BY DEF PermitInv, PermitTypes
<1>2. /\ Cardinality(Holders(at)) \in Nat /\ Cardinality(Keepers(old)) \in Nat
      /\ free_permits \in Nat
  BY <1>1, ProxyPoolAssumption, FS_Subset, FS_CardinalityType
  DEF Holders, Keepers, PermitTypes
<1>3. CASE PushBack
  <2>1. PICK i \in 1..Len(returning) :
          /\ idle' = Append(idle, returning[i]) /\ returning' = RemoveAt(returning, i)
          /\ UNCHANGED <<permit_vars, choice_state, aged>>
    BY <1>3 DEF PushBack
  <2> DEFINE g == returning[i]
  <2>2. g \in Guard /\ i \in DOMAIN returning
    BY <1>1
  <2>3. returning' \in Seq(Guard) /\ Len(returning') = Len(returning) - 1
    BY <1>1, <2>1, <2>2, WithoutOne
  <2>4. idle' = Append(idle, g)
    BY <2>1
  <2> HIDE DEF g
  <2>5. idle' \in Seq(Guard) /\ Len(idle') = Len(idle) + 1
    BY <1>1, <2>2, <2>4
  <2>6. aged' \in 0..Len(idle')
    BY <1>1, <2>1, <2>5
  <2>7. UNCHANGED <<free_permits, waiters, at, proxy, old, tries, cursor>>
    BY <2>1 DEF permit_vars, choice_state
  <2>8. Balance'
    <3>1. Cardinality(Holders(at')) = Cardinality(Holders(at))
          /\ Cardinality(Keepers(old')) = Cardinality(Keepers(old)) + 0
      BY <1>2, <2>7
    <3>2. /\ Len(returning') = Len(returning) - 1 - 0 /\ free_permits' \in Nat
          /\ free_permits' + Cardinality(Holders(at')) + Len(idle')
               = free_permits + Cardinality(Holders(at)) + Len(idle) + 1
      BY <1>1, <1>2, <2>3, <2>5, <2>7, <3>1
    <3>3. QED
      BY <1>1, <2>3, <2>5, <3>1, <3>2, InBalance DEF PermitInv
  <2>9. QED
    BY <1>1, <2>3, <2>5, <2>6, <2>7, <2>8 DEF PermitInv, PermitTypes
<1>4. CASE IdleAges
  BY <1>1, <1>4 DEF IdleAges, PermitInv, PermitTypes, Balance, permit_vars, choice_state
<1>5. CASE Evict
  <2> DEFINE s == SubSeq(idle, aged + 1, Len(idle))
  <2>1. /\ idle' = s /\ aged' = 0 /\ Hand(waiters, free_permits + aged, at)
        /\ UNCHANGED <<proxy, old, cursor, returning>>
    BY <1>5 DEF Evict
  <2>2. s \in Seq(Guard) /\ Len(s) = Len(idle) - aged
    BY <1>1
  <2> HIDE DEF s
  <2>3. /\ Handed
        /\ free_permits' + Cardinality(Holders(at'))
             = free_permits + aged + Cardinality(Holders(at))
    <3>1. /\ free_permits + aged \in Nat /\ tries \in [Users -> 0..NumProxies]
          /\ waiters \in Seq(Users) /\ at \in [Users -> Places]
      BY <1>1, <1>2 DEF PermitTypes
    <3>2. QED
      BY <1>1, <2>1, <3>1, HandKeeps
  <2>4. free_permits' \in Nat /\ Cardinality(Holders(at')) \in Nat
    <3>1. at' \in [Users -> Places] /\ free_permits' \in Nat
      BY <2>3 DEF Handed
    <3>2. QED
      BY <3>1, ProxyPoolAssumption, FS_Subset, FS_CardinalityType DEF Holders
  <2>5. Balance'
    BY <1>1, <1>2, <2>1, <2>2, <2>3, <2>4, SMTT(40) DEF PermitInv, Balance
  <2>6. aged' \in 0..Len(idle')
    BY <1>1, <2>1, <2>2
  <2>7. QED
    BY <1>1, <2>1, <2>2, <2>3, <2>5, <2>6 DEF PermitInv, PermitTypes, Handed
<1>6. QED
  BY <1>3, <1>4, <1>5

(* Steps that have no part in the permits.                                 *)
LEMMA ElsewhereInv ==
    ASSUME PermitInv, UNCHANGED <<permit_vars, choice_state, idle_vars>>
    PROVE  PermitInv'
BY DEF PermitInv, PermitTypes, Balance, permit_vars, choice_state, idle_vars

(* Every permit of the pool is accounted for, whatever the tasks do.       *)
THEOREM PermitInvariance == ProxyPoolSpec => []PermitInv
<1>1. ProxyPoolInit => PermitInv
  <2> SUFFICES ASSUME ProxyPoolInit PROVE PermitInv
    OBVIOUS
  <2>1. PermitTypes
    BY ProxyPoolAssumption, KeptFacts DEF ProxyPoolInit, PermitTypes, Places, Proxies
  <2>2. Holders(at) = {} /\ Keepers(old) = {}
    BY DEF ProxyPoolInit, Holders, Keepers, Holding
  <2>3. Balance
    <3>1. Cardinality(Holders(at)) = 0 /\ Cardinality(Keepers(old)) = 0
      BY <2>2, FS_EmptySet
    <3>2. free_permits = MaxProxies /\ Len(idle) = 0 /\ Len(returning) = 0
      BY DEF ProxyPoolInit
    <3>3. QED
      BY <3>1, <3>2, ProxyPoolAssumption DEF Balance
  <2>4. OneTurn(waiters) /\ InLine(waiters, at)
    BY DEF ProxyPoolInit, OneTurn, InLine, Waits
  <2>5. QED
    BY <2>1, <2>3, <2>4 DEF PermitInv, ProxyPoolInit
<1>2. PermitInv /\ [ProxyPoolNext]_proxy_vars => PermitInv'
  <2> SUFFICES ASSUME PermitInv, [ProxyPoolNext]_proxy_vars PROVE PermitInv'
    OBVIOUS
  <2>1. ASSUME NEW u \in Users, UserStep(u) PROVE PermitInv'
    <3>1. CASE AcquireProxy(u) \/ acquire_fresh(u)
      BY <3>1, AcquireInv
    <3>2. CASE Draw(u) \/ CheckCooldown(u)
      BY <3>2, ChoiceKeepsPermit
    <3>3. CASE mark_bad(u)
      BY <3>3, ElsewhereInv DEF mark_bad
    <3>4. CASE Cancel(u)
      BY <3>4, CancelInv
    <3>5. CASE DropGuard(u) \/ DropSession(u)
      BY <3>5, DropInv
    <3>6. QED
      BY <2>1, <3>1, <3>2, <3>3, <3>4, <3>5 DEF UserStep
  <2>2. ASSUME NEW p \in Proxies, ProxyStep(p) PROVE PermitInv'
    BY <2>2, ElsewhereInv
    DEF ProxyStep, RecordCheck, RecordCount, RecordClear, RecordCool, WindowSlides,
        CooldownExpires, ProbeOk, ProbeFails
  <2>3. CASE PushBack \/ IdleAges \/ Evict
    BY <2>3, IdleInv
  <2>4. CASE HealthCheck
    BY <2>4, ElsewhereInv DEF HealthCheck
  <2>5. CASE UNCHANGED proxy_vars
    BY <2>5, ElsewhereInv DEF proxy_vars
  <2>6. QED
    BY <2>1, <2>2, <2>3, <2>4, <2>5 DEF ProxyPoolNext
<1>3. QED
  BY <1>1, <1>2, PTL DEF ProxyPoolSpec

-----------------------------------------------------------------------------
(* The evidence against a proxy                                            *)

EvidenceTypes ==
    /\ cooling \subseteq Proxies /\ removed \subseteq Proxies /\ probing \subseteq Proxies
    /\ failures \in [Proxies -> Nat] /\ counts \in [Proxies -> Nat]
    /\ reported \in [Proxies -> Nat] /\ recording \in [Proxies -> [Stage -> Nat]]

\* Reports that were counted, or will never be; cooldowns begun.
Heard(p) == reported[p] - recording[p]["check"] - recording[p]["count"]
Cooldowns(p) == counts[p] + recording[p]["clear"] + recording[p]["cool"]

Grounds(p) ==
    /\ failures[p] <= Heard(p)
    /\ Cooldowns(p) > 0 => Cooldowns(p) + FailureThreshold - 1 <= Heard(p)

EvidenceInv == EvidenceTypes /\ \A p \in Proxies : Grounds(p)

(* A recording task goes from one lock to the next, or ends.               *)
LEMMA RecorderMoves ==
    ASSUME EvidenceTypes, NEW p \in Proxies, NEW s \in Stage, NEW next, next # s,
           Recorder(p, s, next)
    PROVE  /\ recording' \in [Proxies -> [Stage -> Nat]]
           /\ \A q \in Proxies \ {p} : recording'[q] = recording[q]
           /\ recording'[p][s] = recording[p][s] - 1 /\ recording[p][s] > 0
           /\ next \in Stage => recording'[p][next] = recording[p][next] + 1
           /\ \A t \in Stage \ {s, next} : recording'[p][t] = recording[p][t]
<1> DEFINE r == [t \in Stage |-> recording[p][t] - (IF t = s THEN 1 ELSE 0)
                                                 + (IF t = next THEN 1 ELSE 0)]
<1>1. recording' = [recording EXCEPT ![p] = r] /\ recording[p][s] > 0
  BY DEF Recorder
<1>2. \A t \in Stage : recording[p][t] \in Nat
  BY DEF EvidenceTypes
<1>3. /\ r[s] = recording[p][s] - 1
      /\ next \in Stage => r[next] = recording[p][next] + 1
      /\ \A t \in Stage \ {s, next} : r[t] = recording[p][t]
  BY <1>2
<1>4. r \in [Stage -> Nat]
  <2>1. ASSUME NEW t \in Stage PROVE r[t] \in Nat
    BY <1>1, <1>2, <1>3, <2>1
  <2>2. QED
    BY <2>1
<1> HIDE DEF r
<1>5. QED
  BY <1>1, <1>3, <1>4 DEF EvidenceTypes

(* A report that is made concerns one proxy and one task of it.            *)
LEMMA SpawnKeeps ==
    ASSUME EvidenceInv, NEW p, Spawn(p),
           UNCHANGED <<cooling, failures, counts, removed, probing>>
    PROVE  EvidenceInv'
<1>1. p \in Proxies /\ EvidenceTypes
  BY ProxyPoolAssumption DEF Spawn, Counted, EvidenceInv
<1>2. /\ reported' = [reported EXCEPT ![p] = reported[p] + 1]
      /\ recording' = [recording EXCEPT ![p] =
                         [recording[p] EXCEPT !["check"] = recording[p]["check"] + 1]]
  BY DEF Spawn, Counted
<1>3. \A t \in Stage : recording[p][t] \in Nat
  BY <1>1 DEF EvidenceTypes
<1>4. EvidenceTypes'
  BY <1>1, <1>2, <1>3 DEF EvidenceTypes, Stage
<1>5. ASSUME NEW q \in Proxies PROVE Grounds(q)'
  <2>1. Grounds(q)
    BY DEF EvidenceInv
  <2>2. Heard(q)' = Heard(q) /\ Cooldowns(q)' = Cooldowns(q)
    <3>1. CASE q # p
      BY <1>1, <1>2, <3>1 DEF EvidenceTypes, Heard, Cooldowns
    <3>2. CASE q = p
      <4>1. /\ reported'[p] = reported[p] + 1 /\ reported[p] \in Nat
            /\ recording'[p] = [recording[p] EXCEPT !["check"] = recording[p]["check"] + 1]
            /\ recording[p] \in [Stage -> Nat] /\ counts'[p] = counts[p]
        BY <1>1, <1>2 DEF EvidenceTypes
      <4>2. /\ recording'[p]["check"] = recording[p]["check"] + 1
            /\ recording'[p]["count"] = recording[p]["count"]
            /\ recording'[p]["clear"] = recording[p]["clear"]
            /\ recording'[p]["cool"] = recording[p]["cool"]
            /\ recording[p]["check"] \in Nat /\ recording[p]["count"] \in Nat
        BY <4>1 DEF Stage
      <4>3. QED
        BY <3>2, <4>1, <4>2 DEF Heard, Cooldowns
    <3>3. QED
      BY <3>1, <3>2
  <2>3. QED
    BY <2>1, <2>2 DEF Grounds
<1>6. QED
  BY <1>4, <1>5 DEF EvidenceInv

(* What the recording tasks, the window and the health check do to the     *)
(* evidence.                                                               *)
LEMMA ProxyStepKeeps ==
    ASSUME EvidenceInv, NEW p \in Proxies, ProxyStep(p)
    PROVE  EvidenceInv'
<1>1. /\ EvidenceTypes /\ \A q \in Proxies : Grounds(q) /\ reported[q] \in Nat
      /\ \A q \in Proxies : failures[q] \in Nat /\ counts[q] \in Nat
      /\ \A q \in Proxies : \A t \in Stage : recording[q][t] \in Nat
      /\ FailureThreshold \in Nat \ {0}
  BY ProxyPoolAssumption DEF EvidenceInv, EvidenceTypes
<1>2. {"check", "count", "clear", "cool"} \subseteq Stage /\ "done" \notin Stage
  BY DEF Stage
<1>3. CASE RecordCheck(p)
  <2> DEFINE next == IF p \in removed THEN "done" ELSE "count"
  <2>1. Recorder(p, "check", next) /\ next # "check"
        /\ UNCHANGED <<cooling, failures, counts, removed, probing, reported>>
    BY <1>3 DEF RecordCheck
  <2>2. next = "done" \/ next = "count"
    OBVIOUS
  <2> HIDE DEF next
  <2>3. /\ recording' \in [Proxies -> [Stage -> Nat]]
        /\ \A q \in Proxies \ {p} : recording'[q] = recording[q]
        /\ recording'[p]["check"] = recording[p]["check"] - 1 /\ recording[p]["check"] > 0
        /\ next \in Stage => recording'[p][next] = recording[p][next] + 1
        /\ \A t \in Stage \ {"check", next} : recording'[p][t] = recording[p][t]
    BY <1>1, <1>2, <2>1, RecorderMoves
  <2>4. EvidenceTypes'
    BY <1>1, <2>1, <2>3 DEF EvidenceTypes
  <2>5. ASSUME NEW q \in Proxies PROVE Grounds(q)'
    <3>1. CASE q # p
      BY <1>1, <2>1, <2>3, <2>5, <3>1 DEF Grounds, Heard, Cooldowns
    <3>2. CASE q = p
      <4>1. /\ recording'[p]["clear"] = recording[p]["clear"]
            /\ recording'[p]["cool"] = recording[p]["cool"]
            /\ \/ recording'[p]["count"] = recording[p]["count"]
               \/ recording'[p]["count"] = recording[p]["count"] + 1
        BY <1>2, <2>3, <2>2 DEF Stage
      <4>2. /\ recording[p]["check"] \in Nat /\ recording[p]["count"] \in Nat
            /\ recording[p]["clear"] \in Nat /\ recording[p]["cool"] \in Nat
        BY <1>1, <1>2
      <4>3. QED
        BY <1>1, <2>1, <2>3, <3>2, <4>1, <4>2 DEF Grounds, Heard, Cooldowns
    <3>3. QED
      BY <3>1, <3>2
  <2>6. QED
    BY <2>4, <2>5 DEF EvidenceInv
<1>4. CASE RecordCount(p)
  <2> DEFINE next == IF Trips(failures[p] + 1) THEN "clear" ELSE "done"
  <2>1. Recorder(p, "count", next) /\ next # "count"
        /\ failures' = [failures EXCEPT ![p] = failures[p] + 1]
        /\ UNCHANGED <<cooling, counts, removed, probing, reported>>
    BY <1>4 DEF RecordCount
  <2>2. \/ next = "done" 
        \/ next = "clear" /\ failures[p] + 1 >= FailureThreshold
    BY DEF Trips
  <2> HIDE DEF next
  <2>3. /\ recording' \in [Proxies -> [Stage -> Nat]]
        /\ \A q \in Proxies \ {p} : recording'[q] = recording[q]
        /\ recording'[p]["count"] = recording[p]["count"] - 1 /\ recording[p]["count"] > 0
        /\ next \in Stage => recording'[p][next] = recording[p][next] + 1
        /\ \A t \in Stage \ {"count", next} : recording'[p][t] = recording[p][t]
    BY <1>1, <1>2, <2>1, RecorderMoves
  <2>4. EvidenceTypes'
    <3>1. failures' \in [Proxies -> Nat]
      BY <1>1, <2>1 DEF EvidenceTypes
    <3>2. QED
      BY <1>1, <2>1, <2>3, <3>1 DEF EvidenceTypes
  <2>5. ASSUME NEW q \in Proxies PROVE Grounds(q)'
    <3>1. CASE q # p
      BY <1>1, <2>1, <2>3, <2>5, <3>1 DEF Grounds, Heard, Cooldowns, EvidenceTypes
    <3>2. CASE q = p
      <4>1. /\ recording'[p]["check"] = recording[p]["check"]
            /\ recording'[p]["cool"] = recording[p]["cool"]
            /\ \/ recording'[p]["clear"] = recording[p]["clear"]
               \/ /\ recording'[p]["clear"] = recording[p]["clear"] + 1
                  /\ failures[p] + 1 >= FailureThreshold
        BY <1>2, <2>3, <2>2 DEF Stage
      <4>2. /\ recording[p]["check"] \in Nat /\ recording[p]["count"] \in Nat
            /\ recording[p]["clear"] \in Nat /\ recording[p]["cool"] \in Nat
        BY <1>1, <1>2
      <4>3. failures'[p] = failures[p] + 1
        BY <1>1, <2>1 DEF EvidenceTypes
      <4>4. QED
        BY <1>1, <2>1, <2>3, <3>2, <4>1, <4>2, <4>3 DEF Grounds, Heard, Cooldowns
    <3>3. QED
      BY <3>1, <3>2
  <2>6. QED
    BY <2>4, <2>5 DEF EvidenceInv
<1>5. CASE RecordClear(p)
  <2>1. Recorder(p, "clear", "cool") /\ failures' = [failures EXCEPT ![p] = 0]
        /\ UNCHANGED <<cooling, counts, removed, probing, reported>>
    BY <1>5 DEF RecordClear
  <2>2. /\ recording' \in [Proxies -> [Stage -> Nat]]
        /\ \A q \in Proxies \ {p} : recording'[q] = recording[q]
        /\ recording'[p]["clear"] = recording[p]["clear"] - 1 /\ recording[p]["clear"] > 0
        /\ "cool" \in Stage => recording'[p]["cool"] = recording[p]["cool"] + 1
        /\ \A t \in Stage \ {"clear", "cool"} : recording'[p][t] = recording[p][t]
    BY <1>1, <1>2, <2>1, RecorderMoves
  <2>3. EvidenceTypes'
    BY <1>1, <2>1, <2>2 DEF EvidenceTypes
  <2>4. ASSUME NEW q \in Proxies PROVE Grounds(q)'
    <3>1. CASE q # p
      BY <1>1, <2>1, <2>2, <2>4, <3>1 DEF Grounds, Heard, Cooldowns, EvidenceTypes
    <3>2. CASE q = p
      <4>1. /\ recording'[p]["check"] = recording[p]["check"]
            /\ recording'[p]["count"] = recording[p]["count"]
            /\ recording'[p]["cool"] = recording[p]["cool"] + 1
        BY <1>2, <2>2 DEF Stage
      <4>2. /\ recording[p]["check"] \in Nat /\ recording[p]["count"] \in Nat
            /\ recording[p]["clear"] \in Nat /\ recording[p]["cool"] \in Nat
        BY <1>1, <1>2
      <4>3. failures'[p] = 0
        BY <1>1, <2>1 DEF EvidenceTypes
      <4>4. QED
        BY <1>1, <2>1, <2>2, <3>2, <4>1, <4>2, <4>3 DEF Grounds, Heard, Cooldowns
    <3>3. QED
      BY <3>1, <3>2
  <2>5. QED
    BY <2>3, <2>4 DEF EvidenceInv
<1>6. CASE RecordCool(p)
  <2>1. Recorder(p, "cool", "done") /\ counts' = [counts EXCEPT ![p] = counts[p] + 1]
        /\ UNCHANGED <<failures, probing, reported>>
        /\ cooling' = cooling \union {p}
        /\ (removed' = removed \/ removed' = removed \union {p})
    BY <1>6 DEF RecordCool
  <2>2. /\ recording' \in [Proxies -> [Stage -> Nat]]
        /\ \A q \in Proxies \ {p} : recording'[q] = recording[q]
        /\ recording'[p]["cool"] = recording[p]["cool"] - 1 /\ recording[p]["cool"] > 0
        /\ \A t \in Stage \ {"cool", "done"} : recording'[p][t] = recording[p][t]
    BY <1>1, <1>2, <2>1, RecorderMoves
  <2>3. EvidenceTypes'
    <3>1. counts' \in [Proxies -> Nat]
      BY <1>1, <2>1 DEF EvidenceTypes
    <3>2. QED
      BY <1>1, <2>1, <2>2, <3>1 DEF EvidenceTypes
  <2>4. ASSUME NEW q \in Proxies PROVE Grounds(q)'
    <3>1. CASE q # p
      BY <1>1, <2>1, <2>2, <2>4, <3>1 DEF Grounds, Heard, Cooldowns, EvidenceTypes
    <3>2. CASE q = p
      <4>1. /\ recording'[p]["check"] = recording[p]["check"]
            /\ recording'[p]["count"] = recording[p]["count"]
            /\ recording'[p]["clear"] = recording[p]["clear"]
        BY <1>2, <2>2 DEF Stage
      <4>2. /\ recording[p]["check"] \in Nat /\ recording[p]["count"] \in Nat
            /\ recording[p]["clear"] \in Nat /\ recording[p]["cool"] \in Nat
        BY <1>1, <1>2
      <4>3. counts'[p] = counts[p] + 1
        BY <1>1, <2>1 DEF EvidenceTypes
      <4>4. QED
        BY <1>1, <2>1, <2>2, <3>2, <4>1, <4>2, <4>3 DEF Grounds, Heard, Cooldowns
    <3>3. QED
      BY <3>1, <3>2
  <2>5. QED
    BY <2>3, <2>4 DEF EvidenceInv
<1>7. CASE WindowSlides(p)
  <2>1. failures' = [failures EXCEPT ![p] = failures[p] - 1] /\ failures[p] > 0
        /\ UNCHANGED <<cooling, counts, removed, recording, probing, reported>>
    BY <1>7 DEF WindowSlides
  <2>2. EvidenceTypes' /\ \A q \in Proxies : failures'[q] <= failures[q] /\ failures'[q] \in Nat
    BY <1>1, <2>1 DEF EvidenceTypes
  <2>3. ASSUME NEW q \in Proxies PROVE Grounds(q)'
    <3>1. Heard(q)' = Heard(q) /\ Cooldowns(q)' = Cooldowns(q) /\ Heard(q) \in Int
      BY <1>1, <1>2, <2>1 DEF Heard, Cooldowns
    <3>2. QED
      BY <1>1, <2>2, <3>1 DEF Grounds
  <2>4. QED
    BY <2>2, <2>3 DEF EvidenceInv
<1>8. CASE CooldownExpires(p) \/ ProbeOk(p)
  <2>1. UNCHANGED <<failures, counts, removed, recording, reported>>
        /\ cooling' \subseteq cooling /\ probing' \subseteq probing
    BY <1>8 DEF CooldownExpires, ProbeOk
  <2>2. QED
    BY <1>1, <2>1 DEF EvidenceInv, EvidenceTypes, Grounds, Heard, Cooldowns
<1>9. CASE ProbeFails(p)
  <2>1. /\ failures' = [failures EXCEPT ![p] = failures[p] + 1]
        /\ reported' = [reported EXCEPT ![p] = reported[p] + 1]
        /\ UNCHANGED <<cooling, counts, removed, recording>> /\ probing' \subseteq probing
    BY <1>9 DEF ProbeFails, Counted
  <2>2. EvidenceTypes'
    BY <1>1, <2>1 DEF EvidenceTypes
  <2>3. ASSUME NEW q \in Proxies PROVE Grounds(q)'
    <3>1. /\ Cooldowns(q)' = Cooldowns(q) /\ Heard(q) \in Int /\ Cooldowns(q) \in Int
          /\ \/ failures'[q] = failures[q] /\ Heard(q)' = Heard(q)
             \/ failures'[q] = failures[q] + 1 /\ Heard(q)' = Heard(q) + 1
      BY <1>1, <1>2, <2>1 DEF Heard, Cooldowns, EvidenceTypes
    <3>2. QED
      BY <1>1, <3>1 DEF Grounds
  <2>4. QED
    BY <2>2, <2>3 DEF EvidenceInv
<1>10. QED
  BY <1>3, <1>4, <1>5, <1>6, <1>7, <1>8, <1>9 DEF ProxyStep

(* No cooldown is begun, and no proxy removed, without the reports.        *)
THEOREM EvidenceInvariance == ProxyPoolSpec => []EvidenceInv
<1>1. ProxyPoolInit => EvidenceInv
  BY ProxyPoolAssumption
  DEF ProxyPoolInit, EvidenceInv, EvidenceTypes, Grounds, Heard, Cooldowns, Stage
<1>2. EvidenceInv /\ [ProxyPoolNext]_proxy_vars => EvidenceInv'
  <2> SUFFICES ASSUME EvidenceInv, [ProxyPoolNext]_proxy_vars PROVE EvidenceInv'
    OBVIOUS
  <2>1. ASSUME UNCHANGED health_vars PROVE EvidenceInv'
    BY <2>1 DEF health_vars, EvidenceInv, EvidenceTypes, Grounds, Heard, Cooldowns
  <2>2. ASSUME NEW u \in Users, UserStep(u) PROVE EvidenceInv'
    <3>1. CASE mark_bad(u)
      BY <3>1, SpawnKeeps DEF mark_bad
    <3>2. CASE acquire_fresh(u)
      <4>1. UNCHANGED <<cooling, failures, counts, removed, probing>>
        BY <3>2 DEF acquire_fresh
      <4>2. CASE UNCHANGED <<recording, reported>>
        BY <2>1, <4>1, <4>2 DEF health_vars
      <4>3. CASE Spawn(proxy[u])
        BY <4>1, <4>3, SpawnKeeps
      <4>4. QED
        BY <3>2, <4>2, <4>3 DEF acquire_fresh
    <3>3. CASE UNCHANGED health_vars
      BY <2>1, <3>3
    <3>4. QED
      BY <2>2, <3>1, <3>2, <3>3
      DEF UserStep, AcquireProxy, Draw, CheckCooldown, Cancel, DropGuard, DropSession, Gone
  <2>3. ASSUME NEW p \in Proxies, ProxyStep(p) PROVE EvidenceInv'
    BY <2>3, ProxyStepKeeps
  <2>4. CASE PushBack \/ IdleAges \/ Evict \/ UNCHANGED proxy_vars
    BY <2>1, <2>4 DEF PushBack, IdleAges, Evict, proxy_vars
  <2>5. CASE HealthCheck
    BY <2>5 DEF HealthCheck, EvidenceInv, EvidenceTypes, Grounds, Heard, Cooldowns
  <2>6. QED
    BY <2>2, <2>3, <2>4, <2>5 DEF ProxyPoolNext
<1>3. QED
  BY <1>1, <1>2, PTL DEF ProxyPoolSpec

(* Permits and evidence of the proxy pool are exact for every number of    *)
(* tasks, proxies and permits: nothing is lost when a future of acquire is *)
(* dropped, when idle sessions are evicted or when guards come back.       *)
THEOREM ProxiesAccount == ProxyPoolSpec => []ProxiesAccounted
<1>1. PermitInv /\ EvidenceInv => ProxiesAccounted
  <2> SUFFICES ASSUME PermitInv, EvidenceInv PROVE ProxiesAccounted
    OBVIOUS
  <2>1. PermitTypes /\ EvidenceTypes /\ Balance
    BY DEF PermitInv, EvidenceInv
  <2>2. /\ Cardinality(Choosing) \in Nat /\ Cardinality(Using) \in Nat
        /\ Cardinality(Holders(at)) = Cardinality(Choosing) + Cardinality(Using)
    <3>1. IsFiniteSet(Choosing) /\ IsFiniteSet(Using)
      BY ProxyPoolAssumption, FS_Subset DEF Choosing, Using
    <3>2. Choosing \cap Using = {} /\ Choosing \cup Using = Holders(at)
      BY DEF Choosing, Using, Holders, Holding, InChoice
    <3>3. Cardinality(Choosing \cap Using) = 0
      BY <3>2, FS_EmptySet
    <3>4. /\ Cardinality(Choosing \cup Using) = Cardinality(Choosing) + Cardinality(Using)
                                                 - Cardinality(Choosing \cap Using)
          /\ Cardinality(Choosing) \in Nat /\ Cardinality(Using) \in Nat
      BY <3>1, FS_Union, FS_CardinalityType
    <3>5. Cardinality(Holders(at)) = Cardinality(Choosing) + Cardinality(Using) - 0
      BY <3>2, <3>3, <3>4
    <3>6. QED
      BY <3>4, <3>5
  <2>3. /\ Cardinality(Keepers(old)) \in Nat /\ Len(idle) \in Nat /\ Len(returning) \in Nat
        /\ free_permits \in Nat /\ MaxProxies \in Nat
    BY <2>1, TasksFinite, ProxyPoolAssumption DEF PermitTypes
  <2>4. Keepers(old) = {u \in Users : old[u] # <<>>}
    BY DEF Keepers
  <2>5. /\ free_permits <= MaxProxies
        /\ free_permits + Cardinality(Choosing) + Cardinality(Using)
             + Cardinality(Keepers(old)) + Len(idle) + Len(returning) = MaxProxies
    BY <2>1, <2>2, <2>3 DEF Balance
  <2>6. ProxyPoolTypeOK
    BY <2>1, <2>3, <2>5 DEF ProxyPoolTypeOK, PermitTypes, EvidenceTypes, Kept
  <2>7. ProxyPermitsExact
    BY <2>4, <2>5, <2>6 DEF ProxyPermitsExact, PermitInv
  <2>8. CooldownHasEvidence
    <3> SUFFICES ASSUME NEW p \in Proxies, counts[p] > 0
                 PROVE  counts[p] + FailureThreshold - 1 <= reported[p]
      BY DEF CooldownHasEvidence
    <3>1. /\ Grounds(p) /\ counts[p] \in Nat /\ reported[p] \in Nat
          /\ recording[p]["check"] \in Nat /\ recording[p]["count"] \in Nat
          /\ recording[p]["clear"] \in Nat /\ recording[p]["cool"] \in Nat
          /\ FailureThreshold \in Nat
      BY <2>1, ProxyPoolAssumption DEF EvidenceInv, EvidenceTypes, Stage
    <3>2. QED
      BY <3>1 DEF Grounds, Heard, Cooldowns
  <2>9. QED
    BY <2>7, <2>8 DEF ProxiesAccounted
<1>2. QED
  BY <1>1, PermitInvariance, EvidenceInvariance, PTL

-----------------------------------------------------------------------------
(* The search for a usable proxy                                           *)

\* Draws that come before the one of p.
Ahead(p) == IF p >= cursor THEN p - cursor ELSE p + NumProxies - cursor

GhostTypes ==
    /\ barred \in [Users -> SUBSET ({"removed", "cooling"} \X Proxies)]
    /\ clear \in [Users -> SUBSET Proxies]
    /\ crossed \in [Users -> BOOLEAN]

\* The proxy u looks at was not removed when it was drawn.
LooksAt(u) ==
    at[u] = "checking" =>
        /\ proxy[u] \in Proxies
        /\ \A b \in barred[u] : b[2] = proxy[u] => b[1] = "cooling"

\* Whatever was usable throughout is at hand or will still be drawn.
YetToCome(u) ==
    InChoice(at[u]) /\ ~crossed[u] =>
        \A p \in clear[u] : (at[u] = "checking" /\ p = proxy[u]) \/ Ahead(p) < tries[u]

SearchInv ==
    /\ GhostTypes
    /\ \A u \in Users :
         barred[u] \subseteq Bars /\ clear[u] \subseteq Usable /\ LooksAt(u) /\ YetToCome(u)

(* A task that gets its permit starts a search over the whole list; the    *)
(* search of another task goes on as it was.                               *)
LEMMA HandSearch ==
    ASSUME SearchInv, PermitTypes, EvidenceTypes,
           NEW q, NEW free, NEW place, Hand(q, free, place),
           UNCHANGED <<removed, cooling, cursor>>,
           \A v \in Users : InChoice(place[v]) => place[v] = at[v] /\ proxy'[v] = proxy[v]
    PROVE  SearchInv'
<1> DEFINE starts(v) == \E i \in 1..least(free, Len(q)) : q[i] = v
<1>1. ASSUME NEW v \in Users
      PROVE  /\ at'[v] = IF starts(v) THEN "drawing" ELSE place[v]
             /\ tries'[v] = IF starts(v) THEN Rounds
                            ELSE IF InChoice(place[v]) THEN tries[v] ELSE 0
             /\ barred'[v] = IF starts(v) THEN Bars
                             ELSE IF InChoice(place[v]) THEN barred[v] ELSE {}
             /\ clear'[v] = IF starts(v) THEN Usable
                            ELSE IF InChoice(place[v]) THEN clear[v] ELSE {}
             /\ crossed'[v] = (~starts(v) /\ InChoice(place[v]) /\ crossed[v])
  BY DEF Hand
<1>2. /\ barred' = [v \in Users |-> barred'[v]] /\ clear' = [v \in Users |-> clear'[v]]
      /\ crossed' = [v \in Users |-> crossed'[v]]
  BY DEF Hand
<1> HIDE DEF starts
<1>3. /\ Bars' = Bars /\ Usable' = Usable /\ \A p : Ahead(p)' = Ahead(p)
      /\ Bars \subseteq {"removed", "cooling"} \X Proxies /\ Usable \subseteq Proxies
  BY DEF Bars, Usable, Ahead, EvidenceTypes
<1>4. /\ \A v \in Users : barred[v] \subseteq Bars /\ clear[v] \subseteq Usable
      /\ \A v \in Users : LooksAt(v) /\ YetToCome(v) /\ crossed[v] \in BOOLEAN
  BY DEF SearchInv, GhostTypes
<1>5. \A v \in Users : barred'[v] \subseteq Bars /\ clear'[v] \subseteq Usable
  BY <1>1, <1>4
<1>6. \A v \in Users : crossed'[v] \in BOOLEAN
  BY <1>1
<1>7. GhostTypes'
  <2>1. \A v \in Users : barred'[v] \in SUBSET ({"removed", "cooling"} \X Proxies)
                         /\ clear'[v] \in SUBSET Proxies
    BY <1>3, <1>5
  <2>2. QED
    BY <1>2, <1>6, <2>1 DEF GhostTypes
<1>8. ASSUME NEW v \in Users PROVE LooksAt(v)' /\ YetToCome(v)'
  <2>1. CASE starts(v)
    <3>1. at'[v] = "drawing" /\ clear'[v] \subseteq Proxies /\ tries'[v] = NumProxies
      BY <1>1, <1>3, <1>8, <2>1 DEF Rounds
    <3>2. \A p \in Proxies : Ahead(p) < NumProxies
      BY ProxyPoolAssumption DEF Ahead, PermitTypes, Proxies
    <3>3. QED
      BY <1>3, <3>1, <3>2 DEF LooksAt, YetToCome
  <2>2. CASE ~starts(v) /\ InChoice(place[v])
    <3>1. /\ at'[v] = at[v] /\ proxy'[v] = proxy[v] /\ tries'[v] = tries[v]
          /\ barred'[v] = barred[v] /\ clear'[v] = clear[v]
      BY <1>1, <1>8, <2>2
    <3>2. crossed'[v] = crossed[v]
      BY <1>1, <1>4, <1>8, <2>2
    <3>3. QED
      BY <1>3, <1>4, <3>1, <3>2 DEF LooksAt, YetToCome
  <2>3. CASE ~starts(v) /\ ~InChoice(place[v])
    <3>1. ~InChoice(at'[v])
      BY <1>1, <1>8, <2>3
    <3>2. QED
      BY <3>1 DEF LooksAt, YetToCome, InChoice
  <2>4. QED
    BY <2>1, <2>2, <2>3
<1>9. QED
  BY <1>3, <1>5, <1>7, <1>8 DEF SearchInv

(* Asking for a permit, with or without a look at the idle sessions.       *)
LEMMA BeginSearch ==
    ASSUME SearchInv, PermitTypes, EvidenceTypes, NEW u \in Users, Begin(u),
           UNCHANGED <<removed, cooling, cursor>>
    PROVE  SearchInv'
<1>1. at \in [Users -> Places] /\ proxy \in [Users -> Guard]
  BY DEF PermitTypes
<1>2. ASSUME NEW k, Ask(u, k), UNCHANGED proxy PROVE SearchInv'
  <2> DEFINE place == [at EXCEPT ![u] = "queued"]
  <2>1. Hand(Append(waiters, u), free_permits + k, place)
    BY <1>2 DEF Ask
  <2>2. \A v \in Users : InChoice(place[v]) => place[v] = at[v] /\ proxy'[v] = proxy[v]
    BY <1>1, <1>2 DEF InChoice
  <2> HIDE DEF place
  <2>3. QED
    BY <2>1, <2>2, HandSearch
<1>3. ASSUME NEW g, proxy' = [proxy EXCEPT ![u] = g],
             Hand(waiters, free_permits + aged, [at EXCEPT ![u] = "using"])
      PROVE  SearchInv'
  <2> DEFINE place == [at EXCEPT ![u] = "using"]
  <2>1. Hand(waiters, free_permits + aged, place)
    BY <1>3
  <2>2. \A v \in Users : InChoice(place[v]) => place[v] = at[v] /\ proxy'[v] = proxy[v]
    BY <1>1, <1>3 DEF InChoice
  <2> HIDE DEF place
  <2>3. QED
    BY <2>1, <2>2, HandSearch
<1>4. CASE u \in SessionUsers /\ aged < Len(idle)
  BY <1>3, <1>4 DEF Begin, TakeIdle
<1>5. CASE u \in SessionUsers /\ ~(aged < Len(idle))
  BY <1>2, <1>5 DEF Begin, TakeIdle
<1>6. CASE u \notin SessionUsers
  BY <1>2, <1>6 DEF Begin
<1>7. QED
  BY <1>4, <1>5, <1>6

(* Leaving a search, or letting go of a guard.                             *)
LEMMA LeaveSearch ==
    ASSUME SearchInv, PermitTypes, EvidenceTypes, NEW u \in Users,
           Cancel(u) \/ DropGuard(u) \/ DropSession(u)
    PROVE  SearchInv'
<1> DEFINE place == [at EXCEPT ![u] = Back(u)]
<1>1. /\ at \in [Users -> Places] /\ proxy \in [Users -> Guard]
      /\ UNCHANGED <<removed, cooling, cursor>>
      /\ \E g : proxy' = [proxy EXCEPT ![u] = g]
  BY DEF PermitTypes, Cancel, DropGuard, DropSession, Gone, health_vars
<1>2. \A v \in Users : InChoice(place[v]) => place[v] = at[v] /\ proxy'[v] = proxy[v]
  BY <1>1 DEF InChoice, Back
<1>3. CASE Cancel(u) \/ DropGuard(u)
  <2>1. \E q, free : Hand(q, free, place)
    <3>1. CASE Cancel(u)
      BY <3>1 DEF Cancel
    <3>2. CASE DropGuard(u)
      BY <3>2 DEF DropGuard
    <3>3. QED
      BY <1>3, <3>1, <3>2
  <2> HIDE DEF place
  <2>2. QED
    BY <1>1, <1>2, <2>1, HandSearch
<1>4. CASE DropSession(u)
  <2>1. at' = place /\ UNCHANGED <<tries, barred, clear, crossed>>
    BY <1>4 DEF DropSession, ghosts
  <2>2. at' \in [Users -> Places]
    BY <1>1, <2>1 DEF Back, Places
  <2>3. \A v \in Users : InChoice(at'[v]) => at'[v] = at[v] /\ proxy'[v] = proxy[v]
    BY <1>2, <2>1
  <2> HIDE DEF place
  <2>4. Bars' = Bars /\ Usable' = Usable /\ \A p : Ahead(p)' = Ahead(p)
    BY <1>1 DEF Bars, Usable, Ahead
  <2>5. ASSUME NEW v \in Users PROVE LooksAt(v)' /\ YetToCome(v)'
    <3>1. LooksAt(v) /\ YetToCome(v)
      BY DEF SearchInv
    <3>2. CASE ~InChoice(at'[v])
      BY <3>2 DEF LooksAt, YetToCome, InChoice
    <3>3. CASE InChoice(at'[v])
      BY <2>1, <2>3, <2>4, <2>5, <3>1, <3>3 DEF LooksAt, YetToCome
    <3>4. QED
      BY <3>2, <3>3
  <2>6. QED
    BY <2>1, <2>4, <2>5 DEF SearchInv, GhostTypes
<1>5. QED
  BY <1>3, <1>4

(* What a draw leaves ahead of the proxies that were not drawn.            *)
LEMMA DrawAdvances ==
    ASSUME cursor \in Proxies, cursor' = IF cursor = NumProxies THEN 1 ELSE cursor + 1,
           NEW p \in Proxies, p # cursor
    PROVE  Ahead(p)' = Ahead(p) - 1 /\ Ahead(p) \in Nat
BY ProxyPoolAssumption DEF Ahead, Proxies

(* One round of next_usable_proxy.                                         *)
LEMMA DrawSearch ==
    ASSUME SearchInv, PermitTypes, EvidenceTypes, NEW u \in Users, Draw(u)
    PROVE  SearchInv'
<1>1. /\ at \in [Users -> Places] /\ proxy \in [Users -> Guard] /\ cursor \in Proxies
      /\ tries \in [Users -> 0..NumProxies] /\ NumProxies \in Nat
      /\ removed \subseteq Proxies /\ cooling \subseteq Proxies
      /\ GhostTypes /\ at[u] = "drawing"
  BY ProxyPoolAssumption DEF SearchInv, PermitTypes, EvidenceTypes, Draw
<1>2. Bars' = Bars /\ Usable' = Usable
  BY DEF Draw, health_vars, Bars, Usable
<1>3. \A v \in Users :
        barred[v] \subseteq Bars /\ clear[v] \subseteq Usable /\ LooksAt(v) /\ YetToCome(v)
  BY DEF SearchInv
<1>4. CASE tries[u] > 0
  <2> DEFINE w == IF IsRemoved(cursor) THEN "drawing" ELSE "checking"
             g == IF IsRemoved(cursor) THEN Direct ELSE cursor
  <2>1. /\ proxy' = [proxy EXCEPT ![u] = g]
        /\ cursor' = IF cursor = NumProxies THEN 1 ELSE cursor + 1
        /\ tries' = [tries EXCEPT ![u] = tries[u] - 1]
        /\ at' = [at EXCEPT ![u] = w]
        /\ crossed' = [v \in Users |-> crossed[v] \/ (v # u /\ v \in Choosing)]
        /\ UNCHANGED <<barred, clear>>
    BY <1>1, <1>4 DEF Draw
  <2>2. \/ cursor \in removed /\ w = "drawing"
        \/ cursor \notin removed /\ w = "checking" /\ g = cursor
    BY DEF IsRemoved
  <2> HIDE DEF w, g
  <2>3. /\ at'[u] = w /\ proxy'[u] = g /\ tries'[u] = tries[u] - 1
        /\ tries[u] \in Nat /\ \A v \in Users \ {u} : at'[v] = at[v] /\ proxy'[v] = proxy[v]
    BY <1>1, <2>1
  <2>4. GhostTypes'
    <3>1. crossed' \in [Users -> BOOLEAN]
      BY <2>1
    <3>2. QED
      BY <1>1, <2>1, <3>1 DEF GhostTypes
  <2>5. ASSUME NEW v \in Users PROVE LooksAt(v)' /\ YetToCome(v)'
    <3>1. CASE v # u
      <4>1. at'[v] = at[v] /\ proxy'[v] = proxy[v] /\ barred'[v] = barred[v]
        BY <2>1, <2>3, <3>1
      <4>2. InChoice(at[v]) => crossed'[v]
        BY <2>1, <3>1 DEF Choosing
      <4>3. LooksAt(v)'
        BY <1>3, <4>1 DEF LooksAt
      <4>4. YetToCome(v)'
        BY <4>1, <4>2 DEF YetToCome
      <4>5. QED
        BY <4>3, <4>4
    <3>2. CASE v = u
      <4>1. /\ barred'[u] = barred[u] /\ clear'[u] = clear[u]
            /\ barred[u] \subseteq Bars /\ clear[u] \subseteq Usable
        BY <1>3, <2>1
      <4>2. LooksAt(u)'
        <5>1. SUFFICES ASSUME w = "checking"
                       PROVE  /\ proxy'[u] \in Proxies
                              /\ \A b \in barred[u] : b[2] = proxy'[u] => b[1] = "cooling"
          BY <2>3, <4>1 DEF LooksAt
        <5>2. cursor \notin removed /\ proxy'[u] = cursor
          BY <2>2, <2>3, <5>1
        <5>3. \A b \in Bars : b[2] \notin removed => b[1] = "cooling"
          BY DEF Bars
        <5>4. QED
          BY <1>1, <4>1, <5>2, <5>3
      <4>3. YetToCome(u)'
        <5>1. SUFFICES ASSUME ~crossed'[u], NEW p \in clear[u]
                       PROVE  (at'[u] = "checking" /\ p = proxy'[u]) \/ Ahead(p)' < tries'[u]
          BY <4>1 DEF YetToCome
        <5>2. ~crossed[u] /\ p \in Proxies /\ p \notin removed
          BY <2>1, <4>1, <5>1 DEF Usable
        <5>3. Ahead(p) < tries[u]
          BY <1>1, <1>3, <5>1, <5>2 DEF YetToCome, InChoice
        <5>4. CASE p = cursor
          BY <2>2, <2>3, <5>2, <5>4
        <5>5. CASE p # cursor
          <6>1. Ahead(p)' = Ahead(p) - 1 /\ Ahead(p) \in Nat
            BY <1>1, <2>1, <5>2, <5>5, DrawAdvances
          <6>2. QED
            BY <2>3, <5>3, <6>1
        <5>6. QED
          BY <5>4, <5>5
      <4>4. QED
        BY <3>2, <4>2, <4>3
    <3>3. QED
      BY <3>1, <3>2
  <2>6. QED
    BY <1>2, <1>3, <2>1, <2>4, <2>5 DEF SearchInv
<1>5. CASE ~(tries[u] > 0)
  <2>1. /\ proxy' = [proxy EXCEPT ![u] = Direct] /\ at' = [at EXCEPT ![u] = "using"]
        /\ Forget(u) /\ UNCHANGED cursor
    BY <1>5 DEF Draw
  <2>2. QED
    BY <1>1, <1>2, <1>3, <2>1 DEF SearchInv, GhostTypes, Forget, LooksAt, YetToCome, InChoice,
       Ahead
<1>6. QED
  BY <1>4, <1>5

(* The look at the cooldowns.                                              *)
LEMMA CheckSearch ==
    ASSUME SearchInv, PermitTypes, EvidenceTypes, NEW u \in Users, CheckCooldown(u)
    PROVE  SearchInv'
<1>1. /\ at \in [Users -> Places] /\ proxy \in [Users -> Guard] /\ at[u] = "checking"
      /\ tries \in [Users -> 0..NumProxies] /\ GhostTypes
  BY DEF SearchInv, PermitTypes, CheckCooldown
<1>2. Bars' = Bars /\ Usable' = Usable /\ \A p : Ahead(p)' = Ahead(p)
  BY DEF CheckCooldown, health_vars, Bars, Usable, Ahead
<1>3. \A v \in Users :
        barred[v] \subseteq Bars /\ clear[v] \subseteq Usable /\ LooksAt(v) /\ YetToCome(v)
  BY DEF SearchInv
<1>4. CASE proxy[u] \in cooling
  <2>1. /\ at' = [at EXCEPT ![u] = "drawing"] /\ proxy' = [proxy EXCEPT ![u] = Direct]
        /\ UNCHANGED <<tries, barred, clear, crossed>>
    BY <1>4 DEF CheckCooldown, ghosts
  <2>2. proxy[u] \notin clear[u]
    BY <1>3, <1>4 DEF Usable
  <2>3. ASSUME NEW v \in Users PROVE LooksAt(v)' /\ YetToCome(v)'
    BY <1>1, <1>2, <1>3, <2>1, <2>2, <2>3 DEF LooksAt, YetToCome, InChoice
  <2>4. QED
    BY <1>1, <1>2, <1>3, <2>1, <2>3 DEF SearchInv, GhostTypes
<1>5. CASE proxy[u] \notin cooling
  <2>1. at' = [at EXCEPT ![u] = "using"] /\ Forget(u) /\ UNCHANGED proxy
    BY <1>5 DEF CheckCooldown
  <2>2. /\ GhostTypes'
        /\ \A v \in Users : barred'[v] \subseteq barred[v] /\ clear'[v] \subseteq clear[v]
    BY <1>1, <2>1 DEF Forget, GhostTypes
  <2>3. ASSUME NEW v \in Users PROVE LooksAt(v)' /\ YetToCome(v)'
    BY <1>1, <1>2, <1>3, <2>1, <2>3 DEF LooksAt, YetToCome, InChoice, Forget, GhostTypes
  <2>4. QED
    BY <1>2, <1>3, <2>2, <2>3 DEF SearchInv
<1>6. QED
  BY <1>4, <1>5

(* A change of the proxies' standing.                                      *)
LEMMA WatchSearch ==
    ASSUME SearchInv, Watch, UNCHANGED choice_state
    PROVE  SearchInv'
<1>1. /\ GhostTypes /\ UNCHANGED <<at, proxy, tries, cursor, crossed>>
      /\ \A v \in Users : LooksAt(v) /\ YetToCome(v)
  BY DEF SearchInv, Watch, choice_state
<1>2. /\ barred' = [v \in Users |-> barred[v] \intersect Bars']
      /\ clear' = [v \in Users |-> clear[v] \intersect Usable']
  BY DEF Watch
<1>3. /\ GhostTypes'
      /\ \A v \in Users : /\ barred'[v] \subseteq barred[v] /\ clear'[v] \subseteq clear[v]
                         /\ barred'[v] \subseteq Bars' /\ clear'[v] \subseteq Usable'
  BY <1>1, <1>2 DEF GhostTypes
<1>4. \A p : Ahead(p)' = Ahead(p)
  BY <1>1 DEF Ahead
<1>5. ASSUME NEW v \in Users PROVE LooksAt(v)' /\ YetToCome(v)'
  BY <1>1, <1>3, <1>4 DEF LooksAt, YetToCome
<1>6. QED
  BY <1>3, <1>5 DEF SearchInv

(* Steps that have no part in any search.                                  *)
LEMMA NoSearch ==
    ASSUME SearchInv, UNCHANGED <<choice_state, removed, cooling, ghosts>>
    PROVE  SearchInv'
BY DEF SearchInv, GhostTypes, LooksAt, YetToCome, Ahead, Bars, Usable, choice_state, ghosts

(* Every search keeps what it was told apart from what it has seen.        *)
THEOREM SearchInvariance == ProxyPoolSpec => []SearchInv
<1>1. ProxyPoolInit => SearchInv
  BY DEF ProxyPoolInit, SearchInv, GhostTypes, LooksAt, YetToCome, InChoice
<1>2. SearchInv /\ PermitInv /\ EvidenceInv /\ [ProxyPoolNext]_proxy_vars => SearchInv'
  <2> SUFFICES ASSUME SearchInv, PermitInv, EvidenceInv, [ProxyPoolNext]_proxy_vars
               PROVE  SearchInv'
    OBVIOUS
  <2>1. PermitTypes /\ EvidenceTypes
    BY DEF PermitInv, EvidenceInv
  <2>2. ASSUME NEW u \in Users, UserStep(u) PROVE SearchInv'
    <3>1. CASE AcquireProxy(u) \/ acquire_fresh(u)
      <4>1. Begin(u) /\ UNCHANGED <<removed, cooling, cursor>>
        BY <3>1 DEF AcquireProxy, acquire_fresh, health_vars
      <4>2. QED
        BY <2>1, <4>1, BeginSearch
    <3>2. CASE Draw(u)
      BY <2>1, <3>2, DrawSearch
    <3>3. CASE CheckCooldown(u)
      BY <2>1, <3>3, CheckSearch
    <3>4. CASE mark_bad(u)
      BY <3>4, NoSearch DEF mark_bad
    <3>5. CASE Cancel(u) \/ DropGuard(u) \/ DropSession(u)
      BY <2>1, <3>5, LeaveSearch
    <3>6. QED
      BY <2>2, <3>1, <3>2, <3>3, <3>4, <3>5 DEF UserStep
  <2>3. ASSUME NEW p \in Proxies, ProxyStep(p) PROVE SearchInv'
    <3>1. CASE RecordCool(p) \/ CooldownExpires(p) \/ ProbeOk(p)
      BY <3>1, WatchSearch DEF RecordCool, CooldownExpires, ProbeOk
    <3>2. CASE RecordCheck(p) \/ RecordCount(p) \/ RecordClear(p) \/ WindowSlides(p)
               \/ ProbeFails(p)
      BY <3>2, NoSearch DEF RecordCheck, RecordCount, RecordClear, WindowSlides, ProbeFails
    <3>3. QED
      BY <2>3, <3>1, <3>2 DEF ProxyStep
  <2>4. CASE PushBack \/ IdleAges \/ HealthCheck \/ UNCHANGED proxy_vars
    BY <2>4, NoSearch DEF PushBack, IdleAges, HealthCheck, proxy_vars, health_vars
  <2>5. CASE Evict
    <3>1. /\ Hand(waiters, free_permits + aged, at)
          /\ UNCHANGED <<removed, cooling, cursor, proxy>>
      BY <2>5 DEF Evict, health_vars
    <3>2. QED
      BY <2>1, <3>1, HandSearch
  <2>6. QED
    BY <2>2, <2>3, <2>4, <2>5 DEF ProxyPoolNext
<1>3. QED
  BY <1>1, <1>2, PermitInvariance, EvidenceInvariance, PTL DEF ProxyPoolSpec

(* next_usable_proxy never returns a proxy that was removed or cooling all *)
(* along, and gives up only when no proxy was usable all along, unless the *)
(* cursor was moved by another task: for any list and any number of tasks. *)
THEOREM SearchEndsWell == ProxyPoolSpec => ProxyChosenWell
<1>1. SearchInv /\ PermitInv /\ [ProxyPoolNext]_proxy_vars
        => [\A u \in Users : UnusableNotChosen(u) /\ DirectWhenAlone(u)]_proxy_vars
  <2> SUFFICES ASSUME SearchInv, PermitInv, ProxyPoolNext, NEW u \in Users, Chosen(u)
               PROVE  /\ proxy'[u] # Direct => \A b \in barred[u] : b[2] # proxy'[u]
                      /\ proxy'[u] = Direct /\ ~crossed[u] => clear[u] = {}
    BY DEF UnusableNotChosen, DirectWhenAlone
  <2>1. /\ InChoice(at[u]) /\ at'[u] = "using" /\ old'[u] = old[u]
        /\ at \in [Users -> Places] /\ proxy \in [Users -> Guard] /\ old \in [Users -> Kept]
        /\ tries \in [Users -> 0..NumProxies] /\ cursor \in Proxies
    BY DEF Chosen, Choosing, PermitInv, PermitTypes
  <2>2. /\ barred[u] \subseteq Bars /\ clear[u] \subseteq Usable
        /\ LooksAt(u) /\ YetToCome(u)
    BY DEF SearchInv
  <2>3. (Draw(u) /\ tries[u] = 0) \/ (CheckCooldown(u) /\ proxy[u] \notin cooling)
    <3>1. ASSUME NEW q, NEW free, NEW place, Hand(q, free, place) PROVE place[u] = "using"
      BY <2>1, <3>1 DEF Hand
    <3>2. ASSUME NEW v \in Users, UserStep(v), v # u PROVE FALSE
      <4>1. at[u] # "using" /\ \A w : [at EXCEPT ![v] = w][u] = at[u]
        BY <2>1, <3>2 DEF InChoice
      <4>2. CASE AcquireProxy(v) \/ acquire_fresh(v)
        <5>1. Begin(v)
          BY <4>2 DEF AcquireProxy, acquire_fresh
        <5>2. PICK q, free, w : Hand(q, free, [at EXCEPT ![v] = w])
          BY <5>1 DEF Begin, TakeIdle, Ask
        <5>3. [at EXCEPT ![v] = w][u] = "using"
          BY <3>1, <5>2
        <5>4. QED
          BY <4>1, <5>3
      <4>3. CASE Cancel(v) \/ DropGuard(v)
        <5>1. PICK q, free : Hand(q, free, [at EXCEPT ![v] = Back(v)])
          BY <4>3 DEF Cancel, DropGuard
        <5>2. [at EXCEPT ![v] = Back(v)][u] = "using"
          BY <3>1, <5>1
        <5>3. QED
          BY <4>1, <5>2
      <4>4. CASE \E w : at' = [at EXCEPT ![v] = w]
        BY <2>1, <3>2, <4>1, <4>4
      <4>5. CASE UNCHANGED at
        BY <2>1, <4>1, <4>5
      <4>6. QED
        BY <3>2, <4>2, <4>3, <4>4, <4>5
        DEF UserStep, Draw, CheckCooldown, mark_bad, DropSession, choice_state
    <3>3. ASSUME UserStep(u) PROVE Draw(u) \/ CheckCooldown(u)
      <4>1. at[u] # "out" /\ at[u] # "using"
        BY <2>1 DEF InChoice
      <4>2. ~Cancel(u)
        <5>1. SUFFICES ASSUME Cancel(u) PROVE FALSE
          OBVIOUS
        <5>2. \E q, free : Hand(q, free, [at EXCEPT ![u] = Back(u)])
          BY <5>1 DEF Cancel
        <5>3. Back(u) = "using"
          BY <2>1, <3>1, <5>2
        <5>4. old[u] # <<>> /\ old'[u] = <<>>
          BY <2>1, <5>1, <5>3 DEF Back, Cancel
        <5>5. QED
          BY <2>1, <5>4
      <4>3. QED
        BY <3>3, <4>1, <4>2
        DEF UserStep, AcquireProxy, acquire_fresh, mark_bad, DropGuard, DropSession, Gone
    <3>4. ASSUME UNCHANGED at PROVE FALSE
      BY <2>1, <3>4 DEF InChoice
    <3>5. ASSUME Evict PROVE FALSE
      BY <2>1, <3>1, <3>5 DEF Evict, InChoice
    <3>6. UserStep(u)
      <4>1. ASSUME NEW p \in Proxies, ProxyStep(p) PROVE UNCHANGED at
        BY <4>1 DEF ProxyStep, RecordCheck, RecordCount, RecordClear, RecordCool, WindowSlides,
           CooldownExpires, ProbeOk, ProbeFails, choice_state
      <4>2. ASSUME PushBack \/ IdleAges \/ HealthCheck PROVE UNCHANGED at
        BY <4>2 DEF PushBack, IdleAges, HealthCheck, choice_state
      <4>3. QED
        BY <3>2, <3>4, <3>5, <4>1, <4>2 DEF ProxyPoolNext
    <3>7. QED
      <4>1. CASE Draw(u)
        BY <2>1, <4>1 DEF Draw, IsRemoved
      <4>2. CASE CheckCooldown(u)
        BY <2>1, <4>2 DEF CheckCooldown
      <4>3. QED
        BY <3>3, <3>6, <4>1, <4>2
  <2>4. CASE Draw(u) /\ tries[u] = 0
    <3>1. proxy'[u] = Direct /\ at[u] = "drawing"
      BY <2>1, <2>4 DEF Draw
    <3>2. ASSUME ~crossed[u] PROVE clear[u] = {}
      <4>1. \A p \in clear[u] : Ahead(p) < 0
        BY <2>2, <2>4, <3>1, <3>2 DEF YetToCome, InChoice
      <4>2. \A p \in Proxies : Ahead(p) >= 0
        BY <2>1, ProxyPoolAssumption DEF Ahead, Proxies
      <4>3. \A p \in Proxies : Ahead(p) \in Int
        BY <2>1, ProxyPoolAssumption DEF Ahead, Proxies
      <4>4. QED
        BY <2>2, <4>1, <4>2, <4>3 DEF Usable
    <3>3. QED
      BY <3>1, <3>2
  <2>5. CASE CheckCooldown(u) /\ proxy[u] \notin cooling
    <3>1. proxy'[u] = proxy[u] /\ at[u] = "checking"
      BY <2>1, <2>5 DEF CheckCooldown
    <3>2. /\ proxy[u] \in Proxies
          /\ \A b \in barred[u] : b[2] = proxy[u] => b[1] = "cooling"
      BY <2>2, <3>1 DEF LooksAt
    <3>3. \A b \in Bars : b[1] = "cooling" => b[2] \in cooling
      BY DEF Bars
    <3>4. QED
      BY <2>2, <2>5, <3>1, <3>2, <3>3, ProxyPoolAssumption
  <2>6. QED
    BY <2>3, <2>4, <2>5
<1>2. QED
  BY <1>1, PermitInvariance, SearchInvariance, PTL DEF ProxyPoolSpec, ProxyChosenWell
====
