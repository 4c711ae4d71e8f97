---------------------------- MODULE ClientProofs ----------------------------
(* Proofs about Request, QuicChoice and Streaming, the parts of a client    *)
(* that carry a call, for any sites, calls, limits and bodies.              *)
EXTENDS Request, QuicChoice, Streaming, FiniteSetTheorems, WellFoundedInduction, TLAPS

-----------------------------------------------------------------------------
(* A call: what is under way                                               *)

Stages == {"top", "acquire", "pooled", "reestablish", "single", "race", "last",
           "answered", "failed"}
JobStates == {"off", "connecting", "sent", "processed", "failed"}
Wires == {"tcp", "h1", "h2", "h3"}

JobType == [st : JobStates, via : Wires, err : Errors \cup {"none"}]
RecordType ==
    [served : SUBSET {"hop", "try", "past"}, twice : BOOLEAN, causes : SUBSET {"gate", "resend"},
     leak : SUBSET AllHeaders, clear : BOOLEAN, left : BOOLEAN]

RequestTypeOK ==
    /\ call \in Calls
    /\ cur \in [url : Urls, method : Methods, headers : SUBSET AllHeaders]
    /\ stage \in Stages
    /\ job \in [Jobs -> JobType]
    /\ count \in [attempt : Nat, remaining : 0 .. MaxRedirects]
    /\ hsts \subseteq Sites
    /\ record \in RecordType

Credentials == {"authorization", "cookie"}

(* Once the call has left an origin its credentials are gone for this try. *)
CredentialsDropped ==
    record.left => cur.headers \cap Credentials = {}

Between == stage \in {"top", "acquire", "reestablish"}
Over == stage \in {"answered", "failed"}

(* From the top of the loop on a hop is not in the clear where it may not  *)
(* be: only a response changes what HSTS knows, and it ends the hop.       *)
HopEncrypted ==
    ~Over /\ stage # "top" /\ cur.url.scheme = "http" =>
        ~call.policy.https_only /\ cur.url.site \notin hsts

(* The futures of a hop: none between hops, one unless they race.          *)
JobsPlaced ==
    /\ Between => job = NoJobs
    /\ stage \in {"pooled", "single", "last"} =>
         job["other"].st = "off" /\ job["main"].st # "failed"

(* As long as nothing has set a cause, one future of the hop has sent at   *)
(* most; if the server acted in this hop, that one did it, or it has failed *)
(* in a race whose other future has sent nothing; no earlier try was acted *)
(* on, and what an earlier hop did makes the retry gate a cause.           *)
NoCauseYet ==
    record.causes = {} =>
        /\ ~record.twice
        /\ "past" \notin record.served
        /\ ~Over => \A j \in Jobs : job[j].st \in {"sent", "processed"} =>
                                      job[OtherJob(j)].st \notin {"sent", "processed"}
        /\ ~Over /\ "hop" \in record.served =>
             \E j \in Jobs :
                \/ job[j].st = "processed"
                \/ job[j].st = "failed" /\ job[OtherJob(j)].st = "connecting"

ServedSound ==
    /\ Safe => record.served = {}
    /\ ~Over /\ "try" \in record.served => count.remaining < MaxRedirects

RequestInv ==
    /\ RequestTypeOK /\ CredentialsStayHome /\ NoCleartext
    /\ CredentialsDropped /\ HopEncrypted /\ JobsPlaced /\ NoCauseYet /\ ServedSound

-----------------------------------------------------------------------------
USE DEF JobType, RecordType

(* RequestInv holds at the start of a call.                                *)
LEMMA RequestInitInv == RequestInit => RequestInv
<1> SUFFICES ASSUME RequestInit PROVE RequestInv
  OBVIOUS
<1>1. RequestTypeOK
  BY RequestAssumption DEF RequestInit, RequestTypeOK, Original, AllHeaders, Stages, NoJobs,
     NoJob, JobStates, Wires, Errors, Urls
<1>2. CredentialsStayHome /\ NoCleartext /\ CredentialsDropped /\ HopEncrypted
  BY DEF RequestInit, CredentialsStayHome, NoCleartext, CredentialsDropped, HopEncrypted
<1>3. JobsPlaced /\ NoCauseYet /\ ServedSound
  BY DEF RequestInit, JobsPlaced, NoCauseYet, ServedSound, Between, NoJobs, NoJob, Jobs,
     OtherJob
<1>4. QED
  BY <1>1, <1>2, <1>3 DEF RequestInv

(* The top of the redirect loop upgrades the URL or fails and keeps        *)
(* RequestInv.                                                             *)
LEMMA TopInv == RequestInv /\ Top => RequestInv'
<1> SUFFICES ASSUME RequestInv, Top PROVE RequestInv'
  OBVIOUS
<1> USE DEF RequestInv
<1>1. RequestTypeOK'
  BY DEF Top, Fails, Upgraded, RequestTypeOK, Stages, NoJobs, NoJob, JobStates, Wires,
     Errors, Urls
<1>2. (CredentialsStayHome /\ NoCleartext /\ CredentialsDropped)'
  BY DEF RequestTypeOK, Top, Fails, CredentialsStayHome, NoCleartext, CredentialsDropped
<1>3. HopEncrypted'
  BY DEF RequestTypeOK, Top, Fails, Upgraded, HopEncrypted, Over, Urls
<1>4. (JobsPlaced /\ NoCauseYet /\ ServedSound)'
  BY DEF Top, Fails, JobsPlaced, NoCauseYet, ServedSound, Between, Over, NoJobs, NoJob, Jobs,
     OtherJob, Safe
<1>5. QED
  BY <1>1, <1>2, <1>3, <1>4

(* A future sends the request: HopEncrypted and CredentialsDropped say what *)
(* it may carry; if the other one has sent before, that is a cause.        *)
LEMMA TransmitInv ==
    ASSUME RequestInv, NEW j \in Jobs, Transmit(j)
    PROVE  RequestInv'
<1> USE DEF RequestInv
<1>1. RequestTypeOK'
  <2>1. PICK via \in Wires : job' = [job EXCEPT ![j] = [@ EXCEPT !.st = "sent", !.via = via]]
    BY DEF Transmit, RequestTypeOK, Wires
  <2>2. job' \in [Jobs -> JobType]
    <3>1. [job[j] EXCEPT !.st = "sent", !.via = via] \in JobType
      <4>1. job[j] \in JobType
        BY DEF RequestTypeOK
      <4>2. ASSUME NEW x \in JobType PROVE [x EXCEPT !.st = "sent", !.via = via] \in JobType
        BY DEF JobStates
      <4> HIDE DEF JobType
      <4>3. QED
        BY <4>1, <4>2
    <3> HIDE DEF JobType
    <3>2. QED
      BY <2>1, <3>1 DEF RequestTypeOK
  <2>3. record' \in RecordType
    BY DEF Transmit, RequestTypeOK
  <2>4. QED
    BY <2>2, <2>3 DEF Transmit, RequestTypeOK
<1>2. (CredentialsStayHome /\ NoCleartext /\ CredentialsDropped)'
  BY DEF RequestTypeOK, Transmit, CredentialsStayHome, NoCleartext, CredentialsDropped,
     HopEncrypted, InHop, Over, Credentials
<1>3. HopEncrypted'
  BY DEF RequestTypeOK, Transmit, HopEncrypted, Over
<1>4. JobsPlaced'
  BY DEF RequestTypeOK, Transmit, InHop, JobsPlaced, Between, Jobs
<1>5. NoCauseYet'
  BY DEF RequestTypeOK, Transmit, InHop, NoCauseYet, Over, Jobs, OtherJob
<1>6. ServedSound'
  BY DEF RequestTypeOK, Transmit, ServedSound, Over, Safe
<1>7. QED
  BY <1>1, <1>2, <1>3, <1>4, <1>5, <1>6

(* The server acts: for a second time only if there is a cause.            *)
LEMMA ProcessInv ==
    ASSUME RequestInv, NEW j \in Jobs, Process(j)
    PROVE  RequestInv'
<1> USE DEF RequestInv
<1>1. RequestTypeOK'
  <2>1. job' \in [Jobs -> JobType]
    BY DEF Process, RequestTypeOK, JobStates
  <2>2. record' \in RecordType
    BY DEF Process, RequestTypeOK
  <2>3. QED
    BY <2>1, <2>2 DEF Process, RequestTypeOK
<1>2. (CredentialsStayHome /\ NoCleartext /\ CredentialsDropped)'
  BY DEF RequestTypeOK, Process, CredentialsStayHome, NoCleartext, CredentialsDropped
<1>3. HopEncrypted'
  BY DEF RequestTypeOK, Process, HopEncrypted, Over
<1>4. JobsPlaced'
  BY DEF RequestTypeOK, Process, InHop, JobsPlaced, Between, Jobs
<1>5. NoCauseYet'
  BY DEF RequestTypeOK, Process, InHop, NoCauseYet, Over, Jobs, OtherJob
<1>6. ServedSound'
  BY DEF RequestTypeOK, Process, ServedSound, Over, Safe
<1>7. QED
  BY <1>1, <1>2, <1>3, <1>4, <1>5, <1>6

(* The end of a try on an error.  What the gate lets pass without a cause  *)
(* is an error of a future that has sent nothing the server acted on.      *)
LEMMA EndTryInv ==
    ASSUME RequestInv, NEW err, EndTry(err), job' = NoJobs, UNCHANGED <<call, hsts>>, ~Over,
           record.causes = {} /\ err \in {"connect", "refused"} => "hop" \notin record.served
    PROVE  RequestInv'
<1> USE DEF RequestInv
<1>1. CASE stage' = "failed" /\ UNCHANGED <<cur, count, record>>
  <2>1. RequestTypeOK'
    BY <1>1 DEF RequestTypeOK, Stages, NoJobs, NoJob, JobStates, Wires, Errors
  <2>2. (CredentialsStayHome /\ NoCleartext /\ CredentialsDropped /\ HopEncrypted)'
    BY <1>1 DEF CredentialsStayHome, NoCleartext, CredentialsDropped, HopEncrypted, Over
  <2>3. (JobsPlaced /\ NoCauseYet /\ ServedSound)'
    BY <1>1 DEF JobsPlaced, NoCauseYet, ServedSound, Between, Over, Safe
  <2>4. QED
    BY <2>1, <2>2, <2>3
<1>2. CASE EndTry(err) /\ stage' = "top"
  <2> DEFINE why == (IF err = "race" THEN {"gate"} ELSE {}) \cup
                    (IF count.remaining < MaxRedirects THEN {"gate"} ELSE {})
  <2>1. Again(why) /\ Retryable(err) /\ (SafeToReplay(err) \/ Safe)
    BY <1>2 DEF EndTry
  <2>2. record' = [record EXCEPT !.served = IF @ = {} THEN {} ELSE {"past"},
                                 !.left = FALSE, !.causes = @ \cup why]
    BY <2>1 DEF Again
  <2>3. RequestTypeOK'
    <3>1. cur' \in [url : Urls, method : Methods, headers : SUBSET AllHeaders]
      BY <2>1, RequestAssumption DEF Again, Original, RequestTypeOK
    <3>2. count' \in [attempt : Nat, remaining : 0 .. MaxRedirects]
      BY <2>1, RequestAssumption DEF Again, RequestTypeOK
    <3>3. record' \in RecordType
      BY <2>2 DEF RequestTypeOK
    <3>4. QED
      BY <1>2, <3>1, <3>2, <3>3 DEF RequestTypeOK, Stages, NoJobs, NoJob, JobStates, Wires,
         Errors
  <2>4. (CredentialsStayHome /\ NoCleartext /\ CredentialsDropped /\ HopEncrypted)'
    BY <2>1, <2>2 DEF Again, RequestTypeOK, CredentialsStayHome, NoCleartext,
       CredentialsDropped, HopEncrypted, Over
  <2>5. JobsPlaced'
    BY <1>2 DEF JobsPlaced, Between
  <2>6. record.causes = {} /\ why = {} => record.served = {}
    <3> SUFFICES ASSUME record.causes = {}, why = {}, ~Safe PROVE record.served = {}
      BY DEF ServedSound
    <3>1. err \in {"connect", "refused"} /\ ~(count.remaining < MaxRedirects)
      BY <2>1 DEF SafeToReplay
    <3>2. "hop" \notin record.served /\ "past" \notin record.served
      BY <3>1 DEF NoCauseYet
    <3>3. "try" \notin record.served
      BY <3>1 DEF ServedSound
    <3>4. QED
      BY <3>2, <3>3 DEF RequestTypeOK
  <2>7. NoCauseYet'
    BY <2>2, <2>6 DEF NoCauseYet, RequestTypeOK, NoJobs, NoJob, Jobs, OtherJob
  <2>8. ServedSound'
    BY <2>1, <2>2 DEF ServedSound, RequestTypeOK, Safe
  <2>9. QED
    BY <2>3, <2>4, <2>5, <2>7, <2>8
<1>3. QED
  BY <1>1, <1>2 DEF EndTry, Again

(* A hop gets its first future, or its only one after a race.              *)
LEMMA FirstJobInv ==
    ASSUME RequestInv, NEW via \in Wires, job' = [NoJobs EXCEPT !["main"] = Dialing(via)],
           stage' \in {"pooled", "single", "race", "last"},
           ~Over, stage # "top", UNCHANGED <<call, cur, count, hsts>>,
           NEW why \in SUBSET {"gate", "resend"}, record' = [record EXCEPT !.causes = why],
           why = {} => record.causes = {} /\ "hop" \notin record.served
    PROVE  RequestInv'
<1> USE DEF RequestInv
<1>1. RequestTypeOK'
  BY DEF RequestTypeOK, Stages, NoJobs, NoJob, Dialing, JobStates, Wires, Errors
<1>2. (CredentialsStayHome /\ NoCleartext /\ CredentialsDropped /\ HopEncrypted)'
  BY DEF RequestTypeOK, CredentialsStayHome, NoCleartext, CredentialsDropped, HopEncrypted,
     Over
<1>3. JobsPlaced'
  BY DEF JobsPlaced, Between, NoJobs, NoJob, Dialing, Jobs
<1>4. NoCauseYet'
  BY DEF RequestTypeOK, NoCauseYet, NoJobs, NoJob, Dialing, Jobs, OtherJob
<1>5. ServedSound'
  BY DEF RequestTypeOK, ServedSound, Over, Safe
<1>6. QED
  BY <1>1, <1>2, <1>3, <1>4, <1>5

(* Between the hops and without a cause, nothing of this hop was acted on. *)
LEMMA BetweenUnserved ==
    ASSUME RequestInv, Between, record.causes = {}
    PROVE  "hop" \notin record.served
BY DEF RequestInv, JobsPlaced, NoCauseYet, Between, Over, NoJobs, NoJob, Jobs, OtherJob

(* Taking a pooled connection or dialing one starts the hop and keeps      *)
(* RequestInv.                                                             *)
LEMMA HopStartsInv ==
    ASSUME RequestInv, AcquirePooled \/ Establish
    PROVE  RequestInv'
<1>1. /\ record' = [record EXCEPT !.causes = record.causes]
      /\ record.causes \in SUBSET {"gate", "resend"}
  BY DEF AcquirePooled, Establish, RequestInv, RequestTypeOK
<1>2. Between /\ ~Over /\ stage # "top" /\ UNCHANGED <<call, cur, count, hsts>>
  BY DEF AcquirePooled, Establish, Between, Over
<1>3. stage' \in {"pooled", "single", "race", "last"}
  BY DEF AcquirePooled, Establish
<1>4. PICK via \in Wires : job' = [NoJobs EXCEPT !["main"] = Dialing(via)]
  BY DEF AcquirePooled, Establish, Wires
<1>5. QED
  BY <1>1, <1>2, <1>3, <1>4, FirstJobInv, BetweenUnserved

(* The loops go on with a response, whose hop is over.                     *)
LEMMA AnsweredInv ==
    ASSUME RequestInv, NEW status \in Statuses, Answered(status), InHop, job' = NoJobs,
           call' = call, hsts' \subseteq Sites
    PROVE  RequestInv'
<1> USE DEF RequestInv
<1>1. job' \in [Jobs -> JobType]
  BY DEF NoJobs, NoJob, JobStates, Wires, Errors
<1>2. CASE stage' \in {"failed", "answered"} /\ UNCHANGED <<cur, count, record>>
  <2>1. RequestTypeOK'
    BY <1>1, <1>2 DEF RequestTypeOK, Stages
  <2>2. (CredentialsStayHome /\ NoCleartext /\ CredentialsDropped /\ HopEncrypted)'
    BY <1>2 DEF CredentialsStayHome, NoCleartext, CredentialsDropped, HopEncrypted, Over
  <2>3. (JobsPlaced /\ NoCauseYet /\ ServedSound)'
    BY <1>2 DEF JobsPlaced, NoCauseYet, ServedSound, Between, Over, Safe
  <2>4. QED
    BY <2>1, <2>2, <2>3
<1>3. CASE Again({"resend"})
  <2>1. record' = [record EXCEPT !.served = IF @ = {} THEN {} ELSE {"past"},
                                 !.left = FALSE, !.causes = @ \cup {"resend"}]
    BY <1>3 DEF Again
  <2>2. RequestTypeOK'
    <3>1. cur' \in [url : Urls, method : Methods, headers : SUBSET AllHeaders]
      BY <1>3, RequestAssumption DEF Again, Original, RequestTypeOK
    <3>2. count' \in [attempt : Nat, remaining : 0 .. MaxRedirects]
      BY <1>3, RequestAssumption DEF Again, RequestTypeOK
    <3>3. record' \in RecordType
      BY <2>1 DEF RequestTypeOK
    <3>4. QED
      BY <1>1, <1>3, <3>1, <3>2, <3>3 DEF Again, RequestTypeOK, Stages
  <2>3. (CredentialsStayHome /\ NoCleartext /\ CredentialsDropped /\ HopEncrypted)'
    BY <1>3, <2>1 DEF Again, RequestTypeOK, CredentialsStayHome, NoCleartext,
       CredentialsDropped, HopEncrypted, Over
  <2>4. (JobsPlaced /\ NoCauseYet /\ ServedSound)'
    BY <1>3, <2>1 DEF Again, RequestTypeOK, JobsPlaced, NoCauseYet, ServedSound, Between, Safe
  <2>5. QED
    BY <2>2, <2>3, <2>4
<1>4. ASSUME NEW to \in Urls, Follow(to, status), count.remaining > 0 PROVE RequestInv'
  <2>1. record' = [record EXCEPT !.served = IF "hop" \in @ THEN (@ \ {"hop"}) \cup {"try"}
                                                           ELSE @,
                                 !.left = @ \/ CrossOrigin(cur.url, to)]
    BY <1>4 DEF Follow
  <2>2. RequestTypeOK'
    <3>1. cur' \in [url : Urls, method : Methods, headers : SUBSET AllHeaders]
      <4>1. Stripped(cur.headers, cur.url, to, status) \in SUBSET AllHeaders
        BY DEF Stripped, RequestTypeOK
      <4>2. (IF status = "303" THEN "GET" ELSE cur.method) \in Methods
        BY DEF RequestTypeOK, Methods
      <4>3. QED
        BY <1>4, <4>1, <4>2 DEF Follow
    <3>2. count' \in [attempt : Nat, remaining : 0 .. MaxRedirects]
      BY <1>4, RequestAssumption DEF Follow, RequestTypeOK
    <3>3. record' \in RecordType
      BY <2>1 DEF RequestTypeOK, CrossOrigin
    <3>4. QED
      BY <1>1, <1>4, <3>1, <3>2, <3>3 DEF Follow, RequestTypeOK, Stages
  <2>3. CredentialsDropped'
    <3>1. CASE CrossOrigin(cur.url, to)
      BY <1>4, <3>1 DEF Follow, Stripped, CredentialsDropped, Credentials
    <3>2. CASE ~CrossOrigin(cur.url, to)
      BY <1>4, <2>1, <3>2 DEF Follow, Stripped, CredentialsDropped, RequestTypeOK
    <3>3. QED
      BY <3>1, <3>2
  <2>4. (CredentialsStayHome /\ NoCleartext /\ HopEncrypted)'
    BY <1>4, <2>1 DEF Follow, RequestTypeOK, CredentialsStayHome, NoCleartext, HopEncrypted
  <2>5. JobsPlaced'
    BY <1>4 DEF Follow, JobsPlaced
  <2>6. NoCauseYet'
    BY <1>4, <2>1 DEF RequestTypeOK, NoCauseYet, NoJobs, NoJob, Jobs, OtherJob
  <2>7. ServedSound'
    BY <1>4, <2>1, RequestAssumption DEF Follow, RequestTypeOK, ServedSound, InHop, Over, Safe
  <2>8. QED
    BY <2>2, <2>3, <2>4, <2>5, <2>6, <2>7
<1>5. QED
  BY <1>2, <1>3, <1>4 DEF Answered, Fails

(* A response - retry, gate, redirect or answer - keeps RequestInv.        *)
LEMMA RespondInv ==
    ASSUME RequestInv, NEW j \in Jobs, Respond(j)
    PROVE  RequestInv'
<1>1. hsts' \subseteq Sites
  BY DEF Respond, RequestInv, RequestTypeOK, Urls
<1>2. QED
  BY <1>1, AnsweredInv DEF Respond

(* A future that is alone has sent nothing the server acted on, or there   *)
(* is a cause, when it fails to connect or its stream is refused.          *)
LEMMA AloneUnserved ==
    ASSUME RequestInv, stage \in {"pooled", "single", "last"}, record.causes = {},
           job["main"].st \in {"connecting", "sent"}
    PROVE  "hop" \notin record.served
BY DEF RequestInv, JobsPlaced, NoCauseYet, Over, Jobs, OtherJob

(* A pooled connection fails, or the only future of a hop.                 *)
LEMMA AloneFailsInv ==
    ASSUME RequestInv, NEW err \in Errors, PooledFails(err) \/ SingleFails(err)
    PROVE  RequestInv'
<1>1. CASE PooledFails(err) /\ stage' = "reestablish"
  <2> USE <1>1 DEF RequestInv
  <2>1. /\ UNCHANGED <<call, cur, count, hsts>> /\ job' = NoJobs /\ stage = "pooled"
        /\ record' = [record EXCEPT !.causes =
                         IF job["main"].st = "processed" THEN @ \cup {"resend"} ELSE @]
        /\ Mishap("main", err)
    BY DEF PooledFails, EndTry, Again
  <2>2. RequestTypeOK'
    BY <2>1 DEF RequestTypeOK, Stages, NoJobs, NoJob, JobStates, Wires, Errors
  <2>3. (CredentialsStayHome /\ NoCleartext /\ CredentialsDropped /\ HopEncrypted)'
    BY <2>1 DEF RequestTypeOK, CredentialsStayHome, NoCleartext, CredentialsDropped,
       HopEncrypted, Over
  <2>4. JobsPlaced'
    BY <2>1 DEF JobsPlaced
  <2>5. NoCauseYet'
    <3> SUFFICES ASSUME record'.causes = {} PROVE NoCauseYet'
      BY DEF NoCauseYet
    <3>1. record' = record /\ job["main"].st # "processed"
      BY <2>1 DEF RequestTypeOK
    <3>2. job["main"].st \in {"connecting", "sent"}
      BY <2>1, <3>1 DEF Mishap
    <3>3. "hop" \notin record.served
      BY <2>1, <3>1, <3>2, AloneUnserved
    <3>4. QED
      BY <2>1, <3>1, <3>3 DEF NoCauseYet, NoJobs, NoJob, Jobs, OtherJob
  <2>6. ServedSound'
    BY <2>1 DEF RequestTypeOK, ServedSound, Over, Safe
  <2>7. QED
    BY <2>2, <2>3, <2>4, <2>5, <2>6
<1>2. CASE ~(PooledFails(err) /\ stage' = "reestablish")
  <2>1. /\ job' = NoJobs /\ UNCHANGED <<call, hsts>>
        /\ stage \in {"pooled", "single", "last"} /\ Mishap("main", err)
        /\ EndTry(IF stage = "last" THEN "race" ELSE err)
    BY <1>2 DEF PooledFails, SingleFails
  <2>2. record.causes = {} /\ err \in {"connect", "refused"} => "hop" \notin record.served
    <3> SUFFICES ASSUME record.causes = {}, err \in {"connect", "refused"}
                 PROVE  "hop" \notin record.served
      OBVIOUS
    <3>1. job["main"].st \in {"connecting", "sent"}
      BY <2>1 DEF Mishap
    <3>2. QED
      BY <2>1, <3>1, AloneUnserved
  <2>3. CASE stage = "last"
    BY <2>1, <2>3, EndTryInv DEF Over
  <2>4. CASE stage # "last"
    BY <2>1, <2>2, <2>4, EndTryInv DEF Over
  <2>5. QED
    BY <2>3, <2>4
<1>3. QED
  BY <1>1, <1>2

(* A future starts again inside: what it sent before is a cause if the     *)
(* server acted on it.                                                     *)
LEMMA JobFallsBackInv ==
    ASSUME RequestInv, NEW j \in Jobs, NEW err \in Errors, JobFallsBack(j, err)
    PROVE  RequestInv'
<1> USE DEF RequestInv
<1>1. PICK via \in {"tcp", "h1"} : job' = [job EXCEPT ![j] = Dialing(via)]
  BY DEF JobFallsBack
<1>2. /\ record' = [record EXCEPT !.causes =
                       IF job[j].st = "processed" THEN @ \cup {"resend"} ELSE @]
      /\ stage \in {"single", "race", "last"} /\ UNCHANGED <<call, cur, stage, count, hsts>>
      /\ job[j].st \in {"connecting", "sent", "processed"}
  BY DEF JobFallsBack, Mishap
<1>3. RequestTypeOK'
  <2>1. Dialing(via) \in JobType
    BY DEF Dialing, JobStates, Wires
  <2> HIDE DEF JobType
  <2>2. QED
    BY <1>1, <1>2, <2>1 DEF RequestTypeOK
<1>4. (CredentialsStayHome /\ NoCleartext /\ CredentialsDropped /\ HopEncrypted)'
  BY <1>2 DEF RequestTypeOK, CredentialsStayHome, NoCleartext, CredentialsDropped,
     HopEncrypted, Over
<1>5. JobsPlaced'
  BY <1>1, <1>2 DEF RequestTypeOK, JobsPlaced, Between, Dialing, Jobs
<1>6. NoCauseYet'
  <2> SUFFICES ASSUME record'.causes = {} PROVE NoCauseYet'
    BY DEF NoCauseYet
  <2>1. record' = record /\ job[j].st # "processed"
    BY <1>2 DEF RequestTypeOK
  <2>2. QED
    BY <1>1, <1>2, <2>1 DEF RequestTypeOK, NoCauseYet, Dialing, Jobs, OtherJob, Over
<1>7. ServedSound'
  BY <1>2 DEF RequestTypeOK, ServedSound, Over, Safe
<1>8. QED
  BY <1>3, <1>4, <1>5, <1>6, <1>7

(* TCP joins the race.                                                     *)
LEMMA ReleaseTcpInv == RequestInv /\ ReleaseTcp => RequestInv'
<1> SUFFICES ASSUME RequestInv, ReleaseTcp PROVE RequestInv'
  OBVIOUS
<1> USE DEF RequestInv, ReleaseTcp
<1>1. RequestTypeOK'
  <2>1. Dialing("tcp") \in JobType
    BY DEF Dialing, JobStates, Wires
  <2> HIDE DEF JobType
  <2>2. QED
    BY <2>1 DEF RequestTypeOK
<1>2. (CredentialsStayHome /\ NoCleartext /\ CredentialsDropped /\ HopEncrypted)'
  BY DEF CredentialsStayHome, NoCleartext, CredentialsDropped, HopEncrypted, Over
<1>3. (JobsPlaced /\ ServedSound)'
  BY DEF JobsPlaced, ServedSound, Between, Over, Safe
<1>4. NoCauseYet'
  BY DEF RequestTypeOK, NoCauseYet, Dialing, Jobs, OtherJob, Over
<1>5. QED
  BY <1>1, <1>2, <1>3, <1>4

(* A future of the race fails: TCP starts alone, the other goes on, or the *)
(* try ends with an error of the race.                                     *)
LEMMA RaceFailsInv ==
    ASSUME RequestInv, NEW j \in Jobs, NEW err \in Errors,
           RaceJobFails(j, err) \/ RaceFails(j, err)
    PROVE  RequestInv'
<1>1. stage = "race" /\ UNCHANGED <<call, hsts>>
  BY DEF RaceJobFails, RaceFails
<1>2. CASE OnlyTcp /\ UNCHANGED <<cur, count>>
  <2> DEFINE why == IF "hop" \in record.served THEN record.causes \cup {"resend"}
                                               ELSE record.causes
  <2>1. record' = [record EXCEPT !.causes = why] /\ why \in SUBSET {"gate", "resend"}
    BY <1>2 DEF OnlyTcp, RequestInv, RequestTypeOK
  <2>2. why = {} => record.causes = {} /\ "hop" \notin record.served
    OBVIOUS
  <2>3. /\ stage' = "last" /\ job' = [NoJobs EXCEPT !["main"] = Dialing("tcp")]
        /\ "tcp" \in Wires /\ ~Over
    BY <1>1, <1>2 DEF OnlyTcp, Wires, Over
  <2> HIDE DEF why
  <2>4. QED
    BY <1>1, <1>2, <2>1, <2>2, <2>3, FirstJobInv
<1>3. CASE job' = NoJobs /\ EndTry("race")
  BY <1>1, <1>3, EndTryInv DEF Over
<1>4. CASE /\ job' = [job EXCEPT ![j] = [@ EXCEPT !.st = "failed", !.err = err]]
           /\ UNCHANGED <<call, cur, stage, count, hsts, record>>
           /\ Mishap(j, err) /\ job[OtherJob(j)].st \notin {"off", "failed"}
  <2> USE <1>4 DEF RequestInv
  <2>1. RequestTypeOK'
    <3>1. [job[j] EXCEPT !.st = "failed", !.err = err] \in JobType
      <4>1. job[j] \in JobType
        BY DEF RequestTypeOK
      <4>2. ASSUME NEW x \in JobType
            PROVE  [x EXCEPT !.st = "failed", !.err = err] \in JobType
        BY DEF JobStates
      <4> HIDE DEF JobType
      <4>3. QED
        BY <4>1, <4>2
    <3> HIDE DEF JobType
    <3>2. QED
      BY <3>1 DEF RequestTypeOK
  <2>2. (CredentialsStayHome /\ NoCleartext /\ CredentialsDropped /\ HopEncrypted)'
    BY DEF CredentialsStayHome, NoCleartext, CredentialsDropped, HopEncrypted, Over
  <2>3. (JobsPlaced /\ ServedSound)'
    BY <1>1 DEF JobsPlaced, ServedSound, Between, Over, Safe
  <2>4. NoCauseYet'
    BY <1>1 DEF RequestTypeOK, NoCauseYet, Mishap, Jobs, JobStates, OtherJob, Over
  <2>5. QED
    BY <2>1, <2>2, <2>3, <2>4
<1>5. QED
  BY <1>1, <1>2, <1>3, <1>4 DEF RaceJobFails, RaceFails

-----------------------------------------------------------------------------
(* RequestInv holds throughout a call.                                     *)
THEOREM RequestInvariance == RequestSpec => []RequestInv
<1>1. RequestInit => RequestInv
  BY RequestInitInv
<1>2. RequestInv /\ [RequestNext]_request_vars => RequestInv'
  <2> SUFFICES ASSUME RequestInv, [RequestNext]_request_vars PROVE RequestInv'
    OBVIOUS
  <2>1. CASE Top \/ AcquirePooled \/ Establish \/ ReleaseTcp
    BY <2>1, TopInv, HopStartsInv, ReleaseTcpInv
  <2>2. CASE Deadline
    BY <2>2, EndTryInv DEF Deadline, Over
  <2>3. ASSUME NEW j \in Jobs, Transmit(j) \/ Process(j) \/ Respond(j) PROVE RequestInv'
    BY <2>3, TransmitInv, ProcessInv, RespondInv
  <2>4. ASSUME NEW err \in Errors, PooledFails(err) \/ SingleFails(err) PROVE RequestInv'
    BY <2>4, AloneFailsInv
  <2>5. ASSUME NEW err \in Errors, NEW j \in Jobs,
               JobFallsBack(j, err) \/ RaceJobFails(j, err) \/ RaceFails(j, err)
        PROVE  RequestInv'
    BY <2>5, JobFallsBackInv, RaceFailsInv
  <2>6. CASE UNCHANGED request_vars
    <3> USE <2>6 DEF request_vars, RequestInv
    <3>1. (RequestTypeOK /\ CredentialsStayHome /\ NoCleartext /\ CredentialsDropped)'
      BY DEF RequestTypeOK, CredentialsStayHome, NoCleartext, CredentialsDropped
    <3>2. (HopEncrypted /\ JobsPlaced /\ NoCauseYet /\ ServedSound)'
      BY DEF HopEncrypted, JobsPlaced, NoCauseYet, ServedSound, Between, Over, Safe
    <3>3. QED
      BY <3>1, <3>2
  <2>7. QED
    BY <2>1, <2>2, <2>3, <2>4, <2>5, <2>6 DEF RequestNext
<1>3. QED
  BY <1>1, <1>2, PTL DEF RequestSpec

(* However a call is redirected, over any transport and with any retries   *)
(* and fallbacks (send_with_redirects, send_single_request), credentials   *)
(* are not sent once it has left an origin.                                *)
THEOREM CredentialsKept == RequestSpec => []CredentialsStayHome
<1>1. RequestInv => CredentialsStayHome
  BY DEF RequestInv
<1>2. QED
  BY <1>1, RequestInvariance, PTL

(* Nothing is sent in the clear under https_only, nor to a host that an    *)
(* earlier response of the call made HTTPS-only (hsts_upgrade).            *)
THEOREM ClearNeverSent == RequestSpec => []NoCleartext
<1>1. RequestInv => NoCleartext
  BY DEF RequestInv
<1>2. QED
  BY <1>1, RequestInvariance, PTL

(* A server acts twice on an unsafe request only where the client resends  *)
(* outside the gate of retry_is_replay_safe, or where that gate is blind.  *)
THEOREM TwiceExplained == RequestSpec => []DuplicatesExplained
<1>1. RequestInv => DuplicatesExplained
  BY DEF RequestInv, NoCauseYet, DuplicatesExplained
<1>2. QED
  BY <1>1, RequestInvariance, PTL

-----------------------------------------------------------------------------
(* The choice of a transport                                               *)

TaskStates == {"idle", "learned", "tcp", "quic", "race", "probe", "working", "failing",
               "relay_down", "proxy_udp_unavailable", "http_proxy", "broken_origin"}
H3Statuses == {"unknown", "advertised", "validated", "failed_transiently",
              "failed_persistently"}
TaskType == [st : TaskStates, key : Keys, status : H3Statuses, alt : BOOLEAN,
             late : SUBSET {"origin", "route"}, policy : ProtocolPolicies]
BrokenType == [age : Nat, cooldown : Nat, count : 1 .. Threshold]

TablesSound ==
    /\ DOMAIN alt_svc \cup validated \cup failed \cup blamed \subseteq Keys
    /\ task \in [Tasks -> TaskType]

(* The tracker knows keys that were reported, and the cooldown of an entry *)
(* is the one of its count.                                                *)
TrackerSound ==
    /\ IsFiniteSet(DOMAIN broken) /\ Cardinality(DOMAIN broken) <= MaxBroken
    /\ DOMAIN broken \subseteq failed \cup blamed
    /\ \A k \in DOMAIN broken :
         /\ broken[k] \in BrokenType
         /\ broken[k].age <= broken[k].cooldown
         /\ broken[k].cooldown = CooldownForFailure(broken[k].count)

RoutesSound ==
    /\ IsFiniteSet(DOMAIN broken_routes) /\ Cardinality(DOMAIN broken_routes) <= MaxBrokenRoutes
    /\ DOMAIN broken_routes \subseteq Socks
    /\ \A r \in DOMAIN broken_routes : broken_routes[r] \in Nat

HeardOfFailure(x) ==
    x.st = "learned" /\ x.status \in {"failed_transiently", "failed_persistently"}

(* What a task has learned of a failure, or avoids, was reported; what it  *)
(* acts on in spite of a quarantine was not there when it looked.          *)
TaskSound(x) ==
    /\ x.st = "broken_origin" \/ HeardOfFailure(x) => x.key \in failed \cup blamed
    /\ x.policy.intent # "H3Only" =>
         /\ /\ x.st \in {"learned", "tcp", "quic", "race", "probe"} /\ ~HeardOfFailure(x)
            /\ Cooling(x.key)
            => "origin" \in x.late
         /\ x.st \in {"tcp", "quic", "race", "probe"} /\ RouteBroken(x.key[1])
            => "route" \in x.late

TasksSound == \A t \in Tasks : TaskSound(task[t])

ChoiceInv == TablesSound /\ TrackerSound /\ RoutesSound /\ TasksSound

Longest == IF MaxCooldown > InitialCooldown THEN MaxCooldown ELSE InitialCooldown

(* The cooldown grows with every failure in a row up to the threshold.     *)
CooldownsGrow == Threshold > 1 /\ MaxCooldown - InitialCooldown >= Threshold - 1

(* What the linear steps of cooldown_for_failure amount to.                *)
LEMMA LinearStep ==
    ASSUME NEW c \in Nat, NEW d \in Nat \ {0}, NEW k \in Nat, c <= d
    PROVE  /\ (c * k) \div d \in Nat
           /\ (c * k) \div d <= k
           /\ c = d => (c * k) \div d = k
           /\ c > 0 /\ d <= k => (c * k) \div d > 0
<1> DEFINE q == (c * k) \div d
           r == (c * k) % d
<1>1. c * k \in Nat /\ d * k \in Nat /\ c * k <= d * k
  OBVIOUS
<1>2. q \in Int /\ r \in 0 .. d - 1 /\ c * k = d * q + r
  BY <1>1
<1> HIDE DEF q, r
<1>3. q >= 0
  <2>1. ASSUME q < 0 PROVE FALSE
    <3>1. d * q <= d * (0 - 1)
      BY <2>1, <1>2
    <3>2. QED
      BY <3>1, <1>1, <1>2
  <2>2. QED
    BY <2>1, <1>2
<1>4. q <= k
  <2>1. ASSUME q > k PROVE FALSE
    <3>1. d * q >= d * (k + 1)
      BY <2>1, <1>2
    <3>2. d * (k + 1) = d * k + d
      OBVIOUS
    <3>3. QED
      BY <3>1, <3>2, <1>1, <1>2
  <2>2. QED
    BY <2>1, <1>2
<1>5. c = d => q = k
  <2> SUFFICES ASSUME c = d, q < k PROVE FALSE
    BY <1>2, <1>4
  <2>1. d * (q + 1) <= d * k /\ d * (q + 1) = d * q + d
    BY <1>2
  <2>2. QED
    BY <2>1, <1>1, <1>2
<1>6. c > 0 /\ d <= k => q > 0
  <2> SUFFICES ASSUME c > 0, d <= k, q = 0 PROVE FALSE
    BY <1>2, <1>3
  <2>1. c * k >= k
    OBVIOUS
  <2>2. d * q = 0
    OBVIOUS
  <2>3. QED
    BY <2>1, <2>2, <1>1, <1>2
<1>7. QED
  BY <1>2, <1>3, <1>4, <1>5, <1>6 DEF q

(* A cooldown is a length of time, and it depends on the count up to the   *)
(* threshold only.                                                         *)
LEMMA CooldownType ==
    ASSUME NEW n \in Nat
    PROVE  /\ CooldownForFailure(n) \in 0 .. Longest
           /\ n >= Threshold => CooldownForFailure(n) = CooldownForFailure(Threshold)
<1> USE QuicChoiceAssumption
<1> DEFINE clamped == IF n < Threshold THEN n ELSE Threshold
           c == clamped - 1
           d == IF Threshold > 1 THEN Threshold - 1 ELSE 1
           k == Longest - InitialCooldown
<1>1. k \in Nat /\ d \in Nat \ {0} /\ Longest \in Nat /\ InitialCooldown <= Longest
  BY DEF Longest
<1>2. CooldownForFailure(n) \in 0 .. Longest
  <2>1. CASE clamped <= 1
    BY <2>1 DEF CooldownForFailure, Longest
  <2>2. CASE clamped > 1
    <3>1. c \in Nat /\ c <= d
      BY <2>2
    <3>2. CooldownForFailure(n) = InitialCooldown + (c * k) \div d
      BY <2>2 DEF CooldownForFailure, Longest
    <3>3. (c * k) \div d \in Nat /\ (c * k) \div d <= k
      <4> HIDE DEF c, d, k
      <4>1. QED
        BY <1>1, <3>1, LinearStep
    <3> DEFINE step == (c * k) \div d
    <3> HIDE DEF step, clamped
    <3>4. QED
      BY <1>1, <3>2, <3>3 DEF step
  <2>3. QED
    BY <2>1, <2>2
<1>3. n >= Threshold => CooldownForFailure(n) = CooldownForFailure(Threshold)
  BY DEF CooldownForFailure
<1>4. QED
  BY <1>2, <1>3

(* Under CooldownsGrow the cooldown rises from the first to the last step. *)
LEMMA CooldownGrows ==
    ASSUME CooldownsGrow, NEW n \in 1 .. Threshold
    PROVE  /\ CooldownForFailure(n) <= MaxCooldown
           /\ n = Threshold => CooldownForFailure(n) = MaxCooldown
           /\ n > 1 => CooldownForFailure(n) > InitialCooldown
<1> USE QuicChoiceAssumption
<1>1. Longest = MaxCooldown /\ Threshold - 1 \in Nat \ {0}
      /\ MaxCooldown - InitialCooldown \in Nat /\ Threshold - 1 <= MaxCooldown - InitialCooldown
  BY DEF CooldownsGrow, Longest
<1>2. CASE n = 1
  BY <1>1, <1>2 DEF CooldownForFailure
<1>3. CASE n > 1
  <2> DEFINE c == n - 1
             d == Threshold - 1
             k == MaxCooldown - InitialCooldown
             step == (c * k) \div d
  <2>1. /\ c \in Nat /\ c <= d /\ c > 0 /\ d \in Nat \ {0} /\ k \in Nat /\ d <= k
    BY <1>1, <1>3
  <2>2. step \in Nat /\ step <= k /\ step > 0 /\ (c = d => step = k)
    <3> HIDE DEF c, d, k
    <3>1. QED
      BY <2>1, LinearStep
  <2>3. CooldownForFailure(n) = InitialCooldown + step
    BY <1>1, <1>3 DEF CooldownForFailure, Longest
  <2> HIDE DEF step
  <2>4. QED
    BY <1>3, <2>2, <2>3
<1>4. QED
  BY <1>2, <1>3

(* A tracker with entries has an oldest one.                               *)
LEMMA OldestExists ==
    ASSUME TrackerSound, DOMAIN broken # {}
    PROVE  \E v \in DOMAIN broken : \A w \in DOMAIN broken : broken[v].age >= broken[w].age
<1> DEFINE Left(k) == Longest - broken[k].age
           T == {Left(k) : k \in DOMAIN broken}
<1>1. \A k \in DOMAIN broken : broken[k].age \in Nat /\ Left(k) \in Nat
  <2> SUFFICES ASSUME NEW k \in DOMAIN broken PROVE broken[k].age \in Nat /\ Left(k) \in Nat
    OBVIOUS
  <2>1. broken[k].age \in Nat /\ broken[k].count \in Nat
        /\ broken[k].age <= CooldownForFailure(broken[k].count)
    BY QuicChoiceAssumption DEF TrackerSound, BrokenType
  <2>2. CooldownForFailure(broken[k].count) \in 0 .. Longest
    BY <2>1, CooldownType
  <2>3. Longest \in Nat
    BY QuicChoiceAssumption DEF Longest
  <2>4. QED
    BY <2>1, <2>2, <2>3
<1>2. T \subseteq Nat /\ T # {}
  BY <1>1
<1>3. PICK x \in T : \A y \in T : ~(<<y, x>> \in OpToRel(<, Nat))
  <2> HIDE DEF T
  <2>1. QED
    BY <1>2, WFMin, NatLessThanWellFounded
<1>4. \A y \in T : ~(y < x)
  BY <1>2, <1>3 DEF OpToRel
<1>5. PICK v \in DOMAIN broken : x = Left(v)
  OBVIOUS
<1>6. ASSUME NEW w \in DOMAIN broken PROVE broken[v].age >= broken[w].age
  <2>1. ~(Left(w) < Left(v))
    BY <1>4, <1>5
  <2>2. Longest \in Nat
    BY QuicChoiceAssumption DEF Longest
  <2>3. QED
    BY <1>1, <2>1, <2>2
<1>7. QED
  BY <1>6

(* Of the times that routes have left, one is the least.                   *)
LEMMA NextToExpire ==
    ASSUME RoutesSound, DOMAIN broken_routes # {}
    PROVE  \E v \in DOMAIN broken_routes :
             \A w \in DOMAIN broken_routes : broken_routes[v] <= broken_routes[w]
<1> DEFINE T == {broken_routes[r] : r \in DOMAIN broken_routes}
<1>1. T \subseteq Nat /\ T # {}
  BY DEF RoutesSound
<1>2. PICK x \in T : \A y \in T : ~(<<y, x>> \in OpToRel(<, Nat))
  <2> HIDE DEF T
  <2>1. QED
    BY <1>1, WFMin, NatLessThanWellFounded
<1>3. \A y \in T : ~(y < x)
  BY <1>1, <1>2 DEF OpToRel
<1>4. PICK v \in DOMAIN broken_routes : x = broken_routes[v]
  OBVIOUS
<1>5. ASSUME NEW w \in DOMAIN broken_routes PROVE broken_routes[v] <= broken_routes[w]
  <2>1. ~(broken_routes[w] < broken_routes[v])
    BY <1>3, <1>4
  <2>2. QED
    BY <2>1 DEF RoutesSound
<1>6. QED
  BY <1>5

(* A table that lets one entry go when it is full keeps to its capacity.   *)
LEMMA RoomIsMade ==
    ASSUME NEW D, NEW V, NEW most \in Nat \ {0}, NEW key,
           IsFiniteSet(D), Cardinality(D) <= most,
           \/ key \in D /\ V = {}
           \/ Cardinality(D) < most /\ V = {}
           \/ \E v \in D : V = {v}
    PROVE  /\ IsFiniteSet((D \ V) \cup {key})
           /\ Cardinality((D \ V) \cup {key}) <= most
<1>1. Cardinality(D) \in Nat
  BY FS_CardinalityType
<1>2. CASE key \in D /\ V = {}
  <2>1. (D \ V) \cup {key} = D
    BY <1>2
  <2>2. QED
    BY <2>1
<1>3. CASE key \notin D /\ Cardinality(D) < most /\ V = {}
  <2>1. D \ V = D
    BY <1>3
  <2>2. IsFiniteSet(D \cup {key}) /\ Cardinality(D \cup {key}) = Cardinality(D) + 1
    BY <1>3, FS_AddElement
  <2>3. QED
    BY <1>1, <1>3, <2>1, <2>2
<1>4. CASE \E v \in D : V = {v}
  <2>1. PICK v \in D : V = {v}
    BY <1>4
  <2>2. IsFiniteSet(D \ {v}) /\ Cardinality(D \ {v}) = Cardinality(D) - 1
    BY FS_RemoveElement
  <2>3. /\ IsFiniteSet((D \ {v}) \cup {key})
        /\ Cardinality((D \ {v}) \cup {key}) = Cardinality(D \ {v})
           \/ Cardinality((D \ {v}) \cup {key}) = Cardinality(D \ {v}) + 1
    BY <2>2, FS_AddElement
  <2>4. QED
    BY <1>1, <2>1, <2>2, <2>3
<1>5. QED
  BY <1>2, <1>3, <1>4

(* mark_broken_for_route: a full tracker lets its oldest entry go, and no  *)
(* other key begins to cool down.                                          *)
LEMMA MarkBrokenSound ==
    ASSUME TrackerSound, NEW key, MarkBroken(key), key \in failed' \cup blamed',
           failed \subseteq failed', blamed \subseteq blamed'
    PROVE  /\ TrackerSound'
           /\ \A k : k # key /\ Cooling(k)' => Cooling(k)
<1> USE QuicChoiceAssumption
<1> DEFINE n == IF Cooling(key) THEN broken[key].count + 1 ELSE 1
           capped == IF n > Threshold THEN Threshold ELSE n
           entry == [age |-> 0, cooldown |-> CooldownForFailure(n), count |-> capped]
           Rest == DOMAIN broken \ Victims(key)
<1>1. n \in Nat \ {0} /\ capped \in 1 .. Threshold
  BY DEF Cooling, TrackerSound, BrokenType
<1>2. entry \in BrokenType /\ entry.age <= entry.cooldown
      /\ entry.cooldown = CooldownForFailure(entry.count)
  <2>1. CooldownForFailure(n) \in Nat /\ CooldownForFailure(n) = CooldownForFailure(capped)
    <3>1. CooldownForFailure(n) \in 0 .. Longest
      BY <1>1, CooldownType
    <3>2. n >= Threshold => CooldownForFailure(n) = CooldownForFailure(Threshold)
      BY <1>1, CooldownType
    <3>3. QED
      BY <1>1, <3>1, <3>2
  <2> HIDE DEF n, capped
  <2>2. QED
    BY <1>1, <2>1 DEF BrokenType
<1>3. /\ DOMAIN broken' = Rest \cup {key}
      /\ \A k \in Rest : k # key => broken'[k] = broken[k]
      /\ broken'[key] = entry
  BY DEF MarkBroken, Put, Drop
<1> HIDE DEF entry, n, capped
<1>4. IsFiniteSet(Rest \cup {key}) /\ Cardinality(Rest \cup {key}) <= MaxBroken
  <2>1. IsFiniteSet(DOMAIN broken) /\ Cardinality(DOMAIN broken) \in Nat
        /\ Cardinality(DOMAIN broken) <= MaxBroken
    BY FS_CardinalityType DEF TrackerSound
  <2>2. \/ key \in DOMAIN broken /\ Victims(key) = {}
        \/ Cardinality(DOMAIN broken) < MaxBroken /\ Victims(key) = {}
        \/ \E v \in DOMAIN broken : Victims(key) = {v}
    <3> SUFFICES ASSUME key \notin DOMAIN broken, ~(Cardinality(DOMAIN broken) < MaxBroken)
                 PROVE  \E v \in DOMAIN broken : Victims(key) = {v}
      BY DEF Victims
    <3>1. DOMAIN broken # {}
      BY <2>1, FS_EmptySet
    <3> DEFINE v == CHOOSE v \in DOMAIN broken :
                      \A w \in DOMAIN broken : broken[v].age >= broken[w].age
    <3>2. v \in DOMAIN broken
      BY <3>1, OldestExists
    <3>3. Victims(key) = {v}
      BY DEF Victims
    <3> HIDE DEF v
    <3>4. QED
      BY <3>2, <3>3
  <2>3. QED
    BY <2>1, <2>2, RoomIsMade
<1> HIDE DEF Rest
<1>5. \A k \in DOMAIN broken' : k # key => k \in DOMAIN broken /\ broken'[k] = broken[k]
  BY <1>3 DEF Rest
<1>6. ASSUME NEW k \in DOMAIN broken'
      PROVE  /\ broken'[k] \in BrokenType /\ broken'[k].age <= broken'[k].cooldown
             /\ broken'[k].cooldown = CooldownForFailure(broken'[k].count)
             /\ k \in failed' \cup blamed'
  <2>1. CASE k = key
    BY <1>2, <1>3, <2>1
  <2>2. CASE k # key
    BY <1>5, <2>2 DEF TrackerSound
  <2>3. QED
    BY <2>1, <2>2
<1>7. TrackerSound'
  BY <1>3, <1>4, <1>6 DEF TrackerSound
<1>8. \A k : k # key /\ Cooling(k)' => Cooling(k)
  BY <1>5 DEF Cooling
<1>9. QED
  BY <1>7, <1>8

(* mark_route_broken likewise.                                             *)
LEMMA MarkRouteSound ==
    ASSUME RoutesSound, NEW r \in Socks, MarkRouteBroken(r)
    PROVE  /\ RoutesSound'
           /\ \A q : q # r /\ RouteBroken(q)' => RouteBroken(q)
<1> DEFINE Rest == DOMAIN broken_routes \ RouteVictims(r)
<1>1. /\ DOMAIN broken_routes' = Rest \cup {r}
      /\ \A q \in Rest : q # r => broken_routes'[q] = broken_routes[q]
      /\ broken_routes'[r] = RouteCooldown
  BY DEF MarkRouteBroken, Put, Drop
<1>2. IsFiniteSet(Rest \cup {r}) /\ Cardinality(Rest \cup {r}) <= MaxBrokenRoutes
  <2>1. IsFiniteSet(DOMAIN broken_routes) /\ Cardinality(DOMAIN broken_routes) \in Nat
        /\ Cardinality(DOMAIN broken_routes) <= MaxBrokenRoutes
    BY FS_CardinalityType DEF RoutesSound
  <2>2. \/ r \in DOMAIN broken_routes /\ RouteVictims(r) = {}
        \/ Cardinality(DOMAIN broken_routes) < MaxBrokenRoutes /\ RouteVictims(r) = {}
        \/ \E v \in DOMAIN broken_routes : RouteVictims(r) = {v}
    <3> SUFFICES ASSUME r \notin DOMAIN broken_routes,
                        ~(Cardinality(DOMAIN broken_routes) < MaxBrokenRoutes)
                 PROVE  \E v \in DOMAIN broken_routes : RouteVictims(r) = {v}
      BY DEF RouteVictims
    <3>1. DOMAIN broken_routes # {}
      BY <2>1, FS_EmptySet, QuicChoiceAssumption
    <3> DEFINE v == CHOOSE v \in DOMAIN broken_routes :
                      \A w \in DOMAIN broken_routes : broken_routes[v] <= broken_routes[w]
    <3>2. v \in DOMAIN broken_routes
      BY <3>1, NextToExpire
    <3>3. RouteVictims(r) = {v}
      BY DEF RouteVictims
    <3> HIDE DEF v
    <3>4. QED
      BY <3>2, <3>3
  <2>3. MaxBrokenRoutes \in Nat \ {0}
    BY QuicChoiceAssumption
  <2>4. QED
    BY <2>1, <2>2, <2>3, RoomIsMade
<1>3. \A q \in DOMAIN broken_routes' : q # r =>
         q \in DOMAIN broken_routes /\ broken_routes'[q] = broken_routes[q]
  BY <1>1
<1> HIDE DEF Rest
<1>4. RoutesSound'
  BY <1>1, <1>2, <1>3, QuicChoiceAssumption DEF RoutesSound
<1>5. \A q : q # r /\ RouteBroken(q)' => RouteBroken(q)
  BY <1>3 DEF RouteBroken
<1>6. QED
  BY <1>4, <1>5

(* Entries that are removed leave the tracker sound.                       *)
LEMMA DropSound ==
    ASSUME TrackerSound, NEW S, broken' = Drop(broken, S), failed' = failed, blamed' = blamed
    PROVE  TrackerSound' /\ \A k : Cooling(k)' => Cooling(k)
<1>1. /\ DOMAIN broken' = DOMAIN broken \ S
      /\ \A k \in DOMAIN broken' : k \in DOMAIN broken /\ broken'[k] = broken[k]
  BY DEF Drop
<1>2. IsFiniteSet(DOMAIN broken \ S) /\ Cardinality(DOMAIN broken \ S) <= MaxBroken
  <2>1. (DOMAIN broken \ S) \in SUBSET (DOMAIN broken)
    OBVIOUS
  <2>2. /\ IsFiniteSet(DOMAIN broken \ S)
        /\ Cardinality(DOMAIN broken \ S) <= Cardinality(DOMAIN broken)
    BY <2>1, FS_Subset DEF TrackerSound
  <2>3. Cardinality(DOMAIN broken \ S) \in Nat /\ Cardinality(DOMAIN broken) \in Nat
    BY <2>2, FS_CardinalityType DEF TrackerSound
  <2>4. QED
    BY <2>2, <2>3, QuicChoiceAssumption DEF TrackerSound
<1>3. TrackerSound'
  BY <1>1, <1>2 DEF TrackerSound
<1>4. \A k : Cooling(k)' => Cooling(k)
  BY <1>1 DEF Cooling
<1>5. QED
  BY <1>3, <1>4

(* Routes that are removed, or whose time passes, leave their table sound. *)
LEMMA FewerRoutes ==
    ASSUME RoutesSound, DOMAIN broken_routes' \subseteq DOMAIN broken_routes,
           \A r \in DOMAIN broken_routes' : broken_routes'[r] \in Nat
    PROVE  RoutesSound' /\ \A r : RouteBroken(r)' => RouteBroken(r)
<1>1. /\ IsFiniteSet(DOMAIN broken_routes')
      /\ Cardinality(DOMAIN broken_routes') <= Cardinality(DOMAIN broken_routes)
  <2>1. DOMAIN broken_routes' \in SUBSET (DOMAIN broken_routes)
    OBVIOUS
  <2>2. QED
    BY <2>1, FS_Subset DEF RoutesSound
<1>2. Cardinality(DOMAIN broken_routes') \in Nat /\ Cardinality(DOMAIN broken_routes) \in Nat
  BY <1>1, FS_CardinalityType DEF RoutesSound
<1>3. Cardinality(DOMAIN broken_routes') <= MaxBrokenRoutes
  BY <1>1, <1>2, QuicChoiceAssumption DEF RoutesSound
<1>4. QED
  BY <1>1, <1>3 DEF RoutesSound, RouteBroken

(* Time leaves both tables sound, and sets no quarantine.                  *)
LEMMA TickSound ==
    ASSUME TrackerSound, RoutesSound, Tick
    PROVE  /\ TrackerSound' /\ RoutesSound'
           /\ \A k : Cooling(k)' => Cooling(k)
           /\ \A r : RouteBroken(r)' => RouteBroken(r)
<1>1. DOMAIN broken' = DOMAIN broken /\ failed' = failed /\ blamed' = blamed
  BY DEF Tick
<1>2. ASSUME NEW k \in DOMAIN broken
      PROVE  /\ broken'[k] \in BrokenType /\ broken'[k].age <= broken'[k].cooldown
             /\ broken'[k].cooldown = CooldownForFailure(broken'[k].count)
             /\ broken'[k].age < broken'[k].cooldown => broken[k].age < broken[k].cooldown
  <2>1. broken'[k] = [broken[k] EXCEPT !.age = IF @ < broken[k].cooldown THEN @ + 1 ELSE @]
    BY DEF Tick
  <2>2. broken[k] \in BrokenType /\ broken[k].age <= broken[k].cooldown
        /\ broken[k].cooldown = CooldownForFailure(broken[k].count)
    BY DEF TrackerSound
  <2>3. ASSUME NEW x \in BrokenType, x.age <= x.cooldown
        PROVE  LET y == [x EXCEPT !.age = IF @ < x.cooldown THEN @ + 1 ELSE @]
               IN  y \in BrokenType /\ y.age <= y.cooldown /\ y.cooldown = x.cooldown
                   /\ y.count = x.count /\ (y.age < y.cooldown => x.age < x.cooldown)
    BY <2>3 DEF BrokenType
  <2>4. QED
    BY <2>1, <2>2, <2>3
<1>3. TrackerSound'
  BY <1>1, <1>2 DEF TrackerSound
<1>4. \A k : Cooling(k)' => Cooling(k)
  BY <1>1, <1>2 DEF Cooling
<1>5. RoutesSound' /\ \A r : RouteBroken(r)' => RouteBroken(r)
  <2>1. /\ DOMAIN broken_routes' \subseteq DOMAIN broken_routes
        /\ \A r \in DOMAIN broken_routes' : broken_routes'[r] \in Nat
    BY DEF Tick, RoutesSound
  <2>2. QED
    BY <2>1, FewerRoutes
<1>6. QED
  BY <1>3, <1>4, <1>5

(* The two shapes of a task are tasks.                                     *)
LEMMA TaskTypes ==
    ASSUME NEW t \in Tasks
    PROVE  /\ NoTaskYet \in TaskType /\ NoTaskYet.st = "idle"
           /\ \A st \in TaskStates, k \in Keys :
                TaskAt(st, k) \in TaskType /\ TaskAt(st, k).st = st /\ TaskAt(st, k).key = k
<1>1. (CHOOSE k \in Keys : TRUE) \in Keys
  <2>1. PICK r \in Routes, o \in Origins : TRUE
    BY QuicChoiceAssumption
  <2>2. <<r, o>> \in Keys
    BY DEF Keys
  <2>3. QED
    BY <2>2
<1>2. (CHOOSE p \in ProtocolPolicies : TRUE) \in ProtocolPolicies
  BY QuicChoiceAssumption DEF ProtocolPolicies
<1>3. QED
  BY <1>1, <1>2 DEF NoTaskYet, TaskAt, TaskType, TaskStates, H3Statuses

(* A task stays sound while no quarantine is set.                          *)
LEMMA TaskStays ==
    ASSUME failed \subseteq failed', blamed \subseteq blamed',
           \A k : Cooling(k)' => Cooling(k), \A r : RouteBroken(r)' => RouteBroken(r)
    PROVE  \A x \in TaskType : TaskSound(x) => TaskSound(x)'
BY DEF TaskSound, HeardOfFailure

(* One task moves while no quarantine is set.                              *)
LEMMA TaskMoves ==
    ASSUME ChoiceInv, NEW t \in Tasks, NEW x \in TaskType, task' = [task EXCEPT ![t] = x],
           failed \subseteq failed', blamed \subseteq blamed',
           \A k : Cooling(k)' => Cooling(k), \A r : RouteBroken(r)' => RouteBroken(r),
           TaskSound(x)'
    PROVE  task' \in [Tasks -> TaskType] /\ TasksSound'
<1>1. task' \in [Tasks -> TaskType]
  BY DEF ChoiceInv, TablesSound
<1>2. ASSUME NEW u \in Tasks PROVE TaskSound(task[u])'
  <2>1. PICK y \in TaskType : y = task'[u]
    BY <1>1
  <2>2. TaskSound(y)'
    <3>1. CASE u = t
      <4>1. y = x
        BY <2>1, <3>1 DEF ChoiceInv, TablesSound
      <4>2. QED
        BY <4>1
    <3>2. CASE u # t
      <4>1. y = task[u] /\ TaskSound(task[u])
        BY <2>1, <3>2 DEF ChoiceInv, TablesSound, TasksSound
      <4>2. TaskSound(y)
        BY <4>1 DEF TaskSound, HeardOfFailure
      <4>3. QED
        BY <4>2, TaskStays
    <3>3. QED
      BY <3>1, <3>2
  <2>3. QED
    BY <2>1, <2>2 DEF TaskSound, HeardOfFailure
<1>3. QED
  BY <1>1, <1>2 DEF TasksSound

(* Reading what the three tables say of a key keeps ChoiceInv: the task    *)
(* that learns of no failure looked while the key was not cooling down.    *)
LEMMA LearnInv ==
    ASSUME ChoiceInv, NEW t \in Tasks, NEW k \in Keys, NEW p \in Wants[t], Learn(t, k, p)
    PROVE  ChoiceInv'
<1> DEFINE gone == k \in DOMAIN alt_svc /\ ~AltSvcFresh(k)
           status == IF Reachability(k) # "none" THEN Reachability(k)
                     ELSE IF k \in validated /\ ~gone THEN "validated"
                     ELSE IF AltSvcFresh(k) THEN "advertised" ELSE "unknown"
           x == [st |-> "learned", key |-> k, policy |-> p, status |-> status,
                 alt |-> AltSvcFresh(k), late |-> {}]
<1>1. task' = [task EXCEPT ![t] = x] /\ failed' = failed /\ blamed' = blamed
      /\ broken_routes' = broken_routes
  BY DEF Learn
<1>2. AltSvcFresh(k) \in BOOLEAN /\ p \in ProtocolPolicies /\ status \in H3Statuses
  BY DEF AltSvcFresh, ProtocolPolicies, Reachability, H3Statuses
<1>3. /\ status \in {"failed_transiently", "failed_persistently"} => k \in failed \cup blamed
      /\ Cooling(k) => status \in {"failed_transiently", "failed_persistently"}
  BY DEF Reachability, Cooling, ChoiceInv, TrackerSound
<1> HIDE DEF gone, status
<1>4. x \in TaskType /\ x.st = "learned" /\ x.key = k /\ x.status = status
  BY <1>2 DEF TaskType, TaskStates
<1>5. TrackerSound' /\ \A j : Cooling(j)' => Cooling(j)
  <2>1. CASE Cooling(k)
    BY <1>1, <2>1 DEF Learn, ChoiceInv, TrackerSound, Cooling
  <2>2. CASE ~Cooling(k)
    BY <1>1, <2>2, DropSound DEF Learn, ChoiceInv
  <2>3. QED
    BY <2>1, <2>2
<1>6. PICK y \in TaskType : y = x
  BY <1>4
<1>7. TaskSound(y)'
  BY <1>1, <1>3, <1>4, <1>5, <1>6 DEF TaskSound, HeardOfFailure
<1>8. RoutesSound' /\ \A r : RouteBroken(r)' => RouteBroken(r)
  BY <1>1 DEF ChoiceInv, RoutesSound, RouteBroken
<1>9. task' \in [Tasks -> TaskType] /\ TasksSound'
  <2>1. task' = [task EXCEPT ![t] = y]
    BY <1>1, <1>6
  <2> HIDE DEF x
  <2>2. QED
    BY <2>1, <1>1, <1>5, <1>7, <1>8, TaskMoves
<1>10. TablesSound'
  BY <1>1, <1>9 DEF Learn, Drop, ChoiceInv, TablesSound
<1>11. QED
  BY <1>5, <1>8, <1>9, <1>10 DEF ChoiceInv

(* decide_protocol skips an origin as broken only on what was learned, and *)
(* acts on no news of a failure and over no route in quarantine.           *)
LEMMA DecideInv ==
    ASSUME ChoiceInv, NEW t \in Tasks, Decide(t)
    PROVE  ChoiceInv'
<1>1. task[t] \in TaskType /\ task[t].st = "learned" /\ TaskSound(task[t])
  BY DEF Decide, ChoiceInv, TablesSound, TasksSound
<1>2. UNCHANGED <<alt_svc, validated, broken, broken_routes, failed, blamed>>
  BY DEF Decide
<1>3. PICK offered : LET skip == SkipReason(t, offered)
             d == DecideProtocol(task[t].policy, task[t].status, skip)
         IN  IF d # "tcp" \/ Probes(task[t].policy, task[t].status, skip)
             THEN task' = [task EXCEPT ![t] = [@ EXCEPT !.st = d, !.status = "unknown",
                                                        !.alt = FALSE]]
             ELSE IF skip = "none" THEN Ends(t) ELSE Becomes(t, skip)
  BY DEF Decide
<1> DEFINE skip == SkipReason(t, offered)
           d == DecideProtocol(task[t].policy, task[t].status, skip)
<1>4. /\ skip \in {"none", "proxy_udp_unavailable", "http_proxy", "broken_origin"}
      /\ skip = "broken_origin" =>
            task[t].status \in {"failed_transiently", "failed_persistently"}
      /\ skip = "none" /\ task[t].policy.intent # "H3Only" => ~RouteBroken(task[t].key[1])
  BY DEF SkipReason
<1>5. /\ d \in {"tcp", "quic", "race"}
      /\ d # "tcp" /\ task[t].policy.intent # "H3Only" => skip = "none" /\ Ready(task[t].status)
      /\ Probes(task[t].policy, task[t].status, skip) => skip = "none" /\ Ready(task[t].status)
  BY DEF DecideProtocol, Probes, Ready
<1> HIDE DEF skip, d
<1>6. PICK x \in TaskType : task' = [task EXCEPT ![t] = x] /\ TaskSound(x)
  <2>1. CASE d # "tcp" \/ Probes(task[t].policy, task[t].status, skip)
    <3> DEFINE x == [task[t] EXCEPT !.st = d, !.status = "unknown", !.alt = FALSE]
    <3>1. task' = [task EXCEPT ![t] = x]
      BY <1>3, <2>1 DEF d, skip
    <3>2. /\ x \in TaskType /\ x.st = d /\ x.key = task[t].key /\ x.policy = task[t].policy
          /\ x.late = task[t].late
      BY <1>1, <1>5 DEF TaskType, TaskStates, H3Statuses
    <3> HIDE DEF x
    <3>3. task[t].policy.intent # "H3Only" => skip = "none" /\ ~HeardOfFailure(task[t])
      BY <1>5, <2>1 DEF HeardOfFailure, Ready
    <3>4. TaskSound(x)
      BY <1>1, <1>4, <1>5, <3>2, <3>3 DEF TaskSound, HeardOfFailure
    <3>5. QED
      BY <3>1, <3>2, <3>4
  <2>2. CASE d = "tcp" /\ ~Probes(task[t].policy, task[t].status, skip) /\ skip = "none"
    <3>1. NoTaskYet \in TaskType /\ NoTaskYet.st = "idle"
      BY TaskTypes
    <3>2. task' = [task EXCEPT ![t] = NoTaskYet]
      BY <1>3, <2>2 DEF d, skip, Ends
    <3>3. TaskSound(NoTaskYet)
      BY <3>1 DEF TaskSound, HeardOfFailure
    <3>4. QED
      BY <3>1, <3>2, <3>3
  <2>3. CASE d = "tcp" /\ ~Probes(task[t].policy, task[t].status, skip) /\ skip # "none"
    <3> DEFINE x == TaskAt(skip, task[t].key)
    <3>1. skip \in TaskStates /\ task[t].key \in Keys
      BY <1>1, <1>4, <2>3 DEF TaskStates, TaskType
    <3>2. x \in TaskType /\ x.st = skip /\ x.key = task[t].key
      BY <3>1, TaskTypes
    <3>3. task' = [task EXCEPT ![t] = x]
      BY <1>3, <2>3 DEF d, skip, Becomes
    <3> HIDE DEF x
    <3>4. TaskSound(x)
      BY <1>1, <1>4, <2>3, <3>2 DEF TaskSound, HeardOfFailure
    <3>5. QED
      BY <3>2, <3>3, <3>4
  <2>4. QED
    BY <2>1, <2>2, <2>3
<1>7. TaskSound(x)'
  BY <1>2, <1>6 DEF TaskSound, HeardOfFailure, Cooling, RouteBroken
<1>8. (\A k : Cooling(k)' => Cooling(k)) /\ (\A r : RouteBroken(r)' => RouteBroken(r))
  BY <1>2 DEF Cooling, RouteBroken
<1>9. task' \in [Tasks -> TaskType] /\ TasksSound'
  BY <1>2, <1>6, <1>7, <1>8, TaskMoves
<1>10. QED
  BY <1>2, <1>9 DEF ChoiceInv, TablesSound, TrackerSound, RoutesSound

(* mark_broken_for_route and what it overtakes.                            *)
LEMMA ReportsInv ==
    ASSUME ChoiceInv, NEW t \in Tasks, Reports(t),
           \/ failed' = failed \cup {task[t].key} /\ blamed' = blamed
           \/ failed' = failed /\ blamed' = blamed \cup {task[t].key}
    PROVE  ChoiceInv'
<1> DEFINE k == task[t].key
           x == TaskAt("failing", k)
<1>1. k \in Keys /\ x \in TaskType /\ x.st = "failing"
  <2>1. k \in Keys /\ "failing" \in TaskStates
    BY DEF ChoiceInv, TablesSound, TaskType, TaskStates
  <2>2. QED
    BY <2>1, TaskTypes
<1>2. TrackerSound' /\ \A j : j # k /\ Cooling(j)' => Cooling(j)
  BY MarkBrokenSound DEF Reports, ChoiceInv
<1>3. RoutesSound' /\ \A r : RouteBroken(r)' => RouteBroken(r)
  BY DEF Reports, ChoiceInv, RoutesSound, RouteBroken
<1>4. \A u \in Tasks : task'[u] = IF u = t THEN x
                                  ELSE IF u \in ActsOn(k)
                                  THEN [task[u] EXCEPT !.late = @ \cup {"origin"}] ELSE task[u]
  BY DEF Reports, Overtakes
<1>5. \A y \in TaskType : LET z == [y EXCEPT !.late = @ \cup {"origin"}]
                          IN  z \in TaskType /\ z.st = y.st /\ z.key = y.key
                              /\ z.status = y.status /\ z.policy = y.policy
                              /\ z.late = y.late \cup {"origin"}
  BY DEF TaskType
<1> HIDE DEF k, x
<1>6. task \in [Tasks -> TaskType] /\ task' \in [Tasks -> TaskType]
  <2>1. task \in [Tasks -> TaskType]
    BY DEF ChoiceInv, TablesSound
  <2>2. \A u \in Tasks : task'[u] \in TaskType
    BY <1>1, <1>4, <1>5, <2>1
  <2>3. task' = [u \in Tasks |-> task'[u]]
    BY DEF Reports, Overtakes
  <2>4. QED
    BY <2>1, <2>2, <2>3
<1>7. ASSUME NEW u \in Tasks PROVE TaskSound(task[u])'
  <2>1. PICK y \in TaskType : y = task[u]
    BY <1>6
  <2>2. PICK z \in TaskType : z = task'[u]
    BY <1>6
  <2>3. TaskSound(y)
    BY <2>1 DEF ChoiceInv, TasksSound, TaskSound, HeardOfFailure
  <2>4. CASE u = t
    <3>1. z.st = "failing"
      BY <1>1, <1>4, <2>2, <2>4
    <3>2. TaskSound(z)'
      BY <3>1 DEF TaskSound, HeardOfFailure
    <3>3. QED
      BY <2>2, <3>2 DEF TaskSound, HeardOfFailure
  <2>5. CASE u # t
    <3>1. /\ z.st = y.st /\ z.key = y.key /\ z.status = y.status /\ z.policy = y.policy
          /\ y.late \subseteq z.late
          /\ u \in ActsOn(k) => "origin" \in z.late
      BY <1>4, <1>5, <2>1, <2>2, <2>5
    <3>2. /\ y.key = k /\ y.policy.intent # "H3Only"
          /\ y.st \in {"learned", "tcp", "quic", "race", "probe"}
          => u \in ActsOn(k)
      BY <2>1 DEF ActsOn, Forced
    <3>3. failed \subseteq failed' /\ blamed \subseteq blamed'
      OBVIOUS
    <3>4. TaskSound(z)'
      BY <1>2, <1>3, <2>3, <3>1, <3>2, <3>3 DEF TaskSound, HeardOfFailure
    <3>5. QED
      BY <2>2, <3>4 DEF TaskSound, HeardOfFailure
  <2>6. QED
    BY <2>4, <2>5
<1>8. TablesSound'
  BY <1>1, <1>6 DEF Reports, ChoiceInv, TablesSound, k
<1>9. QED
  BY <1>2, <1>3, <1>7, <1>8 DEF ChoiceInv, TasksSound

(* mark_route_broken and what it overtakes.                                *)
LEMMA RelayInv ==
    ASSUME ChoiceInv, NEW t \in Tasks, RelayFails(t)
    PROVE  ChoiceInv'
<1> DEFINE r == task[t].key[1]
           x == IF MarksAnyError(t) THEN TaskAt("relay_down", task[t].key) ELSE NoTaskYet
<1>1. x \in TaskType /\ x.st \in {"relay_down", "idle"} /\ r \in Socks
  <2>1. task[t].key \in Keys /\ "relay_down" \in TaskStates
    BY DEF ChoiceInv, TablesSound, TaskType, TaskStates
  <2>2. QED
    BY <2>1, TaskTypes DEF RelayFails
<1>2. RoutesSound' /\ \A q : q # r /\ RouteBroken(q)' => RouteBroken(q)
  BY <1>1, MarkRouteSound DEF RelayFails, ChoiceInv
<1>3. UNCHANGED <<alt_svc, validated, broken, failed, blamed>>
  BY DEF RelayFails
<1>4. \A u \in Tasks : task'[u] = IF u = t THEN x
                                  ELSE IF u \in ActsOver(r)
                                  THEN [task[u] EXCEPT !.late = @ \cup {"route"}] ELSE task[u]
  BY DEF RelayFails, Overtakes
<1>5. \A y \in TaskType : LET z == [y EXCEPT !.late = @ \cup {"route"}]
                          IN  z \in TaskType /\ z.st = y.st /\ z.key = y.key
                              /\ z.status = y.status /\ z.policy = y.policy
                              /\ z.late = y.late \cup {"route"}
  BY DEF TaskType
<1> HIDE DEF r, x
<1>6. task \in [Tasks -> TaskType] /\ task' \in [Tasks -> TaskType]
  <2>1. task \in [Tasks -> TaskType]
    BY DEF ChoiceInv, TablesSound
  <2>2. \A u \in Tasks : task'[u] \in TaskType
    BY <1>1, <1>4, <1>5, <2>1
  <2>3. task' = [u \in Tasks |-> task'[u]]
    BY DEF RelayFails, Overtakes
  <2>4. QED
    BY <2>1, <2>2, <2>3
<1>7. ASSUME NEW u \in Tasks PROVE TaskSound(task[u])'
  <2>1. PICK y \in TaskType : y = task[u]
    BY <1>6
  <2>2. PICK z \in TaskType : z = task'[u]
    BY <1>6
  <2>3. TaskSound(y)
    BY <2>1 DEF ChoiceInv, TasksSound, TaskSound, HeardOfFailure
  <2>4. CASE u = t
    <3>1. z.st \in {"relay_down", "idle"}
      BY <1>1, <1>4, <2>2, <2>4
    <3>2. TaskSound(z)'
      BY <3>1 DEF TaskSound, HeardOfFailure
    <3>3. QED
      BY <2>2, <3>2 DEF TaskSound, HeardOfFailure
  <2>5. CASE u # t
    <3>1. /\ z.st = y.st /\ z.key = y.key /\ z.status = y.status /\ z.policy = y.policy
          /\ y.late \subseteq z.late
          /\ u \in ActsOver(r) => "route" \in z.late
      BY <1>4, <1>5, <2>1, <2>2, <2>5
    <3>2. /\ y.key[1] = r /\ y.policy.intent # "H3Only"
          /\ y.st \in {"tcp", "quic", "race", "probe"}
          => u \in ActsOver(r)
      BY <2>1 DEF ActsOver, Forced
    <3>3. Cooling(z.key)' = Cooling(z.key)
      BY <1>3 DEF Cooling
    <3>4. TaskSound(z)'
      BY <1>2, <1>3, <2>3, <3>1, <3>2, <3>3 DEF TaskSound, HeardOfFailure
    <3>5. QED
      BY <2>2, <3>4 DEF TaskSound, HeardOfFailure
  <2>6. QED
    BY <2>4, <2>5
<1>8. TablesSound' /\ TrackerSound'
  BY <1>3, <1>6 DEF ChoiceInv, TablesSound, TrackerSound
<1>9. QED
  BY <1>2, <1>7, <1>8 DEF ChoiceInv, TasksSound

(* What else attempts report, and probes that start.                       *)
LEMMA ReportInv ==
    ASSUME ChoiceInv, NEW t \in Tasks,
           \/ SpawnProbe(t) \/ Connects(t) \/ Validates(t) \/ Invalidates(t) \/ EndsSilently(t)
    PROVE  ChoiceInv'
<1>1. /\ task[t] \in TaskType /\ task[t].key \in Keys
      /\ NoTaskYet \in TaskType /\ NoTaskYet.st = "idle"
  BY TaskTypes DEF ChoiceInv, TablesSound, TaskType
<1>2. failed' = failed /\ blamed' = blamed
  BY DEF SpawnProbe, Connects, Validates, Invalidates, EndsSilently
<1>3. /\ TrackerSound' /\ \A k : Cooling(k)' => Cooling(k)
      /\ RoutesSound' /\ \A r : RouteBroken(r)' => RouteBroken(r)
  <2>1. CASE Connects(t)
    <3>1. TrackerSound' /\ \A k : Cooling(k)' => Cooling(k)
      BY <1>2, <2>1, DropSound DEF Connects, ChoiceInv
    <3>2. /\ DOMAIN broken_routes' \subseteq DOMAIN broken_routes
          /\ \A r \in DOMAIN broken_routes' : broken_routes'[r] \in Nat
      BY <2>1 DEF Connects, Drop, ChoiceInv, RoutesSound
    <3>3. RoutesSound' /\ \A r : RouteBroken(r)' => RouteBroken(r)
      BY <3>2, FewerRoutes DEF ChoiceInv
    <3>4. QED
      BY <3>1, <3>3
  <2>2. CASE ~Connects(t)
    <3>1. broken' = broken /\ broken_routes' = broken_routes
      BY <2>2 DEF SpawnProbe, Validates, Invalidates, EndsSilently
    <3>2. QED
      BY <1>2, <3>1 DEF ChoiceInv, TrackerSound, RoutesSound, Cooling, RouteBroken
  <2>3. QED
    BY <2>1, <2>2
<1>4. PICK x \in TaskType : task' = [task EXCEPT ![t] = x] /\ TaskSound(x)
  <2>1. CASE SpawnProbe(t)
    <3> DEFINE x == [task[t] EXCEPT !.st = "probe"]
    <3>1. task' = [task EXCEPT ![t] = x] /\ task[t].st \in {"tcp", "race"}
      BY <2>1 DEF SpawnProbe
    <3>2. /\ x \in TaskType /\ x.st = "probe" /\ x.key = task[t].key
          /\ x.policy = task[t].policy /\ x.late = task[t].late
      BY <1>1 DEF TaskType, TaskStates
    <3>3. TaskSound(task[t])
      BY DEF ChoiceInv, TasksSound
    <3> HIDE DEF x
    <3>4. TaskSound(x)
      BY <3>1, <3>2, <3>3 DEF TaskSound, HeardOfFailure
    <3>5. QED
      BY <3>1, <3>2, <3>4
  <2>2. CASE Connects(t)
    <3> DEFINE x == TaskAt("working", task[t].key)
    <3>1. "working" \in TaskStates
      BY DEF TaskStates
    <3>2. x \in TaskType /\ x.st = "working"
      BY <1>1, <3>1, TaskTypes
    <3>3. task' = [task EXCEPT ![t] = x]
      BY <2>2 DEF Connects, Becomes
    <3> HIDE DEF x
    <3>4. TaskSound(x)
      BY <3>2 DEF TaskSound, HeardOfFailure
    <3>5. QED
      BY <3>2, <3>3, <3>4
  <2>3. CASE Validates(t) \/ Invalidates(t) \/ EndsSilently(t)
    <3>1. task' = [task EXCEPT ![t] = NoTaskYet]
      BY <2>3 DEF Validates, Invalidates, EndsSilently, Ends
    <3>2. TaskSound(NoTaskYet)
      BY <1>1 DEF TaskSound, HeardOfFailure
    <3>3. QED
      BY <1>1, <3>1, <3>2
  <2>4. QED
    BY <2>1, <2>2, <2>3
<1>5. TaskSound(x)'
  BY <1>2, <1>3, <1>4, TaskStays
<1>6. task' \in [Tasks -> TaskType] /\ TasksSound'
  BY <1>2, <1>3, <1>4, <1>5, TaskMoves
<1>7. TablesSound'
  BY <1>1, <1>2, <1>6 DEF SpawnProbe, Connects, Validates, Invalidates, EndsSilently,
                          ChoiceInv, TablesSound
<1>8. QED
  BY <1>3, <1>6, <1>7 DEF ChoiceInv

(* Steps that move no task and set no quarantine.                          *)
LEMMA TablesInv ==
    ASSUME ChoiceInv, task' = task, failed' = failed, blamed' = blamed,
           DOMAIN alt_svc' \cup validated' \subseteq Keys, TrackerSound', RoutesSound',
           \A k : Cooling(k)' => Cooling(k), \A r : RouteBroken(r)' => RouteBroken(r)
    PROVE  ChoiceInv'
<1>1. ASSUME NEW u \in Tasks PROVE TaskSound(task[u])'
  <2>1. PICK y \in TaskType : y = task[u]
    BY DEF ChoiceInv, TablesSound
  <2>2. TaskSound(y)
    BY <2>1 DEF ChoiceInv, TasksSound, TaskSound, HeardOfFailure
  <2>3. TaskSound(y)'
    BY <2>2, TaskStays
  <2>4. QED
    BY <2>1, <2>3 DEF TaskSound, HeardOfFailure
<1>2. QED
  BY <1>1 DEF ChoiceInv, TablesSound, TasksSound

-----------------------------------------------------------------------------
(* ChoiceInv holds in every reachable state.                               *)
THEOREM ChoiceInvariance == ChoiceSpec => []ChoiceInv
<1>1. ChoiceInit => ChoiceInv
  <2> SUFFICES ASSUME ChoiceInit PROVE ChoiceInv
    OBVIOUS
  <2>1. TablesSound
    BY TaskTypes DEF ChoiceInit, EmptyMap, TablesSound
  <2>2. TrackerSound /\ RoutesSound
    <3>1. /\ IsFiniteSet({}) /\ Cardinality({}) = 0
          /\ MaxBroken \in Nat /\ MaxBrokenRoutes \in Nat
      BY FS_EmptySet, QuicChoiceAssumption
    <3>2. DOMAIN broken = {} /\ DOMAIN broken_routes = {}
      BY DEF ChoiceInit, EmptyMap
    <3>3. QED
      BY <3>1, <3>2 DEF TrackerSound, RoutesSound
  <2>3. TasksSound
    BY TaskTypes DEF ChoiceInit, TasksSound, TaskSound, HeardOfFailure
  <2>4. QED
    BY <2>1, <2>2, <2>3 DEF ChoiceInv
<1>2. ChoiceInv /\ [ChoiceNext]_choice_vars => ChoiceInv'
  <2> SUFFICES ASSUME ChoiceInv, [ChoiceNext]_choice_vars PROVE ChoiceInv'
    OBVIOUS
  <2>1. CASE Tick
    <3>1. /\ DOMAIN alt_svc' \cup validated' \subseteq Keys /\ task' = task
          /\ failed' = failed /\ blamed' = blamed
      BY <2>1 DEF Tick, ChoiceInv, TablesSound
    <3>2. QED
      BY <2>1, <3>1, TickSound, TablesInv DEF ChoiceInv
  <2>2. CASE EvictExpired \/ \E k \in Keys : StoreAltSvc(k)
    <3>1. /\ DOMAIN alt_svc' \cup validated' \subseteq Keys /\ task' = task
          /\ failed' = failed /\ blamed' = blamed /\ broken' = broken
          /\ broken_routes' = broken_routes
      BY <2>2 DEF EvictExpired, StoreAltSvc, Put, Drop, ChoiceInv, TablesSound
    <3>2. /\ TrackerSound' /\ \A k : Cooling(k)' => Cooling(k)
          /\ RoutesSound' /\ \A r : RouteBroken(r)' => RouteBroken(r)
      BY <3>1 DEF ChoiceInv, TrackerSound, RoutesSound, Cooling, RouteBroken
    <3>3. QED
      BY <3>1, <3>2, TablesInv
  <2>3. ASSUME NEW t \in Tasks, NEW o \in Origins, NEW p \in Wants[t], Learn(t, <<p.route, o>>, p)
        PROVE  ChoiceInv'
    <3>1. <<p.route, o>> \in Keys
      BY QuicChoiceAssumption DEF Keys
    <3>2. QED
      BY <2>3, <3>1, LearnInv
  <2>4. ASSUME NEW t \in Tasks,
               \/ Decide(t) \/ SpawnProbe(t) \/ Connects(t) \/ Validates(t) \/ HandshakeFails(t)
               \/ Invalidates(t) \/ RelayFails(t) \/ BlamesOrigin(t) \/ EndsSilently(t)
        PROVE  ChoiceInv'
    <3>1. CASE HandshakeFails(t) \/ BlamesOrigin(t)
      BY <3>1, ReportsInv DEF HandshakeFails, BlamesOrigin
    <3>2. QED
      BY <2>4, <3>1, DecideInv, ReportInv, RelayInv
  <2>5. CASE UNCHANGED choice_vars
    <3>1. /\ TrackerSound' /\ \A k : Cooling(k)' => Cooling(k)
          /\ RoutesSound' /\ \A r : RouteBroken(r)' => RouteBroken(r)
      BY <2>5 DEF choice_vars, ChoiceInv, TrackerSound, RoutesSound, Cooling, RouteBroken
    <3>2. QED
      BY <2>5, <3>1, TablesInv DEF choice_vars, ChoiceInv, TablesSound
  <2>6. QED
    BY <2>1, <2>2, <2>3, <2>4, <2>5 DEF ChoiceNext
<1>3. QED
  BY <1>1, <1>2, PTL DEF ChoiceSpec

(* QUIC is avoided only where a failure was reported; the tracker keeps to *)
(* its capacities; and the quarantine grows with the failures in a row,    *)
(* provided that the configured range leaves room for a step per failure   *)
(* (the default one does: 5 minutes to an hour in 3 steps, counted in      *)
(* nanoseconds).                                                           *)
THEOREM QuarantineHolds == CooldownsGrow => (ChoiceSpec => []QuarantineJustified)
<1> SUFFICES ASSUME CooldownsGrow PROVE ChoiceSpec => []QuarantineJustified
  OBVIOUS
<1>1. ChoiceInv => QuarantineJustified
  <2> SUFFICES ASSUME ChoiceInv PROVE QuarantineJustified
    OBVIOUS
  <2>1. ChoiceTypeOK
    BY DEF ChoiceInv, TablesSound, TrackerSound, RoutesSound, TaskType, BrokenType, ChoiceTypeOK
  <2>2. CooldownEscalates
    <3> SUFFICES ASSUME NEW k \in DOMAIN broken
                 PROVE  /\ broken[k].cooldown <= MaxCooldown
                        /\ broken[k].count >= Threshold => broken[k].cooldown = MaxCooldown
                        /\ broken[k].count > 1 => broken[k].cooldown > InitialCooldown
      BY DEF CooldownEscalates
    <3>1. broken[k].count \in 1 .. Threshold
          /\ broken[k].cooldown = CooldownForFailure(broken[k].count)
      BY DEF ChoiceInv, TrackerSound, BrokenType
    <3>2. QED
      BY <3>1, CooldownGrows, QuicChoiceAssumption
  <2>3. SkipsOnlyFailed
    BY DEF ChoiceInv, TasksSound, TaskSound, SkipsOnlyFailed
  <2>4. QED
    BY <2>1, <2>2, <2>3 DEF QuarantineJustified
<1>2. QED
  BY <1>1, ChoiceInvariance, PTL

(* Unless it is forced to, a task attempts QUIC in spite of a quarantine   *)
(* only if that was set after the task had looked: the origin's after it   *)
(* read the tracker, the route's after it decided (discover_quic_support). *)
THEOREM QuarantineIsHeeded == ChoiceSpec => []QuarantineBinds
<1>1. ChoiceInv => QuarantineBinds
  <2> SUFFICES ASSUME ChoiceInv, NEW t \in Tasks, Attempting(t), ~Forced(t)
               PROVE  /\ Cooling(task[t].key) => "origin" \in task[t].late
                      /\ RouteBroken(task[t].key[1]) => "route" \in task[t].late
    BY DEF QuarantineBinds
  <2>1. TaskSound(task[t]) /\ task[t].st \in {"quic", "race", "probe"}
    BY DEF ChoiceInv, TasksSound, Attempting
  <2>2. QED
    BY <2>1 DEF TaskSound, HeardOfFailure, Forced
<1>2. QED
  BY <1>1, ChoiceInvariance, PTL

-----------------------------------------------------------------------------
(* Streaming: the invariant of a call and its permits                      *)

LegType ==
    [st : {"off", "reserve", "dial", "sent", "failed"},
     next : {"tcp", "quic", "h1", "h2", "h3"}, permits : Nat,
     err : {"none", "limit", "connect", "closed", "oversized"}]

\* A connection that a leg makes or streams from is paid for.
LegPaid(leg) == leg.st = "dial" \/ (leg.st = "sent" /\ leg.next = "h1") => leg.permits >= 1

BudgetKept ==
    /\ legs \in [Legs -> LegType]
    /\ \A l \in Legs : LegPaid(legs[l])
    /\ pooled \subseteq {"h1", "h2", "h3"} /\ others \in Nat
    /\ bridge = [st |-> bridge.st, item |-> bridge.item, permits |-> bridge.permits]
    /\ bridge.permits \in {0, 1} /\ (BridgeRuns => bridge.permits = 1)
    /\ Used <= Limit

\* The last attempt of a race holds nothing when it asks for a slot.
LastAlone ==
    phase = "last" =>
        /\ legs["quic"].st = "off" /\ legs["quic"].permits = 0
        /\ legs["tcp"].next \in {"tcp", "h1", "h2"}
        /\ legs["tcp"].st = "reserve" => legs["tcp"].permits = 0
        /\ legs["tcp"].st = "dial" => legs["tcp"].permits = 1
        /\ legs["tcp"].st = "sent" /\ legs["tcp"].next = "h2" => legs["tcp"].permits = 0

StreamingInv == BudgetKept /\ LastAlone /\ RaceNotStarved

(* The limit is a positive number.                                        *)
LEMMA LimitType == Limit \in Nat /\ Limit # 0
  BY StreamingAssumption

(* The cardinality of the pool when a connection is added or removed.      *)
LEMMA PooledCount ==
    ASSUME NEW P, P \subseteq {"h1", "h2", "h3"}, NEW c
    PROVE  /\ IsFiniteSet(P) /\ Cardinality(P) \in Nat
           /\ Cardinality(P \cup {c}) \in Nat /\ Cardinality(P \cup {c}) <= Cardinality(P) + 1
           /\ Cardinality(P \ {c}) \in Nat /\ Cardinality(P \ {c}) <= Cardinality(P)
           /\ c \in P => Cardinality(P \ {c}) = Cardinality(P) - 1
<1>1. IsFiniteSet({"h1", "h2", "h3"})
  <2>1. IsFiniteSet({"h1"}) /\ IsFiniteSet({"h2"}) /\ IsFiniteSet({"h3"})
    BY FS_Singleton
  <2>2. IsFiniteSet(({"h1"} \cup {"h2"}) \cup {"h3"})
    BY <2>1, FS_Union
  <2>3. ({"h1"} \cup {"h2"}) \cup {"h3"} = {"h1", "h2", "h3"}
    OBVIOUS
  <2>4. QED
    BY <2>2, <2>3
<1>2. IsFiniteSet(P)
  BY <1>1, FS_Subset
<1>3. Cardinality(P) \in Nat
  BY <1>2, FS_CardinalityType
<1>4. Cardinality(P \cup {c}) = Cardinality(P) \/ Cardinality(P \cup {c}) = Cardinality(P) + 1
  BY <1>2, FS_AddElement
<1>5. Cardinality(P \ {c}) = IF c \in P THEN Cardinality(P) - 1 ELSE Cardinality(P)
  BY <1>2, FS_RemoveElement
<1>6. Cardinality(P \ {c}) \in Nat
  BY <1>2, FS_Subset, FS_CardinalityType
<1>7. QED
  BY <1>2, <1>3, <1>4, <1>5, <1>6

(* No leg holds a permit before the first one starts.                      *)
LEMMA NoLegsFree ==
    /\ NoLegs \in [Legs -> LegType] /\ \A l \in Legs : NoLegs[l] = Off
    /\ \A n \in {"tcp", "quic"} :
         /\ Starting(n) \in LegType /\ Starting(n).permits = 0 /\ Starting(n).st = "reserve"
         /\ Starting(n).next = n
    /\ Off \in LegType /\ Off.permits = 0 /\ Off.st = "off"
  BY DEF NoLegs, Off, Starting, LegType, Leg

(* The call ends, or starts again with one leg that has no permit.         *)
LEMMA FreshLegs ==
    ASSUME StreamingInv, UNCHANGED <<pooled, others, bridge>>, NEW l \in Legs,
           NEW n \in {"tcp", "quic"},
           legs' = NoLegs \/ legs' = [NoLegs EXCEPT ![l] = Starting(n)]
    PROVE  BudgetKept' /\ legs'["quic"].permits = 0 /\ legs'["tcp"].permits = 0
<1>1. /\ legs' \in [Legs -> LegType]
      /\ legs'["quic"] \in {Off, Starting(n)} /\ legs'["tcp"] \in {Off, Starting(n)}
  BY NoLegsFree DEF Legs
<1>2. legs'["quic"].permits = 0 /\ legs'["tcp"].permits = 0
  BY <1>1, NoLegsFree
<1>3. \A k \in Legs : LegPaid(legs'[k])
  BY <1>1, NoLegsFree DEF LegPaid, Legs
<1>4. Cardinality(pooled) \in Nat
  BY PooledCount DEF StreamingInv, BudgetKept
<1>5. legs["quic"].permits \in Nat /\ legs["tcp"].permits \in Nat
  BY DEF StreamingInv, BudgetKept, Legs, LegType
<1>6. Used' <= Limit
  BY <1>2, <1>4, <1>5, LimitType DEF StreamingInv, BudgetKept, Used, Held
<1>7. QED
  BY <1>1, <1>2, <1>3, <1>6 DEF StreamingInv, BudgetKept, BridgeRuns

(* What a leg may do to its permits: the sums follow.                      *)
LEMMA OneLegMoves ==
    ASSUME StreamingInv, UNCHANGED <<others, bridge>>, NEW l \in Legs, NEW x \in LegType,
           LegPaid(x),
           legs' = [legs EXCEPT ![l] = x], pooled' \subseteq {"h1", "h2", "h3"},
           Used - legs[l].permits - Cardinality(pooled) + x.permits + Cardinality(pooled') <= Limit
    PROVE  /\ BudgetKept' /\ legs'[l] = x
           /\ \A k \in Legs : k # l => legs'[k] = legs[k]
<1>1. /\ legs' \in [Legs -> LegType] /\ legs'[l] = x
      /\ \A k \in Legs : k # l => legs'[k] = legs[k]
  BY DEF StreamingInv, BudgetKept
<1>2. \A k \in Legs : LegPaid(legs'[k])
  BY <1>1 DEF StreamingInv, BudgetKept
<1>3. Cardinality(pooled) \in Nat /\ Cardinality(pooled') \in Nat
  BY PooledCount DEF StreamingInv, BudgetKept
<1>4. \A k \in Legs : legs[k].permits \in Nat /\ legs'[k].permits \in Nat
  BY <1>1 DEF StreamingInv, BudgetKept, LegType
<1>5. Used' <= Limit
  BY <1>1, <1>3, <1>4, LimitType DEF StreamingInv, BudgetKept, Used, Held, Legs
<1>6. QED
  BY <1>1, <1>2, <1>5 DEF StreamingInv, BudgetKept, BridgeRuns

(* LegFails: the call fails, or goes on with the other leg, or with TCP    *)
(* once more.                                                              *)
LEMMA LegFailsInv ==
    ASSUME StreamingInv, UNCHANGED <<pooled, others, bridge>>, NEW l \in Legs,
           NEW err \in {"limit", "connect", "closed", "oversized"}, LegFails(l, err),
           legs[l].st \in {"reserve", "dial", "sent"}, err = "limit" => legs[l].st = "reserve"
    PROVE  StreamingInv'
<1> DEFINE other == CHOOSE k \in Legs : k # l
           tcp_err == IF l = "tcp" THEN err ELSE legs["tcp"].err
<1>1. CASE phase \in {"single", "last"}
  <2>1. Failed(err)
    BY <1>1 DEF LegFails
  <2>2. BudgetKept'
    BY <2>1, FreshLegs DEF Failed
  <2>3. LastAlone'
    BY <2>1 DEF Failed, LastAlone
  <2>4. RaceNotStarved'
    <3>1. CASE phase = "single"
      BY <2>1, <3>1 DEF Failed, RaceNotStarved
    <3>2. CASE phase = "last"
      <4>1. l = "tcp"
        BY <3>2 DEF StreamingInv, LastAlone, Legs
      <4>2. err = "limit" => Held = 0
        BY <3>2, <4>1 DEF StreamingInv, LastAlone, Held
      <4>3. QED
        BY <2>1, <4>2 DEF Failed, RaceNotStarved
    <3>3. QED
      BY <1>1, <3>1, <3>2
  <2>5. QED
    BY <2>2, <2>3, <2>4 DEF StreamingInv
<1>2. CASE phase' = "last" /\ legs' = [NoLegs EXCEPT !["tcp"] = Starting("tcp")]
           /\ UNCHANGED refusal
  <2>1. BudgetKept' /\ legs'["quic"].permits = 0 /\ legs'["tcp"].permits = 0
    BY <1>2, FreshLegs DEF Legs
  <2>2. legs'["tcp"] = Starting("tcp") /\ legs'["quic"] = Off
    BY <1>2, NoLegsFree DEF Legs
  <2>3. LastAlone'
    BY <1>2, <2>2, NoLegsFree DEF LastAlone
  <2>4. QED
    BY <1>2, <2>1, <2>3 DEF StreamingInv, RaceNotStarved
<1>3. CASE Failed(tcp_err) /\ tcp_err # "limit"
  <2>1. BudgetKept'
    BY <1>3, FreshLegs DEF Failed
  <2>2. LastAlone' /\ RaceNotStarved'
    BY <1>3 DEF Failed, LastAlone, RaceNotStarved
  <2>3. QED
    BY <2>1, <2>2 DEF StreamingInv
<1>4. CASE legs' = [legs EXCEPT ![l] = [Off EXCEPT !.st = "failed", !.err = err]]
           /\ UNCHANGED <<phase, refusal>> /\ phase \notin {"single", "last"}
  <2> DEFINE x == [Off EXCEPT !.st = "failed", !.err = err]
  <2>1. x \in LegType /\ LegPaid(x) /\ x.permits = 0
    BY DEF LegType, Off, LegPaid, Leg
  <2>2. Cardinality(pooled) \in Nat /\ legs[l].permits \in Nat /\ Used \in Nat
    <3>1. Cardinality(pooled) \in Nat
      BY PooledCount DEF StreamingInv, BudgetKept
    <3>2. \A k \in Legs : legs[k].permits \in Nat
      BY DEF StreamingInv, BudgetKept, LegType
    <3>3. QED
      BY <3>1, <3>2 DEF StreamingInv, BudgetKept, Used, Held, Legs
  <2> HIDE DEF x
  <2>3. BudgetKept'
    <3>1. Used - legs[l].permits - Cardinality(pooled) + x.permits + Cardinality(pooled') <= Limit
      BY <2>1, <2>2, LimitType DEF StreamingInv, BudgetKept
    <3>2. pooled' \subseteq {"h1", "h2", "h3"} /\ legs' = [legs EXCEPT ![l] = x]
      BY <1>4 DEF StreamingInv, BudgetKept, x
    <3>3. QED
      BY <2>1, <3>1, <3>2, OneLegMoves
  <2>4. QED
    BY <1>4, <2>3 DEF StreamingInv, LastAlone, RaceNotStarved
<1>5. QED
  BY <1>1, <1>2, <1>3, <1>4 DEF LegFails
(* The sums of permits are natural numbers.                                *)
LEMMA PermitTypes ==
    ASSUME StreamingInv
    PROVE  /\ Cardinality(pooled) \in Nat /\ Used \in Nat /\ Used <= Limit /\ Limit \in Nat
           /\ \A k \in Legs : legs[k] \in LegType /\ legs[k].permits \in Nat
<1>1. Cardinality(pooled) \in Nat
  BY PooledCount DEF StreamingInv, BudgetKept
<1>2. \A k \in Legs : legs[k] \in LegType /\ legs[k].permits \in Nat
  BY DEF StreamingInv, BudgetKept, LegType
<1>3. QED
  BY <1>1, <1>2, LimitType DEF StreamingInv, BudgetKept, Used, Held, Legs

(* What happens to the last attempt when a leg moves to x.                 *)
LEMMA LegMovesInv ==
    ASSUME StreamingInv, UNCHANGED <<others, bridge, phase, refusal>>, NEW l \in Legs,
           NEW x \in LegType, LegPaid(x), legs[l].st \in {"reserve", "dial", "sent"},
           legs' = [legs EXCEPT ![l] = x], pooled' \subseteq {"h1", "h2", "h3"},
           Used - legs[l].permits - Cardinality(pooled) + x.permits + Cardinality(pooled') <= Limit,
           phase = "last" =>
              /\ x.next \in {"tcp", "h1", "h2"}
              /\ x.st = "reserve" => x.permits = 0
              /\ x.st = "dial" => x.permits = 1
              /\ x.st = "sent" /\ x.next = "h2" => x.permits = 0
    PROVE  StreamingInv'
<1>1. /\ BudgetKept' /\ legs'[l] = x
      /\ \A k \in Legs : k # l => legs'[k] = legs[k]
  BY OneLegMoves
<1>2. LastAlone'
  <2>1. SUFFICES ASSUME phase' = "last" PROVE LastAlone'
    BY DEF LastAlone
  <2>2. phase = "last" /\ l = "tcp"
    BY <2>1 DEF StreamingInv, LastAlone, Legs
  <2>3. legs'["quic"] = legs["quic"] /\ legs'["tcp"] = x
    BY <1>1, <2>2 DEF Legs
  <2>4. QED
    BY <2>2, <2>3 DEF StreamingInv, LastAlone
<1>3. QED
  BY <1>1, <1>2 DEF StreamingInv, RaceNotStarved

(* A leg that takes its permit, or is refused it, keeps StreamingInv.      *)
LEMMA ReserveInv ==
    ASSUME StreamingInv, NEW l \in Legs, Reserve(l)
    PROVE  StreamingInv'
<1>1. UNCHANGED <<others, bridge>> /\ legs[l].st = "reserve"
  BY DEF Reserve, body_vars
<1>2. CASE CanReserve
  <2>1. /\ legs' = [legs EXCEPT ![l] = Leg("dial", legs[l].next, legs[l].permits + 1)]
        /\ pooled' = AfterReserve /\ UNCHANGED <<phase, refusal>>
    BY <1>2 DEF Reserve
  <2> DEFINE x == Leg("dial", legs[l].next, legs[l].permits + 1)
  <2>2. x \in LegType /\ LegPaid(x) /\ x.permits = legs[l].permits + 1 /\ x.st = "dial"
        /\ x.next = legs[l].next
    BY PermitTypes DEF LegType, LegPaid, Leg
  <2>3. x \in LegType /\ LegPaid(x) /\ legs' = [legs EXCEPT ![l] = x]
    BY <2>1, <2>2
  <2> HIDE DEF x
  <2>4. pooled' \subseteq {"h1", "h2", "h3"}
    BY <2>1 DEF AfterReserve, StreamingInv, BudgetKept
  <2>5. Used - legs[l].permits - Cardinality(pooled) + x.permits + Cardinality(pooled') <= Limit
    <3>1. pooled \subseteq {"h1", "h2", "h3"}
      BY DEF StreamingInv, BudgetKept
    <3>2. CASE Used < Limit
      <4>1. pooled' = pooled
        BY <2>1, <3>2 DEF AfterReserve
      <4>2. QED
        BY <3>2, <4>1, <2>2, PermitTypes
    <3>3. CASE ~(Used < Limit)
      <4>1. pooled' = pooled \ {"h1"} /\ "h1" \in pooled
        BY <1>2, <2>1, <3>3 DEF AfterReserve, CanReserve
      <4>2. Cardinality(pooled') = Cardinality(pooled) - 1
        BY <3>1, <4>1, PooledCount
      <4>3. QED
        BY <4>2, <2>2, PermitTypes
    <3>4. QED
      BY <3>2, <3>3
  <2>6. phase = "last" => legs[l].permits = 0 /\ legs[l].next \in {"tcp", "h1", "h2"}
    BY <1>1 DEF StreamingInv, LastAlone, Legs
  <2>7. phase = "last" => x.next \in {"tcp", "h1", "h2"} /\ x.permits = 1
    BY <2>2, <2>6
  <2>8. UNCHANGED <<others, bridge, phase, refusal>> /\ x.st = "dial"
    BY <1>1, <2>1, <2>2
  <2>9. QED
    BY <1>1, <2>3, <2>4, <2>5, <2>7, <2>8, LegMovesInv
<1>3. CASE ~CanReserve
  <2>1. LegFails(l, "limit") /\ UNCHANGED pooled
    BY <1>3 DEF Reserve
  <2>2. QED
    BY <1>1, <2>1, LegFailsInv
<1>4. QED
  BY <1>2, <1>3

(* A QUIC dial, whichever way it ends, keeps StreamingInv.                 *)
LEMMA QuicDialInv ==
    ASSUME StreamingInv, NEW l \in Legs, QuicDial(l)
    PROVE  StreamingInv'
<1>1. UNCHANGED <<others, bridge>> /\ legs[l].st = "dial" /\ legs[l].permits >= 1
      /\ legs[l].next = "quic" /\ phase # "last" /\ pooled \subseteq {"h1", "h2", "h3"}
  BY DEF QuicDial, body_vars, StreamingInv, BudgetKept, LegPaid, LastAlone, Legs
<1>2. CASE legs' = [legs EXCEPT ![l] = Leg("sent", "h3", legs[l].permits - 1)]
           /\ pooled' = pooled \cup {"h3"} /\ UNCHANGED <<phase, refusal>>
  <2> DEFINE x == Leg("sent", "h3", legs[l].permits - 1)
  <2>1. x \in LegType /\ LegPaid(x) /\ x.permits = legs[l].permits - 1
    BY <1>1, PermitTypes DEF LegType, LegPaid, Leg
  <2>2. legs' = [legs EXCEPT ![l] = x]
    BY <1>2
  <2> HIDE DEF x
  <2>3. pooled' \subseteq {"h1", "h2", "h3"}
    BY <1>1, <1>2
  <2>4. Cardinality(pooled') \in Nat /\ Cardinality(pooled') <= Cardinality(pooled) + 1
    BY <1>1, <1>2, PooledCount
  <2>5. Used - legs[l].permits - Cardinality(pooled) + x.permits + Cardinality(pooled') <= Limit
    BY <2>1, <2>4, PermitTypes
  <2>6. QED
    BY <1>1, <1>2, <2>1, <2>2, <2>3, <2>5, LegMovesInv
<1>3. CASE legs' = [legs EXCEPT ![l] = Leg("reserve", "tcp", legs[l].permits)]
           /\ UNCHANGED <<phase, refusal, pooled>>
  <2> DEFINE x == Leg("reserve", "tcp", legs[l].permits)
  <2>1. x \in LegType /\ LegPaid(x) /\ x.permits = legs[l].permits
    BY <1>1, PermitTypes DEF LegType, LegPaid, Leg
  <2>2. legs' = [legs EXCEPT ![l] = x]
    BY <1>3
  <2> HIDE DEF x
  <2>3. Used - legs[l].permits - Cardinality(pooled) + x.permits + Cardinality(pooled') <= Limit
    BY <1>3, <2>1, PermitTypes
  <2>4. QED
    BY <1>1, <1>3, <2>1, <2>2, <2>3, LegMovesInv
<1>4. CASE LegFails(l, "connect") /\ UNCHANGED pooled
  BY <1>1, <1>4, LegFailsInv
<1>5. QED
  BY <1>2, <1>3, <1>4 DEF QuicDial

(* A TCP dial, whichever way it ends, keeps StreamingInv.                  *)
LEMMA TcpDialInv ==
    ASSUME StreamingInv, NEW l \in Legs, TcpDial(l)
    PROVE  StreamingInv'
<1>1. UNCHANGED <<others, bridge>> /\ legs[l].st = "dial" /\ legs[l].permits >= 1
      /\ pooled \subseteq {"h1", "h2", "h3"}
      /\ (phase = "last" => legs[l].permits = 1)
  BY DEF TcpDial, body_vars, StreamingInv, BudgetKept, LegPaid, LastAlone, Legs
<1>2. CASE legs' = [legs EXCEPT ![l] = Leg("sent", "h2", legs[l].permits - 1)]
           /\ pooled' = pooled \cup {"h2"} /\ UNCHANGED <<phase, refusal>>
  <2> DEFINE x == Leg("sent", "h2", legs[l].permits - 1)
  <2>1. x \in LegType /\ LegPaid(x) /\ x.permits = legs[l].permits - 1 /\ x.next = "h2"
        /\ x.st = "sent"
    BY <1>1, PermitTypes DEF LegType, LegPaid, Leg
  <2>2. legs' = [legs EXCEPT ![l] = x]
    BY <1>2
  <2> HIDE DEF x
  <2>3. pooled' \subseteq {"h1", "h2", "h3"}
    BY <1>1, <1>2
  <2>4. Cardinality(pooled') \in Nat /\ Cardinality(pooled') <= Cardinality(pooled) + 1
    BY <1>1, <1>2, PooledCount
  <2>5. Used - legs[l].permits - Cardinality(pooled) + x.permits + Cardinality(pooled') <= Limit
    BY <2>1, <2>4, PermitTypes
  <2>6. phase = "last" => x.permits = 0
    BY <1>1, <2>1
  <2>7. QED
    BY <1>1, <1>2, <2>1, <2>2, <2>3, <2>5, <2>6, LegMovesInv
<1>3. CASE legs' = [legs EXCEPT ![l] = Leg("sent", "h1", legs[l].permits)]
           /\ UNCHANGED <<phase, refusal, pooled>>
  <2> DEFINE x == Leg("sent", "h1", legs[l].permits)
  <2>1. x \in LegType /\ LegPaid(x) /\ x.permits = legs[l].permits /\ x.next = "h1"
        /\ x.st = "sent"
    BY <1>1, PermitTypes DEF LegType, LegPaid, Leg
  <2>2. legs' = [legs EXCEPT ![l] = x]
    BY <1>3
  <2> HIDE DEF x
  <2>3. Used - legs[l].permits - Cardinality(pooled) + x.permits + Cardinality(pooled') <= Limit
    BY <1>3, <2>1, PermitTypes
  <2>4. QED
    BY <1>1, <1>3, <2>1, <2>2, <2>3, LegMovesInv
<1>4. CASE LegFails(l, "connect") /\ UNCHANGED pooled
  BY <1>1, <1>4, LegFailsInv
<1>5. QED
  BY <1>2, <1>3, <1>4 DEF TcpDial

(* A send that fails and gives its permits back keeps StreamingInv.        *)
LEMMA SendFailsInv ==
    ASSUME StreamingInv, NEW l \in Legs, SendFails(l)
    PROVE  StreamingInv'
<1>1. UNCHANGED <<others, bridge, pooled>> /\ legs[l].st = "sent"
      /\ pooled \subseteq {"h1", "h2", "h3"}
  BY DEF SendFails, body_vars, StreamingInv, BudgetKept
<1>2. CASE legs' = [legs EXCEPT ![l] = Leg("reserve", "h1", legs[l].permits)]
           /\ UNCHANGED <<phase, refusal>> /\ legs[l].next = "h2"
  <2> DEFINE x == Leg("reserve", "h1", legs[l].permits)
  <2>1. x \in LegType /\ LegPaid(x) /\ x.permits = legs[l].permits /\ x.next = "h1"
        /\ x.st = "reserve"
    BY <1>1, PermitTypes DEF LegType, LegPaid, Leg
  <2>2. legs' = [legs EXCEPT ![l] = x]
    BY <1>2
  <2> HIDE DEF x
  <2>3. Used - legs[l].permits - Cardinality(pooled) + x.permits + Cardinality(pooled') <= Limit
    BY <1>1, <2>1, PermitTypes
  <2>4. phase = "last" => legs[l].permits = 0
    BY <1>1, <1>2 DEF StreamingInv, LastAlone, Legs
  <2>5. QED
    BY <1>1, <1>2, <2>1, <2>2, <2>3, <2>4, LegMovesInv
<1>3. CASE LegFails(l, "closed") \/ LegFails(l, "oversized")
  BY <1>1, <1>3, LegFailsInv
<1>4. QED
  BY <1>2, <1>3 DEF SendFails

(* The connection of the response: over HTTP/1.1 its permit moves into the *)
(* bridge.                                                                 *)
LEMMA OpensInv ==
    ASSUME StreamingInv, NEW l \in Legs, OpenH2(l) \/ OpenH3(l) \/ OpenH1(l)
    PROVE  StreamingInv'
<1>1. /\ phase' = "open" /\ legs' = NoLegs /\ UNCHANGED <<pooled, others, refusal>>
      /\ legs[l].st = "sent"
  BY DEF OpenH1, OpenH2, OpenH3, Opens
<1>2. CASE UNCHANGED bridge
  <2>1. BudgetKept'
    BY <1>1, <1>2, FreshLegs
  <2>2. QED
    BY <1>1, <2>1 DEF StreamingInv, LastAlone, RaceNotStarved
<1>3. CASE bridge' = [bridge EXCEPT !.st = "run", !.permits = 1] /\ legs[l].next = "h1"
  <2>1. legs[l].permits >= 1
    BY <1>1, <1>3 DEF StreamingInv, BudgetKept, LegPaid
  <2>2. /\ bridge'.permits = 1 /\ bridge'.st = "run"
        /\ bridge' = [st |-> bridge'.st, item |-> bridge'.item, permits |-> bridge'.permits]
    <3>1. bridge = [st |-> bridge.st, item |-> bridge.item, permits |-> bridge.permits]
      BY DEF StreamingInv, BudgetKept
    <3>2. bridge' = [st |-> "run", item |-> bridge.item, permits |-> 1]
      BY <3>1, <1>3
    <3>3. QED
      BY <3>2
  <2>3. legs' \in [Legs -> LegType] /\ (\A k \in Legs : LegPaid(legs'[k]))
        /\ legs'["quic"].permits = 0 /\ legs'["tcp"].permits = 0
    BY <1>1, NoLegsFree DEF LegPaid, Legs
  <2>4. Used' <= Limit
    <3>1. Held >= 1 /\ Held \in Nat
      BY <2>1, PermitTypes DEF Held, Legs
    <3>2. Used' = Cardinality(pooled) + 1 + others
      BY <1>1, <2>2, <2>3, PermitTypes DEF Used, Held, StreamingInv, BudgetKept
    <3>3. QED
      BY <3>1, <3>2, PermitTypes DEF Used, StreamingInv, BudgetKept
  <2>5. BudgetKept'
    BY <1>1, <2>2, <2>3, <2>4 DEF StreamingInv, BudgetKept, BridgeRuns
  <2>6. QED
    BY <1>1, <2>5 DEF StreamingInv, LastAlone, RaceNotStarved
<1>4. QED
  BY <1>2, <1>3 DEF OpenH1, OpenH2, OpenH3

(* Other users of the budget taking and returning permits keep             *)
(* StreamingInv.                                                           *)
LEMMA OthersMoveInv == StreamingInv /\ OthersMove => StreamingInv'
<1> SUFFICES ASSUME StreamingInv, OthersMove PROVE StreamingInv'
  OBVIOUS
<1>1. UNCHANGED <<phase, legs, refusal, bridge>> /\ pooled \subseteq {"h1", "h2", "h3"}
      /\ others \in Nat
  BY DEF OthersMove, body_vars, StreamingInv, BudgetKept
<1>2. /\ pooled' \subseteq {"h1", "h2", "h3"} /\ others' \in Nat
      /\ Cardinality(pooled') \in Nat
      /\ \/ Used < Limit /\ others' = others + 1 /\ pooled' = pooled
         \/ others' <= others /\ Cardinality(pooled') <= Cardinality(pooled)
  <2>1. ASSUME NEW c \in pooled, pooled' = pooled \ {c}
        PROVE  Cardinality(pooled') <= Cardinality(pooled)
    BY <1>1, <2>1, PooledCount
  <2>2. Cardinality(pooled) \in Nat /\ pooled' \subseteq {"h1", "h2", "h3"}
    BY <1>1, PooledCount DEF OthersMove
  <2>3. Cardinality(pooled') \in Nat
    BY <2>2, PooledCount
  <2>4. QED
    BY <1>1, <2>1, <2>2, <2>3 DEF OthersMove
<1>3. Used' <= Limit
  BY <1>1, <1>2, PermitTypes DEF Used, Held, StreamingInv, BudgetKept, Legs
<1>4. QED
  BY <1>1, <1>2, <1>3 DEF StreamingInv, BudgetKept, LastAlone, RaceNotStarved, BridgeRuns

(* Sending on a pooled connection keeps StreamingInv.                      *)
LEMMA TakePooledInv == StreamingInv /\ TakePooled => StreamingInv'
<1> SUFFICES ASSUME StreamingInv, TakePooled PROVE StreamingInv'
  OBVIOUS
<1>1. UNCHANGED <<others, refusal, bridge>> /\ pooled \subseteq {"h1", "h2", "h3"}
      /\ phase' = "pooled"
  BY DEF TakePooled, body_vars, StreamingInv, BudgetKept
<1>2. PICK c \in pooled :
        /\ legs' = [NoLegs EXCEPT !["tcp"] = Leg("sent", c, IF c = "h1" THEN 1 ELSE 0)]
        /\ pooled' = pooled \ ({"h1"} \cap {c})
  BY DEF TakePooled
<1> DEFINE x == Leg("sent", c, IF c = "h1" THEN 1 ELSE 0)
<1>3. x \in LegType /\ LegPaid(x) /\ x.permits = IF c = "h1" THEN 1 ELSE 0
  BY <1>1 DEF Leg, LegType, LegPaid
<1>4. legs' = [NoLegs EXCEPT !["tcp"] = x]
  BY <1>2
<1> HIDE DEF x
<1>5. legs' \in [Legs -> LegType] /\ legs'["tcp"] = x /\ legs'["quic"] = Off
  BY <1>3, <1>4, NoLegsFree DEF Legs
<1>6. \A k \in Legs : LegPaid(legs'[k])
  BY <1>3, <1>5, NoLegsFree DEF LegPaid, Legs
<1>7. pooled' \subseteq {"h1", "h2", "h3"} /\ Cardinality(pooled') \in Nat
      /\ (c = "h1" => Cardinality(pooled') = Cardinality(pooled) - 1)
      /\ (c # "h1" => Cardinality(pooled') = Cardinality(pooled))
  <2>1. CASE c = "h1"
    <3>1. pooled' = pooled \ {"h1"}
      BY <1>2, <2>1
    <3>2. QED
      BY <1>1, <2>1, <3>1, PooledCount
  <2>2. CASE c # "h1"
    <3>1. pooled' = pooled
      BY <1>2, <2>2
    <3>2. QED
      BY <1>1, <2>2, <3>1, PooledCount
  <2>3. QED
    BY <2>1, <2>2
<1>8. Used' <= Limit
  <2>1. legs'["quic"].permits = 0 /\ legs'["tcp"].permits = IF c = "h1" THEN 1 ELSE 0
    BY <1>3, <1>5, NoLegsFree
  <2>2. QED
    BY <1>1, <1>7, <2>1, PermitTypes DEF Used, Held, StreamingInv, BudgetKept, Legs
<1>9. QED
  BY <1>1, <1>5, <1>6, <1>7, <1>8
  DEF StreamingInv, BudgetKept, LastAlone, RaceNotStarved, BridgeRuns

(* The other steps of the call.                                            *)
LEMMA CallStepInv ==
    ASSUME StreamingInv, DecideTransport \/ PooledStreamFails \/ ReleaseTcpLeg \/ TotalTimeout
    PROVE  StreamingInv'
<1>1. CASE DecideTransport
  <2>1. BudgetKept'
    BY <1>1, FreshLegs DEF DecideTransport, body_vars, Legs
  <2>2. QED
    BY <1>1, <2>1 DEF DecideTransport, StreamingInv, LastAlone, RaceNotStarved
<1>2. CASE PooledStreamFails
  <2>1. CASE Failed("closed") /\ UNCHANGED pooled
    <3>1. BudgetKept'
      BY <1>2, <2>1, FreshLegs DEF PooledStreamFails, Failed, body_vars, Legs
    <3>2. QED
      BY <2>1, <3>1 DEF Failed, StreamingInv, LastAlone, RaceNotStarved
  <2>2. CASE /\ pooled' = pooled \ {legs["tcp"].next} /\ phase' = "establish" /\ legs' = NoLegs
             /\ UNCHANGED refusal
    <3>1. pooled \subseteq {"h1", "h2", "h3"} /\ UNCHANGED <<others, bridge>>
      BY <1>2 DEF StreamingInv, BudgetKept, PooledStreamFails, body_vars
    <3>2. /\ Cardinality(pooled') \in Nat /\ Cardinality(pooled') <= Cardinality(pooled)
          /\ pooled' \subseteq {"h1", "h2", "h3"}
      BY <3>1, <2>2, PooledCount
    <3>3. legs' \in [Legs -> LegType] /\ (\A k \in Legs : LegPaid(legs'[k]))
          /\ legs'["quic"].permits = 0 /\ legs'["tcp"].permits = 0
      BY <2>2, NoLegsFree DEF LegPaid, Legs
    <3>4. Used' <= Limit
      BY <3>1, <3>2, <3>3, PermitTypes DEF Used, Held, StreamingInv, BudgetKept, Legs
    <3>5. BudgetKept'
      BY <3>1, <3>2, <3>3, <3>4 DEF StreamingInv, BudgetKept, BridgeRuns
    <3>6. QED
      BY <2>2, <3>5 DEF StreamingInv, LastAlone, RaceNotStarved
  <2>3. QED
    BY <1>2, <2>1, <2>2 DEF PooledStreamFails
<1>3. CASE ReleaseTcpLeg
  <2>1. /\ phase = "race" /\ UNCHANGED <<phase, refusal, pooled, others, bridge>>
        /\ legs' = [legs EXCEPT !["tcp"] = Starting("tcp")] /\ "tcp" \in Legs
        /\ pooled \subseteq {"h1", "h2", "h3"}
    BY <1>3 DEF ReleaseTcpLeg, body_vars, Legs, StreamingInv, BudgetKept
  <2>2. Starting("tcp") \in LegType /\ LegPaid(Starting("tcp")) /\ Starting("tcp").permits = 0
    BY NoLegsFree DEF LegPaid
  <2>3. Used - legs["tcp"].permits - Cardinality(pooled) + Starting("tcp").permits
          + Cardinality(pooled') <= Limit
    BY <2>1, <2>2, PermitTypes
  <2>4. BudgetKept'
    BY <2>1, <2>2, <2>3, OneLegMoves
  <2>5. QED
    BY <2>1, <2>4 DEF StreamingInv, LastAlone, RaceNotStarved
<1>4. CASE TotalTimeout
  <2>1. BudgetKept'
    BY <1>4, FreshLegs DEF TotalTimeout, Failed, body_vars, Legs
  <2>2. QED
    BY <1>4, <2>1 DEF TotalTimeout, Failed, StreamingInv, LastAlone, RaceNotStarved
<1>5. QED
  BY <1>1, <1>2, <1>3, <1>4

(* The steps of the body: the bridge keeps its permit as long as it runs.  *)
LEMMA BodyStepInv ==
    ASSUME StreamingInv,
           \/ BodyArrives \/ BridgeTakes \/ BridgePuts
           \/ ReadCalled \/ ReadAdvances \/ ReadCancelled \/ ResponseDropped
    PROVE  StreamingInv'
<1>1. UNCHANGED <<phase, legs, refusal, pooled, others>>
  BY DEF BodyArrives, BridgeTakes, BridgePuts, ReadCalled, ReadAdvances, ReadCancelled,
         ResponseDropped, call_vars
<1>2. \/ bridge' = bridge
      \/ \E i : bridge' = [bridge EXCEPT !.item = i]
      \/ BridgeEnds
  BY DEF BodyArrives, BridgeTakes, BridgePuts, ReadCalled, ReadAdvances, ReadCancelled,
         ResponseDropped
<1>3. bridge = [st |-> bridge.st, item |-> bridge.item, permits |-> bridge.permits]
  BY DEF StreamingInv, BudgetKept
<1>4. \E i : \/ bridge' = [st |-> bridge.st, item |-> i, permits |-> bridge.permits]
             \/ bridge' = [st |-> "end", item |-> i, permits |-> 0]
  BY <1>2, <1>3 DEF BridgeEnds
<1>5. /\ bridge' = [st |-> bridge'.st, item |-> bridge'.item, permits |-> bridge'.permits]
      /\ bridge'.permits \in {0, 1} /\ (BridgeRuns' => bridge'.permits = 1)
      /\ bridge'.permits <= bridge.permits
  BY <1>4 DEF StreamingInv, BudgetKept, BridgeRuns
<1>6. Used' <= Limit
  BY <1>1, <1>5, PermitTypes DEF Used, Held, StreamingInv, BudgetKept, Legs
<1>7. QED
  BY <1>1, <1>5, <1>6 DEF StreamingInv, BudgetKept, LastAlone, RaceNotStarved

(* The connections in use, counted by their permits.                       *)
LEMMA SocketsPaid == StreamingInv => StaysInBudget
<1> SUFFICES ASSUME StreamingInv PROVE StaysInBudget
  OBVIOUS
<1> DEFINE Busy(l) == legs[l].st = "dial" \/ (legs[l].st = "sent" /\ legs[l].next = "h1")
           n == Cardinality({l \in Legs : Busy(l)})
<1>1. \A l \in Legs : Busy(l) => legs[l].permits >= 1
  BY DEF StreamingInv, BudgetKept, LegPaid
<1> HIDE DEF Busy
<1>2. n \in Nat /\ n <= Held
  <2>1. Cardinality({}) = 0 /\ Cardinality({"quic"}) = 1 /\ Cardinality({"tcp"}) = 1
        /\ Cardinality({"quic", "tcp"}) = 2
    <3>1. IsFiniteSet({"quic"}) /\ Cardinality({"quic"}) = 1 /\ "tcp" \notin {"quic"}
      BY FS_Singleton
    <3>2. Cardinality({"quic"} \cup {"tcp"}) = 1 + 1
      BY <3>1, FS_AddElement
    <3>3. QED
      BY <3>2, FS_EmptySet, FS_Singleton
  <2>2. legs["quic"].permits \in Nat /\ legs["tcp"].permits \in Nat
    BY PermitTypes DEF Legs
  <2>3. CASE Busy("quic") /\ Busy("tcp")
    BY <2>1, <2>2, <2>3, <1>1 DEF Held, Legs
  <2>4. CASE Busy("quic") /\ ~Busy("tcp")
    <3>1. {l \in Legs : Busy(l)} = {"quic"}
      BY <2>4 DEF Legs
    <3>2. QED
      BY <3>1, <2>1, <2>2, <2>4, <1>1 DEF Held, Legs
  <2>5. CASE ~Busy("quic") /\ Busy("tcp")
    <3>1. {l \in Legs : Busy(l)} = {"tcp"}
      BY <2>5 DEF Legs
    <3>2. n = 1 /\ legs["tcp"].permits >= 1
      BY <3>1, <2>1, <2>5, <1>1 DEF Legs
    <3>3. QED
      BY <3>2, <2>2 DEF Held
  <2>6. CASE ~Busy("quic") /\ ~Busy("tcp")
    <3>1. {l \in Legs : Busy(l)} = {}
      BY <2>6 DEF Legs
    <3>2. n = 0
      BY <3>1, <2>1
    <3>3. QED
      BY <3>2, <2>2 DEF Held
  <2>7. QED
    BY <2>3, <2>4, <2>5, <2>6
<1>3. Sockets = n + Cardinality(pooled) + others + (IF BridgeRuns THEN 1 ELSE 0)
  BY DEF Sockets, Busy
<1>4. (IF BridgeRuns THEN 1 ELSE 0) <= bridge.permits
  BY DEF StreamingInv, BudgetKept
<1>5. Used = Held + Cardinality(pooled) + bridge.permits + others /\ Held \in Nat
  BY PermitTypes DEF Used, Held, Legs
<1> HIDE DEF n
<1>6. QED
  BY <1>2, <1>3, <1>4, <1>5, PermitTypes DEF StaysInBudget, StreamingInv, BudgetKept

-----------------------------------------------------------------------------
(* Whatever path a streaming call takes, its permits cover its connections *)
(* (reserve_connection, send_h1_streaming).                                *)
THEOREM StreamingInvariance == StreamingSpec => []StreamingInv
<1>1. StreamingInit => StreamingInv
  <2> SUFFICES ASSUME StreamingInit PROVE StreamingInv
    OBVIOUS
  <2>1. /\ legs["quic"].permits = 0 /\ legs["tcp"].permits = 0
        /\ legs \in [Legs -> LegType] /\ \A l \in Legs : LegPaid(legs[l])
    BY NoLegsFree DEF StreamingInit, LegPaid, Legs
  <2>2. pooled \subseteq {"h1", "h2", "h3"} /\ Cardinality(pooled) \in {0, 1}
    BY FS_EmptySet, FS_Singleton DEF StreamingInit
  <2>3. Used <= Limit
    BY <2>1, <2>2, LimitType DEF StreamingInit, Used, Held
  <2>4. QED
    BY <2>1, <2>2, <2>3 DEF StreamingInit, StreamingInv, BudgetKept, LastAlone, RaceNotStarved,
                            BridgeRuns
<1>2. StreamingInv /\ [StreamingNext]_streaming_vars => StreamingInv'
  <2> SUFFICES ASSUME StreamingInv, [StreamingNext]_streaming_vars PROVE StreamingInv'
    OBVIOUS
  <2>1. CASE UNCHANGED streaming_vars
    BY <2>1 DEF streaming_vars, call_vars, body_vars, StreamingInv, BudgetKept, LastAlone,
                RaceNotStarved, Used, Held, BridgeRuns
  <2>2. ASSUME NEW l \in Legs, Reserve(l) \/ QuicDial(l) \/ TcpDial(l) \/ SendFails(l)
                                  \/ OpenH2(l) \/ OpenH3(l) \/ OpenH1(l)
        PROVE  StreamingInv'
    BY <2>2, ReserveInv, QuicDialInv, TcpDialInv, SendFailsInv, OpensInv
  <2>3. QED
    BY <2>1, <2>2, OthersMoveInv, TakePooledInv, CallStepInv, BodyStepInv DEF StreamingNext
<1>3. QED
  BY <1>1, <1>2, PTL DEF StreamingSpec

(* Connections never exceed the limit, also while an attempt falls back or *)
(* a bridge task streams a body after the call has returned; and a race    *)
(* that gives up for lack of a slot held none itself                       *)
(* (establish_and_send_streaming_race).                                    *)
THEOREM StreamsInBudget == StreamingSpec => []StreamingFrugal
<1>1. StreamingInv => StreamingFrugal
  BY SocketsPaid DEF StreamingInv, StreamingFrugal
<1>2. QED
  BY <1>1, StreamingInvariance, PTL

-----------------------------------------------------------------------------
(* Streaming: the chunks of a body, in order                               *)

(* Induction over the natural numbers, for a set of them.                  *)
LEMMA AllNumbers ==
    ASSUME NEW G, 0 \in G, \A n \in Nat : n \in G => n + 1 \in G
    PROVE  Nat \subseteq G
<1> DEFINE T == Nat \ G
<1>1. SUFFICES ASSUME T # {} PROVE FALSE
  OBVIOUS
<1>2. T \subseteq Nat
  OBVIOUS
<1>3. PICK x \in T : \A y \in T : ~(<<y, x>> \in OpToRel(<, Nat))
  <2> HIDE DEF T
  <2>1. QED
    BY <1>1, <1>2, WFMin, NatLessThanWellFounded
<1>4. \A y \in T : ~(y < x)
  BY <1>2, <1>3 DEF OpToRel
<1>5. x \in Nat /\ x # 0 /\ x - 1 \in Nat /\ x = (x - 1) + 1
  OBVIOUS
<1>6. x - 1 \in G
  BY <1>4, <1>5
<1>7. QED
  BY <1>5, <1>6

\* The units of the first chunks, by the recursion of FlattenSeq.
Grows(f, n) == f = [i \in 1 .. n |-> IF i = 1 THEN Body[i] ELSE f[i - 1] \o Body[i]]
Flats == CHOOSE f : Grows(f, Len(Body))
Flat(n) == IF n = 0 THEN <<>> ELSE Flats[n]

(* What StreamingAssumption says of the body.                              *)
LEMMA BodyConstants ==
    /\ Len(Body) \in Nat /\ DOMAIN Body = 1 .. Len(Body)
    /\ \A i \in 1 .. Len(Body) : Body[i] \in Seq(Units)
    /\ Residue \in Seq(Units) /\ Body \in Seq(Seq(Units))
  BY StreamingAssumption

(* The recursion has a solution, chunk by chunk.                           *)
LEMMA FlatsExist == \E f \in [1 .. Len(Body) -> Seq(Units)] : Grows(f, Len(Body))
<1> DEFINE Stage(n) == n <= Len(Body) => \E f \in [1 .. n -> Seq(Units)] : Grows(f, n)
           G == {n \in Nat : Stage(n)}
<1>1. 0 \in G
  <2> DEFINE f == [i \in 1 .. 0 |-> <<>>]
  <2>1. f \in [1 .. 0 -> Seq(Units)] /\ Grows(f, 0)
    BY DEF Grows
  <2>2. QED
    BY <2>1
<1>2. ASSUME NEW n \in Nat, n \in G PROVE n + 1 \in G
  <2>1. SUFFICES ASSUME n + 1 <= Len(Body)
                 PROVE  \E f \in [1 .. n + 1 -> Seq(Units)] : Grows(f, n + 1)
    OBVIOUS
  <2>2. n <= Len(Body)
    BY <2>1, BodyConstants
  <2>3. PICK g \in [1 .. n -> Seq(Units)] : Grows(g, n)
    BY <1>2, <2>2
  <2> DEFINE f == [i \in 1 .. n + 1 |-> IF i = 1 THEN Body[i] ELSE g[i - 1] \o Body[i]]
  <2>4. \A i \in 1 .. n + 1 : Body[i] \in Seq(Units)
    BY <2>1, BodyConstants
  <2>5. \A i \in 1 .. n + 1 : i # 1 => i - 1 \in 1 .. n
    OBVIOUS
  <2>6. f \in [1 .. n + 1 -> Seq(Units)]
    BY <2>4, <2>5
  <2>7. \A i \in 1 .. n : f[i] = g[i]
    <3>1. g = [i \in 1 .. n |-> IF i = 1 THEN Body[i] ELSE g[i - 1] \o Body[i]]
      BY <2>3 DEF Grows
    <3>2. TAKE i \in 1 .. n
    <3>3. g[i] = IF i = 1 THEN Body[i] ELSE g[i - 1] \o Body[i]
      BY <3>1, Zenon
    <3>4. i \in 1 .. n + 1
      OBVIOUS
    <3>5. f[i] = IF i = 1 THEN Body[i] ELSE g[i - 1] \o Body[i]
      BY <3>4
    <3>6. QED
      BY <3>3, <3>5
  <2>8. \A i \in 1 .. n + 1 : f[i] = IF i = 1 THEN Body[i] ELSE f[i - 1] \o Body[i]
    BY <2>5, <2>7
  <2> HIDE DEF f
  <2>9. f = [i \in 1 .. n + 1 |-> IF i = 1 THEN Body[i] ELSE f[i - 1] \o Body[i]]
    BY <2>6, <2>8
  <2>10. QED
    BY <2>6, <2>9 DEF Grows
<1>3. Len(Body) \in G
  <2> HIDE DEF G
  <2>1. QED
    BY <1>1, <1>2, AllNumbers, BodyConstants
<1>4. QED
  BY <1>3, BodyConstants

(* What the recursion says of the units of the first n chunks.             *)
LEMMA FlatFacts ==
    /\ Flat(0) = <<>>
    /\ \A n \in 0 .. Len(Body) : Flat(n) \in Seq(Units)
    /\ \A n \in 0 .. Len(Body) - 1 : Flat(n + 1) = Flat(n) \o Body[n + 1]
    /\ FlattenSeq(Body) = Flat(Len(Body))
<1>1. Grows(Flats, Len(Body))
  BY FlatsExist, Zenon DEF Flats
<1>2. PICK g \in [1 .. Len(Body) -> Seq(Units)] : Grows(g, Len(Body))
  BY FlatsExist
<1> DEFINE f == Flats
<1>3. f = [i \in 1 .. Len(Body) |-> IF i = 1 THEN Body[i] ELSE f[i - 1] \o Body[i]]
  BY <1>1 DEF Grows
<1>4. FlattenSeq(Body) = Flat(Len(Body))
  <2>1. CASE Len(Body) = 0
    <3>1. Body = <<>>
      BY <2>1, BodyConstants
    <3>2. QED
      BY <2>1, <3>1 DEF FlattenSeq, Flat
  <2>2. CASE Len(Body) # 0
    <3>1. FlattenSeq(Body)
            = (CHOOSE h : h = [i \in 1 .. Len(Body) |->
                                 IF i = 1 THEN Body[i] ELSE h[i - 1] \o Body[i]])[Len(Body)]
      BY <2>2, Zenon DEF FlattenSeq
    <3>2. Flats = CHOOSE h : h = [i \in 1 .. Len(Body) |->
                                    IF i = 1 THEN Body[i] ELSE h[i - 1] \o Body[i]]
      BY Zenon DEF Flats, Grows
    <3>3. Flat(Len(Body)) = Flats[Len(Body)]
      BY <2>2 DEF Flat
    <3>4. QED
      BY <3>1, <3>2, <3>3, Zenon
  <2>3. QED
    BY <2>1, <2>2
<1> HIDE DEF f
<1>5. \A i \in 1 .. Len(Body) : f[i] = IF i = 1 THEN Body[i] ELSE f[i - 1] \o Body[i]
  BY <1>3
<1>6. \A n \in 1 .. Len(Body) : Flat(n) = f[n]
  BY DEF Flat, f
<1>7. ASSUME NEW n \in Nat, n # 0, n + 1 \in 1 .. Len(Body)
       PROVE  Flat(n + 1) = Flat(n) \o Body[n + 1]
  <2>1. (n + 1) - 1 = n /\ n + 1 # 1 /\ n \in 1 .. Len(Body)
    BY <1>7, BodyConstants
  <2>2. f[n + 1] = f[(n + 1) - 1] \o Body[n + 1]
    BY <1>5, <1>7, <2>1
  <2>3. QED
    BY <1>6, <1>7, <2>1, <2>2
<1>8. ASSUME Len(Body) # 0 PROVE Flat(1) = Body[1] /\ Body[1] \in Seq(Units)
  <2>1. 1 \in 1 .. Len(Body)
    BY <1>8, BodyConstants
  <2>2. Flat(1) = f[1] /\ f[1] = Body[1]
    BY <1>5, <1>6, <2>1
  <2>3. QED
    BY <2>1, <2>2, BodyConstants
<1>9. \A n \in 0 .. Len(Body) : Flat(n) \in Seq(Units)
  <2> DEFINE G == {n \in Nat : n <= Len(Body) => Flat(n) \in Seq(Units)}
  <2>1. 0 \in G
    <3>1. Flat(0) = <<>>
      BY DEF Flat
    <3>2. <<>> \in Seq(Units)
      OBVIOUS
    <3>3. Flat(0) \in Seq(Units)
      BY <3>1, <3>2
    <3>4. QED
      BY <3>3
  <2>2. ASSUME NEW n \in Nat, n \in G PROVE n + 1 \in G
    <3>1. SUFFICES ASSUME n + 1 <= Len(Body) PROVE Flat(n + 1) \in Seq(Units)
      OBVIOUS
    <3>2. n \in 0 .. Len(Body) /\ n + 1 \in 1 .. Len(Body) /\ n + 1 \in 0 .. Len(Body)
      BY <3>1, BodyConstants
    <3>3. Flat(n) \in Seq(Units) /\ Body[n + 1] \in Seq(Units)
      BY <2>2, <3>2, BodyConstants
    <3>4. CASE n = 0
      <4>1. n + 1 = 1 /\ Len(Body) # 0
        BY <3>1, <3>4, BodyConstants
      <4>2. QED
        BY <1>8, <4>1
    <3>5. CASE n # 0
      <4>1. Flat(n + 1) = Flat(n) \o Body[n + 1]
        BY <1>7, <3>2, <3>5
      <4> DEFINE s == Flat(n)
                 t == Body[n + 1]
      <4>2. s \in Seq(Units) /\ t \in Seq(Units)
        BY <3>3
      <4> HIDE DEF s, t
      <4>3. s \o t \in Seq(Units)
        BY <4>2
      <4>4. QED
        BY <4>1, <4>3 DEF s, t
    <3>6. QED
      BY <3>4, <3>5
  <2> HIDE DEF G
  <2>3. Nat \subseteq G
    BY <2>1, <2>2, AllNumbers
  <2>4. QED
    BY <2>3, BodyConstants DEF G
<1>10. ASSUME NEW n \in 0 .. Len(Body) - 1 PROVE Flat(n + 1) = Flat(n) \o Body[n + 1]
  <2>1. n \in 0 .. Len(Body) /\ n + 1 \in 1 .. Len(Body) /\ n + 1 \in 0 .. Len(Body)
    BY BodyConstants
  <2>2. Body[n + 1] \in Seq(Units)
    BY <2>1, BodyConstants
  <2>3. CASE n = 0
    <3>1. Flat(n) = <<>> /\ Flat(n + 1) = Body[n + 1]
      BY <1>8, <2>1, <2>3 DEF Flat
    <3>2. QED
      BY <2>2, <3>1
  <2>4. CASE n # 0
    BY <1>7, <2>1, <2>4
  <2>5. QED
    BY <2>3, <2>4
<1>11. Flat(0) = <<>>
  BY DEF Flat
<1>12. QED
  BY <1>4, <1>9, <1>10, <1>11

\* t begins with s.
Begins(s, t) == Len(s) <= Len(t) /\ \A i \in 1 .. Len(s) : s[i] = t[i]

(* Fewer chunks decode to a beginning of what more chunks decode to.       *)
LEMMA FlatBegins ==
    ASSUME NEW n \in 0 .. Len(Body)
    PROVE  Begins(Flat(n), Flat(Len(Body)))
<1> DEFINE G == {m \in Nat : n + m <= Len(Body) => Begins(Flat(n), Flat(n + m))}
<1>1. n \in Nat /\ n <= Len(Body) /\ Len(Body) \in Nat /\ Flat(n) \in Seq(Units)
  BY BodyConstants, FlatFacts
<1>2. 0 \in G
  <2>1. n + 0 = n
    BY <1>1
  <2>2. Begins(Flat(n), Flat(n))
    BY <1>1 DEF Begins
  <2>3. QED
    BY <2>1, <2>2
<1>3. ASSUME NEW m \in Nat, m \in G PROVE m + 1 \in G
  <2>1. SUFFICES ASSUME n + (m + 1) <= Len(Body) PROVE Begins(Flat(n), Flat(n + (m + 1)))
    OBVIOUS
  <2> DEFINE k == n + m
  <2>2. k \in 0 .. Len(Body) - 1 /\ k \in 0 .. Len(Body) /\ k + 1 \in 1 .. Len(Body) /\ n + (m + 1) = k + 1
        /\ k <= Len(Body)
    BY <1>1, <2>1
  <2>3. Begins(Flat(n), Flat(k))
    BY <1>3, <2>2
  <2> HIDE DEF k
  <2>4. Flat(k + 1) = Flat(k) \o Body[k + 1] /\ Flat(k) \in Seq(Units) /\ Body[k + 1] \in Seq(Units)
    BY <2>2, FlatFacts, BodyConstants
  <2>5. Begins(Flat(n), Flat(k) \o Body[k + 1])
    <3> DEFINE s == Flat(n)
               t == Flat(k)
               u == Body[k + 1]
    <3>1. s \in Seq(Units) /\ t \in Seq(Units) /\ u \in Seq(Units) /\ Begins(s, t)
      BY <1>1, <2>3, <2>4
    <3> HIDE DEF s, t, u
    <3>2. Begins(s, t \o u)
      BY <3>1 DEF Begins
    <3>3. QED
      BY <3>2 DEF s, t, u
  <2>6. QED
    BY <2>2, <2>4, <2>5
<1> HIDE DEF G
<1>4. Nat \subseteq G
  BY <1>2, <1>3, AllNumbers
<1>5. Len(Body) - n \in Nat /\ n + (Len(Body) - n) = Len(Body)
  BY <1>1
<1>6. QED
  BY <1>1, <1>4, <1>5 DEF G

(* IsPrefix, element by element.                                           *)
LEMMA BeginsIsPrefix ==
    ASSUME NEW S, NEW s \in Seq(S), NEW t \in Seq(S), Begins(s, t)
    PROVE  IsPrefix(s, t)
<1>1. Len(s) \in Nat /\ Len(t) \in Nat /\ Len(s) <= Len(t)
  BY DEF Begins
<1>2. SubSeq(s, 1, Len(s)) = SubSeq(t, 1, Len(s))
  BY <1>1 DEF Begins
<1>3. QED
  BY <1>1, <1>2 DEF IsPrefix

Ids(n) == [i \in 1 .. n |-> i]

(* Expected in the three ways of reading.                                  *)
LEMMA ExpectedIs ==
    /\ plan.compressed /\ plan.mode # "raw" =>
         /\ Expected = Flat(Len(Body)) \o Residue
         /\ Expected = Decoded(Ids(Len(Body)))
    /\ ~(plan.compressed /\ plan.mode # "raw") => Expected = Ids(Len(Body))
<1>1. [i \in DOMAIN Body |-> i] = Ids(Len(Body))
  BY BodyConstants DEF Ids
<1>2. Decoded(Ids(Len(Body))) = Flat(Len(Body)) \o Residue
  <2>1. [i \in DOMAIN Ids(Len(Body)) |-> Body[Ids(Len(Body))[i]]] = Body
    <3>1. DOMAIN Ids(Len(Body)) = 1 .. Len(Body) /\ \A i \in 1 .. Len(Body) : Ids(Len(Body))[i] = i
      BY DEF Ids
    <3>2. [i \in 1 .. Len(Body) |-> Body[Ids(Len(Body))[i]]] = [i \in 1 .. Len(Body) |-> Body[i]]
      BY <3>1
    <3>3. [i \in 1 .. Len(Body) |-> Body[i]] = Body
      BY BodyConstants
    <3>4. QED
      BY <3>1, <3>2, <3>3
  <2>2. QED
    BY <2>1, FlatFacts DEF Decoded
<1>3. QED
  BY <1>1, <1>2 DEF Expected

-----------------------------------------------------------------------------
(* The invariant of a body                                                 *)

\* What can be under way: the numbers of the chunks, End and Cut.
Tokens == 0 .. Cut
Chunks == 1 .. Len(Body)

BridgeType == [st : {"off", "run", "end"}, item : Tokens \cup {Nothing}, permits : Nat]
ReaderType ==
    [st : {"none", "idle", "reading", "dropped"}, via : {"h1", "h2", "h3"},
     decoder : {"uninit", "passthrough", "active", "finished"}, received : Nat,
     buffer : Seq(Chunks), total : Nat, out : Seq(Chunks \cup Units),
     erred : BOOLEAN, eof : BOOLEAN]

ProducedType == [sent : 0 .. Len(Body), stopped : BOOLEAN, whole : BOOLEAN, silent : BOOLEAN]

BodyTypes ==
    /\ plan \in Plans
    /\ produced \in ProducedType
    /\ produced.whole => produced.stopped /\ produced.sent = Len(Body)
    /\ produced.silent => produced.stopped /\ ~produced.whole /\ reader.via = "h2"
    /\ source \in Seq(Tokens) /\ channel \in Seq(Tokens)
    /\ bridge \in BridgeType
    /\ reader \in ReaderType

(* Before the head of the response nothing has happened to the body, and   *)
(* after it no leg is under way any more.                                  *)
NotOpened ==
    phase # "open" =>
        /\ source = <<>> /\ channel = <<>> /\ bridge.st = "off" /\ bridge.item = Nothing
        /\ produced.sent = 0 /\ ~produced.stopped
        /\ reader.st = "none" /\ reader.received = 0 /\ ~reader.erred
        /\ reader.decoder = "uninit"
Opened ==
    phase = "open" =>
        /\ \A l \in Legs : legs[l].st = "off"
        /\ reader.st # "none"
        /\ reader.via = "h1" => bridge.st \in {"run", "end"}
        /\ reader.via # "h1" => bridge.st = "off"

(* The j-th thing the server sent, and how many there are.                 *)
Token(p, j) == IF j <= p.sent THEN j ELSE IF p.whole \/ p.silent THEN End ELSE Cut
TokenAt(j) == Token(produced, j)
Total == produced.sent + IF produced.stopped THEN 1 ELSE 0

\* s holds what the server sent after the first n, and all of it.
InOrder(s, n) == \A i \in 1 .. Len(s) : s[i] = TokenAt(n + i)
ChainTo(s, n) == InOrder(s, n) /\ n + Len(s) = Total

(* The channel, the bridge and the source hold what the reader has not got, *)
(* in this order; the bridge ends when it has taken the end or passed on a  *)
(* cut.                                                                     *)
BridgeFlow ==
    LET n == reader.received + Len(channel) IN
    /\ InOrder(channel, reader.received)
    /\ BridgeRuns =>
         /\ bridge.item = Nothing => ChainTo(source, n)
         /\ bridge.item # Nothing => bridge.item = TokenAt(n + 1) /\ ChainTo(source, n + 1)
         /\ produced.whole => source # <<>>
    /\ ~BridgeRuns =>
         /\ produced.stopped
         /\ n = produced.sent + IF produced.whole THEN 0 ELSE 1

Reads == phase = "open" /\ ~reader.erred /\ reader.st # "dropped"
Flow ==
    /\ ~reader.erred => reader.received <= produced.sent
    /\ Reads /\ reader.via = "h1" => BridgeFlow
    /\ Reads /\ reader.via # "h1" => ChainTo(source, reader.received)

(* What a reader without an error has got.                                 *)
WholeRead == reader.received = Len(Body) /\ produced.whole
DroppedRead == produced.silent /\ reader.received = produced.sent
EndRead == WholeRead \/ DroppedRead
EndOut == (WholeRead /\ reader.out = Expected) \/ (DroppedRead /\ Begins(reader.out, Expected))
BytesOut ==
    /\ reader.buffer = Ids(reader.received)
    /\ reader.eof => EndOut /\ reader.st = "dropped"
    /\ ~reader.eof => reader.out = <<>>
DecodedOut ==
    /\ reader.decoder = "finished" => EndOut /\ reader.st # "reading"
    /\ reader.decoder # "finished" => reader.out = Flat(reader.received) /\ ~reader.eof
OutRight ==
    ~reader.erred =>
       /\ reader.eof => EndRead
       /\ plan.mode = "bytes" => BytesOut
       /\ plan.mode # "bytes" /\ ~Decodes => reader.out = Ids(reader.received)
       /\ Decodes => DecodedOut

(* Chunks are counted before they are kept; bytes() ends with an error.    *)
Limited ==
    /\ plan.mode = "bytes" /\ reader.erred => reader.st = "dropped"
    /\ Len(reader.buffer) <= reader.received /\ Len(reader.buffer) <= plan.max_body
    /\ plan.mode = "raw" \/ ~plan.compressed =>
         Len(reader.out) <= reader.received /\ Len(reader.out) <= plan.max_body

BodyInv == BodyTypes /\ NotOpened /\ Opened /\ Flow /\ OutRight /\ Limited

-----------------------------------------------------------------------------
(* The kinds of tokens are different.                                      *)
LEMMA TokenKinds ==
    /\ End = 0 /\ Cut = Len(Body) + 1 /\ Nothing = Len(Body) + 2 /\ Len(Body) \in Nat
    /\ End \in Tokens /\ Cut \in Tokens /\ Nothing \notin Tokens
    /\ \A j \in Chunks : j \in Tokens /\ j # End /\ j # Cut /\ j \in Nat
    /\ \A j \in Tokens : j # End /\ j # Cut => j \in Chunks
  BY BodyConstants DEF End, Cut, Nothing, Tokens, Chunks

(* A token tells its place.                                                *)
LEMMA TokenPlace ==
    ASSUME BodyTypes, NEW j \in Nat, j # 0, j <= Total
    PROVE  /\ Total \in Nat
           /\ TokenAt(j) = End => /\ produced.whole \/ produced.silent
                                 /\ j = produced.sent + 1 /\ j = Total
           /\ TokenAt(j) = Cut => ~produced.whole /\ j = produced.sent + 1 /\ j = Total
                                  /\ produced.stopped
           /\ TokenAt(j) \in Chunks => TokenAt(j) = j /\ j <= produced.sent
<1>1. produced.sent \in Nat /\ produced.sent <= Len(Body) /\ produced.stopped \in BOOLEAN
      /\ produced.whole \in BOOLEAN /\ produced.silent \in BOOLEAN
  BY BodyConstants DEF BodyTypes, ProducedType
<1>2. Total \in Nat /\ Total <= produced.sent + 1 /\ (Total = produced.sent + 1 => produced.stopped)
  BY <1>1 DEF Total
<1> HIDE DEF Total
<1>3. CASE j <= produced.sent
  <2>1. TokenAt(j) = j
    BY <1>3 DEF TokenAt, Token
  <2>2. QED
    BY <1>1, <1>2, <1>3, <2>1, TokenKinds
<1>4. CASE ~(j <= produced.sent)
  <2>1. j = produced.sent + 1 /\ j = Total /\ produced.stopped
    BY <1>1, <1>2, <1>4
  <2>2. TokenAt(j) = IF produced.whole \/ produced.silent THEN End ELSE Cut
    BY <1>4 DEF TokenAt, Token
  <2>3. QED
    BY <1>2, <2>1, <2>2, TokenKinds
<1>5. QED
  BY <1>3, <1>4

(* A step that leaves the body alone.                                      *)
LEMMA BodyUntouched ==
    ASSUME BodyInv, UNCHANGED <<plan, body_vars>>,
           phase = "open" => phase' = "open" /\ legs' = legs,
           phase # "open" => phase' # "open"
    PROVE  BodyInv'
<1>1. UNCHANGED <<plan, source, produced, bridge, channel, reader>>
  BY DEF body_vars
<1>2. BodyTypes' /\ NotOpened' /\ Opened'
  BY <1>1 DEF BodyInv, BodyTypes, NotOpened, Opened
<1>3. Flow'
  BY <1>1 DEF BodyInv, Flow, Reads, BridgeFlow, ChainTo, InOrder, Total, TokenAt, Token, BridgeRuns
<1>4. Expected' = Expected /\ Decodes' = Decodes
  BY <1>1 DEF Expected, Decoded, Decodes
<1>5. OutRight' /\ Limited'
  BY <1>1, <1>4 DEF BodyInv, OutRight, BytesOut, DecodedOut, EndRead, EndOut, WholeRead,
                        DroppedRead, Limited
<1>6. QED
  BY <1>2, <1>3, <1>5 DEF BodyInv

(* The call itself does, until the head of the response arrives.           *)
LEMMA CallKeepsBody ==
    ASSUME BodyInv,
           \/ OthersMove \/ TakePooled \/ DecideTransport \/ PooledStreamFails \/ ReleaseTcpLeg
           \/ TotalTimeout
           \/ \E l \in Legs : Reserve(l) \/ QuicDial(l) \/ TcpDial(l) \/ SendFails(l)
    PROVE  BodyInv'
<1>1. ASSUME NEW l \in Legs, NEW err, LegFails(l, err), legs[l].st # "off"
      PROVE  phase # "open" /\ phase' # "open"
  <2>1. phase # "open"
    BY <1>1 DEF BodyInv, Opened
  <2>2. QED
    BY <1>1, <2>1 DEF LegFails, Failed
<1>2. ASSUME NEW l \in Legs, Reserve(l) \/ QuicDial(l) \/ TcpDial(l) \/ SendFails(l)
      PROVE  /\ UNCHANGED <<plan, body_vars>> /\ phase # "open" /\ phase' # "open"
  <2>1. legs[l].st # "off" /\ UNCHANGED <<plan, body_vars>>
    BY <1>2 DEF Reserve, QuicDial, TcpDial, SendFails
  <2>2. phase # "open"
    BY <2>1 DEF BodyInv, Opened
  <2>3. phase' = phase \/ \E err : LegFails(l, err)
    BY <1>2 DEF Reserve, QuicDial, TcpDial, SendFails
  <2>4. QED
    BY <1>1, <2>1, <2>2, <2>3
<1>3. CASE OthersMove
  <2>1. UNCHANGED <<plan, body_vars, phase, legs>>
    BY <1>3 DEF OthersMove
  <2>2. QED
    BY <2>1, BodyUntouched
<1>4. CASE TakePooled \/ DecideTransport \/ PooledStreamFails \/ ReleaseTcpLeg \/ TotalTimeout
  <2>1. UNCHANGED <<plan, body_vars>> /\ phase # "open" /\ phase' # "open"
    BY <1>4 DEF TakePooled, DecideTransport, PooledStreamFails, ReleaseTcpLeg, TotalTimeout, Failed
  <2>2. QED
    BY <2>1, BodyUntouched
<1>5. CASE \E l \in Legs : Reserve(l) \/ QuicDial(l) \/ TcpDial(l) \/ SendFails(l)
  BY <1>2, <1>5, BodyUntouched
<1>6. QED
  BY <1>3, <1>4, <1>5

(* The head of the response: an empty body begins.                         *)
LEMMA OpensBody ==
    ASSUME BodyInv, StreamingInv, NEW l \in Legs, OpenH2(l) \/ OpenH3(l) \/ OpenH1(l)
    PROVE  BodyInv'
<1>1. /\ phase # "open" /\ phase' = "open" /\ legs' = NoLegs
      /\ reader' = [reader EXCEPT !.st = "idle", !.via = legs[l].next]
      /\ UNCHANGED <<plan, source, produced, channel>>
  BY DEF OpenH1, OpenH2, OpenH3, Opens
<1>2. legs[l].next \in {"h1", "h2", "h3"}
  BY DEF OpenH1, OpenH2, OpenH3
<1>3. /\ source = <<>> /\ channel = <<>> /\ bridge.st = "off" /\ bridge.item = Nothing
      /\ produced.sent = 0 /\ ~produced.stopped /\ ~produced.whole /\ ~produced.silent
      /\ reader.st = "none" /\ reader.received = 0 /\ ~reader.erred /\ reader.decoder = "uninit"
  BY <1>1 DEF BodyInv, NotOpened, BodyTypes
<1>4. /\ reader' \in ReaderType
      /\ reader'.st = "idle" /\ reader'.via = legs[l].next /\ reader'.received = 0
      /\ reader'.decoder = "uninit" /\ reader'.buffer = reader.buffer
      /\ reader'.out = reader.out /\ ~reader'.erred /\ reader'.eof = reader.eof
  BY <1>1, <1>2, <1>3 DEF BodyInv, BodyTypes, ReaderType
<1>5. /\ bridge' \in BridgeType
      /\ bridge'.item = Nothing
      /\ legs[l].next = "h1" => bridge'.st = "run"
      /\ legs[l].next # "h1" => bridge'.st = "off"
  <2>1. bridge \in BridgeType
    BY DEF BodyInv, BodyTypes
  <2>2. CASE OpenH1(l)
    <3>1. bridge' = [bridge EXCEPT !.st = "run", !.permits = 1] /\ legs[l].next = "h1"
      BY <2>2 DEF OpenH1
    <3>2. QED
      BY <1>3, <2>1, <3>1 DEF BridgeType
  <2>3. CASE OpenH2(l) \/ OpenH3(l)
    BY <1>3, <2>1, <2>3 DEF OpenH2, OpenH3
  <2>4. QED
    BY <2>2, <2>3
<1>6. BodyTypes' /\ NotOpened'
  BY <1>1, <1>4, <1>5 DEF BodyInv, BodyTypes, NotOpened
<1>7. Opened'
  BY <1>1, <1>4, <1>5, NoLegsFree DEF Opened
<1>8. Flow'
  <2>1. Total' = 0 /\ Len(source') = 0 /\ Len(channel') = 0 /\ produced'.sent = 0
        /\ ~produced'.whole
    BY <1>1, <1>3 DEF Total
  <2>2. InOrder(source, 0)' /\ ChainTo(source, 0)' /\ InOrder(channel, 0)'
    BY <2>1 DEF ChainTo, InOrder
  <2>3. legs[l].next = "h1" => BridgeFlow'
    BY <1>4, <1>5, <2>1, <2>2 DEF BridgeFlow, BridgeRuns, ChainTo
  <2>4. QED
    BY <1>4, <2>1, <2>2, <2>3 DEF Flow
<1>9. Expected' = Expected /\ Decodes' = Decodes
  BY <1>1 DEF Expected, Decoded, Decodes
<1>10. reader.eof = FALSE
  BY <1>3, TokenKinds DEF BodyInv, OutRight, EndRead, WholeRead, DroppedRead, BodyTypes, ReaderType
<1>11. OutRight'
  BY <1>1, <1>3, <1>4, <1>9, <1>10 DEF BodyInv, OutRight, BytesOut, DecodedOut
<1>12. Limited'
  BY <1>1, <1>3, <1>4 DEF BodyInv, Limited
<1>13. QED
  BY <1>6, <1>7, <1>8, <1>11, <1>12 DEF BodyInv

(* What the reader has got stays right while it gets nothing.              *)
LEMMA OutStays ==
    ASSUME BodyInv, UNCHANGED <<plan, reader>>, produced.stopped => produced' = produced
    PROVE  OutRight' /\ Limited'
<1>1. Expected' = Expected /\ Decodes' = Decodes
  BY DEF Expected, Decoded, Decodes
<1>2. (WholeRead => WholeRead') /\ (DroppedRead => DroppedRead')
  BY DEF WholeRead, DroppedRead, BodyInv, BodyTypes
<1>3. (EndRead => EndRead') /\ (EndOut => EndOut')
  BY <1>1, <1>2 DEF EndRead, EndOut
<1>4. QED
  BY <1>1, <1>3 DEF BodyInv, OutRight, BytesOut, DecodedOut, Limited

(* The flow does not depend on what the reader does with its chunks.       *)
LEMMA FlowStays ==
    ASSUME BodyInv, UNCHANGED <<source, produced, bridge, channel, phase>>,
           reader'.received = reader.received, reader'.via = reader.via,
           reader'.erred = reader.erred, reader.st = "dropped" => reader'.st = "dropped"
    PROVE  Flow'
<1>1. Reads' => Reads
  BY DEF Reads
<1>2. BridgeFlow => BridgeFlow'
  BY DEF BridgeFlow, ChainTo, InOrder, Total, TokenAt, Token, BridgeRuns
<1>3. ChainTo(source, reader.received) => ChainTo(source, reader.received)'
  BY DEF ChainTo, InOrder, Total, TokenAt, Token
<1>4. QED
  BY <1>1, <1>2, <1>3 DEF BodyInv, Flow

(* A read that begins, is abandoned, or after which the response is        *)
(* dropped.                                                                *)
LEMMA ReadCallsBody ==
    ASSUME BodyInv, ReadCalled \/ ReadCancelled \/ ResponseDropped
    PROVE  BodyInv'
<1>1. UNCHANGED <<plan, phase, legs, source, produced, bridge, channel>>
  BY DEF ReadCalled, ReadCancelled, ResponseDropped, call_vars
<1>2. reader \in ReaderType /\ reader.st \in {"idle", "reading"}
  BY DEF BodyInv, BodyTypes, ReadCalled, ReadCancelled, ResponseDropped
<1>3. phase = "open"
  BY <1>2 DEF BodyInv, NotOpened
<1>4. /\ reader' \in ReaderType /\ reader'.st # "none"
      /\ reader'.received = reader.received /\ reader'.via = reader.via
      /\ reader'.erred = reader.erred /\ reader'.buffer = reader.buffer
      /\ reader'.out = reader.out
      /\ \/ /\ reader'.eof = reader.eof
            /\ reader'.decoder = reader.decoder
               \/ (reader'.decoder # "finished" /\ (Decodes => reader.decoder # "finished"))
            /\ reader'.st = "reading" /\ Decodes => reader'.decoder # "finished"
         \/ /\ Decodes /\ reader.decoder = "finished" /\ reader'.decoder = "finished"
            /\ reader'.eof /\ reader'.st = reader.st
  <2>1. CASE ReadCalled
    <3>1. CASE Decodes /\ reader.decoder = "finished"
      <4>1. reader' = [reader EXCEPT !.eof = TRUE]
        BY <2>1, <3>1 DEF ReadCalled
      <4>2. QED
        BY <1>2, <3>1, <4>1 DEF ReaderType
    <3>2. CASE ~(Decodes /\ reader.decoder = "finished")
      <4> DEFINE d == IF Decodes THEN "active" ELSE "passthrough"
      <4>1. reader' = [reader EXCEPT !.st = "reading", !.decoder = d]
        BY <2>1, <3>2 DEF ReadCalled
      <4>2. d \in {"active", "passthrough"}
        OBVIOUS
      <4> HIDE DEF d
      <4>3. QED
        BY <1>2, <3>2, <4>1, <4>2 DEF ReaderType
    <3>3. QED
      BY <3>1, <3>2
  <2>2. CASE ReadCancelled \/ ResponseDropped
    <3>1. PICK x \in {"idle", "dropped"} : reader' = [reader EXCEPT !.st = x]
      BY <2>2 DEF ReadCancelled, ResponseDropped
    <3>2. QED
      BY <1>2, <3>1 DEF ReaderType
  <2>3. QED
    BY <2>1, <2>2
<1>5. BodyTypes' /\ NotOpened' /\ Opened'
  BY <1>1, <1>3, <1>4 DEF BodyInv, BodyTypes, NotOpened, Opened
<1>6. Flow'
  BY <1>1, <1>2, <1>4, FlowStays
<1>7. Expected' = Expected /\ Decodes' = Decodes /\ EndRead' = EndRead /\ EndOut' = EndOut
      /\ (EndOut => EndRead)
  BY <1>1, <1>4 DEF Expected, Decoded, Decodes, EndRead, EndOut, WholeRead, DroppedRead
<1>8. OutRight'
  <2>1. SUFFICES ASSUME ~reader'.erred PROVE OutRight'
    BY DEF OutRight
  <2>2. reader'.eof => EndRead
    BY <1>4, <1>7, <2>1 DEF BodyInv, OutRight, DecodedOut
  <2>3. plan.mode = "bytes" => BytesOut'
    <3>1. plan.mode = "bytes" => ~Decodes
      BY DEF Decodes
    <3>2. QED
      BY <1>2, <1>4, <1>7, <2>1, <3>1 DEF BodyInv, OutRight, BytesOut
  <2>4. Decodes => DecodedOut'
    BY <1>2, <1>4, <1>7, <2>1 DEF BodyInv, OutRight, DecodedOut
  <2>5. QED
    BY <1>1, <1>4, <1>7, <2>1, <2>2, <2>3, <2>4 DEF BodyInv, OutRight
<1>9. Limited'
  BY <1>1, <1>2, <1>4 DEF BodyInv, Limited
<1>10. QED
  BY <1>5, <1>6, <1>8, <1>9 DEF BodyInv

(* A longer body: what was under way still is, in its place.               *)
LEMMA ChainGrows ==
    ASSUME BodyTypes, NEW e \in Tokens, source' = Append(source, e),
           Total' = Total + 1, \A j \in 1 .. Total : Token(produced', j) = TokenAt(j),
           Token(produced', Total + 1) = e, Total \in Nat,
           NEW n \in Nat
    PROVE  /\ ChainTo(source, n) => ChainTo(source, n)'
           /\ \A s \in Seq(Tokens) :
                InOrder(s, n) /\ n + Len(s) <= Total =>
                    \A i \in 1 .. Len(s) : s[i] = Token(produced', n + i)
<1>1. source \in Seq(Tokens)
  BY DEF BodyTypes
<1>2. ASSUME NEW s \in Seq(Tokens), InOrder(s, n), n + Len(s) <= Total, NEW i \in 1 .. Len(s)
      PROVE  s[i] = Token(produced', n + i)
  <2>1. n + i \in 1 .. Total
    BY <1>2
  <2>2. QED
    BY <1>2, <2>1 DEF InOrder
<1>3. ASSUME ChainTo(source, n) PROVE ChainTo(source, n)'
  <2>1. InOrder(source, n) /\ n + Len(source) = Total
    BY <1>3 DEF ChainTo
  <2>2. Len(source') = Len(source) + 1 /\ source'[Len(source) + 1] = e
        /\ \A i \in 1 .. Len(source) : source'[i] = source[i]
    BY <1>1
  <2>3. n + (Len(source) + 1) = Total + 1 /\ Len(source) \in Nat
    BY <1>1, <2>1
  <2>4. \A i \in 1 .. Len(source) : source[i] = Token(produced', n + i)
    BY <1>1, <1>2, <2>1
  <2>5. ASSUME NEW i \in 1 .. Len(source') PROVE source'[i] = Token(produced', n + i)
    <3>1. CASE i = Len(source) + 1
      <4>1. n + i = Total + 1 /\ source'[i] = e
        BY <2>2, <2>3, <3>1
      <4>2. QED
        BY <4>1
    <3>2. CASE i # Len(source) + 1
      <4>1. i \in 1 .. Len(source)
        BY <2>2, <2>3, <3>2
      <4>2. QED
        BY <2>2, <2>4, <4>1
    <3>3. QED
      BY <3>1, <3>2
  <2>6. InOrder(source, n)'
    BY <2>5 DEF InOrder, TokenAt
  <2>7. n + Len(source') = Total'
    BY <2>2, <2>3
  <2>8. QED
    BY <2>6, <2>7 DEF ChainTo
<1>4. QED
  BY <1>2, <1>3

(* The server sends a chunk, the end, or the connection is cut.            *)
LEMMA ServerBody == BodyInv /\ BodyArrives => BodyInv'
<1> SUFFICES ASSUME BodyInv, BodyArrives PROVE BodyInv'
  OBVIOUS
<1>1. UNCHANGED <<plan, phase, legs, bridge, channel, reader>> /\ phase = "open"
      /\ ~produced.stopped /\ ~produced.whole /\ ~produced.silent
  BY DEF BodyArrives, call_vars, BodyInv, BodyTypes
<1>2. /\ produced \in ProducedType
      /\ produced.sent \in Nat /\ source \in Seq(Tokens) /\ Total = produced.sent
  BY <1>1, BodyConstants DEF BodyInv, BodyTypes, ProducedType, Total
<1>3. PICK e \in Tokens :
        /\ source' = Append(source, e)
        /\ produced' \in ProducedType
        /\ produced'.whole => produced'.stopped /\ produced'.sent = Len(Body)
        /\ produced'.silent => produced'.stopped /\ ~produced'.whole /\ reader.via = "h2"
        /\ produced'.sent >= produced.sent /\ Total' = produced.sent + 1
        /\ \A j \in 1 .. produced.sent : Token(produced', j) = j
        /\ Token(produced', produced.sent + 1) = e
  <2>1. CASE /\ produced.sent < Len(Body)
             /\ produced' = [produced EXCEPT !.sent = @ + 1]
             /\ source' = Append(source, produced.sent + 1)
    <3> DEFINE k == produced.sent + 1
    <3>1. k \in 0 .. Len(Body) /\ produced' = [produced EXCEPT !.sent = k]
      BY <1>2, <2>1, BodyConstants
    <3>2. /\ produced' \in ProducedType
          /\ produced'.sent = k /\ ~produced'.stopped /\ ~produced'.whole /\ ~produced'.silent
      <4> HIDE DEF k
      <4>1. QED
        BY <1>1, <1>2, <3>1 DEF ProducedType
    <3>3. produced.sent + 1 \in Tokens
      BY <1>2, <2>1, TokenKinds DEF Tokens
    <3>4. Total' = produced.sent + 1
      BY <1>2, <3>2 DEF Total
    <3>5. \A j \in 1 .. produced.sent + 1 : Token(produced', j) = j
      BY <1>2, <3>2 DEF TokenAt, Token
    <3>6. /\ \A j \in 1 .. produced.sent : Token(produced', j) = j
          /\ Token(produced', produced.sent + 1) = produced.sent + 1
      BY <1>2, <3>5
    <3>7. produced'.sent >= produced.sent
      BY <1>2, <3>2
    <3>8. QED
      BY <2>1, <3>2, <3>3, <3>4, <3>6, <3>7, Zenon
  <2>2. ASSUME NEW end \in IF produced.sent = Len(Body) THEN {End, Cut} ELSE {Cut},
               produced' = [produced EXCEPT !.stopped = TRUE, !.whole = end = End],
               source' = Append(source, end)
        PROVE  \E e \in Tokens :
                 /\ source' = Append(source, e)
                 /\ produced' \in ProducedType
                 /\ produced'.whole => produced'.stopped /\ produced'.sent = Len(Body)
                 /\ produced'.silent => produced'.stopped /\ ~produced'.whole /\ reader.via = "h2"
                 /\ produced'.sent >= produced.sent /\ Total' = produced.sent + 1
                 /\ \A j \in 1 .. produced.sent : Token(produced', j) = j
                 /\ Token(produced', produced.sent + 1) = e
    <3>1. end \in {End, Cut} /\ end \in Tokens /\ (end = End => produced.sent = Len(Body))
      BY TokenKinds
    <3>2. /\ produced' \in ProducedType
          /\ produced'.sent = produced.sent /\ produced'.stopped
          /\ produced'.whole = (end = End) /\ ~produced'.silent
      BY <1>1, <1>2, <2>2 DEF ProducedType
    <3>3. Total' = produced.sent + 1
      BY <3>2 DEF Total
    <3>4. \A j \in 1 .. produced.sent : Token(produced', j) = j
      BY <1>2, <3>2 DEF TokenAt, Token
    <3>5. Token(produced', produced.sent + 1) = end
      <4>1. ~(produced.sent + 1 <= produced'.sent)
        BY <1>2, <3>2
      <4>2. QED
        BY <3>1, <3>2, <4>1 DEF TokenAt, Token
    <3>6. produced'.sent >= produced.sent
      BY <1>2, <3>2
    <3>7. QED
      BY <2>2, <3>1, <3>2, <3>3, <3>4, <3>5, <3>6
  <2>3. CASE /\ reader.via = "h2"
             /\ produced' = [produced EXCEPT !.stopped = TRUE, !.silent = TRUE]
             /\ source' = Append(source, End)
    <3>1. /\ produced' \in ProducedType
          /\ produced'.sent = produced.sent /\ produced'.stopped
          /\ ~produced'.whole /\ produced'.silent
      BY <1>1, <1>2, <2>3 DEF ProducedType
    <3>2. Total' = produced.sent + 1
      BY <3>1 DEF Total
    <3>3. \A j \in 1 .. produced.sent : Token(produced', j) = j
      BY <1>2, <3>1 DEF Token
    <3>4. Token(produced', produced.sent + 1) = End
      <4>1. ~(produced.sent + 1 <= produced'.sent)
        BY <1>2, <3>1
      <4>2. QED
        BY <3>1, <4>1 DEF Token
    <3>5. produced'.sent >= produced.sent /\ End \in Tokens
      BY <1>2, <3>1, TokenKinds
    <3>6. QED
      BY <2>3, <3>1, <3>2, <3>3, <3>4, <3>5
  <2>4. QED
    BY <2>1, <2>2, <2>3 DEF BodyArrives
<1>4. BodyTypes' /\ NotOpened' /\ Opened'
  BY <1>1, <1>2, <1>3 DEF BodyInv, BodyTypes, NotOpened, Opened
<1>5. /\ \A j \in 1 .. Total : Token(produced', j) = TokenAt(j)
      /\ Total' = Total + 1 /\ Token(produced', Total + 1) = e /\ Total \in Nat
  <2>1. \A j \in 1 .. produced.sent : TokenAt(j) = j
    BY DEF TokenAt, Token
  <2>2. QED
    BY <1>2, <1>3, <2>1, Zenon
<1>6. BodyTypes /\ reader.received \in Nat /\ Len(channel) \in Nat /\ channel \in Seq(Tokens)
  BY DEF BodyInv, BodyTypes, ReaderType
<1>7. ASSUME NEW n \in Nat
      PROVE  /\ ChainTo(source, n) => ChainTo(source, n)'
             /\ \A s \in Seq(Tokens) :
                  InOrder(s, n) /\ n + Len(s) <= Total =>
                      \A i \in 1 .. Len(s) : s[i] = Token(produced', n + i)
  BY <1>3, <1>5, <1>6, ChainGrows
<1>8. Flow'
  <2>1. ~reader'.erred => reader'.received <= produced'.sent
    BY <1>1, <1>2, <1>3, <1>6, BodyConstants DEF BodyInv, Flow, ProducedType
  <2>2. Reads' = Reads
    BY <1>1 DEF Reads
  <2>3. ASSUME Reads, reader.via # "h1" PROVE ChainTo(source, reader.received)'
    <3>1. ChainTo(source, reader.received)
      BY <2>3 DEF BodyInv, Flow
    <3>2. ChainTo(source, reader.received)'
      <4>1. PICK n \in Nat : n = reader.received
        BY <1>6
      <4>2. ChainTo(source, n)'
        BY <3>1, <4>1, <1>7
      <4>3. reader'.received = n
        BY <1>1, <4>1
      <4>4. QED
        BY <4>2, <4>3
    <3>3. QED
      BY <3>2
  <2>4. ASSUME Reads, reader.via = "h1" PROVE BridgeFlow'
    <3> DEFINE r == reader.received
               n == r + Len(channel)
    <3>1. BridgeFlow
      BY <2>4 DEF BodyInv, Flow
    <3>2. BridgeRuns
      BY <1>1, <3>1 DEF BridgeFlow
    <3>3. /\ InOrder(channel, r)
          /\ bridge.item = Nothing => ChainTo(source, n)
          /\ bridge.item # Nothing => bridge.item = TokenAt(n + 1) /\ ChainTo(source, n + 1)
      BY <3>1, <3>2 DEF BridgeFlow
    <3>4. r \in Nat /\ n \in Nat /\ n + 1 \in Nat /\ n = r + Len(channel)
          /\ r' = r /\ n' = n
      BY <1>1, <1>6
    <3>5. Len(source) \in Nat
      BY <1>2
    <3> HIDE DEF r, n
    <3>6. n <= Total /\ (bridge.item # Nothing => n + 1 \in 1 .. Total)
      BY <1>5, <3>3, <3>4, <3>5 DEF ChainTo
    <3>7. \A i \in 1 .. Len(channel) : channel[i] = Token(produced', r + i)
      BY <1>6, <1>7, <3>3, <3>4, <3>6
    <3>8. /\ bridge.item = Nothing => ChainTo(source, n)'
          /\ bridge.item # Nothing => bridge.item = Token(produced', n + 1) /\ ChainTo(source, n + 1)'
      BY <1>5, <1>7, <3>3, <3>4, <3>6
    <3>9. source' # <<>>
      BY <1>2, <1>3
    <3>10. BridgeRuns' /\ bridge' = bridge /\ channel' = channel
      BY <1>1, <3>2 DEF BridgeRuns
    <3>11. InOrder(channel, r)'
      BY <3>4, <3>7, <3>10 DEF InOrder, TokenAt
    <3>12. QED
      BY <3>4, <3>8, <3>9, <3>10, <3>11 DEF BridgeFlow, TokenAt, r, n
  <2>5. QED
    BY <1>1, <2>1, <2>2, <2>3, <2>4 DEF Flow
<1>9. OutRight' /\ Limited'
  BY <1>1, OutStays
<1>10. QED
  BY <1>4, <1>8, <1>9 DEF BodyInv

(* A chain without its first element.                                      *)
LEMMA ChainTail ==
    ASSUME BodyTypes, NEW s \in Seq(Tokens), s # <<>>, NEW n \in Nat, ChainTo(s, n)
    PROVE  /\ Head(s) = TokenAt(n + 1) /\ Head(s) \in Tokens /\ n + 1 <= Total
           /\ Tail(s) \in Seq(Tokens) /\ ChainTo(Tail(s), n + 1)
           /\ Tail(s) = <<>> => n + 1 = Total
<1>1. /\ Len(s) \in Nat /\ Len(s) # 0 /\ Head(s) = s[1] /\ Head(s) \in Tokens
      /\ Tail(s) \in Seq(Tokens) /\ Len(Tail(s)) = Len(s) - 1
      /\ \A i \in 1 .. Len(s) - 1 : Tail(s)[i] = s[i + 1]
  OBVIOUS
<1>2. InOrder(s, n) /\ n + Len(s) = Total
  BY DEF ChainTo
<1> DEFINE t == Tail(s)
<1> HIDE DEF t
<1>3. t \in Seq(Tokens) /\ Len(t) = Len(s) - 1 /\ \A i \in 1 .. Len(s) - 1 : t[i] = s[i + 1]
  BY <1>1 DEF t
<1>4. ASSUME NEW i \in 1 .. Len(t) PROVE t[i] = TokenAt((n + 1) + i)
  <2>1. i + 1 \in 1 .. Len(s) /\ n + (i + 1) = (n + 1) + i /\ t[i] = s[i + 1]
    BY <1>1, <1>3
  <2>2. s[i + 1] = TokenAt(n + (i + 1))
    BY <1>2, <2>1 DEF InOrder
  <2>3. QED
    BY <2>1, <2>2
<1>5. ChainTo(t, n + 1)
  <2>1. (n + 1) + Len(t) = Total
    BY <1>1, <1>2, <1>3
  <2>2. QED
    BY <1>4, <2>1 DEF ChainTo, InOrder
<1>6. s[1] = TokenAt(n + 1) /\ n + 1 <= Total
  <2>1. 1 \in 1 .. Len(s)
    BY <1>1
  <2>2. QED
    BY <1>1, <1>2, <2>1 DEF InOrder
<1>7. t = <<>> => n + 1 = Total
  <2>1. t = <<>> => Len(t) = 0
    OBVIOUS
  <2>2. PICK k \in Nat : k = Len(s)
    BY <1>1
  <2>3. Len(t) = k - 1 /\ n + k = Total
    BY <1>2, <1>3, <2>2
  <2>4. QED
    BY <2>1, <2>3
<1>8. QED
  BY <1>1, <1>5, <1>6, <1>7 DEF t

(* What a step of the bridge must keep.                                    *)
LEMMA BridgeSteps ==
    ASSUME BodyInv, UNCHANGED <<plan, phase, legs, produced, reader>>, bridge.st = "run",
           source' \in Seq(Tokens), channel' \in Seq(Tokens), bridge' \in BridgeType,
           bridge'.st \in {"run", "end"}, Reads => BridgeFlow'
    PROVE  BodyInv'
<1>1. phase = "open" /\ reader.via = "h1"
  BY DEF BodyInv, NotOpened, Opened
<1>2. OutRight' /\ Limited'
  BY OutStays
<1>3. BodyTypes'
  BY DEF BodyInv, BodyTypes, BridgeType
<1>4. NotOpened' /\ Opened'
  BY <1>1 DEF BodyInv, NotOpened, Opened
<1>5. Flow'
  BY <1>1 DEF BodyInv, Flow, Reads
<1>6. QED
  BY <1>2, <1>3, <1>4, <1>5 DEF BodyInv

(* The bridge takes an item from the connection, or puts one into the      *)
(* channel.                                                                *)
LEMMA BridgeBody == BodyInv /\ (BridgeTakes \/ BridgePuts) => BodyInv'
<1> SUFFICES ASSUME BodyInv, BridgeTakes \/ BridgePuts PROVE BodyInv'
  OBVIOUS
<1>1. UNCHANGED <<plan, phase, legs, produced, reader>> /\ bridge.st = "run" /\ BridgeRuns
  BY DEF BridgeTakes, BridgePuts, call_vars, BridgeRuns
<1>2. phase = "open" /\ reader.via = "h1"
  BY <1>1 DEF BodyInv, NotOpened, Opened
<1>3. /\ source \in Seq(Tokens) /\ channel \in Seq(Tokens) /\ BodyTypes /\ bridge \in BridgeType
      /\ reader.received \in Nat /\ Len(channel) \in Nat
      /\ produced.whole \in BOOLEAN /\ produced.stopped \in BOOLEAN
      /\ produced.whole => produced.stopped
      /\ produced.sent \in Nat /\ ~produced.silent
  BY <1>2, BodyConstants DEF BodyInv, BodyTypes, ProducedType, ReaderType, BridgeType
<1>4. PICK r \in Nat : r = reader.received
  BY <1>3
<1>5. PICK n \in Nat : n = r + Len(channel)
  BY <1>3, <1>4
<1>6. Reads =>
        /\ InOrder(channel, r)
        /\ bridge.item = Nothing => ChainTo(source, n)
        /\ bridge.item # Nothing => bridge.item = TokenAt(n + 1) /\ ChainTo(source, n + 1)
        /\ produced.whole => source # <<>>
  BY <1>1, <1>2, <1>4, <1>5 DEF BodyInv, Flow, BridgeFlow
<1>7. Nothing \notin Tokens /\ Nothing # Cut /\ Cut # End
  BY TokenKinds
<1>8. CASE BridgeTakes
  <2>1. /\ bridge.item = Nothing /\ source # <<>> /\ source' = Tail(source) /\ channel' = channel
        /\ Head(source) = End => bridge' = [st |-> "end", item |-> Nothing, permits |-> 0]
        /\ Head(source) # End => bridge' = [bridge EXCEPT !.item = Head(source)]
    BY <1>8 DEF BridgeTakes, BridgeEnds
  <2>2. Head(source) \in Tokens /\ Tail(source) \in Seq(Tokens)
    BY <1>3, <2>1
  <2>3. /\ bridge' \in BridgeType /\ bridge'.st \in {"run", "end"}
        /\ Head(source) = End => bridge'.st = "end"
        /\ Head(source) # End => bridge'.st = "run" /\ bridge'.item = Head(source)
    BY <1>1, <1>3, <2>1, <2>2 DEF BridgeType
  <2>4. ASSUME Reads PROVE BridgeFlow'
    <3>1. /\ Head(source) = TokenAt(n + 1) /\ n + 1 <= Total
          /\ ChainTo(Tail(source), n + 1)
          /\ Tail(source) = <<>> => n + 1 = Total
      BY <1>3, <1>6, <2>1, <2>4, ChainTail
    <3>2. ChainTo(source, n + 1)'
      BY <1>1, <2>1, <3>1 DEF ChainTo, InOrder, TokenAt, Token, Total
    <3>3. InOrder(channel, r)'
      BY <1>1, <1>6, <2>1, <2>4 DEF InOrder, TokenAt, Token
    <3>4. /\ Head(source) = End => produced.whole /\ n + 1 = produced.sent + 1
      BY <1>3, <3>1, TokenPlace
    <3>5. reader'.received = r /\ r + Len(channel') = n
      BY <1>1, <1>4, <1>5, <2>1
    <3>6. CASE Head(source) = End
      <4>1. ~BridgeRuns' /\ produced'.stopped /\ produced'.whole /\ produced'.sent = n
        BY <1>1, <1>3, <2>3, <3>4, <3>6 DEF BridgeRuns
      <4>2. QED
        BY <3>3, <3>5, <4>1 DEF BridgeFlow
    <3>7. CASE Head(source) # End
      <4>1. BridgeRuns' /\ bridge'.item # Nothing /\ bridge'.item = TokenAt(n + 1)'
        BY <1>1, <1>7, <2>2, <2>3, <3>1, <3>7 DEF BridgeRuns, TokenAt, Token
      <4>2. produced'.whole => source' # <<>>
        <5>1. SUFFICES ASSUME produced.whole, Tail(source) = <<>> PROVE Head(source) = End
          BY <1>1, <2>1, <3>7
        <5>2. n + 1 = Total /\ Total = produced.sent + 1
          BY <1>3, <3>1, <5>1 DEF Total
        <5>3. QED
          BY <1>3, <3>1, <5>1, <5>2 DEF TokenAt, Token
      <4>3. QED
        BY <3>2, <3>3, <3>5, <4>1, <4>2 DEF BridgeFlow
    <3>8. QED
      BY <3>6, <3>7
  <2>5. QED
    BY <1>1, <1>3, <2>1, <2>2, <2>3, <2>4, BridgeSteps
<1>9. CASE BridgePuts
  <2>1. UNCHANGED source /\ bridge.item # Nothing /\ bridge.item \in Tokens
    BY <1>3, <1>9 DEF BridgePuts, BridgeType
  <2>2. CASE reader.st = "dropped" /\ BridgeEnds /\ UNCHANGED channel
    <3>1. bridge' \in BridgeType /\ bridge'.st = "end" /\ ~Reads
      BY <2>2 DEF BridgeEnds, BridgeType, Reads
    <3>2. QED
      BY <1>1, <1>3, <2>1, <2>2, <3>1, BridgeSteps
  <2>3. CASE /\ channel' = Append(channel, bridge.item)
             /\ IF bridge.item = Cut THEN BridgeEnds
                                       ELSE bridge' = [bridge EXCEPT !.item = Nothing]
    <3>1. /\ bridge' \in BridgeType /\ bridge'.st \in {"run", "end"} /\ bridge'.item = Nothing
          /\ bridge.item = Cut => bridge'.st = "end"
          /\ bridge.item # Cut => bridge'.st = "run"
      <4>1. CASE bridge.item = Cut
        <5>1. bridge' = [st |-> "end", item |-> Nothing, permits |-> 0]
          BY <2>3, <4>1 DEF BridgeEnds
        <5>2. QED
          BY <4>1, <5>1 DEF BridgeType
      <4>2. CASE bridge.item # Cut
        <5>1. bridge' = [bridge EXCEPT !.item = Nothing]
          BY <2>3, <4>2
        <5>2. QED
          BY <1>1, <1>3, <4>2, <5>1 DEF BridgeType
      <4>3. QED
        BY <4>1, <4>2
    <3>2. /\ channel' \in Seq(Tokens) /\ Len(channel') = Len(channel) + 1
          /\ channel'[Len(channel) + 1] = bridge.item
          /\ \A i \in 1 .. Len(channel) : channel'[i] = channel[i]
      <4>1. PICK x \in Tokens : x = bridge.item
        BY <2>1
      <4>2. channel' = Append(channel, x)
        BY <2>3, <4>1
      <4>3. /\ Append(channel, x) \in Seq(Tokens) /\ Len(Append(channel, x)) = Len(channel) + 1
            /\ Append(channel, x)[Len(channel) + 1] = x
            /\ \A i \in 1 .. Len(channel) : Append(channel, x)[i] = channel[i]
        BY <1>3
      <4>4. QED
        BY <4>1, <4>2, <4>3
    <3>3. ASSUME Reads PROVE BridgeFlow'
      <4>1. InOrder(channel, r) /\ bridge.item = TokenAt(n + 1) /\ ChainTo(source, n + 1)
            /\ (produced.whole => source # <<>>)
        BY <1>6, <2>1, <3>3
      <4>2. \A i \in 1 .. Len(channel') : channel'[i] = TokenAt(r + i)
        <5>1. TAKE i \in 1 .. Len(channel')
        <5>2. CASE i = Len(channel) + 1
          <6>1. r + i = n + 1
            BY <1>3, <1>5, <5>2
          <6>2. QED
            BY <3>2, <4>1, <5>2, <6>1
        <5>3. CASE i # Len(channel) + 1
          <6>1. i \in 1 .. Len(channel)
            BY <1>3, <3>2, <5>3
          <6>2. QED
            BY <3>2, <4>1, <6>1 DEF InOrder
        <5>4. QED
          BY <5>2, <5>3
      <4>3. InOrder(channel, r)'
        BY <1>1, <4>2 DEF InOrder, TokenAt, Token
      <4>4. ChainTo(source, n + 1)'
        BY <1>1, <2>1, <4>1 DEF ChainTo, InOrder, TokenAt, Token, Total
      <4>5. reader'.received = r /\ r + Len(channel') = n + 1
        <5>1. PICK k \in Nat : k = Len(channel)
          BY <1>3
        <5>2. Len(channel') = k + 1 /\ n = r + k
          BY <1>5, <3>2, <5>1
        <5>3. QED
          BY <1>1, <1>4, <5>2
      <4>6. CASE bridge.item = Cut
        <5>1. Total \in Nat /\ n + 1 <= Total
          <6>1. Total \in Nat /\ Len(source) \in Nat
            BY <1>3 DEF Total
          <6>2. QED
            BY <4>1, <6>1 DEF ChainTo
        <5>2. ~produced.whole /\ n + 1 = produced.sent + 1 /\ produced.stopped
          BY <1>3, <4>1, <4>6, <5>1, TokenPlace
        <5>3. ~BridgeRuns'
          BY <3>1, <4>6 DEF BridgeRuns
        <5>4. QED
          BY <1>1, <4>3, <4>5, <5>2, <5>3 DEF BridgeFlow
      <4>7. CASE bridge.item # Cut
        <5>1. BridgeRuns' /\ bridge'.item = Nothing
          BY <3>1, <4>7 DEF BridgeRuns
        <5>2. QED
          BY <1>1, <2>1, <4>1, <4>3, <4>4, <4>5, <5>1 DEF BridgeFlow
      <4>8. QED
        BY <4>6, <4>7
    <3>4. QED
      BY <1>1, <1>3, <2>1, <3>1, <3>2, <3>3, BridgeSteps
  <2>4. QED
    BY <1>9, <2>2, <2>3 DEF BridgePuts
<1>10. QED
  BY <1>8, <1>9

(* What a read that is answered gets.                                      *)
LEMMA Arrival ==
    ASSUME BodyInv, reader.st = "reading", ItemReady
    PROVE  /\ phase = "open" /\ Item \in Tokens
           /\ Item # End /\ Item # Cut => Item \in Chunks /\ Queue # <<>> /\ Item = Head(Queue)
           /\ ~reader.erred /\ Item = End =>
                EndRead /\ (reader.via = "h1" => channel = <<>>)
           /\ ~reader.erred /\ Item \in Chunks =>
                Item = reader.received + 1 /\ Item <= produced.sent
<1>1. phase = "open"
  BY DEF BodyInv, NotOpened
<1>2. /\ BodyTypes /\ source \in Seq(Tokens) /\ channel \in Seq(Tokens) /\ Queue \in Seq(Tokens)
      /\ reader.received \in Nat /\ produced.sent \in Nat
      /\ produced.silent => reader.via = "h2"
  BY BodyConstants DEF BodyInv, BodyTypes, ProducedType, ReaderType, Queue
<1>3. /\ Item \in Tokens /\ (Queue = <<>> => Item = End)
      /\ Queue # <<>> => Item = Head(Queue)
  BY <1>2, TokenKinds DEF Item
<1>4. ASSUME ~reader.erred
      PROVE  /\ Item = End => EndRead /\ (reader.via = "h1" => channel = <<>>)
             /\ Item \in Chunks => Item = reader.received + 1 /\ Item <= produced.sent
  <2> DEFINE n == reader.received
  <2>1. Reads /\ n <= produced.sent /\ n + 1 \in Nat /\ n + 1 # 0
        /\ (produced.whole => produced.sent = Len(Body))
    BY <1>1, <1>2, <1>4 DEF Reads, BodyInv, Flow, BodyTypes
  <2>2. CASE Queue = <<>>
    <3>1. Item = End /\ reader.via = "h1" /\ bridge.st = "end" /\ channel = <<>>
      BY <1>3, <2>2 DEF ItemReady, Queue
    <3>2. BridgeFlow /\ ~BridgeRuns
      BY <2>1, <3>1 DEF BodyInv, Flow, BridgeRuns
    <3>3. n = produced.sent + IF produced.whole THEN 0 ELSE 1
      BY <1>2, <3>1, <3>2 DEF BridgeFlow
    <3>4. produced.whole /\ n = produced.sent
      BY <1>2, <2>1, <3>3
    <3>5. QED
      BY <2>1, <3>1, <3>4, TokenKinds DEF EndRead, WholeRead
  <2>3. CASE Queue # <<>>
    <3>1. Len(Queue) \in Nat /\ Len(Queue) # 0 /\ Item = Queue[1]
      BY <1>2, <1>3, <2>3
    <3>2. InOrder(Queue, n)
      BY <2>1 DEF BodyInv, Flow, BridgeFlow, ChainTo, Queue
    <3>3. Item = TokenAt(n + 1)
      <4>1. 1 \in 1 .. Len(Queue)
        BY <3>1
      <4>2. QED
        BY <3>1, <3>2, <4>1 DEF InOrder
    <3>4. n + 1 <= Total /\ (reader.via = "h1" /\ produced.whole => n + 1 <= produced.sent)
      <4>1. Len(source) \in Nat /\ Len(channel) \in Nat /\ Total \in Nat /\ produced.stopped \in BOOLEAN
            /\ produced.whole \in BOOLEAN
        BY <1>2 DEF Total, BodyTypes, ProducedType
      <4>2. CASE reader.via # "h1"
        <5>1. n + Len(source) = Total /\ Queue = source
          BY <2>1, <4>2 DEF BodyInv, Flow, ChainTo, Queue
        <5>2. QED
          BY <3>1, <4>1, <4>2, <5>1, <1>2
      <4>3. CASE reader.via = "h1"
        <5>1. BridgeFlow /\ Queue = channel
          BY <2>1, <4>3 DEF BodyInv, Flow, Queue
        <5>2. CASE BridgeRuns
          <6>1. PICK k \in Nat : k = n + Len(channel)
            BY <1>2, <4>1
          <6>2. k + Len(source) = Total \/ (k + 1) + Len(source) = Total
            BY <5>1, <5>2, <6>1 DEF BridgeFlow, ChainTo
          <6>3. produced.whole => Len(source) # 0
            BY <1>2, <5>1, <5>2 DEF BridgeFlow
          <6>4. k >= n + 1 /\ k <= Total
            BY <1>2, <3>1, <4>1, <5>1, <6>1, <6>2
          <6>5. Total <= produced.sent + 1
            BY <1>2 DEF Total
          <6>6. produced.whole => k <= produced.sent
            BY <1>2, <4>1, <6>2, <6>3, <6>5
          <6>7. QED
            BY <1>2, <4>1, <6>4, <6>6
        <5>3. CASE ~BridgeRuns
          <6>1. produced.stopped /\ n + Len(channel) = produced.sent + IF produced.whole THEN 0 ELSE 1
            BY <5>1, <5>3 DEF BridgeFlow
          <6>2. Total = produced.sent + 1
            BY <6>1 DEF Total
          <6>3. QED
            BY <1>2, <3>1, <4>1, <5>1, <6>1, <6>2
        <5>4. QED
          BY <5>2, <5>3
      <4>4. QED
        BY <4>2, <4>3
    <3>5. /\ Item = End => (produced.whole \/ produced.silent) /\ n + 1 = produced.sent + 1
          /\ Item \in Chunks => Item = n + 1 /\ n + 1 <= produced.sent
      BY <1>2, <2>1, <3>3, <3>4, TokenPlace
    <3>6. QED
      BY <1>2, <2>1, <3>4, <3>5 DEF EndRead, WholeRead, DroppedRead
  <2>4. QED
    BY <2>2, <2>3
<1>5. Item # End /\ Item # Cut => Item \in Chunks /\ Queue # <<>> /\ Item = Head(Queue)
  BY <1>3, TokenKinds
<1>6. QED
  BY <1>1, <1>3, <1>4, <1>5

(* Consuming an item keeps the queues sequences of tokens.                 *)
LEMMA ConsumeTypes ==
    ASSUME BodyInv, Consume
    PROVE  source' \in Seq(Tokens) /\ channel' \in Seq(Tokens)
<1>1. source \in Seq(Tokens) /\ channel \in Seq(Tokens)
  BY DEF BodyInv, BodyTypes
<1>2. channel # <<>> => Tail(channel) \in Seq(Tokens)
  BY <1>1
<1>3. source # <<>> => Tail(source) \in Seq(Tokens)
  BY <1>1
<1>4. CASE reader.via = "h1"
  BY <1>1, <1>2, <1>4 DEF Consume
<1>5. CASE reader.via # "h1"
  <2>1. source' \in {source, <<End>>} \/ (Item # End /\ source' = Tail(source))
    BY <1>5 DEF Consume
  <2>2. source = <<>> => Item = End
    BY <1>5 DEF Item, Queue
  <2>3. <<End>> \in Seq(Tokens) /\ channel' = channel
    BY <1>5, TokenKinds DEF Consume
  <2>4. QED
    BY <1>1, <1>3, <2>1, <2>2, <2>3
<1>6. QED
  BY <1>4, <1>5

(* What an answered read must keep.                                        *)
LEMMA ReadSteps ==
    ASSUME BodyInv, ReadAdvances, reader' \in ReaderType, reader'.via = reader.via,
           reader'.st # "none", Flow', OutRight', Limited'
    PROVE  BodyInv'
<1>1. UNCHANGED <<plan, phase, legs, produced, bridge>> /\ reader.st = "reading" /\ Consume
  BY DEF ReadAdvances, call_vars
<1>2. source' \in Seq(Tokens) /\ channel' \in Seq(Tokens)
  BY <1>1, ConsumeTypes
<1>3. BodyTypes'
  BY <1>1, <1>2 DEF BodyInv, BodyTypes
<1>4. NotOpened' /\ Opened'
  BY <1>1 DEF BodyInv, NotOpened, Opened
<1>5. QED
  BY <1>3, <1>4 DEF BodyInv

(* After an error nothing is promised.                                     *)
LEMMA AfterError ==
    ASSUME reader'.erred
    PROVE  Flow' /\ OutRight'
  BY DEF Flow, Reads, OutRight

(* A chunk leaves the front of the queue.                                  *)
LEMMA ChunkFlow ==
    ASSUME BodyInv, ReadAdvances, Item # End, Item # Cut, ~reader.erred,
           reader'.via = reader.via, reader'.received = reader.received + 1
    PROVE  Flow'
<1>1. UNCHANGED <<plan, phase, legs, produced, bridge>> /\ reader.st = "reading" /\ Consume
      /\ ItemReady
  BY DEF ReadAdvances, call_vars
<1>2. /\ phase = "open" /\ Item \in Chunks /\ Item = reader.received + 1
      /\ Item <= produced.sent /\ Queue # <<>>
  BY <1>1, Arrival
<1>3. Reads
  BY <1>1, <1>2 DEF Reads
<1>4. /\ BodyTypes /\ source \in Seq(Tokens) /\ channel \in Seq(Tokens) /\ reader.received \in Nat
      /\ Len(channel) \in Nat /\ produced.sent \in Nat
  BY BodyConstants DEF BodyInv, BodyTypes, ProducedType, ReaderType
<1>5. PICK n \in Nat : n = reader.received
  BY <1>4
<1>6. reader'.received = n + 1 /\ n + 1 <= produced'.sent
  BY <1>1, <1>2, <1>5
<1>7. CASE reader.via # "h1"
  <2>1. source' = Tail(source) /\ channel' = channel /\ source # <<>>
    BY <1>1, <1>2, <1>7 DEF Consume, Queue
  <2>2. ChainTo(source, n)
    BY <1>3, <1>5, <1>7 DEF BodyInv, Flow
  <2>3. ChainTo(Tail(source), n + 1)
    BY <1>4, <2>1, <2>2, ChainTail
  <2>4. ChainTo(source, n + 1)'
    BY <1>1, <2>1, <2>3 DEF ChainTo, InOrder, TokenAt, Token, Total
  <2>5. QED
    BY <1>6, <1>7, <2>4 DEF Flow
<1>8. CASE reader.via = "h1"
  <2>1. channel' = Tail(channel) /\ source' = source /\ channel # <<>>
    BY <1>1, <1>2, <1>8 DEF Consume, Queue
  <2>2. BridgeFlow
    BY <1>3, <1>8 DEF BodyInv, Flow
  <2>3. PICK k \in Nat : k = Len(channel)
    BY <1>4
  <2>4. Len(channel') = k - 1 /\ \A i \in 1 .. k - 1 : channel'[i] = channel[i + 1]
    BY <1>4, <2>1, <2>3
  <2>5. k # 0
    BY <1>4, <2>1, <2>3
  <2>6. InOrder(channel, n)
    BY <1>5, <2>2 DEF BridgeFlow
  <2>7. ASSUME NEW i \in 1 .. k - 1 PROVE channel'[i] = TokenAt((n + 1) + i)
    <3>1. i + 1 \in 1 .. Len(channel) /\ n + (i + 1) = (n + 1) + i
      BY <2>3, <2>5
    <3>2. channel[i + 1] = TokenAt(n + (i + 1))
      BY <2>6, <3>1 DEF InOrder
    <3>3. QED
      BY <2>4, <3>1, <3>2
  <2>8. InOrder(channel, n + 1)'
    <3>1. \A i \in 1 .. Len(channel') : channel'[i] = TokenAt((n + 1) + i)
      BY <2>4, <2>7
    <3>2. \A j : TokenAt(j)' = TokenAt(j)
      BY <1>1 DEF TokenAt, Token
    <3>3. QED
      BY <3>1, <3>2 DEF InOrder
  <2>9. PICK m \in Nat : m = n + k
    OBVIOUS
  <2>10. reader.received + Len(channel) = m /\ (n + 1) + Len(channel') = m
    <3>1. Len(channel') = k - 1
      BY <2>4
    <3>2. QED
      BY <1>5, <2>3, <2>9, <3>1
  <2>11. /\ BridgeRuns =>
              /\ bridge.item = Nothing => ChainTo(source, m)
              /\ bridge.item # Nothing => bridge.item = TokenAt(m + 1) /\ ChainTo(source, m + 1)
              /\ produced.whole => source # <<>>
         /\ ~BridgeRuns =>
              /\ produced.stopped
              /\ m = produced.sent + IF produced.whole THEN 0 ELSE 1
    BY <2>2, <2>10 DEF BridgeFlow
  <2>12. \A j \in Nat : ChainTo(source, j)' = ChainTo(source, j) /\ TokenAt(j)' = TokenAt(j)
    BY <1>1, <2>1 DEF ChainTo, InOrder, TokenAt, Token, Total
  <2>13. BridgeRuns' = BridgeRuns
    BY <1>1 DEF BridgeRuns
  <2>14. BridgeFlow'
    <3>1. m + 1 \in Nat
      OBVIOUS
    <3>2. /\ BridgeRuns' =>
               /\ bridge'.item = Nothing => ChainTo(source, m)'
               /\ bridge'.item # Nothing => bridge'.item = TokenAt(m + 1)' /\ ChainTo(source, m + 1)'
               /\ produced'.whole => source' # <<>>
          /\ ~BridgeRuns' =>
               /\ produced'.stopped
               /\ m = produced'.sent + IF produced'.whole THEN 0 ELSE 1
      BY <1>1, <2>1, <2>11, <2>12, <2>13, <3>1
    <3>3. InOrder(channel, reader.received)' /\ reader'.received + Len(channel') = m
      BY <1>6, <2>8, <2>10
    <3>4. QED
      BY <3>2, <3>3 DEF BridgeFlow
  <2>15. QED
    BY <1>6, <1>8, <2>14 DEF Flow
<1>9. QED
  BY <1>7, <1>8

(* The numbers of the first chunks.                                        *)
LEMMA IdsGrow ==
    ASSUME NEW n \in Nat
    PROVE  /\ Ids(n) \in Seq(1 .. n) /\ Len(Ids(n)) = n
           /\ Append(Ids(n), n + 1) = Ids(n + 1)
<1>1. Ids(n) \in Seq(1 .. n) /\ Len(Ids(n)) = n
  BY DEF Ids
<1>2. Ids(n) \in Seq(Nat) /\ Ids(n + 1) \in Seq(Nat) /\ Len(Ids(n + 1)) = n + 1
  BY DEF Ids
<1>3. \A i \in 1 .. n + 1 : Append(Ids(n), n + 1)[i] = Ids(n + 1)[i]
  <2>1. TAKE i \in 1 .. n + 1
  <2>2. Ids(n + 1)[i] = i /\ (i # n + 1 => Ids(n)[i] = i /\ i \in 1 .. n)
    BY DEF Ids
  <2>3. QED
    BY <1>1, <1>2, <2>2
<1>4. Append(Ids(n), n + 1) \in Seq(Nat) /\ Len(Append(Ids(n), n + 1)) = n + 1
  BY <1>1, <1>2
<1> DEFINE s == Append(Ids(n), n + 1)
           t == Ids(n + 1)
<1>5. s \in Seq(Nat) /\ t \in Seq(Nat) /\ Len(s) = Len(t) /\ \A i \in 1 .. Len(s) : s[i] = t[i]
  BY <1>2, <1>3, <1>4
<1> HIDE DEF s, t
<1>6. s = t
  BY <1>5, SMTT(40)
<1>7. QED
  BY <1>1, <1>6 DEF s, t

(* A sequence over one set is one over a larger set.                       *)
LEMMA Wider ==
    /\ \A s \in Seq(Units) : s \in Seq(Chunks \cup Units)
    /\ \A s \in Seq(Chunks) : s \in Seq(Chunks \cup Units)
  OBVIOUS

(* A chunk: counted, kept, handed out or decoded, or refused.              *)
LEMMA ChunkBody ==
    ASSUME BodyInv, ReadAdvances, Item # End, Item # Cut
    PROVE  BodyInv'
<1>1. UNCHANGED <<plan, phase, legs, produced, bridge>> /\ reader.st = "reading" /\ Consume
      /\ ItemReady /\ ChunkArrives
  BY TokenKinds DEF ReadAdvances, call_vars
<1>2. /\ Item \in Chunks
      /\ ~reader.erred => Item = reader.received + 1 /\ Item <= produced.sent
  BY <1>1, Arrival
<1>3. reader \in ReaderType /\ BodyTypes /\ plan.max_body \in Nat /\ produced.sent \in Nat
      /\ produced.sent <= Len(Body) /\ Len(Body) \in Nat
  BY StreamingAssumption, BodyConstants DEF BodyInv, BodyTypes, ProducedType
<1>4. /\ reader.received \in Nat /\ reader.buffer \in Seq(Chunks) /\ reader.total \in Nat
      /\ reader.out \in Seq(Chunks \cup Units) /\ reader.erred \in BOOLEAN
  BY <1>3 DEF ReaderType
<1>5. PICK e \in Chunks : e = Item
  BY <1>2
<1>6. PICK n \in Nat : n = reader.received
  BY <1>4
<1> DEFINE k == n + 1
           units == Body[e]
<1>7. k \in Nat /\ units \in Seq(Units) /\ Len(units) \in Nat
  BY BodyConstants DEF Chunks
<1>8. Expected' = Expected /\ Decodes' = Decodes
  BY <1>1 DEF Expected, Decoded, Decodes
<1>9. ~reader.erred => ~reader.eof /\ e = k /\ k <= produced.sent
  <2>1. SUFFICES ASSUME ~reader.erred PROVE ~reader.eof /\ e = k /\ k <= produced.sent
    OBVIOUS
  <2>2. e = k /\ k <= produced.sent
    BY <1>2, <1>5, <1>6, <2>1
  <2>3. reader.eof => n = Len(Body) \/ n = produced.sent
    BY <1>6, <2>1 DEF BodyInv, OutRight, EndRead, WholeRead, DroppedRead
  <2>4. QED
    BY <1>3, <2>2, <2>3
<1>10. ~reader.erred =>
         /\ plan.mode = "bytes" => reader.buffer = Ids(n) /\ reader.out = <<>>
         /\ plan.mode # "bytes" /\ ~Decodes => reader.out = Ids(n)
         /\ Decodes => reader.decoder # "finished" /\ reader.out = Flat(n)
  BY <1>1, <1>6, <1>9 DEF BodyInv, OutRight, BytesOut, DecodedOut
<1>11. /\ Len(reader.buffer) <= n /\ Len(reader.buffer) <= plan.max_body
       /\ plan.mode = "raw" \/ ~plan.compressed =>
            Len(reader.out) <= n /\ Len(reader.out) <= plan.max_body
       /\ plan.mode = "bytes" => ~reader.erred
  BY <1>1, <1>6 DEF BodyInv, Limited
<1>12. ~reader.erred => Append(Ids(n), e) = Ids(k) /\ Flat(k) = Flat(n) \o units
  <2>1. SUFFICES ASSUME ~reader.erred PROVE Append(Ids(n), e) = Ids(k) /\ Flat(k) = Flat(n) \o units
    OBVIOUS
  <2>2. e = k /\ n \in 0 .. Len(Body) - 1
    BY <1>3, <1>9, <2>1
  <2>3. QED
    BY <2>2, IdsGrow, FlatFacts
<1> HIDE DEF k, units
<1>13. ASSUME NEW x \in {"idle", "dropped"}, plan.mode = "bytes" => x = "dropped",
              reader' = [reader EXCEPT !.erred = TRUE, !.received = k, !.st = x]
       PROVE  BodyInv'
  <2>1. /\ reader' \in ReaderType /\ reader'.via = reader.via /\ reader'.st = x
        /\ reader'.erred = TRUE /\ reader'.received = k /\ reader'.buffer = reader.buffer
        /\ reader'.out = reader.out
    BY <1>3, <1>7, <1>13 DEF ReaderType
  <2>2. Flow' /\ OutRight'
    BY <2>1, AfterError
  <2>3. n <= k /\ Len(reader.buffer) \in Nat /\ Len(reader.out) \in Nat
    BY <1>4 DEF k
  <2>4. Limited'
    BY <1>1, <1>7, <1>11, <1>13, <2>1, <2>3 DEF Limited
  <2>5. QED
    BY <2>1, <2>2, <2>4, ReadSteps
<1>14. ASSUME plan.mode = "bytes", k <= plan.max_body,
              reader' = [reader EXCEPT !.received = k, !.buffer = Append(reader.buffer, e)]
       PROVE  BodyInv'
  <2> DEFINE b == Append(reader.buffer, e)
  <2>1. b \in Seq(Chunks) /\ Len(b) = Len(reader.buffer) + 1 /\ Len(reader.buffer) \in Nat
    BY <1>4
  <2>2. reader' = [reader EXCEPT !.received = k, !.buffer = b]
    BY <1>14
  <2>3. ~reader.erred => b = Ids(k)
    BY <1>10, <1>12, <1>14
  <2> HIDE DEF b
  <2>4. /\ reader' \in ReaderType /\ reader'.via = reader.via /\ reader'.st = "reading"
        /\ reader'.erred = reader.erred /\ reader'.received = k /\ reader'.buffer = b
        /\ reader'.out = reader.out /\ reader'.eof = reader.eof
    BY <1>1, <1>3, <1>7, <2>1, <2>2 DEF ReaderType
  <2>5. Flow'
    BY <1>6, <1>11, <1>14, <2>4, ChunkFlow DEF k
  <2>6. OutRight'
    <3>1. ~Decodes
      BY <1>14 DEF Decodes
    <3>2. ~reader.erred /\ ~reader.eof /\ reader.out = <<>>
      BY <1>9, <1>10, <1>11, <1>14
    <3>3. BytesOut'
      BY <2>3, <2>4, <3>2 DEF BytesOut
    <3>4. QED
      BY <1>1, <1>8, <1>14, <2>4, <3>1, <3>2, <3>3 DEF OutRight
  <2>7. Limited'
    <3>1. Len(b) <= k
      BY <1>11, <2>1 DEF k
    <3>2. reader.out = <<>> /\ Len(<<>>) = 0 /\ ~reader.erred
      BY <1>10, <1>11, <1>14
    <3>3. QED
      BY <1>1, <1>3, <1>7, <1>14, <2>1, <2>4, <3>1, <3>2 DEF Limited
  <2>8. QED
    BY <2>4, <2>5, <2>6, <2>7, ReadSteps
<1>15. ASSUME plan.mode # "bytes", ~Decodes, k <= plan.max_body,
              reader' = [reader EXCEPT !.received = k, !.out = Append(reader.out, e), !.st = "idle"]
       PROVE  BodyInv'
  <2> DEFINE o == Append(reader.out, e)
  <2>1. o \in Seq(Chunks \cup Units) /\ Len(o) = Len(reader.out) + 1 /\ Len(reader.out) \in Nat
    BY <1>4
  <2>2. reader' = [reader EXCEPT !.received = k, !.out = o, !.st = "idle"]
    BY <1>15
  <2>3. ~reader.erred => o = Ids(k)
    BY <1>10, <1>12, <1>15
  <2> HIDE DEF o
  <2>4. /\ reader' \in ReaderType /\ reader'.via = reader.via /\ reader'.st = "idle"
        /\ reader'.erred = reader.erred /\ reader'.received = k /\ reader'.buffer = reader.buffer
        /\ reader'.out = o /\ reader'.eof = reader.eof
    BY <1>1, <1>3, <1>7, <2>1, <2>2 DEF ReaderType
  <2>5. Flow'
    <3>1. ~reader.erred => Flow'
      BY <1>6, <2>4, ChunkFlow DEF k
    <3>2. QED
      BY <2>4, <3>1, AfterError
  <2>6. OutRight'
    BY <1>1, <1>8, <1>9, <1>15, <2>3, <2>4 DEF OutRight
  <2>7. Limited'
    <3>1. Len(reader.buffer) \in Nat /\ Len(reader.buffer) <= k /\ (Len(reader.out) <= n => Len(o) <= k)
      BY <1>4, <1>11, <2>1 DEF k
    <3>2. QED
      BY <1>1, <1>3, <1>7, <1>11, <1>15, <2>1, <2>4, <3>1 DEF Limited
  <2>8. QED
    BY <2>4, <2>5, <2>6, <2>7, ReadSteps
<1>16. ASSUME Decodes, NEW x \in {"idle", "reading"}, NEW t \in Nat, NEW o \in Seq(Chunks \cup Units),
              ~reader.erred => o = Flat(n) \o units,
              reader' = [reader EXCEPT !.received = k, !.total = t, !.out = o, !.st = x]
       PROVE  BodyInv'
  <2>1. /\ reader' \in ReaderType /\ reader'.via = reader.via /\ reader'.st = x
        /\ reader'.erred = reader.erred /\ reader'.received = k /\ reader'.buffer = reader.buffer
        /\ reader'.out = o /\ reader'.eof = reader.eof /\ reader'.decoder = reader.decoder
    BY <1>3, <1>7, <1>16 DEF ReaderType
  <2>2. plan.mode = "decoded" /\ plan.compressed
    BY <1>16 DEF Decodes
  <2>3. Flow'
    <3>1. ~reader.erred => Flow'
      BY <1>6, <2>1, ChunkFlow DEF k
    <3>2. QED
      BY <2>1, <3>1, AfterError
  <2>4. OutRight'
    <3>1. ~reader.erred => DecodedOut'
      BY <1>9, <1>10, <1>12, <1>16, <2>1 DEF DecodedOut
    <3>2. QED
      BY <1>1, <1>8, <1>9, <1>16, <2>1, <2>2, <3>1 DEF OutRight
  <2>5. Limited'
    <3>1. Len(reader.buffer) \in Nat /\ Len(reader.buffer) <= k
      BY <1>4, <1>11 DEF k
    <3>2. QED
      BY <1>1, <1>11, <2>1, <2>2, <3>1 DEF Limited
  <2>6. QED
    BY <2>1, <2>3, <2>4, <2>5, ReadSteps
<1>17. Errs => BodyInv'
  <2>1. SUFFICES ASSUME Errs PROVE BodyInv'
    OBVIOUS
  <2>2. PICK x \in {"idle", "dropped"} :
           /\ plan.mode = "bytes" => x = "dropped"
           /\ reader' = [reader EXCEPT !.erred = TRUE, !.received = k, !.st = x]
    <3> DEFINE x == IF plan.mode = "bytes" THEN "dropped" ELSE "idle"
    <3>1. reader' = [reader EXCEPT !.erred = TRUE, !.received = k, !.st = x]
      BY <1>6, <2>1 DEF Errs, Returns, k
    <3>2. x \in {"idle", "dropped"} /\ (plan.mode = "bytes" => x = "dropped")
      OBVIOUS
    <3> HIDE DEF x
    <3>3. QED
      BY <3>1, <3>2
  <2>3. QED
    BY <1>13, <2>2
<1>18. CASE k > plan.max_body
  BY <1>1, <1>5, <1>6, <1>17, <1>18 DEF ChunkArrives, k
<1>19. CASE ~(k > plan.max_body)
  <2>1. k <= plan.max_body
    BY <1>3, <1>7, <1>19
  <2>2. CASE plan.mode = "bytes"
    <3>1. reader' = [reader EXCEPT !.received = k, !.buffer = Append(reader.buffer, e)]
      BY <1>1, <1>5, <1>6, <1>19, <2>2 DEF ChunkArrives, k
    <3>2. QED
      BY <1>14, <2>1, <2>2, <3>1
  <2>3. CASE plan.mode # "bytes" /\ ~Decodes
    <3>1. reader' = [reader EXCEPT !.received = k, !.out = Append(reader.out, e), !.st = "idle"]
      BY <1>1, <1>5, <1>6, <1>19, <2>3 DEF ChunkArrives, Returns, k
    <3>2. QED
      BY <1>15, <2>1, <2>3, <3>1
  <2>4. CASE Decodes
    <3>1. plan.mode = "decoded"
      BY <2>4 DEF Decodes
    <3>2. /\ reader.out \o units \in Seq(Chunks \cup Units)
          /\ units = <<>> => reader.out \o units = reader.out
          /\ reader.total + Len(units) \in Nat
      <4>1. units \in Seq(Chunks \cup Units)
        BY <1>7, Wider
      <4>2. QED
        BY <1>4, <1>7, <4>1
    <3>3. \/ Errs
          \/ units = <<>> /\ reader' = [reader EXCEPT !.received = k]
          \/ reader' = [reader EXCEPT !.received = k, !.total = reader.total + Len(units),
                                      !.out = reader.out \o units, !.st = "idle"]
      BY <1>1, <1>5, <1>6, <1>19, <2>4, <3>1 DEF ChunkArrives, Returns, k, units
    <3>4. ASSUME units = <<>>, reader' = [reader EXCEPT !.received = k] PROVE BodyInv'
      <4>1. reader' = [reader EXCEPT !.received = k, !.total = reader.total, !.out = reader.out,
                                     !.st = "reading"]
        BY <1>1, <1>3, <1>7, <3>4 DEF ReaderType
      <4>2. ~reader.erred => reader.out = Flat(n) \o units
        BY <1>10, <2>4, <3>2, <3>4
      <4>3. QED
        BY <1>4, <1>16, <2>4, <4>1, <4>2
    <3>5. ASSUME reader' = [reader EXCEPT !.received = k, !.total = reader.total + Len(units),
                                      !.out = reader.out \o units, !.st = "idle"]
          PROVE  BodyInv'
      <4>1. ~reader.erred => reader.out \o units = Flat(n) \o units
        BY <1>10, <2>4
      <4>2. QED
        BY <1>16, <2>4, <3>2, <3>5, <4>1
    <3>6. QED
      BY <1>17, <3>3, <3>4, <3>5
  <2>5. QED
    BY <2>2, <2>3, <2>4
<1>20. QED
  BY <1>18, <1>19

(* Expected is a sequence.                                                 *)
LEMMA ExpectedType ==
    ASSUME BodyInv
    PROVE  Expected \in Seq(Chunks \cup Units)
<1>1. CASE plan.compressed /\ plan.mode # "raw"
  <2>1. Expected = Flat(Len(Body)) \o Residue
    BY <1>1, ExpectedIs
  <2>2. Flat(Len(Body)) \in Seq(Units) /\ Residue \in Seq(Units)
    BY FlatFacts, BodyConstants
  <2>3. Flat(Len(Body)) \o Residue \in Seq(Units)
    BY <2>2
  <2>4. QED
    BY <2>1, <2>3, Wider
<1>2. CASE ~(plan.compressed /\ plan.mode # "raw")
  <2>1. Expected = Ids(Len(Body)) /\ Ids(Len(Body)) \in Seq(Chunks)
    BY <1>2, ExpectedIs, IdsGrow, BodyConstants DEF Chunks
  <2>2. QED
    BY <2>1, Wider
<1>3. QED
  BY <1>1, <1>2

(* The first chunks are a beginning of the body, as they are and decoded.  *)
LEMMA FirstBegin ==
    ASSUME NEW n \in 0 .. Len(Body)
    PROVE  /\ Begins(Ids(n), Ids(Len(Body)))
           /\ Begins(Flat(n), Flat(Len(Body)) \o Residue)
<1>1. Begins(Ids(n), Ids(Len(Body)))
  <2>1. n \in Nat /\ n <= Len(Body) /\ Len(Body) \in Nat
    BY BodyConstants
  <2>2. Len(Ids(n)) = n /\ Len(Ids(Len(Body))) = Len(Body)
    BY <2>1, IdsGrow
  <2>3. \A i \in 1 .. n : Ids(n)[i] = i /\ Ids(Len(Body))[i] = i
    BY <2>1 DEF Ids
  <2>4. QED
    BY <2>1, <2>2, <2>3 DEF Begins
<1>2. Begins(Flat(n), Flat(Len(Body)) \o Residue)
  <2> DEFINE s == Flat(n)
             t == Flat(Len(Body))
  <2>1. Len(Body) \in 0 .. Len(Body)
    BY BodyConstants
  <2>2. Begins(s, t) /\ s \in Seq(Units) /\ t \in Seq(Units) /\ Residue \in Seq(Units)
    BY <2>1, FlatBegins, FlatFacts, BodyConstants
  <2> HIDE DEF s, t
  <2>3. Begins(s, t \o Residue)
    BY <2>2 DEF Begins
  <2>4. QED
    BY <2>3 DEF s, t
<1>3. QED
  BY <1>1, <1>2

(* A beginning of t with some of what follows in t.                        *)
LEMMA FurtherBegins ==
    ASSUME NEW S, NEW s \in Seq(S), NEW t \in Seq(S), NEW n \in Len(s) .. Len(t)
    PROVE  /\ SubSeq(t, Len(s) + 1, n) \in Seq(S)
           /\ Begins(s, t) => Begins(s \o SubSeq(t, Len(s) + 1, n), t)
<1>1. PICK k \in Nat : k = Len(s)
  OBVIOUS
<1>2. PICK m \in Nat : m = Len(t)
  OBVIOUS
<1>3. n \in Nat /\ k <= n /\ n <= m
  BY <1>1, <1>2
<1> DEFINE u == SubSeq(t, k + 1, n)
<1>4. u \in Seq(S) /\ Len(u) = n - k /\ \A i \in 1 .. n - k : u[i] = t[k + i]
  BY <1>2, <1>3
<1> HIDE DEF u
<1>5. ASSUME Begins(s, t) PROVE Begins(s \o u, t)
  <2>1. Len(s \o u) = n
    BY <1>1, <1>3, <1>4
  <2>2. ASSUME NEW i \in 1 .. n PROVE (s \o u)[i] = t[i]
    <3>1. CASE i <= k
      <4>1. i \in 1 .. Len(s) /\ (s \o u)[i] = s[i]
        BY <1>1, <1>3, <1>4, <3>1
      <4>2. QED
        BY <1>5, <4>1 DEF Begins
    <3>2. CASE ~(i <= k)
      <4>1. PICK j \in 1 .. n - k : i = k + j
        <5>1. i - k \in 1 .. n - k /\ i = k + (i - k)
          BY <1>3, <3>2
        <5>2. QED
          BY <5>1
      <4>2. (s \o u)[i] = u[j]
        BY <1>1, <1>3, <1>4, <4>1
      <4>3. QED
        BY <1>4, <4>1, <4>2
    <3>3. QED
      BY <3>1, <3>2
  <2>3. QED
    BY <1>2, <1>3, <2>1, <2>2 DEF Begins
<1>6. QED
  BY <1>1, <1>4, <1>5 DEF u

(* What is left at the end of a body is a sequence; after what the reader  *)
(* has got, it makes the whole of it or a beginning.                       *)
LEMMA LeftoversEnd ==
    ASSUME BodyInv, NEW rest \in Leftovers
    PROVE  /\ rest \in Seq(Chunks \cup Units)
           /\ ~produced.silent => rest = Residue
           /\ produced.silent /\ Begins(reader.out, Expected) => Begins(reader.out \o rest, Expected)
<1>1. Expected \in Seq(Chunks \cup Units) /\ reader.out \in Seq(Chunks \cup Units)
  BY ExpectedType DEF BodyInv, BodyTypes, ReaderType
<1>2. CASE ~produced.silent
  <2>1. rest = Residue
    BY <1>2 DEF Leftovers
  <2>2. QED
    BY <1>2, <2>1, BodyConstants, Wider
<1>3. CASE produced.silent
  <2>1. PICK n \in Len(reader.out) .. Len(Expected) :
           rest = SubSeq(Expected, Len(reader.out) + 1, n)
    BY <1>3 DEF Leftovers
  <2> DEFINE s == reader.out
             t == Expected
  <2>2. s \in Seq(Chunks \cup Units) /\ t \in Seq(Chunks \cup Units) /\ n \in Len(s) .. Len(t)
        /\ rest = SubSeq(t, Len(s) + 1, n)
    BY <1>1, <2>1
  <2> HIDE DEF s, t
  <2>3. rest \in Seq(Chunks \cup Units) /\ (Begins(s, t) => Begins(s \o rest, t))
    BY <2>2, FurtherBegins
  <2>4. QED
    BY <1>3, <2>3 DEF s, t
<1>4. QED
  BY <1>2, <1>3

(* The end of the body, or a cut.                                          *)
LEMMA EndBody ==
    ASSUME BodyInv, ReadAdvances, Item = End \/ Item = Cut
    PROVE  BodyInv'
<1>1. UNCHANGED <<plan, phase, legs, produced, bridge>> /\ reader.st = "reading" /\ Consume
      /\ ItemReady
  BY DEF ReadAdvances, call_vars
<1>2. reader \in ReaderType /\ plan.max_body \in Nat
  BY StreamingAssumption DEF BodyInv, BodyTypes
<1>3. /\ reader.received \in Nat /\ reader.buffer \in Seq(Chunks) /\ reader.total \in Nat
      /\ reader.out \in Seq(Chunks \cup Units) /\ reader.erred \in BOOLEAN
  BY <1>2 DEF ReaderType
<1>4. Expected' = Expected /\ Decodes' = Decodes
  BY <1>1 DEF Expected, Decoded, Decodes
<1>5. plan.mode = "bytes" => ~reader.erred
  BY <1>1 DEF BodyInv, Limited
<1> DEFINE x == IF plan.mode = "bytes" THEN "dropped" ELSE "idle"
<1>6. x \in {"idle", "dropped"} /\ (plan.mode = "bytes" => x = "dropped")
      /\ (plan.mode # "bytes" => x = "idle")
  OBVIOUS
<1> HIDE DEF x
<1>7. ASSUME NEW d \in {"uninit", "passthrough", "active", "finished"},
             reader' = [reader EXCEPT !.erred = TRUE, !.decoder = d, !.st = x]
      PROVE  BodyInv'
  <2>1. /\ reader' \in ReaderType /\ reader'.via = reader.via /\ reader'.st = x
        /\ reader'.erred = TRUE /\ reader'.received = reader.received
        /\ reader'.buffer = reader.buffer /\ reader'.out = reader.out
    BY <1>2, <1>6, <1>7 DEF ReaderType
  <2>2. Flow' /\ OutRight'
    BY <2>1, AfterError
  <2>3. Limited'
    BY <1>1, <1>6, <2>1 DEF BodyInv, Limited
  <2>4. QED
    BY <1>6, <2>1, <2>2, <2>3, ReadSteps
<1>8. CASE Item = Cut
  <2>1. reader' = [reader EXCEPT !.erred = TRUE, !.st = x]
    BY <1>8, TokenKinds DEF ReadAdvances, Returns, x
  <2>2. reader.decoder \in {"uninit", "passthrough", "active", "finished"}
        /\ reader' = [reader EXCEPT !.erred = TRUE, !.decoder = reader.decoder, !.st = x]
    BY <1>2, <2>1 DEF ReaderType
  <2>3. QED
    BY <1>7, <2>2
<1>9. CASE Item = End
  <2>1. ~reader.erred => EndRead /\ (reader.via = "h1" => channel = <<>>)
    BY <1>1, <1>9, Arrival
  <2>2. ASSUME reader' \in ReaderType, reader'.via = reader.via, reader'.st # "none",
               reader'.received = reader.received, reader'.erred = reader.erred
        PROVE  Flow'
    <3>1. CASE reader.erred
      BY <2>2, <3>1, AfterError
    <3>2. CASE ~reader.erred
      <4>1. UNCHANGED <<source, channel>>
        BY <1>1, <1>9, <2>1, <3>2, TokenKinds DEF Consume
      <4>2. QED
        BY <1>1, <2>2, <4>1, FlowStays
    <3>3. QED
      BY <1>3, <3>1, <3>2
  <2>3. ~reader.erred => /\ WholeRead => reader.received = Len(Body) /\ ~produced.silent
                         /\ ~WholeRead => DroppedRead /\ produced.silent
                         /\ reader.received \in 0 .. Len(Body)
    BY <1>3, <2>1, BodyConstants DEF EndRead, WholeRead, DroppedRead, BodyInv, BodyTypes, ProducedType
  <2>4. /\ plan.mode = "bytes" => BytesComplete
        /\ plan.mode # "bytes" => EndArrives
    <3>1. End # Cut
      BY TokenKinds
    <3>2. IF plan.mode = "bytes" THEN BytesComplete ELSE EndArrives
      BY <1>9, <3>1 DEF ReadAdvances
    <3>3. QED
      BY <3>2
  <2>5. CASE plan.mode = "bytes"
    <3>1. BytesComplete /\ ~Decodes
      BY <2>4, <2>5 DEF Decodes
    <3>2. ~reader.erred /\ reader.buffer = Ids(reader.received) /\ reader.out = <<>>
      BY <1>1, <1>5, <2>5 DEF BodyInv, OutRight, BytesOut
    <3>3. /\ Expected \in Seq(Chunks \cup Units)
          /\ plan.compressed => Expected = Decoded(Ids(Len(Body)))
          /\ ~plan.compressed => Expected = Ids(Len(Body))
      BY <2>5, ExpectedType, ExpectedIs
    <3>4. ASSUME NEW o \in IF ~plan.compressed THEN {reader.buffer}
                          ELSE IF produced.silent THEN Leftovers ELSE {Decoded(reader.buffer)}
          PROVE  /\ o \in Seq(Chunks \cup Units) /\ (~plan.compressed => o = reader.buffer)
                 /\ WholeRead => o = Expected
                 /\ ~WholeRead => DroppedRead /\ Begins(o, Expected)
      <4>1. CASE ~plan.compressed
        <5>1. o = reader.buffer /\ reader.buffer \in Seq(Chunks \cup Units)
          BY <1>3, <3>4, <4>1, Wider
        <5>2. Begins(Ids(reader.received), Ids(Len(Body)))
          BY <2>3, <3>2, FirstBegin
        <5>3. QED
          BY <2>3, <3>2, <3>3, <4>1, <5>1, <5>2
      <4>2. CASE plan.compressed /\ produced.silent
        <5>1. o \in Leftovers
          BY <3>4, <4>2
        <5>2. Begins(reader.out, Expected)
          BY <3>2, <3>3 DEF Begins
        <5>3. o \in Seq(Chunks \cup Units) /\ Begins(reader.out \o o, Expected)
          BY <4>2, <5>1, <5>2, LeftoversEnd
        <5>4. <<>> \o o = o
          BY <5>3
        <5>5. QED
          BY <2>3, <3>2, <4>2, <5>3, <5>4
      <4>3. CASE plan.compressed /\ ~produced.silent
        BY <2>3, <3>2, <3>3, <3>4, <4>3
      <4>4. QED
        BY <4>1, <4>2, <4>3
    <3>5. CASE Errs
      <4>1. reader' = [reader EXCEPT !.erred = TRUE, !.received = reader.received + 1, !.st = x]
        BY <3>5 DEF Errs, Returns, x
      <4>2. /\ reader' \in ReaderType /\ reader'.via = reader.via /\ reader'.st = "dropped"
            /\ reader'.erred = TRUE /\ reader'.received = reader.received + 1
            /\ reader'.buffer = reader.buffer /\ reader'.out = reader.out
        <5>1. PICK k \in Nat : k = reader.received + 1
          BY <1>3
        <5>2. reader' = [reader EXCEPT !.erred = TRUE, !.received = k, !.st = "dropped"]
          BY <1>6, <2>5, <4>1, <5>1
        <5>3. QED
          BY <1>2, <5>1, <5>2 DEF ReaderType
      <4>3. Flow' /\ OutRight'
        BY <4>2, AfterError
      <4>4. Limited'
        <5>1. Len(reader.buffer) \in Nat /\ Len(reader.out) \in Nat
          BY <1>3
        <5>2. QED
          BY <1>1, <1>3, <4>2, <5>1 DEF BodyInv, Limited
      <4>5. QED
        BY <4>2, <4>3, <4>4, ReadSteps
    <3>6. ASSUME NEW o \in IF ~plan.compressed THEN {reader.buffer}
                          ELSE IF produced.silent THEN Leftovers ELSE {Decoded(reader.buffer)},
                 Returns([reader EXCEPT !.eof = TRUE, !.out = o])
          PROVE  BodyInv'
      <4>1. reader' = [reader EXCEPT !.eof = TRUE, !.out = o, !.st = x]
        BY <3>6 DEF Returns, x
      <4>2. /\ o \in Seq(Chunks \cup Units) /\ (~plan.compressed => o = reader.buffer)
            /\ WholeRead => o = Expected
            /\ ~WholeRead => DroppedRead /\ Begins(o, Expected)
        BY <3>4, <3>6
      <4>3. /\ reader' \in ReaderType /\ reader'.via = reader.via /\ reader'.st = "dropped"
            /\ reader'.erred = reader.erred /\ reader'.received = reader.received
            /\ reader'.buffer = reader.buffer /\ reader'.out = o /\ reader'.eof
        BY <1>2, <1>6, <2>5, <4>1, <4>2 DEF ReaderType
      <4>4. Flow'
        BY <2>2, <4>3
      <4>5. OutRight'
        <5>1. WholeRead' = WholeRead /\ DroppedRead' = DroppedRead
          BY <1>1, <4>3 DEF WholeRead, DroppedRead
        <5>2. EndOut' /\ EndRead'
          BY <1>4, <4>2, <4>3, <5>1 DEF EndOut, EndRead
        <5>3. BytesOut'
          BY <3>2, <4>3, <5>2 DEF BytesOut
        <5>4. QED
          BY <1>1, <1>4, <2>5, <3>1, <5>2, <5>3 DEF OutRight
      <4>6. Limited'
        BY <1>1, <2>5, <4>2, <4>3 DEF BodyInv, Limited
      <4>7. QED
        BY <4>3, <4>4, <4>5, <4>6, ReadSteps
    <3>7. QED
      BY <3>1, <3>5, <3>6 DEF BytesComplete
  <2>6. CASE plan.mode # "bytes" /\ ~Decodes
    <3>1. reader' = [reader EXCEPT !.eof = TRUE, !.st = "idle"]
      BY <2>4, <2>6 DEF EndArrives, Returns
    <3>2. /\ reader' \in ReaderType /\ reader'.via = reader.via /\ reader'.st = "idle"
          /\ reader'.erred = reader.erred /\ reader'.received = reader.received
          /\ reader'.buffer = reader.buffer /\ reader'.out = reader.out /\ reader'.eof
      BY <1>2, <3>1 DEF ReaderType
    <3>3. Flow'
      BY <2>2, <3>2
    <3>4. OutRight'
      <4>1. EndRead' = EndRead
        BY <1>1, <3>2 DEF EndRead, WholeRead, DroppedRead
      <4>2. QED
        BY <1>1, <1>4, <2>1, <2>6, <3>2, <4>1 DEF BodyInv, OutRight
    <3>5. Limited'
      BY <1>1, <2>6, <3>2 DEF BodyInv, Limited
    <3>6. QED
      BY <3>2, <3>3, <3>4, <3>5, ReadSteps
  <2>7. CASE Decodes
    <3>1. plan.mode = "decoded" /\ plan.compressed /\ x = "idle"
      BY <1>6, <2>7 DEF Decodes
    <3>2. EndArrives
      BY <2>4, <3>1
    <3>3. ASSUME NEW rest \in Leftovers,
                 reader' = [reader EXCEPT !.decoder = "finished", !.total = reader.total + Len(rest),
                                          !.out = reader.out \o rest, !.eof = (rest = <<>>), !.st = x]
          PROVE  BodyInv'
      <4> DEFINE t == reader.total + Len(rest)
                 o == reader.out \o rest
                 z == (rest = <<>>)
      <4>1. reader' = [reader EXCEPT !.decoder = "finished", !.total = t, !.out = o,
                                     !.eof = z, !.st = x]
        BY <3>3
      <4>2. t \in Nat /\ o \in Seq(Chunks \cup Units) /\ z \in BOOLEAN
        <5>1. rest \in Seq(Chunks \cup Units)
          BY <3>3, LeftoversEnd
        <5>2. QED
          BY <1>3, <5>1
      <4>3. ~reader.erred =>
              /\ WholeRead => o = Expected
              /\ ~WholeRead => DroppedRead /\ Begins(o, Expected)
        <5>1. SUFFICES ASSUME ~reader.erred
                       PROVE  /\ WholeRead => o = Expected
                              /\ ~WholeRead => DroppedRead /\ Begins(o, Expected)
          OBVIOUS
        <5>2. reader.out = Flat(reader.received) /\ Expected = Flat(Len(Body)) \o Residue
          BY <1>1, <2>7, <3>1, <5>1, ExpectedIs DEF BodyInv, OutRight, DecodedOut
        <5>3. CASE WholeRead
          <6>1. rest = Residue
            BY <2>3, <3>3, <5>1, <5>3, LeftoversEnd
          <6>2. QED
            BY <2>3, <5>1, <5>2, <5>3, <6>1
        <5>4. CASE ~WholeRead
          <6>1. Begins(reader.out, Expected)
            BY <2>3, <5>1, <5>2, FirstBegin
          <6>2. QED
            BY <2>3, <3>3, <5>1, <5>4, <6>1, LeftoversEnd
        <5>5. QED
          BY <5>3, <5>4
      <4> HIDE DEF t, o, z
      <4>4. /\ reader' \in ReaderType /\ reader'.via = reader.via /\ reader'.st = "idle"
            /\ reader'.erred = reader.erred /\ reader'.received = reader.received
            /\ reader'.buffer = reader.buffer /\ reader'.out = o /\ reader'.decoder = "finished"
        BY <1>2, <3>1, <4>1, <4>2 DEF ReaderType
      <4>5. Flow'
        BY <2>2, <4>4
      <4>6. OutRight'
        <5>1. WholeRead' = WholeRead /\ DroppedRead' = DroppedRead
          BY <1>1, <4>4 DEF WholeRead, DroppedRead
        <5>2. ~reader.erred => EndOut' /\ EndRead'
          BY <1>4, <4>3, <4>4, <5>1 DEF EndOut, EndRead
        <5>3. ~reader.erred => DecodedOut'
          BY <4>4, <5>2 DEF DecodedOut
        <5>4. QED
          BY <1>1, <1>4, <2>7, <3>1, <4>4, <5>2, <5>3 DEF OutRight
      <4>7. Limited'
        BY <1>1, <3>1, <4>4 DEF BodyInv, Limited
      <4>8. QED
        BY <4>4, <4>5, <4>6, <4>7, ReadSteps
    <3>4. \/ reader' = [reader EXCEPT !.erred = TRUE, !.decoder = "finished", !.st = x]
          \/ \E rest \in Leftovers :
               reader' = [reader EXCEPT !.decoder = "finished", !.total = reader.total + Len(rest),
                                        !.out = reader.out \o rest, !.eof = (rest = <<>>), !.st = x]
      <4> DEFINE r == [reader EXCEPT !.decoder = "finished"]
                 Left(rest) == [r EXCEPT !.total = @ + Len(rest), !.out = @ \o rest,
                                         !.eof = rest = <<>>]
      <4>1. \/ Returns([r EXCEPT !.erred = TRUE])
            \/ \E rest \in Leftovers : Returns(Left(rest))
        BY <2>7, <3>2, Zenon DEF EndArrives
      <4>2. CASE Returns([r EXCEPT !.erred = TRUE])
        BY <1>2, <4>2 DEF Returns, x, ReaderType
      <4>3. ASSUME NEW rest \in Leftovers, Returns(Left(rest))
            PROVE  reader' = [reader EXCEPT !.decoder = "finished", !.total = reader.total + Len(rest),
                                      !.out = reader.out \o rest, !.eof = (rest = <<>>), !.st = x]
        BY <1>2, <4>3 DEF Returns, x, ReaderType
      <4>4. QED
        BY <4>1, <4>2, <4>3
    <3>5. QED
      BY <1>7, <3>3, <3>4
  <2>8. QED
    BY <2>5, <2>6, <2>7
<1>10. QED
  BY <1>8, <1>9

(* The invariant says what BodyReadRight does.                             *)
LEMMA BodyInvRight == BodyInv => BodyReadRight
<1> SUFFICES ASSUME BodyInv PROVE BodyReadRight
  OBVIOUS
<1>1. Len(Body) \in Nat /\ reader \in ReaderType /\ produced.sent \in Nat
      /\ produced.sent <= Len(Body) /\ plan \in Plans
  BY BodyConstants DEF BodyInv, BodyTypes, ProducedType
<1>2. reader.received \in Nat /\ reader.erred \in BOOLEAN /\ plan.compressed \in BOOLEAN
      /\ reader.out \in Seq(Chunks \cup Units)
  BY <1>1, StreamingAssumption DEF ReaderType
<1>3. ASSUME ~reader.erred
      PROVE  /\ IsPrefix(reader.out, Expected)
             /\ reader.eof => produced.silent \/ (reader.out = Expected /\ produced.whole)
  <2> DEFINE n == reader.received
  <2>1. n \in 0 .. Len(Body)
    BY <1>1, <1>2, <1>3 DEF BodyInv, Flow
  <2>2. /\ reader.eof => EndRead
        /\ plan.mode = "bytes" => BytesOut
        /\ plan.mode # "bytes" /\ ~Decodes => reader.out = Ids(n)
        /\ Decodes => DecodedOut
    BY <1>3 DEF BodyInv, OutRight
  <2>3. Expected \in Seq(Chunks \cup Units)
    BY ExpectedType
  <2>4. \A s \in Seq(Chunks \cup Units) : Begins(s, s) /\ Begins(<<>>, s)
    BY DEF Begins
  <2>5. SUFFICES /\ Begins(reader.out, Expected)
                 /\ reader.eof => produced.silent \/ (reader.out = Expected /\ produced.whole)
    BY <1>2, <2>3, BeginsIsPrefix
  <2>6. CASE EndOut
    BY <2>3, <2>4, <2>6 DEF EndOut, WholeRead, DroppedRead
  <2>7. CASE plan.mode = "bytes"
    <3>1. CASE ~reader.eof
      <4>1. reader.out = <<>>
        BY <2>2, <2>7, <3>1 DEF BytesOut
      <4>2. QED
        BY <2>3, <2>4, <3>1, <4>1
    <3>2. CASE reader.eof
      BY <2>2, <2>6, <2>7, <3>2 DEF BytesOut
    <3>3. QED
      BY <3>1, <3>2
  <2>8. CASE plan.mode # "bytes" /\ ~Decodes
    <3>1. Expected = Ids(Len(Body)) /\ reader.out = Ids(n)
      <4>1. ~(plan.compressed /\ plan.mode # "raw")
        BY <1>1, <2>8, StreamingAssumption DEF Decodes
      <4>2. QED
        BY <2>2, <2>8, <4>1, ExpectedIs
    <3>2. Begins(reader.out, Expected)
      BY <2>1, <3>1, FirstBegin
    <3>3. QED
      BY <2>2, <3>1, <3>2 DEF EndRead, WholeRead, DroppedRead
  <2>9. CASE Decodes
    <3>1. CASE reader.decoder = "finished"
      BY <2>2, <2>6, <2>9, <3>1 DEF DecodedOut
    <3>2. CASE reader.decoder # "finished"
      <4>1. reader.out = Flat(n) /\ ~reader.eof
        BY <2>2, <2>9, <3>2 DEF DecodedOut
      <4>2. Expected = Flat(Len(Body)) \o Residue
        BY <2>9, ExpectedIs DEF Decodes
      <4>3. QED
        BY <2>1, <4>1, <4>2, FirstBegin
    <3>3. QED
      BY <3>1, <3>2
  <2>10. QED
    BY <2>7, <2>8, <2>9
<1>4. plan.mode = "raw" \/ ~plan.compressed => Len(reader.out) <= plan.max_body
  BY DEF BodyInv, Limited
<1>5. QED
  BY <1>3, <1>4 DEF BodyReadRight

-----------------------------------------------------------------------------
(* Chunks pass from the server through the connection, the bridge and its  *)
(* channel to the reader in order, each once, and the reader's decoder has *)
(* been given exactly those it counts (send_h1_streaming,                  *)
(* StreamingResponse).                                                     *)
THEOREM BodyInvariance == StreamingSpec => []BodyInv
<1>1. StreamingInit => BodyInv
  <2> SUFFICES ASSUME StreamingInit PROVE BodyInv
    OBVIOUS
  <2>1. /\ plan \in Plans /\ phase = "start" /\ source = <<>> /\ channel = <<>>
        /\ produced = [sent |-> 0, stopped |-> FALSE, whole |-> FALSE, silent |-> FALSE]
        /\ bridge = [st |-> "off", item |-> Nothing, permits |-> 0]
        /\ reader = [st |-> "none", via |-> "h1", decoder |-> "uninit", received |-> 0,
                     buffer |-> <<>>, total |-> 0, out |-> <<>>, erred |-> FALSE, eof |-> FALSE]
    BY DEF StreamingInit
  <2>2. plan.max_body \in Nat
    BY <2>1, StreamingAssumption
  <2>3. BodyTypes
    BY <2>1, BodyConstants DEF BodyTypes, ProducedType, BridgeType, ReaderType
  <2>4. NotOpened /\ Opened /\ Flow
    BY <2>1 DEF NotOpened, Opened, Flow, Reads
  <2>5. Ids(0) = <<>>
    BY DEF Ids
  <2>6. OutRight
    BY <2>1, <2>5, FlatFacts DEF OutRight, BytesOut, DecodedOut
  <2>7. Limited
    BY <2>1, <2>2 DEF Limited
  <2>8. QED
    BY <2>3, <2>4, <2>6, <2>7 DEF BodyInv
<1>2. BodyInv /\ StreamingInv /\ [StreamingNext]_streaming_vars => BodyInv'
  <2> SUFFICES ASSUME BodyInv, StreamingInv, [StreamingNext]_streaming_vars PROVE BodyInv'
    OBVIOUS
  <2>1. CASE UNCHANGED streaming_vars
    BY <2>1, BodyUntouched DEF streaming_vars, call_vars
  <2>2. ASSUME NEW l \in Legs, OpenH2(l) \/ OpenH3(l) \/ OpenH1(l)
        PROVE  BodyInv'
    BY <2>2, OpensBody
  <2>3. CASE ReadAdvances
    BY <2>3, ChunkBody, EndBody
  <2>4. QED
    BY <2>1, <2>2, <2>3, CallKeepsBody, ServerBody, BridgeBody, ReadCallsBody DEF StreamingNext
<1>3. QED
  BY <1>1, <1>2, StreamingInvariance, PTL DEF StreamingSpec

(* A streamed body, read raw, decoded or whole, over any transport: the    *)
(* reader has a prefix of it and never more than the limit, and at an end  *)
(* without an error all of it, unless the H2 driver dropped the body in    *)
(* silence (StreamingResponse::chunk, chunk_decoded, bytes).               *)
THEOREM BodyIsReadRight == StreamingSpec => []BodyReadRight
  BY BodyInvRight, BodyInvariance, PTL
=============================================================================
