------------------------------ MODULE Request ------------------------------
(***************************************************************************)
(* One call of RequestBuilder::send: the retry loop, the redirect loop with  *)
(* HSTS and https_only, and the transports a hop is sent over: a pooled     *)
(* connection, a TCP dial, a QUIC dial, or both in a race.  A job is one     *)
(* future that carries the request; the server may process what a job has   *)
(* sent, and any job may fail at any point.                                  *)
(***************************************************************************)
EXTENDS Naturals, FiniteSets

CONSTANTS
    Sites,          \* hosts
    Calls,          \* the calls made: [method, idempotent, url, policy], where
                    \* policy is [https_only, follow, fallback] of the session
    MaxRedirects,   \* RedirectPolicy::max_redirects
    MaxRetries,     \* RetryPolicy: max_retries
    Statuses        \* statuses servers answer with

\* GET stands for the safe methods, POST for those with a body.
Methods == {"GET", "POST"}
Urls == [scheme : {"http", "https"}, site : Sites]

ASSUME RequestAssumption ==
    /\ {MaxRedirects, MaxRetries} \subseteq Nat
    /\ Statuses \subseteq {"ok", "503", "303", "307", "304"}
    /\ Calls \subseteq [method : Methods, idempotent : BOOLEAN, url : Urls,
                        policy : [https_only : BOOLEAN, follow : BOOLEAN,
                                  fallback : BOOLEAN]]

VARIABLES
    call,     \* the caller's request and the session's policy
    cur,      \* current url, method and headers of the redirect loop
    stage,    \* where the call is
    job,      \* [st, via, err] of the futures of this hop, a main and an other one
    count,    \* [attempt, remaining]
    hsts,     \* DynamicHsts::hosts
    record    \* history: what was sent where, and what was processed twice

request_vars == <<call, cur, stage, job, count, hsts, record>>

NoJob == [st |-> "off", via |-> "tcp", err |-> "none"]
Jobs == {"main", "other"}
NoJobs == [j \in Jobs |-> NoJob]
OtherJob(j) == IF j = "main" THEN "other" ELSE "main"
Dialing(via) == [st |-> "connecting", via |-> via, err |-> "none"]

\* Per-request headers: Authorization, Referer, the body's, .cookie() pairs.
AllHeaders == {"authorization", "referer", "content", "cookie"}

Original == [url |-> call.url, method |-> call.method,
             headers |-> IF call.method = "POST" THEN AllHeaders
                                                 ELSE AllHeaders \ {"content"}]

RequestInit ==
    /\ call \in Calls
    /\ cur = Original
    /\ stage = "top" /\ job = NoJobs
    /\ count = [attempt |-> 0, remaining |-> MaxRedirects]
    /\ hsts = {}
    /\ record = [served |-> {}, twice |-> FALSE, causes |-> {}, leak |-> {},
                 clear |-> FALSE, left |-> FALSE]

-----------------------------------------------------------------------------
(* The ends of a try *)

\* can_send_early_data.
Safe == call.method = "GET" \/ call.idempotent

\* Error::is_retryable and is_safe_to_replay.
Retryable(err) == err \in {"connect", "race", "refused", "closed", "timeout"}
SafeToReplay(err) == err \in {"connect", "race", "refused"}

\* A retry: from_shared_context starts over, with a new deadline.
Again(why) ==
    /\ count' = [attempt |-> count.attempt + 1, remaining |-> MaxRedirects]
    /\ cur' = Original /\ stage' = "top"
    /\ record' = [record EXCEPT
                    !.served = IF @ = {} THEN {} ELSE {"past"},
                    !.left = FALSE, !.causes = @ \cup why]

\* The retry loop on an error.
RetriesOnAnyError(err) ==
    IF count.attempt < MaxRetries /\ Retryable(err)
    THEN Again({})
    ELSE /\ stage' = "failed" /\ UNCHANGED <<cur, count, record>>
EndTry(err) ==
    IF count.attempt < MaxRetries /\ Retryable(err) /\ (SafeToReplay(err) \/ Safe)
    THEN Again((IF err = "race" THEN {"gate"} ELSE {}) \cup
               (IF count.remaining < MaxRedirects THEN {"gate"} ELSE {}))
    ELSE /\ stage' = "failed" /\ UNCHANGED <<cur, count, record>>

\* Errors the retry policies never retry: Http, UrlParse, TooManyRedirects.
Fails == stage' = "failed" /\ UNCHANGED <<cur, count, record>>

-----------------------------------------------------------------------------
(* The redirect loop *)

Upgraded(url) ==
    IF url.site \in hsts THEN [url EXCEPT !.scheme = "https"] ELSE url

\* The top of the loop: hsts_upgrade, then https_only.
UpgradesFirstOnly ==
    /\ stage = "top" /\ job' = NoJobs
    /\ LET url == IF count.remaining = MaxRedirects THEN Upgraded(cur.url) ELSE cur.url
       IN  IF call.policy.https_only /\ url.scheme = "http" THEN Fails
           ELSE /\ cur' = [cur EXCEPT !.url = url] /\ stage' = "acquire"
                /\ UNCHANGED <<count, record>>
    /\ UNCHANGED <<call, hsts>>
Top ==
    /\ stage = "top" /\ job' = NoJobs
    /\ LET url == Upgraded(cur.url)
       IN  IF call.policy.https_only /\ url.scheme = "http" THEN Fails
           ELSE /\ cur' = [cur EXCEPT !.url = url] /\ stage' = "acquire"
                /\ UNCHANGED <<count, record>>
    /\ UNCHANGED <<call, hsts>>

\* redirect_is_cross_origin.
CrossOrigin(from, to) == from # to

Stripped(headers, from, to, status) ==
    headers \ ((IF CrossOrigin(from, to) THEN {"authorization", "cookie"} ELSE {})
                 \cup (IF from.scheme = "https" /\ to.scheme = "http"
                       THEN {"referer"} ELSE {})
                 \cup (IF status = "303" THEN {"content"} ELSE {}))

\* "303" stands for 301, 302 and 303, "307" for 307 and 308.
KeepsHeaders(to, status) ==
    /\ cur' = [cur EXCEPT !.url = to, !.method = IF status = "303" THEN "GET" ELSE @]
    /\ stage' = "top"
    /\ count' = [count EXCEPT !.remaining = @ - 1]
    /\ record' = [record EXCEPT !.served = IF "hop" \in @ THEN (@ \ {"hop"}) \cup {"try"}
                                                          ELSE @,
                                !.left = @ \/ CrossOrigin(cur.url, to)]
Follow(to, status) ==
    /\ cur' = [url |-> to, method |-> IF status = "303" THEN "GET" ELSE cur.method,
               headers |-> Stripped(cur.headers, cur.url, to, status)]
    /\ stage' = "top"
    /\ count' = [count EXCEPT !.remaining = @ - 1]
    /\ record' = [record EXCEPT !.served = IF "hop" \in @ THEN (@ \ {"hop"}) \cup {"try"}
                                                          ELSE @,
                                !.left = @ \/ CrossOrigin(cur.url, to)]

\* What the loops do with a response; its Strict-Transport-Security header
\* may add the host or remove it.
Answered(status) ==
    IF status \in {"303", "307", "304"} /\ call.policy.follow
    THEN \/ Fails   \* no redirects left, or no usable Location
         \/ /\ count.remaining > 0
            /\ IF status = "304"
               THEN stage' = "answered" /\ UNCHANGED <<cur, count, record>>
               ELSE \E to \in Urls : Follow(to, status)
    ELSE IF status = "503" /\ count.attempt < MaxRetries
         THEN Again({"resend"})
         ELSE stage' = "answered" /\ UNCHANGED <<cur, count, record>>

-----------------------------------------------------------------------------
(* A hop *)

\* try_acquire_pooled, and the stale connection that is evicted unused.
AcquirePooled ==
    /\ stage = "acquire" /\ stage' = "pooled"
    /\ \E via \in {"h1", "h2", "h3"} :
         job' = [NoJobs EXCEPT !["main"] = Dialing(via)]
    /\ UNCHANGED <<call, cur, count, hsts, record>>

\* establish_and_send with the decision of decide_protocol; cleartext is TCP.
Establish ==
    /\ stage \in {"acquire", "reestablish"}
    /\ \/ stage' = "single" /\ job' = [NoJobs EXCEPT !["main"] = Dialing("tcp")]
       \/ /\ cur.url.scheme = "https"
          /\ stage' \in {"single", "race"}
          /\ job' = [NoJobs EXCEPT !["main"] = Dialing("h3")]
    /\ UNCHANGED <<call, cur, count, hsts, record>>

InHop == stage \in {"pooled", "single", "race", "last"}

\* The request leaves over job j.  A TCP dial settles on h2 or h1 by ALPN.
Transmit(j) ==
    /\ InHop /\ job[j].st = "connecting"
    /\ \E via \in IF job[j].via = "tcp" THEN {"h1", "h2"} ELSE {job[j].via} :
         job' = [job EXCEPT ![j] = [@ EXCEPT !.st = "sent", !.via = via]]
    /\ record' = [record EXCEPT
         !.leak = IF record.left THEN @ \cup (cur.headers \cap {"authorization", "cookie"})
                                 ELSE @,
         !.clear = @ \/ (cur.url.scheme = "http"
                           /\ (call.policy.https_only \/ cur.url.site \in hsts)),
         !.causes = IF job[OtherJob(j)].st \in {"sent", "processed", "failed"}
                    THEN @ \cup {"resend"} ELSE @]
    /\ UNCHANGED <<call, cur, stage, count, hsts>>

\* The server acts on what job j has sent.
Process(j) ==
    /\ InHop /\ job[j].st = "sent"
    /\ job' = [job EXCEPT ![j].st = "processed"]
    /\ record' = IF cur.method = "POST" /\ ~Safe
                 THEN [record EXCEPT !.twice = @ \/ record.served \cap {"hop", "past"} # {},
                                     !.served = @ \cup {"hop"}]
                 ELSE record
    /\ UNCHANGED <<call, cur, stage, count, hsts>>

\* The response of job j; the other future is dropped.
Respond(j) ==
    /\ InHop /\ job[j].st = "processed" /\ job' = NoJobs
    /\ \E status \in Statuses : Answered(status)
    /\ \/ hsts' \in {hsts \cup {cur.url.site}, hsts \ {cur.url.site}}
       \/ UNCHANGED hsts
    /\ UNCHANGED call

-----------------------------------------------------------------------------
(* Failures *)

\* What may befall job j: the connection is not made, the connection limit is
\* reached, the stream is refused, the connection closes, another error.
Mishap(j, err) ==
    \/ job[j].st = "connecting" /\ err = "connect"
    \/ job[j].st = "connecting" /\ err = "limit" /\ stage # "pooled"
    \/ job[j].st = "sent" /\ err = "refused" /\ job[j].via = "h2"
    \/ job[j].st \in {"sent", "processed"} /\ err \in {"closed", "timeout"}

ClosedClass(err) == err \in {"closed", "refused"}

\* A pooled connection that closed is replaced by a new one.
PooledFails(err) ==
    /\ stage = "pooled" /\ Mishap("main", err)
    /\ IF job["main"].st = "connecting" \/ (ClosedClass(err) /\ call.policy.fallback)
       THEN /\ stage' = "reestablish" /\ job' = NoJobs
            /\ record' = [record EXCEPT !.causes =
                            IF job["main"].st = "processed" THEN @ \cup {"resend"} ELSE @]
            /\ UNCHANGED <<cur, count>>
       ELSE job' = NoJobs /\ EndTry(err)
    /\ UNCHANGED <<call, hsts>>

\* Inside the future of job j: QUIC falls back to TCP when the handshake
\* fails, h2 falls back to h1 when the connection or the stream fails.
FallsBack(j, err) ==
    \/ job[j].via = "h3" /\ err = "connect" /\ call.policy.fallback
    \/ /\ job[j].via = "h2" /\ job[j].st # "connecting"
       /\ err \in {"closed", "refused"} /\ call.policy.fallback

JobFallsBack(j, err) ==
    /\ stage \in {"single", "race", "last"} /\ Mishap(j, err) /\ FallsBack(j, err)
    /\ job' = [job EXCEPT ![j] = Dialing(IF job[j].via = "h3" THEN "tcp" ELSE "h1")]
    /\ record' = [record EXCEPT !.causes =
                    IF job[j].st = "processed" THEN @ \cup {"resend"} ELSE @]
    /\ UNCHANGED <<call, cur, stage, count, hsts>>

\* The job that is alone.  In a race ("last") its error is protocol_race_error,
\* a connection error whatever it was.
SingleFails(err) ==
    /\ stage \in {"single", "last"} /\ Mishap("main", err) /\ ~FallsBack("main", err)
    /\ job' = NoJobs /\ EndTry(IF stage = "last" THEN "race" ELSE err)
    /\ UNCHANGED <<call, hsts>>

\* establish_and_send_race: the TCP job starts after the delay, or at once
\* when the QUIC job fails before that.
ReleaseTcp ==
    /\ stage = "race" /\ job["other"].st = "off" /\ job["main"].st # "failed"
    /\ job' = [job EXCEPT !["other"] = Dialing("tcp")]
    /\ UNCHANGED <<call, cur, stage, count, hsts, record>>

OnlyTcp ==
    /\ stage' = "last" /\ job' = [NoJobs EXCEPT !["main"] = Dialing("tcp")]
    /\ record' = [record EXCEPT !.causes = IF "hop" \in record.served
                                           THEN @ \cup {"resend"} ELSE @]

\* The first job of a race fails.
RaceJobFails(j, err) ==
    /\ stage = "race" /\ Mishap(j, err) /\ ~FallsBack(j, err)
    /\ job[OtherJob(j)].st # "failed"
    /\ IF job[OtherJob(j)].st = "off" THEN OnlyTcp
       ELSE /\ job' = [job EXCEPT ![j] = [@ EXCEPT !.st = "failed", !.err = err]]
            /\ UNCHANGED <<stage, record>>
    /\ UNCHANGED <<call, cur, count, hsts>>

\* The second fails: TCP is dialled again if the connection limit stopped it,
\* now that QUIC's reservation is gone.
RaceFails(j, err) ==
    /\ stage = "race" /\ Mishap(j, err) /\ ~FallsBack(j, err)
    /\ job[OtherJob(j)].st = "failed"
    /\ IF (IF j = "other" THEN err ELSE job["other"].err) = "limit"
       THEN OnlyTcp /\ UNCHANGED <<cur, count>>
       ELSE job' = NoJobs /\ EndTry("race")
    /\ UNCHANGED <<call, hsts>>

\* The deadline of the try drops the futures of the hop.
RaceHasNoDeadline ==
    /\ stage \in {"acquire", "reestablish", "pooled", "single"}
    /\ job' = NoJobs /\ EndTry("timeout")
    /\ UNCHANGED <<call, hsts>>
Deadline ==
    /\ stage \in {"acquire", "reestablish", "pooled", "single", "race", "last"}
    /\ job' = NoJobs /\ EndTry("timeout")
    /\ UNCHANGED <<call, hsts>>

Errors == {"connect", "limit", "refused", "closed", "timeout"}

RequestNext ==
    \/ Top \/ AcquirePooled \/ Establish \/ ReleaseTcp \/ Deadline
    \/ \E j \in Jobs : Transmit(j) \/ Process(j) \/ Respond(j)
    \/ \E err \in Errors :
         \/ PooledFails(err) \/ SingleFails(err)
         \/ \E j \in Jobs : JobFallsBack(j, err) \/ RaceJobFails(j, err)
                              \/ RaceFails(j, err)

RequestSpec == RequestInit /\ [][RequestNext]_request_vars

-----------------------------------------------------------------------------
(* Properties *)

\* After a redirect to another origin neither the Authorization header nor the
\* .cookie() pairs of the request are sent, over any transport, also when a
\* later redirect leads back (send_with_redirects).
CredentialsStayHome == record.leak = {}

\* Nothing is sent in the clear to a host that an earlier response of the call
\* made HTTPS-only, nor at all under https_only; retries and fallbacks included.
NoCleartext == ~record.clear

\* The server acts twice on one unsafe request only where the client resends
\* outside the gate of retry_is_replay_safe (a pooled connection that closed,
\* h2 to h1, a race), where a status asks for a retry, or where that gate
\* judges by the error of a later hop or of a race.
DuplicatesExplained == record.twice => record.causes # {}

\* "A non-idempotent POST that failed *after* transmission must surface the
\* error rather than be silently re-sent": the retry loop alone never makes a
\* server act twice.  (Retries on a status are documented to do so.)
RetriesAreSafe ==
    record.twice => "resend" \in record.causes

\* Every call that is under way ends, through all its redirects, fallbacks and
\* retries: each of its tries has a deadline (send_single_request).
CallEnds == stage # "top" ~> stage \in {"answered", "failed"}
=============================================================================
