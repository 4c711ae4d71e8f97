------------------------------- MODULE FfiOps -------------------------------
(***************************************************************************)
(* Asynchronous operations of the C interface: the handle an application   *)
(* polls, waits on, cancels, takes the result of and frees; the task of    *)
(* the runtime that answers it; the client's count of outstanding          *)
(* operations; and a streaming response read through such operations.      *)
(*                                                                         *)
(* The README of the interface lets any thread use an operation, but only  *)
(* one at a time a streaming response: `owner` is where that thread is in  *)
(* its call.  A step below is what runs under one lock (or one exchange of *)
(* the counter).  Calls that return an error and change nothing are left   *)
(* out; so are null and stale handles, and reads of headers.               *)
(***************************************************************************)
EXTENDS Naturals, FiniteSets

CONSTANTS
    Reads,          \* operations of lk_stream_read_async
    Others,         \* the other operations
    Kinds,          \* what the others may be
    Sleepers,       \* threads that call lk_op_wait
    Nobody,         \* a thread that does not wait
    MaxOutstanding, \* ClientShared::max_outstanding_ops
    Chunks          \* bound: chunks of the response body

Ops == Reads \union Others

AllKinds == {"response", "streaming", "preconnect", "session", "proxy", "probe"}

ASSUME FfiAssumption ==
    /\ IsFiniteSet(Reads) /\ IsFiniteSet(Others) /\ Reads \intersect Others = {}
    /\ Kinds \subseteq AllKinds
    /\ Nobody \notin Ops
    /\ MaxOutstanding \in Nat
    /\ Chunks \in Nat

VARIABLES
    kind,        \* what each operation is
    op_handle,   \* its handle: none, reserved, live, freeing, freed
    result,      \* OpState::result
    worker,      \* its task: none, running, publishing, done, dead
    outcome,     \* what a read task is about to publish
    cleaning,    \* cleanup closures about to run
    outstanding, \* ClientShared::outstanding_ops
    asleep,      \* the operation a thread sleeps on
    owner,       \* the stream's thread: <<where, operation>>
    lifecycle,   \* StreamingState::lifecycle
    response,    \* StreamingState::response is Some
    active_read_op,
    pos,         \* chunks read off the response
    got,         \* ghost: operations whose task read a chunk
    chunk_lost,  \* ghost: a chunk went with a cancelled operation
    overrun      \* ghost: a cleanup ran during a synchronous read

op_vars == <<kind, op_handle, result, worker, outcome, cleaning, outstanding, asleep>>
stream_vars == <<owner, lifecycle, response, active_read_op, pos, got, chunk_lost, overrun>>
ffi_vars == <<op_vars, stream_vars>>

Idle == <<"idle", Nobody>>

FfiTypeOK ==
    /\ kind \in [Ops -> AllKinds \union {"read"}]
    /\ op_handle \in [Ops -> {"none", "reserved", "live", "freeing", "freed"}]
    /\ result \in [Ops -> {"progress", "ok", "err", "cancelled", "consumed"}]
    /\ worker \in [Ops -> {"none", "running", "publishing", "done", "dead"}]
    /\ outcome \in [Ops -> {"ok", "err"}]
    /\ cleaning \subseteq Reads
    /\ outstanding \in 0..MaxOutstanding
    /\ asleep \in [Sleepers -> Ops \union {Nobody}]
    /\ owner \in {Idle, <<"reading", Nobody>>} \union ({"open", "eof"} \X Reads)
                 \union ({"reserved"} \X Reads)
    /\ lifecycle \in {"Open", "Eof", "Failed", "Closed"}
    /\ response \in BOOLEAN /\ active_read_op \in BOOLEAN
    /\ pos \in 0..Chunks
    /\ got \subseteq Reads

-----------------------------------------------------------------------------
OpKinds ==
    {k \in [Ops -> Kinds \union {"read"}] : \A o \in Ops : k[o] = "read" <=> o \in Reads}

FfiInit ==
    /\ kind \in OpKinds
    /\ op_handle = [o \in Ops |-> "none"]
    /\ result = [o \in Ops |-> "progress"]
    /\ worker = [o \in Ops |-> "none"]
    /\ outcome = [o \in Ops |-> "err"]
    /\ cleaning = {}
    /\ outstanding = 0
    /\ asleep = [w \in Sleepers |-> Nobody]
    /\ owner = Idle
    /\ lifecycle = "Open" /\ response = TRUE /\ active_read_op = FALSE
    /\ pos = 0
    /\ got = {} /\ chunk_lost = FALSE /\ overrun = FALSE

-----------------------------------------------------------------------------
(* Starting an operation that is no read                                   *)

CountedOp(o) == kind[o] \notin {"proxy", "probe"}

try_reserve_outstanding == outstanding < MaxOutstanding

ForgetsRelease == UNCHANGED outstanding

release_outstanding == outstanding' = outstanding - 1

ReserveOp(o) ==
    /\ o \in Others /\ op_handle[o] = "none" /\ CountedOp(o)
    /\ try_reserve_outstanding
    /\ outstanding' = outstanding + 1
    /\ op_handle' = [op_handle EXCEPT ![o] = "reserved"]
    /\ UNCHANGED <<kind, result, worker, outcome, cleaning, asleep, stream_vars>>

StartTask(o) ==
    /\ o \in Others /\ op_handle[o] = IF CountedOp(o) THEN "reserved" ELSE "none"
    /\ op_handle' = [op_handle EXCEPT ![o] = "live"]
    /\ worker' = [worker EXCEPT ![o] = "running"]
    /\ UNCHANGED <<kind, result, outcome, cleaning, outstanding, asleep, stream_vars>>

(* The session of the request was given back, or the URL is not text.      *)
StartRefused(o) ==
    /\ o \in Others /\ op_handle[o] = "reserved"
    /\ kind[o] \in {"response", "streaming", "preconnect"}
    /\ release_outstanding
    /\ op_handle' = [op_handle EXCEPT ![o] = "freed"]
    /\ UNCHANGED <<kind, result, worker, outcome, cleaning, asleep, stream_vars>>

-----------------------------------------------------------------------------
(* Answering, cancelling and freeing                                       *)

WakesNobody(o) == UNCHANGED asleep

Notify(o) == asleep' = [w \in Sleepers |-> IF asleep[w] = o THEN Nobody ELSE asleep[w]]

OverwritesResult(o, r) == result' = [result EXCEPT ![o] = r]

(* The answer of a task is kept if nobody has cancelled meanwhile; the     *)
(* task of a SOCKS5 probe does not look.                                   *)
Publish(o, r) ==
    result' = [result EXCEPT ![o] = IF @ = "progress" \/ kind[o] = "probe" THEN r ELSE @]

(* The end of the task of an operation that is no read.                    *)
TaskAnswers(o) ==
    /\ o \in Others /\ worker[o] = "running"
    /\ worker' = [worker EXCEPT ![o] = "done"]
    /\ \E r \in {"ok", "err"} :
         /\ kind[o] \in {"session", "proxy"} => r = "ok"
         /\ Publish(o, r)
    /\ Notify(o)
    /\ UNCHANGED <<kind, op_handle, outcome, cleaning, outstanding, stream_vars>>

(* abort() stops a task at an await; a task past its last one goes on.     *)
AbortTask(o) ==
    \/ worker' = worker
    \/ worker[o] = "running" /\ worker' = [worker EXCEPT ![o] = "dead"]

lk_op_cancel(o) ==
    /\ op_handle[o] = "live" /\ result[o] = "progress"
    /\ AbortTask(o)
    /\ result' = [result EXCEPT ![o] = "cancelled"]
    /\ cleaning' = cleaning \union ({o} \intersect Reads)
    /\ Notify(o)
    /\ UNCHANGED <<kind, op_handle, outcome, outstanding, stream_vars>>

(* Drop of OpHandle; no other thread may be in a call on the handle.       *)
lk_op_free(o) ==
    /\ op_handle[o] = "live" /\ o \notin cleaning
    /\ \A w \in Sleepers : asleep[w] # o
    /\ op_handle' = [op_handle EXCEPT ![o] = "freeing"]
    /\ AbortTask(o)
    /\ cleaning' = IF result[o] = "progress" THEN cleaning \union ({o} \intersect Reads)
                   ELSE cleaning
    /\ UNCHANGED <<kind, result, outcome, outstanding, asleep, stream_vars>>

DropsResponse == response' = FALSE /\ active_read_op' = FALSE /\ UNCHANGED lifecycle

CloseStream == response' = FALSE /\ active_read_op' = FALSE /\ lifecycle' = "Closed"

(* The cleanup closure of a read: the stream cannot be read any more, for  *)
(* the chunk of the aborted task is gone.                                  *)
Cleanup(o) ==
    /\ o \in cleaning
    /\ cleaning' = cleaning \ {o}
    /\ CloseStream
    /\ chunk_lost' = (chunk_lost \/ o \in got)
    /\ overrun' = (overrun \/ owner[1] = "reading")
    /\ UNCHANGED <<kind, op_handle, result, worker, outcome, outstanding, asleep, owner, pos, got>>

AlwaysGivesBack(o) == TRUE

GivesBack(o) == CountedOp(o)

FreeEnds(o) ==
    /\ op_handle[o] = "freeing" /\ o \notin cleaning
    /\ op_handle' = [op_handle EXCEPT ![o] = "freed"]
    /\ IF GivesBack(o) THEN release_outstanding ELSE UNCHANGED outstanding
    /\ UNCHANGED <<kind, result, worker, outcome, cleaning, asleep, stream_vars>>

-----------------------------------------------------------------------------
(* Waiting and taking                                                      *)

lk_op_wait(w, o) ==
    /\ asleep[w] = Nobody
    /\ op_handle[o] = "live" /\ result[o] = "progress"
    /\ asleep' = [asleep EXCEPT ![w] = o]
    /\ UNCHANGED <<kind, op_handle, result, worker, outcome, cleaning, outstanding, stream_vars>>

WaitTimesOut(w) ==
    /\ asleep[w] # Nobody
    /\ asleep' = [asleep EXCEPT ![w] = Nobody]
    /\ UNCHANGED <<kind, op_handle, result, worker, outcome, cleaning, outstanding, stream_vars>>

(* A take of the wrong kind, or too early, puts the result back; the empty *)
(* result of a preconnect is consumed by any of them.                      *)
Take(o, kinds, r) ==
    /\ op_handle[o] = "live" /\ kind[o] \in kinds /\ result[o] = r
    /\ result' = [result EXCEPT ![o] = "consumed"]
    /\ UNCHANGED <<kind, op_handle, worker, outcome, cleaning, outstanding, asleep, stream_vars>>

lk_op_take_response(o) == Take(o, {"response", "preconnect"}, "ok")
lk_op_take_streaming_response(o) == Take(o, {"streaming", "preconnect"}, "ok")
lk_op_take_chunk(o) == Take(o, {"read", "preconnect"}, "ok")
lk_op_take_proxy_guard(o) == Take(o, {"proxy", "preconnect"}, "ok")
lk_op_take_session_pool_guard(o) == Take(o, {"session", "preconnect"}, "ok")
lk_op_take_socks5_udp_probe_report(o) == Take(o, {"probe", "preconnect"}, "ok")
lk_op_take_error(o) == Take(o, AllKinds \union {"read"}, "err")

-----------------------------------------------------------------------------
(* The stream: lk_stream_read_async in its three steps                     *)

ReadLooks(o) ==
    /\ owner = Idle /\ op_handle[o] = "none"
    /\ \/ lifecycle = "Open" /\ ~active_read_op /\ owner' = <<"open", o>>
       \/ lifecycle = "Eof" /\ owner' = <<"eof", o>>
    /\ UNCHANGED <<op_vars, lifecycle, response, active_read_op, pos, got, chunk_lost, overrun>>

(* At the end of the body the operation is complete as it starts.          *)
ReadReserves(o) ==
    /\ owner \in {<<"open", o>>, <<"eof", o>>}
    /\ IF try_reserve_outstanding
       THEN /\ outstanding' = outstanding + 1
            /\ owner' = IF owner[1] = "eof" THEN Idle ELSE <<"reserved", o>>
            /\ op_handle' = [op_handle EXCEPT ![o] =
                                IF owner[1] = "eof" THEN "live" ELSE "reserved"]
            /\ result' = [result EXCEPT ![o] = IF owner[1] = "eof" THEN "ok" ELSE @]
       ELSE owner' = Idle /\ UNCHANGED <<outstanding, op_handle, result>>
    /\ UNCHANGED <<kind, worker, outcome, cleaning, asleep, lifecycle, response, active_read_op,
                   pos, got, chunk_lost, overrun>>

(* The stream may have been closed since the first look.                   *)
ReadTakes(o) ==
    /\ owner = <<"reserved", o>>
    /\ owner' = Idle
    /\ IF lifecycle = "Open" /\ ~active_read_op /\ response
       THEN /\ active_read_op' = TRUE /\ response' = FALSE
            /\ op_handle' = [op_handle EXCEPT ![o] = "live"]
            /\ worker' = [worker EXCEPT ![o] = "running"]
            /\ UNCHANGED outstanding
       ELSE /\ release_outstanding
            /\ op_handle' = [op_handle EXCEPT ![o] = "freed"]
            /\ UNCHANGED <<active_read_op, response, worker>>
    /\ UNCHANGED <<kind, result, outcome, cleaning, asleep, lifecycle, pos, got,
                   chunk_lost, overrun>>

(* What reading a response can give.                                       *)
Reading == {"error"} \union (IF pos < Chunks THEN {"chunk"} ELSE {"end"})

(* What it does to the stream.                                             *)
Note(r) ==
    /\ lifecycle' = CASE r = "chunk" -> lifecycle [] r = "end" -> "Eof"
                      [] r = "error" -> "Failed"
    /\ response' = (r = "chunk" \/ response)
    /\ pos' = IF r = "chunk" THEN pos + 1 ELSE pos

OverlooksClosed == FALSE

SeesClosed == lifecycle = "Closed"

(* The task of a read, under the lock of the stream: the end, a failure or *)
(* a chunk is noted there first; on a closed stream all are dropped.       *)
TaskReads(o) ==
    /\ o \in Reads /\ worker[o] = "running"
    /\ worker' = [worker EXCEPT ![o] = "publishing"]
    /\ active_read_op' = FALSE
    /\ IF SeesClosed
       THEN /\ outcome' = [outcome EXCEPT ![o] = "err"]
            /\ UNCHANGED <<lifecycle, response, pos, got>>
       ELSE \E r \in Reading :
              /\ Note(r)
              /\ outcome' = [outcome EXCEPT ![o] = IF r = "error" THEN "err" ELSE "ok"]
              /\ got' = IF r = "chunk" THEN got \union {o} ELSE got
    /\ UNCHANGED <<kind, op_handle, result, cleaning, outstanding, asleep, owner,
                   chunk_lost, overrun>>

(* Then, under the lock of the operation, its result.                      *)
TaskPublishes(o) ==
    /\ worker[o] = "publishing"
    /\ worker' = [worker EXCEPT ![o] = "done"]
    /\ Publish(o, outcome[o])
    /\ Notify(o)
    /\ UNCHANGED <<kind, op_handle, outcome, cleaning, outstanding, stream_vars>>

(* lk_stream_read blocks between the two locks of the stream, and does not *)
(* look at the lifecycle again.                                            *)
ReadBegins ==
    /\ owner = Idle
    /\ lifecycle = "Open" /\ ~active_read_op /\ response
    /\ response' = FALSE
    /\ owner' = <<"reading", Nobody>>
    /\ UNCHANGED <<op_vars, lifecycle, active_read_op, pos, got, chunk_lost, overrun>>

ReadEnds ==
    /\ owner[1] = "reading"
    /\ owner' = Idle
    /\ \E r \in Reading : Note(r)
    /\ UNCHANGED <<op_vars, active_read_op, got, chunk_lost, overrun>>

lk_stream_close ==
    /\ owner = Idle
    /\ CloseStream
    /\ UNCHANGED <<op_vars, owner, pos, got, chunk_lost, overrun>>

-----------------------------------------------------------------------------
OpStep(o) ==
    \/ ReserveOp(o) \/ StartTask(o) \/ StartRefused(o) \/ TaskAnswers(o)
    \/ lk_op_cancel(o) \/ lk_op_free(o) \/ Cleanup(o) \/ FreeEnds(o)
    \/ lk_op_take_response(o) \/ lk_op_take_streaming_response(o) \/ lk_op_take_chunk(o)
    \/ lk_op_take_proxy_guard(o) \/ lk_op_take_session_pool_guard(o)
    \/ lk_op_take_socks5_udp_probe_report(o) \/ lk_op_take_error(o)

ReadStep(o) ==
    ReadLooks(o) \/ ReadReserves(o) \/ ReadTakes(o) \/ TaskReads(o) \/ TaskPublishes(o)

FfiNext ==
    \/ \E o \in Ops : OpStep(o)
    \/ \E o \in Reads : ReadStep(o)
    \/ \E w \in Sleepers : WaitTimesOut(w) \/ \E o \in Ops : lk_op_wait(w, o)
    \/ ReadBegins \/ ReadEnds \/ lk_stream_close

FfiSpec == FfiInit /\ [][FfiNext]_ffi_vars

-----------------------------------------------------------------------------
(* The counter is the number of counted operations that are being started  *)
(* or whose handle is not freed: calls that fail half way and handles that *)
(* are freed or cancelled at any moment give their slot back once, so the  *)
(* client neither loses capacity nor exceeds max_outstanding_ops.          *)
OutstandingExact ==
    /\ FfiTypeOK
    /\ outstanding = Cardinality({o \in Ops : CountedOp(o)
                                    /\ op_handle[o] \in {"reserved", "live", "freeing"}})

(* A thread that sleeps in lk_op_wait sleeps on an operation in progress   *)
(* whose task is still going to answer: no result, no cancellation and no  *)
(* abort passes a sleeper by.                                              *)
SleepersWillWake ==
    \A w \in Sleepers : asleep[w] # Nobody =>
        /\ result[asleep[w]] = "progress"
        /\ worker[asleep[w]] \in {"running", "publishing"}

(* An open stream can be read: its response is in place, or a read is      *)
(* under way that will put it back, or will close the stream.  However     *)
(* reads are cancelled and freed, it is never left open but unreadable     *)
(* ("stream response missing") or busy for good.                           *)
StreamReadable ==
    lifecycle = "Open" =>
        IF active_read_op
        THEN \E o \in Reads : worker[o] = "running" \/ o \in cleaning
        ELSE response \/ owner[1] = "reading"

(* A stream that lost a chunk to a cancelled read does not end well: its   *)
(* reader never gets to a clean end of the body, except a synchronous read *)
(* that was under way when the stream was closed.                          *)
EndIsWhole == lifecycle = "Eof" /\ chunk_lost => overrun

(* What lk_stream_read and lk_stream_read_async promise: a stream stays    *)
(* readable, and its end is the end of the body.                           *)
ReadsSound == StreamReadable /\ EndIsWhole

Forward(from, to) ==
    \/ from = to
    \/ from = "progress" /\ to \in {"ok", "err", "cancelled"}
    \/ from \in {"ok", "err"} /\ to = "consumed"

(* The result of an operation is settled once and consumed once: neither a *)
(* late answer nor a second take brings it back, and a cancelled operation *)
(* stays cancelled.  The tasks of probes do not keep to this.              *)
SettledOnce ==
    [][\A o \in Ops : kind[o] # "probe" /\ op_handle[o] # "none"
                       => Forward(result[o], result'[o])]_ffi_vars
=============================================================================
