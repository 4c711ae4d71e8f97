---------------------------- MODULE FfiOpsProofs ----------------------------
(* Proofs about the operations of the C interface: the slots they hold, the *)
(* threads that sleep on them, and the streaming response read through     *)
(* them.                                                                   *)
EXTENDS FfiOps, FiniteSetTheorems, TLAPS

-----------------------------------------------------------------------------
(* The invariant                                                           *)

Slots == {o \in Ops : CountedOp(o) /\ op_handle[o] \in {"reserved", "live", "freeing"}}

\* What an operation is, and what has been done for it, by its handle.
HandlesSound ==
    /\ \A o \in Ops : kind[o] = "read" <=> o \in Reads
    /\ \A o \in Ops : op_handle[o] \in {"none", "reserved"} =>
          worker[o] = "none" /\ result[o] = "progress" /\ o \notin cleaning
    /\ \A o \in Ops : op_handle[o] = "live" /\ result[o] = "progress" =>
          worker[o] \in {"running", "publishing"}
    /\ \A o \in Others : worker[o] # "publishing"

\* The thread of the stream and the operation it is starting.
OwnerSound ==
    \A o \in Reads :
        /\ owner \in {<<"open", o>>, <<"eof", o>>} => op_handle[o] = "none"
        /\ owner = <<"reserved", o>> => op_handle[o] = "reserved"

\* Nobody sleeps on an operation that is settled or given up.
SleepersOnLive ==
    \A w \in Sleepers : asleep[w] # Nobody =>
        asleep[w] \in Ops /\ op_handle[asleep[w]] = "live" /\ result[asleep[w]] = "progress"

\* On an open stream a reading task still answers its caller, or is about to
\* be cleaned up after.
ReadersTracked ==
    lifecycle = "Open" =>
        \A o \in Reads : worker[o] = "running" =>
            (op_handle[o] = "live" /\ result[o] = "progress") \/ o \in cleaning

\* A chunk that was lost has closed the stream for good.
LossCloses ==
    /\ chunk_lost \in BOOLEAN /\ overrun \in BOOLEAN
    /\ chunk_lost /\ ~overrun => lifecycle = "Closed" /\ owner # <<"reading", Nobody>>

StreamInv == ReadersTracked /\ LossCloses /\ StreamReadable

FfiInv ==
    /\ FfiTypeOK /\ outstanding = Cardinality(Slots)
    /\ HandlesSound /\ OwnerSound /\ SleepersOnLive /\ StreamInv

-----------------------------------------------------------------------------
(* The counter                                                             *)

(* There are finitely many slots: the counter counts a finite set.         *)
LEMMA SlotsFinite == IsFiniteSet(Slots) /\ Cardinality(Slots) \in Nat
<1>1. IsFiniteSet(Ops)
  BY FfiAssumption, FS_Union DEF Ops
<1>2. IsFiniteSet(Slots)
  BY <1>1, FS_Subset DEF Slots
<1>3. QED
  BY <1>2, FS_CardinalityType

(* An operation that takes a slot is counted.                              *)
LEMMA SlotTaken ==
    ASSUME FfiInv, NEW o \in Ops, o \notin Slots, Slots' = Slots \union {o},
           outstanding < MaxOutstanding, outstanding' = outstanding + 1
    PROVE  outstanding' = Cardinality(Slots') /\ outstanding' \in 0..MaxOutstanding
<1>1. Cardinality(Slots') = Cardinality(Slots) + 1
  BY SlotsFinite, FS_AddElement
<1>2. outstanding = Cardinality(Slots) /\ outstanding \in 0..MaxOutstanding
  BY DEF FfiInv, FfiTypeOK
<1>3. QED
  BY <1>1, <1>2, FfiAssumption

(* One that gives its slot back is counted out.                            *)
LEMMA SlotReturned ==
    ASSUME FfiInv, NEW o \in Slots, Slots' = Slots \ {o}, outstanding' = outstanding - 1
    PROVE  outstanding' = Cardinality(Slots') /\ outstanding' \in 0..MaxOutstanding
<1>1. Cardinality(Slots') = Cardinality(Slots) - 1
  BY SlotsFinite, FS_RemoveElement
<1>2. outstanding = Cardinality(Slots) /\ outstanding \in 0..MaxOutstanding
  BY DEF FfiInv, FfiTypeOK
<1>3. Cardinality(Slots) # 0
  BY SlotsFinite, FS_EmptySet
<1>4. QED
  BY <1>1, <1>2, <1>3, SlotsFinite, FfiAssumption

(* No other step changes who is counted.                                   *)
LEMMA SlotsKept ==
    ASSUME FfiInv, Slots' = Slots, outstanding' = outstanding
    PROVE  outstanding' = Cardinality(Slots') /\ outstanding' \in 0..MaxOutstanding
  BY DEF FfiInv, FfiTypeOK

-----------------------------------------------------------------------------
(* One lemma for each step                                                 *)

(* try_reserve_outstanding took a slot for an operation.                   *)
LEMMA ReserveOpInv ==
    ASSUME FfiInv, NEW o \in Ops, ReserveOp(o)
    PROVE  FfiInv'
<1> USE FfiAssumption
<1>1. /\ o \notin Slots /\ Slots' = Slots \union {o}
      /\ outstanding < MaxOutstanding /\ outstanding' = outstanding + 1
  BY DEF FfiInv, FfiTypeOK, HandlesSound, OwnerSound, Slots, CountedOp, Ops, ReserveOp,
     try_reserve_outstanding, stream_vars
<1>2. outstanding' = Cardinality(Slots') /\ outstanding' \in 0..MaxOutstanding
  BY <1>1, SlotTaken
<1>3. FfiTypeOK'
  BY <1>2 DEF FfiInv, FfiTypeOK, Ops, ReserveOp, try_reserve_outstanding, stream_vars
<1>4. HandlesSound'
  BY DEF FfiInv, FfiTypeOK, HandlesSound, OwnerSound, Ops, ReserveOp, try_reserve_outstanding,
     stream_vars
<1>5. OwnerSound'
  BY DEF FfiInv, FfiTypeOK, OwnerSound, HandlesSound, Ops, Idle, ReserveOp,
     try_reserve_outstanding, stream_vars
<1>6. SleepersOnLive'
  BY DEF FfiInv, FfiTypeOK, SleepersOnLive, HandlesSound, Ops, ReserveOp,
     try_reserve_outstanding, stream_vars
<1>7. ReadersTracked'
  BY DEF FfiInv, FfiTypeOK, HandlesSound, OwnerSound, StreamInv, ReadersTracked, Ops,
     ReserveOp, try_reserve_outstanding, stream_vars
<1>8. LossCloses'
  BY DEF FfiInv, FfiTypeOK, StreamInv, LossCloses, Idle, ReserveOp, try_reserve_outstanding,
     stream_vars
<1>9. StreamReadable'
  BY DEF FfiInv, FfiTypeOK, HandlesSound, StreamInv, ReadersTracked, StreamReadable, Idle,
     Ops, ReserveOp, try_reserve_outstanding, stream_vars
<1>10. QED
  BY <1>2, <1>3, <1>4, <1>5, <1>6, <1>7, <1>8, <1>9 DEF FfiInv, StreamInv

(* The task of an operation starts.                                        *)
LEMMA StartTaskInv ==
    ASSUME FfiInv, NEW o \in Ops, StartTask(o)
    PROVE  FfiInv'
<1> USE FfiAssumption
<1>1. Slots' = Slots /\ outstanding' = outstanding
  BY DEF FfiInv, FfiTypeOK, HandlesSound, OwnerSound, Slots, CountedOp, Ops, StartTask,
     stream_vars
<1>2. outstanding' = Cardinality(Slots') /\ outstanding' \in 0..MaxOutstanding
  BY <1>1, SlotsKept
<1>3. FfiTypeOK'
  BY <1>2 DEF FfiInv, FfiTypeOK, Ops, StartTask, stream_vars
<1>4. HandlesSound'
  BY DEF FfiInv, FfiTypeOK, HandlesSound, OwnerSound, Ops, StartTask, stream_vars
<1>5. OwnerSound'
  BY DEF FfiInv, FfiTypeOK, OwnerSound, HandlesSound, Ops, Idle, StartTask, stream_vars
<1>6. SleepersOnLive'
  BY DEF FfiInv, FfiTypeOK, SleepersOnLive, HandlesSound, Ops, StartTask, stream_vars
<1>7. ReadersTracked'
  BY DEF FfiInv, FfiTypeOK, HandlesSound, OwnerSound, StreamInv, ReadersTracked, Ops,
     StartTask, stream_vars
<1>8. LossCloses'
  BY DEF FfiInv, FfiTypeOK, StreamInv, LossCloses, Idle, StartTask, stream_vars
<1>9. StreamReadable'
  BY DEF FfiInv, FfiTypeOK, HandlesSound, StreamInv, ReadersTracked, StreamReadable, Idle,
     Ops, StartTask, stream_vars
<1>10. QED
  BY <1>2, <1>3, <1>4, <1>5, <1>6, <1>7, <1>8, <1>9 DEF FfiInv, StreamInv

(* A call that fails half way returns its slot.                            *)
LEMMA StartRefusedInv ==
    ASSUME FfiInv, NEW o \in Ops, StartRefused(o)
    PROVE  FfiInv'
<1> USE FfiAssumption
<1>1. /\ o \in Slots /\ Slots' = Slots \ {o} /\ outstanding' = outstanding - 1
  BY DEF FfiInv, FfiTypeOK, HandlesSound, OwnerSound, Slots, CountedOp, Ops, StartRefused,
     release_outstanding, stream_vars
<1>2. outstanding' = Cardinality(Slots') /\ outstanding' \in 0..MaxOutstanding
  BY <1>1, SlotReturned
<1>3. FfiTypeOK'
  BY <1>2 DEF FfiInv, FfiTypeOK, Ops, StartRefused, release_outstanding, stream_vars
<1>4. HandlesSound'
  BY DEF FfiInv, FfiTypeOK, HandlesSound, OwnerSound, Ops, StartRefused, release_outstanding,
     stream_vars
<1>5. OwnerSound'
  BY DEF FfiInv, FfiTypeOK, OwnerSound, HandlesSound, Ops, Idle, StartRefused,
     release_outstanding, stream_vars
<1>6. SleepersOnLive'
  BY DEF FfiInv, FfiTypeOK, SleepersOnLive, HandlesSound, Ops, StartRefused,
     release_outstanding, stream_vars
<1>7. ReadersTracked'
  BY DEF FfiInv, FfiTypeOK, HandlesSound, OwnerSound, StreamInv, ReadersTracked, Ops,
     StartRefused, release_outstanding, stream_vars
<1>8. LossCloses'
  BY DEF FfiInv, FfiTypeOK, StreamInv, LossCloses, Idle, StartRefused, release_outstanding,
     stream_vars
<1>9. StreamReadable'
  BY DEF FfiInv, FfiTypeOK, HandlesSound, StreamInv, ReadersTracked, StreamReadable, Idle,
     Ops, StartRefused, release_outstanding, stream_vars
<1>10. QED
  BY <1>2, <1>3, <1>4, <1>5, <1>6, <1>7, <1>8, <1>9 DEF FfiInv, StreamInv

(* A task answers and wakes the sleepers.                                  *)
LEMMA TaskAnswersInv ==
    ASSUME FfiInv, NEW o \in Ops, TaskAnswers(o)
    PROVE  FfiInv'
<1> USE FfiAssumption
<1>1. Slots' = Slots /\ outstanding' = outstanding
  BY DEF FfiInv, FfiTypeOK, HandlesSound, OwnerSound, Slots, CountedOp, Ops, TaskAnswers,
     Publish, Notify, stream_vars
<1>2. outstanding' = Cardinality(Slots') /\ outstanding' \in 0..MaxOutstanding
  BY <1>1, SlotsKept
<1>3. FfiTypeOK'
  BY <1>2 DEF FfiInv, FfiTypeOK, Ops, TaskAnswers, Publish, Notify, stream_vars
<1>4. HandlesSound'
  BY DEF FfiInv, FfiTypeOK, HandlesSound, OwnerSound, Ops, TaskAnswers, Publish, Notify,
     stream_vars
<1>5. OwnerSound'
  BY DEF FfiInv, FfiTypeOK, OwnerSound, HandlesSound, Ops, Idle, TaskAnswers, Publish, Notify,
     stream_vars
<1>6. SleepersOnLive'
  BY DEF FfiInv, FfiTypeOK, SleepersOnLive, HandlesSound, Ops, TaskAnswers, Publish, Notify,
     stream_vars
<1>7. ReadersTracked'
  BY DEF FfiInv, FfiTypeOK, HandlesSound, OwnerSound, StreamInv, ReadersTracked, Ops,
     TaskAnswers, Publish, Notify, stream_vars
<1>8. LossCloses'
  BY DEF FfiInv, FfiTypeOK, StreamInv, LossCloses, Idle, TaskAnswers, Publish, Notify,
     stream_vars
<1>9. StreamReadable'
  BY DEF FfiInv, FfiTypeOK, HandlesSound, StreamInv, ReadersTracked, StreamReadable, Idle,
     Ops, TaskAnswers, Publish, Notify, stream_vars
<1>10. QED
  BY <1>2, <1>3, <1>4, <1>5, <1>6, <1>7, <1>8, <1>9 DEF FfiInv, StreamInv

(* A cancelled operation wakes its sleepers.                               *)
LEMMA CancelInv ==
    ASSUME FfiInv, NEW o \in Ops, lk_op_cancel(o)
    PROVE  FfiInv'
<1> USE FfiAssumption
<1>1. Slots' = Slots /\ outstanding' = outstanding
  BY DEF FfiInv, FfiTypeOK, HandlesSound, OwnerSound, Slots, CountedOp, Ops, lk_op_cancel,
     AbortTask, Notify, stream_vars
<1>2. outstanding' = Cardinality(Slots') /\ outstanding' \in 0..MaxOutstanding
  BY <1>1, SlotsKept
<1>3. FfiTypeOK'
  BY <1>2 DEF FfiInv, FfiTypeOK, Ops, lk_op_cancel, AbortTask, Notify, stream_vars
<1>4. HandlesSound'
  BY DEF FfiInv, FfiTypeOK, HandlesSound, OwnerSound, Ops, lk_op_cancel, AbortTask, Notify,
     stream_vars
<1>5. OwnerSound'
  BY DEF FfiInv, FfiTypeOK, OwnerSound, HandlesSound, Ops, Idle, lk_op_cancel, AbortTask,
     Notify, stream_vars
<1>6. SleepersOnLive'
  BY DEF FfiInv, FfiTypeOK, SleepersOnLive, HandlesSound, Ops, lk_op_cancel, AbortTask,
     Notify, stream_vars
<1>7. ReadersTracked'
  BY DEF FfiInv, FfiTypeOK, HandlesSound, OwnerSound, StreamInv, ReadersTracked, Ops,
     lk_op_cancel, AbortTask, Notify, stream_vars
<1>8. LossCloses'
  BY DEF FfiInv, FfiTypeOK, StreamInv, LossCloses, Idle, lk_op_cancel, AbortTask, Notify,
     stream_vars
<1>9. StreamReadable'
  BY DEF FfiInv, FfiTypeOK, HandlesSound, StreamInv, ReadersTracked, StreamReadable, Idle,
     Ops, lk_op_cancel, AbortTask, Notify, stream_vars
<1>10. QED
  BY <1>2, <1>3, <1>4, <1>5, <1>6, <1>7, <1>8, <1>9 DEF FfiInv, StreamInv

(* A handle is freed with its task under way or not.                       *)
LEMMA FreeInv ==
    ASSUME FfiInv, NEW o \in Ops, lk_op_free(o)
    PROVE  FfiInv'
<1> USE FfiAssumption
<1>1. Slots' = Slots /\ outstanding' = outstanding
  BY DEF FfiInv, FfiTypeOK, HandlesSound, OwnerSound, Slots, CountedOp, Ops, lk_op_free,
     AbortTask, stream_vars
<1>2. outstanding' = Cardinality(Slots') /\ outstanding' \in 0..MaxOutstanding
  BY <1>1, SlotsKept
<1>3. FfiTypeOK'
  BY <1>2 DEF FfiInv, FfiTypeOK, Ops, lk_op_free, AbortTask, stream_vars
<1>4. HandlesSound'
  BY DEF FfiInv, FfiTypeOK, HandlesSound, OwnerSound, Ops, lk_op_free, AbortTask, stream_vars
<1>5. OwnerSound'
  BY DEF FfiInv, FfiTypeOK, OwnerSound, HandlesSound, Ops, Idle, lk_op_free, AbortTask,
     stream_vars
<1>6. SleepersOnLive'
  BY DEF FfiInv, FfiTypeOK, SleepersOnLive, HandlesSound, Ops, lk_op_free, AbortTask,
     stream_vars
<1>7. ReadersTracked'
  BY DEF FfiInv, FfiTypeOK, HandlesSound, OwnerSound, StreamInv, ReadersTracked, Ops,
     lk_op_free, AbortTask, stream_vars
<1>8. LossCloses'
  BY DEF FfiInv, FfiTypeOK, StreamInv, LossCloses, Idle, lk_op_free, AbortTask, stream_vars
<1>9. StreamReadable'
  BY DEF FfiInv, FfiTypeOK, HandlesSound, StreamInv, ReadersTracked, StreamReadable, Idle,
     Ops, lk_op_free, AbortTask, stream_vars
<1>10. QED
  BY <1>2, <1>3, <1>4, <1>5, <1>6, <1>7, <1>8, <1>9 DEF FfiInv, StreamInv

(* The cleanup closure closes the stream.                                  *)
LEMMA CleanupInv ==
    ASSUME FfiInv, NEW o \in Ops, Cleanup(o)
    PROVE  FfiInv'
<1> USE FfiAssumption
<1>1. Slots' = Slots /\ outstanding' = outstanding
  BY DEF FfiInv, FfiTypeOK, HandlesSound, OwnerSound, Slots, CountedOp, Ops, Cleanup,
     CloseStream
<1>2. outstanding' = Cardinality(Slots') /\ outstanding' \in 0..MaxOutstanding
  BY <1>1, SlotsKept
<1>3. FfiTypeOK'
  BY <1>2 DEF FfiInv, FfiTypeOK, Ops, Cleanup, CloseStream
<1>4. HandlesSound'
  BY DEF FfiInv, FfiTypeOK, HandlesSound, OwnerSound, Ops, Cleanup, CloseStream
<1>5. OwnerSound'
  BY DEF FfiInv, FfiTypeOK, OwnerSound, HandlesSound, Ops, Idle, Cleanup, CloseStream
<1>6. SleepersOnLive'
  BY DEF FfiInv, FfiTypeOK, SleepersOnLive, HandlesSound, Ops, Cleanup, CloseStream
<1>7. ReadersTracked'
  BY DEF FfiInv, FfiTypeOK, HandlesSound, OwnerSound, StreamInv, ReadersTracked, Ops, Cleanup,
     CloseStream
<1>8. LossCloses'
  BY DEF FfiInv, FfiTypeOK, StreamInv, LossCloses, Idle, Cleanup, CloseStream
<1>9. StreamReadable'
  BY DEF FfiInv, FfiTypeOK, HandlesSound, StreamInv, ReadersTracked, StreamReadable, Idle,
     Ops, Cleanup, CloseStream
<1>10. QED
  BY <1>2, <1>3, <1>4, <1>5, <1>6, <1>7, <1>8, <1>9 DEF FfiInv, StreamInv

(* A result is taken.                                                      *)
LEMMA TakeInv ==
    ASSUME FfiInv, NEW o \in Ops, NEW kinds, NEW r \in {"ok", "err"}, Take(o, kinds, r)
    PROVE  FfiInv'
<1> USE FfiAssumption
<1>1. Slots' = Slots /\ outstanding' = outstanding
  BY DEF FfiInv, FfiTypeOK, HandlesSound, OwnerSound, Slots, CountedOp, Ops, Take, stream_vars
<1>2. outstanding' = Cardinality(Slots') /\ outstanding' \in 0..MaxOutstanding
  BY <1>1, SlotsKept
<1>3. FfiTypeOK'
  BY <1>2 DEF FfiInv, FfiTypeOK, Ops, Take, stream_vars
<1>4. HandlesSound'
  BY DEF FfiInv, FfiTypeOK, HandlesSound, OwnerSound, Ops, Take, stream_vars
<1>5. OwnerSound'
  BY DEF FfiInv, FfiTypeOK, OwnerSound, HandlesSound, Ops, Idle, Take, stream_vars
<1>6. SleepersOnLive'
  BY DEF FfiInv, FfiTypeOK, SleepersOnLive, HandlesSound, Ops, Take, stream_vars
<1>7. ReadersTracked'
  BY DEF FfiInv, FfiTypeOK, HandlesSound, OwnerSound, StreamInv, ReadersTracked, Ops, Take,
     stream_vars
<1>8. LossCloses'
  BY DEF FfiInv, FfiTypeOK, StreamInv, LossCloses, Idle, Take, stream_vars
<1>9. StreamReadable'
  BY DEF FfiInv, FfiTypeOK, HandlesSound, StreamInv, ReadersTracked, StreamReadable, Idle,
     Ops, Take, stream_vars
<1>10. QED
  BY <1>2, <1>3, <1>4, <1>5, <1>6, <1>7, <1>8, <1>9 DEF FfiInv, StreamInv

(* The first look of lk_stream_read_async.                                 *)
LEMMA ReadLooksInv ==
    ASSUME FfiInv, NEW o \in Reads, ReadLooks(o)
    PROVE  FfiInv'
<1> USE FfiAssumption
<1>1. Slots' = Slots /\ outstanding' = outstanding
  BY DEF FfiInv, FfiTypeOK, HandlesSound, OwnerSound, Slots, CountedOp, Ops, ReadLooks, op_vars
<1>2. outstanding' = Cardinality(Slots') /\ outstanding' \in 0..MaxOutstanding
  BY <1>1, SlotsKept
<1>3. FfiTypeOK'
  BY <1>2 DEF FfiInv, FfiTypeOK, Ops, ReadLooks, op_vars
<1>4. HandlesSound'
  BY DEF FfiInv, FfiTypeOK, HandlesSound, OwnerSound, Ops, ReadLooks, op_vars
<1>5. OwnerSound'
  BY DEF FfiInv, FfiTypeOK, OwnerSound, HandlesSound, Ops, Idle, ReadLooks, op_vars
<1>6. SleepersOnLive'
  BY DEF FfiInv, FfiTypeOK, SleepersOnLive, HandlesSound, Ops, ReadLooks, op_vars
<1>7. ReadersTracked'
  BY DEF FfiInv, FfiTypeOK, HandlesSound, OwnerSound, StreamInv, ReadersTracked, Ops,
     ReadLooks, op_vars
<1>8. LossCloses'
  BY DEF FfiInv, FfiTypeOK, StreamInv, LossCloses, Idle, ReadLooks, op_vars
<1>9. StreamReadable'
  BY DEF FfiInv, FfiTypeOK, HandlesSound, StreamInv, ReadersTracked, StreamReadable, Idle,
     Ops, ReadLooks, op_vars
<1>10. QED
  BY <1>2, <1>3, <1>4, <1>5, <1>6, <1>7, <1>8, <1>9 DEF FfiInv, StreamInv

(* The task of a read notes what it got in the stream.                     *)
LEMMA TaskReadsInv ==
    ASSUME FfiInv, NEW o \in Reads, TaskReads(o)
    PROVE  FfiInv'
<1> USE FfiAssumption
<1>1. Slots' = Slots /\ outstanding' = outstanding
  BY DEF FfiInv, FfiTypeOK, HandlesSound, OwnerSound, Slots, CountedOp, Ops, TaskReads,
     SeesClosed, Reading, Note
<1>2. outstanding' = Cardinality(Slots') /\ outstanding' \in 0..MaxOutstanding
  BY <1>1, SlotsKept
<1>3. FfiTypeOK'
  <2>1. /\ pos' \in 0..Chunks /\ response' \in BOOLEAN /\ got' \subseteq Reads
        /\ lifecycle' \in {"Open", "Eof", "Failed", "Closed"}
    <3>1. CASE SeesClosed
      BY <3>1 DEF FfiInv, FfiTypeOK, TaskReads
    <3>2. CASE ~SeesClosed
      <4>1. PICK r \in Reading : Note(r) /\ got' = IF r = "chunk" THEN got \union {o} ELSE got
        BY <3>2 DEF TaskReads
      <4>2. pos' \in 0..Chunks
        BY <4>1 DEF FfiInv, FfiTypeOK, Reading, Note
      <4>3. QED
        BY <4>1, <4>2 DEF FfiInv, FfiTypeOK, Reading, Note
    <3>3. QED
      BY <3>1, <3>2
  <2>2. /\ outcome' \in [Ops -> {"ok", "err"}]
        /\ worker' \in [Ops -> {"none", "running", "publishing", "done", "dead"}]
    BY DEF FfiInv, FfiTypeOK, TaskReads, Ops
  <2>3. QED
    BY <1>2, <2>1, <2>2 DEF FfiInv, FfiTypeOK, TaskReads
<1>4. HandlesSound'
  BY DEF FfiInv, FfiTypeOK, HandlesSound, OwnerSound, Ops, TaskReads, SeesClosed, Reading, Note
<1>5. OwnerSound'
  BY DEF FfiInv, FfiTypeOK, OwnerSound, HandlesSound, Ops, Idle, TaskReads, SeesClosed,
     Reading, Note
<1>6. SleepersOnLive'
  BY DEF FfiInv, FfiTypeOK, SleepersOnLive, HandlesSound, Ops, TaskReads, SeesClosed, Reading,
     Note
<1>7. ReadersTracked'
  BY DEF FfiInv, FfiTypeOK, HandlesSound, OwnerSound, StreamInv, ReadersTracked, Ops,
     TaskReads, SeesClosed, Reading, Note
<1>8. LossCloses'
  BY DEF FfiInv, FfiTypeOK, StreamInv, LossCloses, Idle, TaskReads, SeesClosed, Reading, Note
<1>9. StreamReadable'
  BY DEF FfiInv, FfiTypeOK, HandlesSound, StreamInv, ReadersTracked, StreamReadable, Idle,
     Ops, TaskReads, SeesClosed, Reading, Note
<1>10. QED
  BY <1>2, <1>3, <1>4, <1>5, <1>6, <1>7, <1>8, <1>9 DEF FfiInv, StreamInv

(* Then it publishes its result.                                           *)
LEMMA TaskPublishesInv ==
    ASSUME FfiInv, NEW o \in Reads, TaskPublishes(o)
    PROVE  FfiInv'
<1> USE FfiAssumption
<1>1. Slots' = Slots /\ outstanding' = outstanding
  BY DEF FfiInv, FfiTypeOK, HandlesSound, OwnerSound, Slots, CountedOp, Ops, TaskPublishes,
     Publish, Notify, stream_vars
<1>2. outstanding' = Cardinality(Slots') /\ outstanding' \in 0..MaxOutstanding
  BY <1>1, SlotsKept
<1>3. FfiTypeOK'
  BY <1>2 DEF FfiInv, FfiTypeOK, Ops, TaskPublishes, Publish, Notify, stream_vars
<1>4. HandlesSound'
  BY DEF FfiInv, FfiTypeOK, HandlesSound, OwnerSound, Ops, TaskPublishes, Publish, Notify,
     stream_vars
<1>5. OwnerSound'
  BY DEF FfiInv, FfiTypeOK, OwnerSound, HandlesSound, Ops, Idle, TaskPublishes, Publish,
     Notify, stream_vars
<1>6. SleepersOnLive'
  BY DEF FfiInv, FfiTypeOK, SleepersOnLive, HandlesSound, Ops, TaskPublishes, Publish, Notify,
     stream_vars
<1>7. ReadersTracked'
  BY DEF FfiInv, FfiTypeOK, HandlesSound, OwnerSound, StreamInv, ReadersTracked, Ops,
     TaskPublishes, Publish, Notify, stream_vars
<1>8. LossCloses'
  BY DEF FfiInv, FfiTypeOK, StreamInv, LossCloses, Idle, TaskPublishes, Publish, Notify,
     stream_vars
<1>9. StreamReadable'
  BY DEF FfiInv, FfiTypeOK, HandlesSound, StreamInv, ReadersTracked, StreamReadable, Idle,
     Ops, TaskPublishes, Publish, Notify, stream_vars
<1>10. QED
  BY <1>2, <1>3, <1>4, <1>5, <1>6, <1>7, <1>8, <1>9 DEF FfiInv, StreamInv

(* A thread goes to sleep.                                                 *)
LEMMA WaitInv ==
    ASSUME FfiInv, NEW w \in Sleepers, NEW o \in Ops, lk_op_wait(w, o)
    PROVE  FfiInv'
<1> USE FfiAssumption
<1>1. Slots' = Slots /\ outstanding' = outstanding
  BY DEF FfiInv, FfiTypeOK, HandlesSound, OwnerSound, Slots, CountedOp, Ops, lk_op_wait,
     stream_vars
<1>2. outstanding' = Cardinality(Slots') /\ outstanding' \in 0..MaxOutstanding
  BY <1>1, SlotsKept
<1>3. FfiTypeOK'
  BY <1>2 DEF FfiInv, FfiTypeOK, Ops, lk_op_wait, stream_vars
<1>4. HandlesSound'
  BY DEF FfiInv, FfiTypeOK, HandlesSound, OwnerSound, Ops, lk_op_wait, stream_vars
<1>5. OwnerSound'
  BY DEF FfiInv, FfiTypeOK, OwnerSound, HandlesSound, Ops, Idle, lk_op_wait, stream_vars
<1>6. SleepersOnLive'
  BY DEF FfiInv, FfiTypeOK, SleepersOnLive, HandlesSound, Ops, lk_op_wait, stream_vars
<1>7. ReadersTracked'
  BY DEF FfiInv, FfiTypeOK, HandlesSound, OwnerSound, StreamInv, ReadersTracked, Ops,
     lk_op_wait, stream_vars
<1>8. LossCloses'
  BY DEF FfiInv, FfiTypeOK, StreamInv, LossCloses, Idle, lk_op_wait, stream_vars
<1>9. StreamReadable'
  BY DEF FfiInv, FfiTypeOK, HandlesSound, StreamInv, ReadersTracked, StreamReadable, Idle,
     Ops, lk_op_wait, stream_vars
<1>10. QED
  BY <1>2, <1>3, <1>4, <1>5, <1>6, <1>7, <1>8, <1>9 DEF FfiInv, StreamInv

(* It gives up.                                                            *)
LEMMA WaitTimesOutInv ==
    ASSUME FfiInv, NEW w \in Sleepers, WaitTimesOut(w)
    PROVE  FfiInv'
<1> USE FfiAssumption
<1>1. Slots' = Slots /\ outstanding' = outstanding
  BY DEF FfiInv, FfiTypeOK, HandlesSound, OwnerSound, Slots, CountedOp, Ops, WaitTimesOut,
     stream_vars
<1>2. outstanding' = Cardinality(Slots') /\ outstanding' \in 0..MaxOutstanding
  BY <1>1, SlotsKept
<1>3. FfiTypeOK'
  BY <1>2 DEF FfiInv, FfiTypeOK, Ops, WaitTimesOut, stream_vars
<1>4. HandlesSound'
  BY DEF FfiInv, FfiTypeOK, HandlesSound, OwnerSound, Ops, WaitTimesOut, stream_vars
<1>5. OwnerSound'
  BY DEF FfiInv, FfiTypeOK, OwnerSound, HandlesSound, Ops, Idle, WaitTimesOut, stream_vars
<1>6. SleepersOnLive'
  BY DEF FfiInv, FfiTypeOK, SleepersOnLive, HandlesSound, Ops, WaitTimesOut, stream_vars
<1>7. ReadersTracked'
  BY DEF FfiInv, FfiTypeOK, HandlesSound, OwnerSound, StreamInv, ReadersTracked, Ops,
     WaitTimesOut, stream_vars
<1>8. LossCloses'
  BY DEF FfiInv, FfiTypeOK, StreamInv, LossCloses, Idle, WaitTimesOut, stream_vars
<1>9. StreamReadable'
  BY DEF FfiInv, FfiTypeOK, HandlesSound, StreamInv, ReadersTracked, StreamReadable, Idle,
     Ops, WaitTimesOut, stream_vars
<1>10. QED
  BY <1>2, <1>3, <1>4, <1>5, <1>6, <1>7, <1>8, <1>9 DEF FfiInv, StreamInv

(* lk_stream_read takes the response.                                      *)
LEMMA ReadBeginsInv ==
    ASSUME FfiInv, ReadBegins
    PROVE  FfiInv'
<1> USE FfiAssumption
<1>1. Slots' = Slots /\ outstanding' = outstanding
  BY DEF FfiInv, FfiTypeOK, HandlesSound, OwnerSound, Slots, CountedOp, Ops, ReadBegins, op_vars
<1>2. outstanding' = Cardinality(Slots') /\ outstanding' \in 0..MaxOutstanding
  BY <1>1, SlotsKept
<1>3. FfiTypeOK'
  BY <1>2 DEF FfiInv, FfiTypeOK, Ops, ReadBegins, op_vars
<1>4. HandlesSound'
  BY DEF FfiInv, FfiTypeOK, HandlesSound, OwnerSound, Ops, ReadBegins, op_vars
<1>5. OwnerSound'
  BY DEF FfiInv, FfiTypeOK, OwnerSound, HandlesSound, Ops, Idle, ReadBegins, op_vars
<1>6. SleepersOnLive'
  BY DEF FfiInv, FfiTypeOK, SleepersOnLive, HandlesSound, Ops, ReadBegins, op_vars
<1>7. ReadersTracked'
  BY DEF FfiInv, FfiTypeOK, HandlesSound, OwnerSound, StreamInv, ReadersTracked, Ops,
     ReadBegins, op_vars
<1>8. LossCloses'
  BY DEF FfiInv, FfiTypeOK, StreamInv, LossCloses, Idle, ReadBegins, op_vars
<1>9. StreamReadable'
  BY DEF FfiInv, FfiTypeOK, HandlesSound, StreamInv, ReadersTracked, StreamReadable, Idle,
     Ops, ReadBegins, op_vars
<1>10. QED
  BY <1>2, <1>3, <1>4, <1>5, <1>6, <1>7, <1>8, <1>9 DEF FfiInv, StreamInv

(* lk_stream_read notes what it got.                                       *)
LEMMA ReadEndsInv ==
    ASSUME FfiInv, ReadEnds
    PROVE  FfiInv'
<1> USE FfiAssumption
<1>1. Slots' = Slots /\ outstanding' = outstanding
  BY DEF FfiInv, FfiTypeOK, HandlesSound, OwnerSound, Slots, CountedOp, Ops, ReadEnds,
     Reading, Note, op_vars
<1>2. outstanding' = Cardinality(Slots') /\ outstanding' \in 0..MaxOutstanding
  BY <1>1, SlotsKept
<1>3. FfiTypeOK'
  BY <1>2 DEF FfiInv, FfiTypeOK, Ops, ReadEnds, Reading, Note, op_vars
<1>4. HandlesSound'
  BY DEF FfiInv, FfiTypeOK, HandlesSound, OwnerSound, Ops, ReadEnds, Reading, Note, op_vars
<1>5. OwnerSound'
  BY DEF FfiInv, FfiTypeOK, OwnerSound, HandlesSound, Ops, Idle, ReadEnds, Reading, Note,
     op_vars
<1>6. SleepersOnLive'
  BY DEF FfiInv, FfiTypeOK, SleepersOnLive, HandlesSound, Ops, ReadEnds, Reading, Note, op_vars
<1>7. ReadersTracked'
  BY DEF FfiInv, FfiTypeOK, HandlesSound, OwnerSound, StreamInv, ReadersTracked, Ops,
     ReadEnds, Reading, Note, op_vars
<1>8. LossCloses'
  BY DEF FfiInv, FfiTypeOK, StreamInv, LossCloses, Idle, ReadEnds, Reading, Note, op_vars
<1>9. StreamReadable'
  BY DEF FfiInv, FfiTypeOK, HandlesSound, StreamInv, ReadersTracked, StreamReadable, Idle,
     Ops, ReadEnds, Reading, Note, op_vars
<1>10. QED
  BY <1>2, <1>3, <1>4, <1>5, <1>6, <1>7, <1>8, <1>9 DEF FfiInv, StreamInv

(* The application closes the stream.                                      *)
LEMMA CloseInv ==
    ASSUME FfiInv, lk_stream_close
    PROVE  FfiInv'
<1> USE FfiAssumption
<1>1. Slots' = Slots /\ outstanding' = outstanding
  BY DEF FfiInv, FfiTypeOK, HandlesSound, OwnerSound, Slots, CountedOp, Ops, lk_stream_close,
     CloseStream, op_vars
<1>2. outstanding' = Cardinality(Slots') /\ outstanding' \in 0..MaxOutstanding
  BY <1>1, SlotsKept
<1>3. FfiTypeOK'
  BY <1>2 DEF FfiInv, FfiTypeOK, Ops, lk_stream_close, CloseStream, op_vars
<1>4. HandlesSound'
  BY DEF FfiInv, FfiTypeOK, HandlesSound, OwnerSound, Ops, lk_stream_close, CloseStream, op_vars
<1>5. OwnerSound'
  BY DEF FfiInv, FfiTypeOK, OwnerSound, HandlesSound, Ops, Idle, lk_stream_close, CloseStream,
     op_vars
<1>6. SleepersOnLive'
  BY DEF FfiInv, FfiTypeOK, SleepersOnLive, HandlesSound, Ops, lk_stream_close, CloseStream,
     op_vars
<1>7. ReadersTracked'
  BY DEF FfiInv, FfiTypeOK, HandlesSound, OwnerSound, StreamInv, ReadersTracked, Ops,
     lk_stream_close, CloseStream, op_vars
<1>8. LossCloses'
  BY DEF FfiInv, FfiTypeOK, StreamInv, LossCloses, Idle, lk_stream_close, CloseStream, op_vars
<1>9. StreamReadable'
  BY DEF FfiInv, FfiTypeOK, HandlesSound, StreamInv, ReadersTracked, StreamReadable, Idle,
     Ops, lk_stream_close, CloseStream, op_vars
<1>10. QED
  BY <1>2, <1>3, <1>4, <1>5, <1>6, <1>7, <1>8, <1>9 DEF FfiInv, StreamInv

(* A freed handle gives its slot back, if it had one.                      *)
LEMMA FreeEndsInv ==
    ASSUME FfiInv, NEW o \in Ops, FreeEnds(o)
    PROVE  FfiInv'
<1> USE FfiAssumption
<1>1. outstanding' = Cardinality(Slots') /\ outstanding' \in 0..MaxOutstanding
  <2>1. CASE CountedOp(o)
    <3>1. /\ o \in Slots /\ Slots' = Slots \ {o} /\ outstanding' = outstanding - 1
      BY <2>1 DEF FfiInv, FfiTypeOK, HandlesSound, OwnerSound, Slots, CountedOp, Ops,
         FreeEnds, GivesBack, release_outstanding, stream_vars
    <3>2. QED
      BY <3>1, SlotReturned
  <2>2. CASE ~CountedOp(o)
    <3>1. Slots' = Slots /\ outstanding' = outstanding
      BY <2>2 DEF FfiInv, FfiTypeOK, HandlesSound, OwnerSound, Slots, CountedOp, Ops,
         FreeEnds, GivesBack, release_outstanding, stream_vars
    <3>2. QED
      BY <3>1, SlotsKept
  <2>3. QED
    BY <2>1, <2>2
<1>2. FfiTypeOK'
  BY <1>1 DEF FfiInv, FfiTypeOK, Ops, FreeEnds, GivesBack, release_outstanding, stream_vars
<1>3. HandlesSound'
  BY DEF FfiInv, FfiTypeOK, HandlesSound, OwnerSound, Ops, FreeEnds, GivesBack,
     release_outstanding, stream_vars
<1>4. OwnerSound'
  BY DEF FfiInv, FfiTypeOK, OwnerSound, HandlesSound, Ops, Idle, FreeEnds, GivesBack,
     release_outstanding, stream_vars
<1>5. SleepersOnLive'
  BY DEF FfiInv, FfiTypeOK, SleepersOnLive, HandlesSound, Ops, FreeEnds, GivesBack,
     release_outstanding, stream_vars
<1>6. ReadersTracked'
  BY DEF FfiInv, FfiTypeOK, HandlesSound, OwnerSound, StreamInv, ReadersTracked, Ops,
     FreeEnds, GivesBack, release_outstanding, stream_vars
<1>7. LossCloses'
  BY DEF FfiInv, FfiTypeOK, StreamInv, LossCloses, Idle, FreeEnds, GivesBack,
     release_outstanding, stream_vars
<1>8. StreamReadable'
  BY DEF FfiInv, FfiTypeOK, HandlesSound, StreamInv, ReadersTracked, StreamReadable, Idle,
     Ops, FreeEnds, GivesBack, release_outstanding, stream_vars
<1>9. QED
  BY <1>1, <1>2, <1>3, <1>4, <1>5, <1>6, <1>7, <1>8 DEF FfiInv, StreamInv

(* A read takes a slot, and at the end of the body is complete at once.    *)
LEMMA ReadReservesInv ==
    ASSUME FfiInv, NEW o \in Reads, ReadReserves(o)
    PROVE  FfiInv'
<1> USE FfiAssumption
<1>1. /\ o \in Ops /\ kind[o] = "read" /\ op_handle[o] = "none" /\ result[o] = "progress"
      /\ kind' = kind
  BY DEF FfiInv, OwnerSound, HandlesSound, Ops, ReadReserves
<1>2. outstanding' = Cardinality(Slots') /\ outstanding' \in 0..MaxOutstanding
  <2>1. CASE outstanding < MaxOutstanding
    <3>1. PICK h \in {"live", "reserved"} : op_handle' = [op_handle EXCEPT ![o] = h]
      BY <2>1 DEF ReadReserves, try_reserve_outstanding
    <3>2. o \notin Slots /\ Slots' = Slots \union {o}
      BY <1>1, <3>1 DEF FfiInv, FfiTypeOK, Slots, CountedOp
    <3>3. outstanding < MaxOutstanding /\ outstanding' = outstanding + 1
      BY <2>1 DEF ReadReserves, try_reserve_outstanding
    <3>4. QED
      BY <1>1, <3>2, <3>3, SlotTaken
  <2>2. CASE ~(outstanding < MaxOutstanding)
    <3>1. Slots' = Slots /\ outstanding' = outstanding
      BY <2>2 DEF FfiInv, FfiTypeOK, HandlesSound, OwnerSound, Slots, CountedOp, Ops,
         ReadReserves, try_reserve_outstanding, Idle
    <3>2. QED
      BY <3>1, SlotsKept
  <2>3. QED
    BY <2>1, <2>2
<1>3. FfiTypeOK'
  BY <1>2 DEF FfiInv, FfiTypeOK, Ops, ReadReserves, try_reserve_outstanding, Idle
<1>4. HandlesSound'
  BY DEF FfiInv, FfiTypeOK, HandlesSound, OwnerSound, Ops, ReadReserves,
     try_reserve_outstanding, Idle
<1>5. OwnerSound'
  <2>1. owner' = Idle \/ (owner' = <<"reserved", o>> /\ op_handle'[o] = "reserved")
    BY <1>1 DEF FfiInv, FfiTypeOK, ReadReserves
  <2>2. QED
    BY <2>1 DEF OwnerSound, Idle
<1>6. SleepersOnLive'
  <2>1. \A w \in Sleepers : asleep[w] # o
    BY <1>1 DEF FfiInv, SleepersOnLive
  <2>2. \A p \in Ops : p # o => op_handle'[p] = op_handle[p] /\ result'[p] = result[p]
    BY DEF FfiInv, FfiTypeOK, ReadReserves
  <2>3. asleep' = asleep
    BY DEF ReadReserves
  <2>4. QED
    BY <2>1, <2>2, <2>3 DEF FfiInv, SleepersOnLive
<1>7. ReadersTracked'
  BY DEF FfiInv, FfiTypeOK, HandlesSound, OwnerSound, StreamInv, ReadersTracked, Ops,
     ReadReserves, try_reserve_outstanding, Idle
<1>8. LossCloses'
  BY DEF FfiInv, FfiTypeOK, StreamInv, LossCloses, Idle, ReadReserves, try_reserve_outstanding
<1>9. StreamReadable'
  BY DEF FfiInv, FfiTypeOK, HandlesSound, StreamInv, ReadersTracked, StreamReadable, Idle,
     Ops, ReadReserves, try_reserve_outstanding
<1>10. QED
  BY <1>2, <1>3, <1>4, <1>5, <1>6, <1>7, <1>8, <1>9 DEF FfiInv, StreamInv

(* A read takes the response, or finds the stream closed.                  *)
LEMMA ReadTakesInv ==
    ASSUME FfiInv, NEW o \in Reads, ReadTakes(o)
    PROVE  FfiInv'
<1> USE FfiAssumption
<1>1. /\ o \in Ops /\ kind[o] = "read" /\ op_handle[o] = "reserved" /\ result[o] = "progress"
      /\ worker[o] = "none" /\ o \notin cleaning /\ kind' = kind
  BY DEF FfiInv, OwnerSound, HandlesSound, Ops, ReadTakes
<1>2. outstanding' = Cardinality(Slots') /\ outstanding' \in 0..MaxOutstanding
  <2>1. CASE lifecycle = "Open" /\ ~active_read_op /\ response
    <3>1. Slots' = Slots /\ outstanding' = outstanding
      BY <1>1, <2>1 DEF FfiInv, FfiTypeOK, Slots, CountedOp, ReadTakes
    <3>2. QED
      BY <3>1, SlotsKept
  <2>2. CASE ~(lifecycle = "Open" /\ ~active_read_op /\ response)
    <3>1. /\ o \in Slots /\ Slots' = Slots \ {o} /\ outstanding' = outstanding - 1
      BY <1>1, <2>2 DEF FfiInv, FfiTypeOK, Slots, CountedOp, ReadTakes, release_outstanding
    <3>2. QED
      BY <3>1, SlotReturned
  <2>3. QED
    BY <2>1, <2>2
<1>3. FfiTypeOK'
  <2>1. /\ op_handle' \in [Ops -> {"none", "reserved", "live", "freeing", "freed"}]
        /\ worker' \in [Ops -> {"none", "running", "publishing", "done", "dead"}]
    BY <1>1 DEF FfiInv, FfiTypeOK, ReadTakes
  <2>2. response' \in BOOLEAN /\ active_read_op' \in BOOLEAN /\ owner' = Idle
    BY DEF FfiInv, FfiTypeOK, ReadTakes
  <2>3. QED
    BY <1>2, <2>1, <2>2 DEF FfiInv, FfiTypeOK, ReadTakes
<1>4. HandlesSound'
  BY <1>1 DEF FfiInv, FfiTypeOK, HandlesSound, OwnerSound, Ops, ReadTakes,
     release_outstanding, Idle
<1>5. OwnerSound'
  BY <1>1 DEF FfiInv, FfiTypeOK, OwnerSound, HandlesSound, Ops, Idle, ReadTakes,
     release_outstanding
<1>6. SleepersOnLive'
  <2>1. \A w \in Sleepers : asleep[w] # o
    BY <1>1 DEF FfiInv, SleepersOnLive
  <2>2. \A p \in Ops : p # o => op_handle'[p] = op_handle[p] /\ result'[p] = result[p]
    BY DEF FfiInv, FfiTypeOK, ReadTakes
  <2>3. asleep' = asleep
    BY DEF ReadTakes
  <2>4. QED
    BY <2>1, <2>2, <2>3 DEF FfiInv, SleepersOnLive
<1>7. ReadersTracked'
  BY <1>1 DEF FfiInv, FfiTypeOK, HandlesSound, OwnerSound, StreamInv, ReadersTracked, Ops,
     ReadTakes, release_outstanding, Idle
<1>8. LossCloses'
  BY DEF FfiInv, FfiTypeOK, StreamInv, LossCloses, Idle, ReadTakes, release_outstanding
<1>9. StreamReadable'
  BY <1>1 DEF FfiInv, FfiTypeOK, HandlesSound, StreamInv, ReadersTracked, StreamReadable,
     Idle, Ops, ReadTakes, release_outstanding
<1>10. QED
  BY <1>2, <1>3, <1>4, <1>5, <1>6, <1>7, <1>8, <1>9 DEF FfiInv, StreamInv

(* Takes of any kind.                                                      *)
LEMMA TakesInv ==
    ASSUME FfiInv, NEW o \in Ops,
           \/ lk_op_take_response(o) \/ lk_op_take_streaming_response(o) \/ lk_op_take_chunk(o)
           \/ lk_op_take_proxy_guard(o) \/ lk_op_take_session_pool_guard(o)
           \/ lk_op_take_socks5_udp_probe_report(o) \/ lk_op_take_error(o)
    PROVE  /\ FfiInv'
           /\ \E kinds : \E r \in {"ok", "err"} : Take(o, kinds, r)
<1>1. \E kinds : \E r \in {"ok", "err"} : Take(o, kinds, r)
  BY DEF lk_op_take_response, lk_op_take_streaming_response, lk_op_take_chunk,
         lk_op_take_proxy_guard, lk_op_take_session_pool_guard,
         lk_op_take_socks5_udp_probe_report, lk_op_take_error
<1>2. QED
  BY <1>1, TakeInv

-----------------------------------------------------------------------------
(* The invariant holds of every state, however reads, cancellations, frees *)
(* and the threads that wait interleave (op.rs, stream.rs).                *)
THEOREM FfiInvariance == FfiSpec => []FfiInv
<1>1. FfiInit => FfiInv
  <2> SUFFICES ASSUME FfiInit PROVE FfiInv
    OBVIOUS
  <2>1. FfiTypeOK
    <3>1. kind \in [Ops -> AllKinds \union {"read"}]
      BY FfiAssumption DEF FfiInit, OpKinds
    <3>2. outstanding \in 0..MaxOutstanding /\ pos \in 0..Chunks
      BY FfiAssumption DEF FfiInit
    <3>3. QED
      BY <3>1, <3>2 DEF FfiInit, FfiTypeOK
  <2>2. Slots = {} /\ outstanding = 0
    BY DEF FfiInit, Slots
  <2>3. outstanding = Cardinality(Slots)
    BY <2>2, FS_EmptySet
  <2>4. HandlesSound
    BY DEF FfiInit, HandlesSound, OpKinds, Ops
  <2>5. OwnerSound /\ SleepersOnLive
    BY DEF FfiInit, OwnerSound, SleepersOnLive, Idle
  <2>6. StreamInv
    BY DEF FfiInit, StreamInv, ReadersTracked, LossCloses, StreamReadable, Ops
  <2>7. QED
    BY <2>1, <2>3, <2>4, <2>5, <2>6 DEF FfiInv
<1>2. FfiInv /\ [FfiNext]_ffi_vars => FfiInv'
  <2> SUFFICES ASSUME FfiInv, [FfiNext]_ffi_vars PROVE FfiInv'
    OBVIOUS
  <2>1. CASE UNCHANGED ffi_vars
    BY <2>1 DEF ffi_vars, op_vars, stream_vars, FfiInv, FfiTypeOK, Slots, CountedOp,
       HandlesSound,
                OwnerSound, SleepersOnLive, StreamInv, ReadersTracked, LossCloses, StreamReadable
  <2>2. ASSUME NEW o \in Ops, OpStep(o) PROVE FfiInv'
    BY <2>2, ReserveOpInv, StartTaskInv, StartRefusedInv, TaskAnswersInv, CancelInv, FreeInv,
       CleanupInv, FreeEndsInv, TakesInv DEF OpStep
  <2>3. ASSUME NEW o \in Reads, ReadStep(o) PROVE FfiInv'
    BY <2>3, ReadLooksInv, ReadReservesInv, ReadTakesInv, TaskReadsInv, TaskPublishesInv
    DEF ReadStep
  <2>4. QED
    BY <2>1, <2>2, <2>3, WaitInv, WaitTimesOutInv, ReadBeginsInv, ReadEndsInv, CloseInv
    DEF FfiNext
<1>3. QED
  BY <1>1, <1>2, PTL DEF FfiSpec

(* The count of outstanding operations is exact: calls that fail half way, *)
(* cancelled operations and freed handles return their slot once           *)
(* (try_reserve_outstanding, release_outstanding).                         *)
THEOREM SlotsExact == FfiSpec => []OutstandingExact
<1>1. FfiInv => OutstandingExact
  BY DEF FfiInv, OutstandingExact, Slots
<1>2. QED
  BY <1>1, FfiInvariance, PTL

(* Nobody sleeps in lk_op_wait past a result, a cancellation or an abort.  *)
THEOREM SleepersWake == FfiSpec => []SleepersWillWake
<1>1. FfiInv => SleepersWillWake
  BY DEF FfiInv, SleepersWillWake, SleepersOnLive, HandlesSound
<1>2. QED
  BY <1>1, FfiInvariance, PTL

(* However its reads are cancelled and freed, an open stream stays         *)
(* readable, and the end its reader sees is the end of the body            *)
(* (lk_stream_read, lk_stream_read_async).                                 *)
THEOREM StreamReadsSound == FfiSpec => []ReadsSound
<1>1. FfiInv => ReadsSound
  BY DEF FfiInv, StreamInv, LossCloses, ReadsSound, EndIsWhole
<1>2. QED
  BY <1>1, FfiInvariance, PTL

(* The result of an operation is settled once and taken once: a late       *)
(* answer does not replace a cancellation, and nothing brings a consumed   *)
(* result back (OpState).                                                  *)
THEOREM ResultsSettle == FfiSpec => SettledOnce
<1>1. ASSUME FfiInv, [FfiNext]_ffi_vars, NEW o \in Ops, kind[o] # "probe", op_handle[o] # "none"
      PROVE  Forward(result[o], result'[o])
  <2>1. ASSUME NEW p \in Ops, NEW r \in {"ok", "err"}, Publish(p, r)
        PROVE  Forward(result[o], result'[o])
    BY <1>1, <2>1 DEF FfiInv, FfiTypeOK, Publish, Forward
  <2>2. ASSUME UNCHANGED result PROVE Forward(result[o], result'[o])
    BY <2>2 DEF Forward
  <2>3. ASSUME NEW p \in Ops, OpStep(p) PROVE Forward(result[o], result'[o])
    <3>1. CASE TaskAnswers(p)
      BY <3>1, <2>1 DEF TaskAnswers
    <3>2. CASE lk_op_cancel(p)
      BY <3>2 DEF FfiInv, FfiTypeOK, lk_op_cancel, Forward
    <3>3. ASSUME NEW kinds, NEW r \in {"ok", "err"}, Take(p, kinds, r)
          PROVE  Forward(result[o], result'[o])
      BY <3>3 DEF FfiInv, FfiTypeOK, Take, Forward
    <3>4. CASE ReserveOp(p) \/ StartTask(p) \/ StartRefused(p) \/ lk_op_free(p) \/ Cleanup(p)
                 \/ FreeEnds(p)
      BY <3>4, <2>2 DEF ReserveOp, StartTask, StartRefused, lk_op_free, Cleanup, FreeEnds
    <3>5. QED
      BY <1>1, <2>3, <3>1, <3>2, <3>3, <3>4, TakesInv DEF OpStep
  <2>4. ASSUME NEW p \in Reads, ReadStep(p) PROVE Forward(result[o], result'[o])
    <3>1. CASE TaskPublishes(p)
      <4>1. p \in Ops /\ outcome[p] \in {"ok", "err"}
        BY <1>1 DEF FfiInv, FfiTypeOK, Ops
      <4>2. QED
        BY <4>1, <3>1, <2>1 DEF TaskPublishes
    <3>2. CASE ReadReserves(p)
      <4>1. op_handle[p] = "none"
        BY <1>1, <3>2 DEF FfiInv, OwnerSound, ReadReserves
      <4>2. result'[o] = result[o]
        BY <1>1, <3>2, <4>1 DEF FfiInv, FfiTypeOK, ReadReserves
      <4>3. QED
        BY <4>2 DEF Forward
    <3>3. CASE ReadLooks(p) \/ ReadTakes(p) \/ TaskReads(p)
      BY <3>3, <2>2 DEF ReadLooks, ReadTakes, TaskReads, op_vars
    <3>4. QED
      BY <2>4, <3>1, <3>2, <3>3 DEF ReadStep
  <2>5. ASSUME \/ \E w \in Sleepers : WaitTimesOut(w) \/ \E p \in Ops : lk_op_wait(w, p)
               \/ ReadBegins \/ ReadEnds \/ lk_stream_close \/ UNCHANGED ffi_vars
        PROVE  Forward(result[o], result'[o])
    BY <2>5, <2>2 DEF WaitTimesOut, lk_op_wait, ReadBegins, ReadEnds, lk_stream_close, op_vars,
                      ffi_vars
  <2>6. QED
    BY <1>1, <2>3, <2>4, <2>5 DEF FfiNext
<1>2. FfiInv /\ [FfiNext]_ffi_vars =>
        [\A o \in Ops : kind[o] # "probe" /\ op_handle[o] # "none"
                           => Forward(result[o], result'[o])]_ffi_vars
  BY <1>1
<1>3. QED
  BY <1>2, FfiInvariance, PTL DEF FfiSpec, SettledOnce
=============================================================================
