------------------------ MODULE ConnectionPoolProofs ------------------------
(* Proofs about ConnectionPool for every number of connections, keys and    *)
(* limits.  BudgetConserved and LiveIsCounted are not inductive alone: that  *)
(* a dropped entry really owns a permit, and that a granted reservation did  *)
(* not have one, is what Placement and MutexOwner add.                       *)
EXTENDS ConnectionPool, FiniteSetTheorems, TLAPS

(* Where a permit can be, given where its connection is.                    *)
Placement ==
    \A c \in Conn :
        /\ permit[c] = "entry" <=> c \in pooled /\ proto[c] = "h1"
        /\ c \in pooled => permit[c] \in {"entry", "tracker", "none"}
        /\ c \in lent => c \notin pooled /\ permit[c] \in {"legacy", "none"}
        /\ permit[c] \in {"user", "legacy"} \/ c \in lent => proto[c] = "h1"
        /\ permit[c] \in {"dialer", "speculative"} => driver[c] = "none"
        /\ permit[c] = "legacy" /\ c \notin lent => driver[c] # "running"
        /\ driver[c] = "running" \/ c \in adopted => permit[c] # "none"

(* The reservation in progress has no permit yet, and nobody knows its      *)
(* connection.                                                              *)
MutexOwner ==
    \/ reserving = Idle
    \/ /\ reserving.phase \in {"try", "retry"}
       /\ reserving.conn \in Conn
       /\ permit[reserving.conn] = "none"
       /\ driver[reserving.conn] = "none"
       /\ reserving.conn \notin pooled \union lent

IndInv ==
    /\ TypeOK
    /\ BudgetConserved
    /\ HardLimit
    /\ MuxUnique
    /\ Placement
    /\ MutexOwner

-----------------------------------------------------------------------------
(* The budget.                                                              *)

(* The conjuncts of IndInv that speak of the counter.                       *)
Budget == in_use \in Nat /\ BudgetConserved /\ HardLimit

(* Held is finite, so it can be counted.                                    *)
LEMMA HeldFinite == IsFiniteSet(Held) /\ Held \subseteq Conn
BY FS_Subset, PoolAssumption DEF Held

(* Dropping the permits of R, none of them dropped before, keeps the count. *)
LEMMA ReleaseBudget ==
    ASSUME Budget, NEW p \in [Conn -> PermitPlaces],
           {c \in Conn : p[c] # "none"} = Held,
           NEW R, R \subseteq Held, Release(p, R)
    PROVE  Budget'
<1>1. IsFiniteSet(Held) /\ Held \subseteq Conn
  BY HeldFinite
<1>2. IsFiniteSet(R) /\ Held \intersect R = R
  BY <1>1, FS_Subset
<1>3. Held' = Held \ R
  BY <1>1 DEF Release, Dropped, Held
<1>4. /\ IsFiniteSet(Held \ R)
      /\ Cardinality(Held \ R) = Cardinality(Held) - Cardinality(Held \intersect R)
  BY <1>1, FS_Difference
<1>5. Cardinality(Held \ R) \in Nat /\ Cardinality(R) \in Nat
  BY <1>2, <1>4, FS_CardinalityType
<1>6. BudgetConserved' /\ in_use' \in Nat
  BY <1>2, <1>3, <1>4, <1>5 DEF Release, Budget, BudgetConserved
<1>7. (Held \ adopted)' \subseteq Held \ adopted
  BY <1>3 DEF Release
<1>8. IsFiniteSet(Held \ adopted)
  BY <1>1, FS_Difference
<1>9. /\ IsFiniteSet((Held \ adopted)')
      /\ Cardinality((Held \ adopted)') <= Cardinality(Held \ adopted)
  BY <1>7, <1>8, FS_Subset
<1>10. /\ Cardinality((Held \ adopted)') \in Nat
       /\ Cardinality(Held \ adopted) \in Nat
  BY <1>8, <1>9, FS_CardinalityType
<1>11. HardLimit'
  BY <1>9, <1>10, PoolAssumption DEF HardLimit, Budget
<1> QED  BY <1>6, <1>11 DEF Budget

(* A grant of try_reserve_counter stays within max_total.                   *)
LEMMA TakeBudget ==
    ASSUME Budget, permit \in [Conn -> PermitPlaces],
           NEW c \in Conn, permit[c] = "none",
           NEW place \in PermitPlaces \ {"none"}, Take(c, place), adopted' = adopted
    PROVE  Budget'
<1>1. IsFiniteSet(Held) /\ c \notin Held
  BY HeldFinite DEF Held
<1>2. Held' = Held \union {c}
  BY DEF Held, Take, Hand
<1>3. IsFiniteSet(Held') /\ Cardinality(Held') = Cardinality(Held) + 1
  BY <1>1, <1>2, FS_AddElement
<1>4. BudgetConserved' /\ in_use' \in Nat
  BY <1>3 DEF Take, Budget, BudgetConserved
<1>5. /\ IsFiniteSet(Held' \ adopted')
      /\ Cardinality(Held' \ adopted') <= Cardinality(Held')
  BY <1>3, FS_Subset, Held' \ adopted' \subseteq Held'
<1>6. Cardinality(Held' \ adopted') \in Nat
  BY <1>5, FS_CardinalityType
<1>7. Cardinality(Held') <= MaxTotal
  BY <1>3, PoolAssumption DEF Take, Budget, BudgetConserved
<1>8. HardLimit'
  BY <1>4, <1>5, <1>6, <1>7, PoolAssumption DEF HardLimit, BudgetConserved
<1> QED  BY <1>4, <1>8 DEF Budget

(* Adopting counts one more permit and one more connection above the limit. *)
LEMMA AdoptBudget ==
    ASSUME Budget, permit \in [Conn -> PermitPlaces],
           NEW c \in Conn, permit[c] = "none",
           NEW place \in PermitPlaces \ {"none"}, Adopt(c, place)
    PROVE  Budget'
<1>1. IsFiniteSet(Held) /\ c \notin Held
  BY HeldFinite DEF Held
<1>2. Held' = Held \union {c}
  BY DEF Held, Adopt
<1>3. IsFiniteSet(Held') /\ Cardinality(Held') = Cardinality(Held) + 1
  BY <1>1, <1>2, FS_AddElement
<1>4. BudgetConserved' /\ in_use' \in Nat
  BY <1>3 DEF Adopt, Budget, BudgetConserved
<1>5. Held' \ adopted' \subseteq Held \ adopted
  BY <1>2 DEF Adopt
<1>6. IsFiniteSet(Held \ adopted)
  BY <1>1, FS_Difference
<1>7. /\ IsFiniteSet(Held' \ adopted')
      /\ Cardinality(Held' \ adopted') <= Cardinality(Held \ adopted)
  BY <1>5, <1>6, FS_Subset
<1>8. /\ Cardinality(Held' \ adopted') \in Nat
      /\ Cardinality(Held \ adopted) \in Nat
  BY <1>6, <1>7, FS_CardinalityType
<1>9. HardLimit'
  BY <1>7, <1>8, PoolAssumption DEF HardLimit, Budget
<1> QED  BY <1>4, <1>9 DEF Budget

(* A permit that changes hands, or steps that leave permits alone.          *)
LEMMA SameBudget ==
    ASSUME Budget, Held' = Held, in_use' = in_use, adopted' = adopted
    PROVE  Budget'
BY DEF Budget, BudgetConserved, HardLimit

-----------------------------------------------------------------------------
(* Preservation of IndInv, one lemma per action.                            *)

(* IndInv is kept by evict_closed drops only permits that their entries own. *)
LEMMA ReserveBeginInv ==
    ASSUME IndInv, NEW k \in Key, NEW c \in Conn, ReserveBegin(k, c)
    PROVE  IndInv'
<1> DEFINE p0 == permit
<1> DEFINE R == OwnersIn(ClosedEntries) \union StaleLegacy
<1>1. Release(p0, R)
  BY DEF ReserveBegin
<1>2. R \subseteq Held /\ R \subseteq Conn
  BY DEF IndInv, TypeOK, Placement, Held, ReserveBegin, OwnersIn, ClosedEntries, StaleLegacy, IsFinished
<1>3. p0 \in [Conn -> PermitPlaces] /\ {x \in Conn : p0[x] # "none"} = Held
  BY DEF IndInv, TypeOK, Held, PermitPlaces, ReserveBegin
<1> HIDE DEF p0
<1>4. Budget'
  BY <1>1, <1>2, <1>3, ReleaseBudget DEF IndInv, TypeOK, Budget
<1> USE DEF p0, Release, Dropped, ReserveBegin, Fresh, MutexFree, Keep, OwnersIn, ClosedEntries, StaleLegacy, IsFinished
<1>5. TypeOK'
  BY <1>2, <1>4 DEF IndInv, TypeOK, Budget, PermitPlaces, DriverStates, Protos, Idle, MutexOwner
<1>6. MuxUnique'
  BY <1>2, <1>4 DEF IndInv, TypeOK, MuxUnique, Placement, MutexOwner, Idle
<1>7. Placement'
  BY <1>2, <1>4 DEF IndInv, TypeOK, Placement, MutexOwner, Idle
<1>8. MutexOwner'
  BY <1>2, <1>4 DEF IndInv, TypeOK, Placement, MutexOwner, Idle
<1> QED  BY <1>4, <1>5, <1>6, <1>7, <1>8 DEF IndInv, Budget

(* IndInv is kept by a reservation granted by the compare-and-swap. *)
LEMMA ReserveGrantedInv ==
    ASSUME IndInv, ReserveGranted
    PROVE  IndInv'
<1> DEFINE x == reserving.conn
<1>1. x \in Conn /\ permit[x] = "none" /\ Take(x, "dialer") /\ adopted' = adopted
  BY DEF IndInv, MutexOwner, Idle, ReserveGranted, Fresh
<1>2. permit \in [Conn -> PermitPlaces] /\ "dialer" \in PermitPlaces \ {"none"}
  BY DEF IndInv, TypeOK, PermitPlaces
<1> HIDE DEF x
<1>4. Budget'
  BY <1>1, <1>2, TakeBudget DEF IndInv, TypeOK, Budget
<1> USE DEF x, ReserveGranted, Take, Hand
<1>5. TypeOK'
  BY <1>1, <1>4 DEF IndInv, TypeOK, Budget, PermitPlaces, DriverStates, Protos, Idle, MutexOwner
<1>6. MuxUnique'
  BY <1>1, <1>4 DEF IndInv, TypeOK, MuxUnique, Placement, MutexOwner, Idle
<1>7. Placement'
  BY <1>1, <1>4 DEF IndInv, TypeOK, Placement, MutexOwner, Idle
<1>8. MutexOwner'
  BY <1>1, <1>4 DEF IndInv, TypeOK, Placement, MutexOwner, Idle
<1> QED  BY <1>4, <1>5, <1>6, <1>7, <1>8 DEF IndInv, Budget

(* IndInv is kept by the evicted idle H1 entry owns the permit it gives back. *)
LEMMA ReserveEvictInv ==
    ASSUME IndInv, ReserveEvict
    PROVE  IndInv'
<1> DEFINE p0 == permit
<1> DEFINE R == Oldest(IdleH1)
<1>1. Release(p0, R)
  BY DEF ReserveEvict
<1>2. R \subseteq Held /\ R \subseteq Conn
  BY DEF IndInv, TypeOK, Placement, Held, ReserveEvict, Oldest, IdleH1, OwnersIn
<1>3. p0 \in [Conn -> PermitPlaces] /\ {x \in Conn : p0[x] # "none"} = Held
  BY DEF IndInv, TypeOK, Held, PermitPlaces, ReserveEvict
<1> HIDE DEF p0
<1>4. Budget'
  BY <1>1, <1>2, <1>3, ReleaseBudget DEF IndInv, TypeOK, Budget
<1> USE DEF p0, Release, Dropped, ReserveEvict, Keep, Stopping, Oldest, IdleH1, OwnersIn
<1>5. TypeOK'
  BY <1>2, <1>4 DEF IndInv, TypeOK, Budget, PermitPlaces, DriverStates, Protos, Idle, MutexOwner
<1>6. MuxUnique'
  BY <1>2, <1>4 DEF IndInv, TypeOK, MuxUnique, Placement, MutexOwner, Idle
<1>7. Placement'
  BY <1>2, <1>4 DEF IndInv, TypeOK, Placement, MutexOwner, Idle
<1>8. MutexOwner'
  BY <1>2, <1>4 DEF IndInv, TypeOK, Placement, MutexOwner, Idle
<1> QED  BY <1>4, <1>5, <1>6, <1>7, <1>8 DEF IndInv, Budget

(* IndInv is kept by a refused reservation. *)
LEMMA ReserveRefusedInv ==
    ASSUME IndInv, ReserveRefused
    PROVE  IndInv'
<1>4. Budget'
  BY SameBudget DEF IndInv, TypeOK, Budget, Held, ReserveRefused
<1> USE DEF ReserveRefused
<1>5. TypeOK'
  BY <1>4 DEF IndInv, TypeOK, Budget, PermitPlaces, DriverStates, Protos, Idle, MutexOwner
<1>6. MuxUnique'
  BY <1>4 DEF IndInv, TypeOK, MuxUnique, Placement, MutexOwner, Idle
<1>7. Placement'
  BY <1>4 DEF IndInv, TypeOK, Placement, MutexOwner, Idle
<1>8. MutexOwner'
  BY <1>4 DEF IndInv, TypeOK, Placement, MutexOwner, Idle
<1> QED  BY <1>4, <1>5, <1>6, <1>7, <1>8 DEF IndInv, Budget

(* IndInv is kept by a speculative reservation, beside the mutex. *)
LEMMA ReserveSpeculativeInv ==
    ASSUME IndInv, NEW c \in Conn, ReserveSpeculative(c)
    PROVE  IndInv'
<1> DEFINE x == c
<1>1. x \in Conn /\ permit[x] = "none" /\ Take(x, "speculative") /\ adopted' = adopted
  BY DEF IndInv, MutexOwner, Idle, ReserveSpeculative, Fresh
<1>2. permit \in [Conn -> PermitPlaces] /\ "speculative" \in PermitPlaces \ {"none"}
  BY DEF IndInv, TypeOK, PermitPlaces
<1> HIDE DEF x
<1>4. Budget'
  BY <1>1, <1>2, TakeBudget DEF IndInv, TypeOK, Budget
<1> USE DEF x, ReserveSpeculative, Fresh, Take, Hand
<1>5. TypeOK'
  BY <1>1, <1>4 DEF IndInv, TypeOK, Budget, PermitPlaces, DriverStates, Protos, Idle, MutexOwner
<1>6. MuxUnique'
  BY <1>1, <1>4 DEF IndInv, TypeOK, MuxUnique, Placement, MutexOwner, Idle
<1>7. Placement'
  BY <1>1, <1>4 DEF IndInv, TypeOK, Placement, MutexOwner, Idle
<1>8. MutexOwner'
  BY <1>1, <1>4 DEF IndInv, TypeOK, Placement, MutexOwner, Idle
<1> QED  BY <1>4, <1>5, <1>6, <1>7, <1>8 DEF IndInv, Budget

(* IndInv is kept by the end of a speculative attempt. *)
LEMMA SpeculativeEndsInv ==
    ASSUME IndInv, NEW c \in Conn, SpeculativeEnds(c)
    PROVE  IndInv'
<1> DEFINE p0 == permit
<1> DEFINE R == {c}
<1>1. Release(p0, R)
  BY DEF SpeculativeEnds
<1>2. R \subseteq Held /\ R \subseteq Conn
  BY DEF IndInv, TypeOK, Placement, Held, SpeculativeEnds
<1>3. p0 \in [Conn -> PermitPlaces] /\ {x \in Conn : p0[x] # "none"} = Held
  BY DEF IndInv, TypeOK, Held, PermitPlaces, SpeculativeEnds
<1> HIDE DEF p0
<1>4. Budget'
  BY <1>1, <1>2, <1>3, ReleaseBudget DEF IndInv, TypeOK, Budget
<1> USE DEF p0, Release, Dropped, SpeculativeEnds
<1>5. TypeOK'
  BY <1>2, <1>4 DEF IndInv, TypeOK, Budget, PermitPlaces, DriverStates, Protos, Idle, MutexOwner
<1>6. MuxUnique'
  BY <1>2, <1>4 DEF IndInv, TypeOK, MuxUnique, Placement, MutexOwner, Idle
<1>7. Placement'
  BY <1>2, <1>4 DEF IndInv, TypeOK, Placement, MutexOwner, Idle
<1>8. MutexOwner'
  BY <1>2, <1>4 DEF IndInv, TypeOK, Placement, MutexOwner, Idle
<1> QED  BY <1>4, <1>5, <1>6, <1>7, <1>8 DEF IndInv, Budget

(* IndInv is kept by a failed dial. *)
LEMMA DialFailsInv ==
    ASSUME IndInv, NEW c \in Conn, DialFails(c)
    PROVE  IndInv'
<1> DEFINE p0 == permit
<1> DEFINE R == {c}
<1>1. Release(p0, R)
  BY DEF DialFails
<1>2. R \subseteq Held /\ R \subseteq Conn
  BY DEF IndInv, TypeOK, Placement, Held, DialFails
<1>3. p0 \in [Conn -> PermitPlaces] /\ {x \in Conn : p0[x] # "none"} = Held
  BY DEF IndInv, TypeOK, Held, PermitPlaces, DialFails
<1> HIDE DEF p0
<1>4. Budget'
  BY <1>1, <1>2, <1>3, ReleaseBudget DEF IndInv, TypeOK, Budget
<1> USE DEF p0, Release, Dropped, DialFails
<1>5. TypeOK'
  BY <1>2, <1>4 DEF IndInv, TypeOK, Budget, PermitPlaces, DriverStates, Protos, Idle, MutexOwner
<1>6. MuxUnique'
  BY <1>2, <1>4 DEF IndInv, TypeOK, MuxUnique, Placement, MutexOwner, Idle
<1>7. Placement'
  BY <1>2, <1>4 DEF IndInv, TypeOK, Placement, MutexOwner, Idle
<1>8. MutexOwner'
  BY <1>2, <1>4 DEF IndInv, TypeOK, Placement, MutexOwner, Idle
<1> QED  BY <1>4, <1>5, <1>6, <1>7, <1>8 DEF IndInv, Budget

(* IndInv is kept by insert_h2_reserved, winner or loser. *)
LEMMA InsertH2Inv ==
    ASSUME IndInv, NEW c \in Conn, InsertH2(c)
    PROVE  IndInv'
<1>1. Held' = Held
  BY DEF IndInv, TypeOK, Held, InsertH2, Hand
<1>4. Budget'
  BY <1>1, SameBudget DEF IndInv, TypeOK, Budget, InsertH2
<1> USE DEF InsertH2, Hand, Established, Vacant, Entries, KeepTouched, MutexFree
<1>5. TypeOK'
  BY <1>4 DEF IndInv, TypeOK, Budget, PermitPlaces, DriverStates, Protos, Idle, MutexOwner
<1>6. MuxUnique'
  BY <1>4 DEF IndInv, TypeOK, MuxUnique, Placement, MutexOwner, Idle
<1>7. Placement'
  BY <1>4 DEF IndInv, TypeOK, Placement, MutexOwner, Idle
<1>8. MutexOwner'
  BY <1>4 DEF IndInv, TypeOK, Placement, MutexOwner, Idle
<1> QED  BY <1>4, <1>5, <1>6, <1>7, <1>8 DEF IndInv, Budget

(* IndInv is kept by insert_h1_reserved. *)
LEMMA InsertH1Inv ==
    ASSUME IndInv, NEW c \in Conn, InsertH1(c)
    PROVE  IndInv'
<1>1. Held' = Held
  BY DEF IndInv, TypeOK, Held, InsertH1, Hand
<1>4. Budget'
  BY <1>1, SameBudget DEF IndInv, TypeOK, Budget, InsertH1
<1> USE DEF InsertH1, Hand, Established, KeepTouched, MutexFree
<1>5. TypeOK'
  BY <1>4 DEF IndInv, TypeOK, Budget, PermitPlaces, DriverStates, Protos, Idle, MutexOwner
<1>6. MuxUnique'
  BY <1>4 DEF IndInv, TypeOK, MuxUnique, Placement, MutexOwner, Idle
<1>7. Placement'
  BY <1>4 DEF IndInv, TypeOK, Placement, MutexOwner, Idle
<1>8. MutexOwner'
  BY <1>4 DEF IndInv, TypeOK, Placement, MutexOwner, Idle
<1> QED  BY <1>4, <1>5, <1>6, <1>7, <1>8 DEF IndInv, Budget

(* IndInv is kept by an H1 connection used by its request. *)
LEMMA UseH1Inv ==
    ASSUME IndInv, NEW c \in Conn, UseH1(c)
    PROVE  IndInv'
<1>1. Held' = Held
  BY DEF IndInv, TypeOK, Held, UseH1, Hand
<1>4. Budget'
  BY <1>1, SameBudget DEF IndInv, TypeOK, Budget, UseH1
<1> USE DEF UseH1, Hand, Established
<1>5. TypeOK'
  BY <1>4 DEF IndInv, TypeOK, Budget, PermitPlaces, DriverStates, Protos, Idle, MutexOwner
<1>6. MuxUnique'
  BY <1>4 DEF IndInv, TypeOK, MuxUnique, Placement, MutexOwner, Idle
<1>7. Placement'
  BY <1>4 DEF IndInv, TypeOK, Placement, MutexOwner, Idle
<1>8. MutexOwner'
  BY <1>4 DEF IndInv, TypeOK, Placement, MutexOwner, Idle
<1> QED  BY <1>4, <1>5, <1>6, <1>7, <1>8 DEF IndInv, Budget

(* IndInv is kept by return_h1_reserved and the entry it may push out. *)
LEMMA ReturnH1Inv ==
    ASSUME IndInv, NEW c \in Conn, ReturnH1(c)
    PROVE  IndInv'
<1> DEFINE p0 == [permit EXCEPT ![c] = "entry"]
<1> DEFINE R == Overflow(origin[c])
<1>1. Release(p0, R)
  BY DEF ReturnH1
<1>2. R \subseteq Held /\ R \subseteq Conn
  BY DEF IndInv, TypeOK, Placement, Held, ReturnH1, Overflow, Oldest, Entries
<1>3. p0 \in [Conn -> PermitPlaces] /\ {x \in Conn : p0[x] # "none"} = Held
  BY DEF IndInv, TypeOK, Held, PermitPlaces, ReturnH1
<1> HIDE DEF p0
<1>4. Budget'
  BY <1>1, <1>2, <1>3, ReleaseBudget DEF IndInv, TypeOK, Budget
<1> USE DEF p0, Release, Dropped, ReturnH1, KeepTouched, MutexFree, Stopping, Overflow, Oldest, Entries
<1>5. TypeOK'
  BY <1>2, <1>4 DEF IndInv, TypeOK, Budget, PermitPlaces, DriverStates, Protos, Idle, MutexOwner
<1>6. MuxUnique'
  BY <1>2, <1>4 DEF IndInv, TypeOK, MuxUnique, Placement, MutexOwner, Idle
<1>7. Placement'
  BY <1>2, <1>4 DEF IndInv, TypeOK, Placement, MutexOwner, Idle
<1>8. MutexOwner'
  BY <1>2, <1>4 DEF IndInv, TypeOK, Placement, MutexOwner, Idle
<1> QED  BY <1>4, <1>5, <1>6, <1>7, <1>8 DEF IndInv, Budget

(* IndInv is kept by an H1 connection dropped by its request. *)
LEMMA DropH1Inv ==
    ASSUME IndInv, NEW c \in Conn, DropH1(c)
    PROVE  IndInv'
<1> DEFINE p0 == permit
<1> DEFINE R == {c}
<1>1. Release(p0, R)
  BY DEF DropH1
<1>2. R \subseteq Held /\ R \subseteq Conn
  BY DEF IndInv, TypeOK, Placement, Held, DropH1
<1>3. p0 \in [Conn -> PermitPlaces] /\ {x \in Conn : p0[x] # "none"} = Held
  BY DEF IndInv, TypeOK, Held, PermitPlaces, DropH1
<1> HIDE DEF p0
<1>4. Budget'
  BY <1>1, <1>2, <1>3, ReleaseBudget DEF IndInv, TypeOK, Budget
<1> USE DEF p0, Release, Dropped, DropH1, Stopping
<1>5. TypeOK'
  BY <1>2, <1>4 DEF IndInv, TypeOK, Budget, PermitPlaces, DriverStates, Protos, Idle, MutexOwner
<1>6. MuxUnique'
  BY <1>2, <1>4 DEF IndInv, TypeOK, MuxUnique, Placement, MutexOwner, Idle
<1>7. Placement'
  BY <1>2, <1>4 DEF IndInv, TypeOK, Placement, MutexOwner, Idle
<1>8. MutexOwner'
  BY <1>2, <1>4 DEF IndInv, TypeOK, Placement, MutexOwner, Idle
<1> QED  BY <1>4, <1>5, <1>6, <1>7, <1>8 DEF IndInv, Budget

(* IndInv is kept by remove drops the H1 permits of a key and detaches its trackers. *)
LEMMA RemoveInv ==
    ASSUME IndInv, NEW k \in Key, Remove(k)
    PROVE  IndInv'
<1> DEFINE p0 == permit
<1> DEFINE R == OwnersIn({c \in pooled : origin[c] = k})
<1>1. Release(p0, R)
  BY DEF Remove
<1>2. R \subseteq Held /\ R \subseteq Conn
  BY DEF IndInv, TypeOK, Placement, Held, Remove, OwnersIn
<1>3. p0 \in [Conn -> PermitPlaces] /\ {x \in Conn : p0[x] # "none"} = Held
  BY DEF IndInv, TypeOK, Held, PermitPlaces, Remove
<1> HIDE DEF p0
<1>4. Budget'
  BY <1>1, <1>2, <1>3, ReleaseBudget DEF IndInv, TypeOK, Budget
<1> USE DEF p0, Release, Dropped, Remove, Keep, MutexFree, Stopping, OwnersIn
<1>5. TypeOK'
  BY <1>2, <1>4 DEF IndInv, TypeOK, Budget, PermitPlaces, DriverStates, Protos, Idle, MutexOwner
<1>6. MuxUnique'
  BY <1>2, <1>4 DEF IndInv, TypeOK, MuxUnique, Placement, MutexOwner, Idle
<1>7. Placement'
  BY <1>2, <1>4 DEF IndInv, TypeOK, Placement, MutexOwner, Idle
<1>8. MutexOwner'
  BY <1>2, <1>4 DEF IndInv, TypeOK, Placement, MutexOwner, Idle
<1> QED  BY <1>4, <1>5, <1>6, <1>7, <1>8 DEF IndInv, Budget

(* IndInv is kept by the end of a driver. *)
LEMMA DriverExitsInv ==
    ASSUME IndInv, NEW c \in Conn, DriverExits(c)
    PROVE  IndInv'
<1>4. Budget'
  BY SameBudget DEF IndInv, TypeOK, Budget, Held, DriverExits
<1> USE DEF DriverExits
<1>5. TypeOK'
  BY <1>4 DEF IndInv, TypeOK, Budget, PermitPlaces, DriverStates, Protos, Idle, MutexOwner
<1>6. MuxUnique'
  BY <1>4 DEF IndInv, TypeOK, MuxUnique, Placement, MutexOwner, Idle
<1>7. Placement'
  BY <1>4 DEF IndInv, TypeOK, Placement, MutexOwner, Idle
<1>8. MutexOwner'
  BY <1>4 DEF IndInv, TypeOK, Placement, MutexOwner, Idle
<1> QED  BY <1>4, <1>5, <1>6, <1>7, <1>8 DEF IndInv, Budget

(* IndInv is kept by the end of an aborted driver. *)
LEMMA DriverStopsInv ==
    ASSUME IndInv, NEW c \in Conn, DriverStops(c)
    PROVE  IndInv'
<1>4. Budget'
  BY SameBudget DEF IndInv, TypeOK, Budget, Held, DriverStops
<1> USE DEF DriverStops
<1>5. TypeOK'
  BY <1>4 DEF IndInv, TypeOK, Budget, PermitPlaces, DriverStates, Protos, Idle, MutexOwner
<1>6. MuxUnique'
  BY <1>4 DEF IndInv, TypeOK, MuxUnique, Placement, MutexOwner, Idle
<1>7. Placement'
  BY <1>4 DEF IndInv, TypeOK, Placement, MutexOwner, Idle
<1>8. MutexOwner'
  BY <1>4 DEF IndInv, TypeOK, Placement, MutexOwner, Idle
<1> QED  BY <1>4, <1>5, <1>6, <1>7, <1>8 DEF IndInv, Budget

(* IndInv is kept by the end of a tracker. *)
LEMMA TrackerEndsInv ==
    ASSUME IndInv, NEW c \in Conn, TrackerEnds(c)
    PROVE  IndInv'
<1> DEFINE p0 == permit
<1> DEFINE R == {c}
<1>1. Release(p0, R)
  BY DEF TrackerEnds
<1>2. R \subseteq Held /\ R \subseteq Conn
  BY DEF IndInv, TypeOK, Placement, Held, TrackerEnds
<1>3. p0 \in [Conn -> PermitPlaces] /\ {x \in Conn : p0[x] # "none"} = Held
  BY DEF IndInv, TypeOK, Held, PermitPlaces, TrackerEnds
<1> HIDE DEF p0
<1>4. Budget'
  BY <1>1, <1>2, <1>3, ReleaseBudget DEF IndInv, TypeOK, Budget
<1> USE DEF p0, Release, Dropped, TrackerEnds, Stopping
<1>5. TypeOK'
  BY <1>2, <1>4 DEF IndInv, TypeOK, Budget, PermitPlaces, DriverStates, Protos, Idle, MutexOwner
<1>6. MuxUnique'
  BY <1>2, <1>4 DEF IndInv, TypeOK, MuxUnique, Placement, MutexOwner, Idle
<1>7. Placement'
  BY <1>2, <1>4 DEF IndInv, TypeOK, Placement, MutexOwner, Idle
<1>8. MutexOwner'
  BY <1>2, <1>4 DEF IndInv, TypeOK, Placement, MutexOwner, Idle
<1> QED  BY <1>4, <1>5, <1>6, <1>7, <1>8 DEF IndInv, Budget

(* IndInv is kept by the deprecated insertions. *)
LEMMA LegacyInsertInv ==
    ASSUME IndInv, NEW k \in Key, NEW c \in Conn, NEW p \in Protos, LegacyInsert(k, c, p)
    PROVE  IndInv'
<1> DEFINE place == IF p = "h1" THEN "entry" ELSE "tracker"
<1>1. permit[c] = "none" /\ Adopt(c, place)
  BY DEF LegacyInsert, Fresh
<1>2. permit \in [Conn -> PermitPlaces] /\ place \in PermitPlaces \ {"none"}
  BY DEF IndInv, TypeOK, PermitPlaces
<1> HIDE DEF place
<1>4. Budget'
  BY <1>1, <1>2, AdoptBudget DEF IndInv, TypeOK, Budget
<1> USE DEF LegacyInsert, Adopt, Fresh, Established, Vacant, Entries, KeepTouched, MutexFree
<1>5. TypeOK'
  BY <1>4 DEF IndInv, TypeOK, Budget, PermitPlaces, DriverStates, Protos, Idle, MutexOwner
<1>6. MuxUnique'
  BY <1>4 DEF IndInv, TypeOK, MuxUnique, Placement, MutexOwner, Idle
<1>7. Placement'
  BY <1>4 DEF IndInv, TypeOK, Placement, MutexOwner, Idle
<1>8. MutexOwner'
  BY <1>4 DEF IndInv, TypeOK, Placement, MutexOwner, Idle
<1> QED  BY <1>4, <1>5, <1>6, <1>7, <1>8 DEF IndInv, Budget

(* IndInv is kept by a deprecated caller dropping its connection. *)
LEMMA LegacyForgetInv ==
    ASSUME IndInv, NEW c \in Conn, LegacyForget(c)
    PROVE  IndInv'
<1>4. Budget'
  BY SameBudget DEF IndInv, TypeOK, Budget, Held, LegacyForget
<1> USE DEF LegacyForget, Stopping
<1>5. TypeOK'
  BY <1>4 DEF IndInv, TypeOK, Budget, PermitPlaces, DriverStates, Protos, Idle, MutexOwner
<1>6. MuxUnique'
  BY <1>4 DEF IndInv, TypeOK, MuxUnique, Placement, MutexOwner, Idle
<1>7. Placement'
  BY <1>4 DEF IndInv, TypeOK, Placement, MutexOwner, Idle
<1>8. MutexOwner'
  BY <1>4 DEF IndInv, TypeOK, Placement, MutexOwner, Idle
<1> QED  BY <1>4, <1>5, <1>6, <1>7, <1>8 DEF IndInv, Budget

(* IndInv is kept by insert_h3_reserved: the loser's permit is released. *)
LEMMA InsertH3Inv ==
    ASSUME IndInv, NEW c \in Conn, InsertH3(c)
    PROVE  IndInv'
<1>1. CASE Vacant(origin[c], "h3")
  <2>1. Held' = Held
    BY <1>1 DEF IndInv, TypeOK, Held, InsertH3, Hand
  <2>2. Budget'
    BY <1>1, <2>1, SameBudget DEF IndInv, TypeOK, Budget, InsertH3
  <2> USE DEF InsertH3, Hand, Vacant, Entries, KeepTouched, MutexFree
  <2>3. TypeOK'
    BY <1>1, <2>2 DEF IndInv, TypeOK, Budget, PermitPlaces, DriverStates, Protos
  <2>4. MuxUnique'
    BY <1>1 DEF IndInv, TypeOK, MuxUnique, Placement
  <2>5. Placement'
    BY <1>1 DEF IndInv, TypeOK, Placement
  <2>6. MutexOwner'
    BY <1>1 DEF IndInv, MutexOwner
  <2> QED  BY <2>2, <2>3, <2>4, <2>5, <2>6 DEF IndInv, Budget
<1>2. CASE ~Vacant(origin[c], "h3")
  <2>1. Release(permit, {c}) /\ {c} \subseteq Held
    BY <1>2 DEF IndInv, TypeOK, Held, InsertH3
  <2>2. permit \in [Conn -> PermitPlaces] /\ {x \in Conn : permit[x] # "none"} = Held
    BY DEF IndInv, TypeOK, Held
  <2>3. Budget'
    BY <2>1, <2>2, ReleaseBudget DEF IndInv, TypeOK, Budget
  <2> USE DEF InsertH3, Release, Dropped, MutexFree
  <2>4. TypeOK'
    BY <1>2, <2>3 DEF IndInv, TypeOK, Budget, PermitPlaces, DriverStates, Protos
  <2>5. MuxUnique'
    BY <1>2 DEF IndInv, TypeOK, MuxUnique, Placement
  <2>6. Placement'
    BY <1>2 DEF IndInv, TypeOK, Placement
  <2>7. MutexOwner'
    BY <1>2 DEF IndInv, MutexOwner
  <2> QED  BY <2>3, <2>4, <2>5, <2>6, <2>7 DEF IndInv, Budget
<1> QED  BY <1>1, <1>2

(* What a lookup hits is an entry that did not expire. *)
LEMMA LookupSubset ==
    ASSUME NEW P, NEW k, NEW prefs
    PROVE  Lookup(P, k, prefs) \subseteq P
BY DEF Lookup, Entries, Newest

(* IndInv is kept by a lookup: evict_idle drops the H1 permits of expired    *)
(* entries, and an H1 hit hands its permit over.                             *)
LEMMA AcquireIntoInv ==
    ASSUME IndInv, NEW k \in Key, NEW prefs, NEW E \in SUBSET pooled,
           NEW place \in {"user", "legacy"}, AcquireInto(k, prefs, E, place)
    PROVE  IndInv'
<1> DEFINE left == pooled \ E
<1> DEFINE got == Lookup(left, k, prefs)
<1> DEFINE h1 == OwnersIn(got)
<1> DEFINE R == OwnersIn(E)
<1> DEFINE p0 == [c \in Conn |-> IF c \in h1 THEN place ELSE permit[c]]
<1>1. /\ MutexFree
      /\ Release(p0, R)
      /\ driver' = Stopping(R)
      /\ pooled' \in {left, left \ h1}
      /\ h1 # {} => got = h1 /\ pooled' = left \ h1
      /\ older' \subseteq pooled' \X pooled'
      /\ lent' = IF place = "legacy" THEN lent \union h1 ELSE lent
      /\ UNCHANGED <<proto, origin, reserving>>
  <2>1. got \subseteq left
    BY LookupSubset
  <2>2. got # {} => got = h1 \/ h1 = {}
    BY DEF OwnersIn, Lookup, Entries, Newest
  <2>3. older \subseteq pooled \X pooled
    BY DEF IndInv, TypeOK
  <2> HIDE DEF got
  <2> QED  BY <2>1, <2>2, <2>3, SMTT(40) DEF AcquireInto, Keep, KeepTouched, OwnersIn, got
<1>2. /\ got \subseteq left
      /\ \A c \in h1 : c \in left /\ proto[c] = "h1"
      /\ \A c \in R : c \in E /\ proto[c] = "h1"
      /\ \A c \in E : proto[c] = "h1" => c \in R
  BY LookupSubset DEF OwnersIn
<1> HIDE DEF got, h1, R
<1>3. R \subseteq Held /\ R \subseteq Conn /\ h1 \subseteq Conn
  BY <1>2 DEF IndInv, TypeOK, Placement, Held
<1>4. p0 \in [Conn -> PermitPlaces] /\ {x \in Conn : p0[x] # "none"} = Held
  BY <1>2 DEF IndInv, TypeOK, Placement, PermitPlaces, Held
<1> HIDE DEF p0
<1>5. Budget'
  BY <1>1, <1>3, <1>4, ReleaseBudget DEF IndInv, TypeOK, Budget
<1>6. /\ permit' = [c \in Conn |-> IF c \in R THEN "none" ELSE
                                     IF c \in h1 THEN place ELSE permit[c]]
      /\ adopted' = adopted \ R
  BY <1>1 DEF Release, Dropped, p0
<1>7. TypeOK'
  BY <1>1, <1>3, <1>5, <1>6 DEF IndInv, TypeOK, Budget, PermitPlaces, DriverStates, Release, Stopping
<1>8. MuxUnique'
  BY <1>1 DEF IndInv, MuxUnique
<1>9. Placement'
  BY <1>1, <1>2, <1>3, <1>6 DEF IndInv, TypeOK, Placement, Stopping
<1>10. MutexOwner'
  BY <1>1 DEF MutexFree, MutexOwner
<1> QED  BY <1>5, <1>7, <1>8, <1>9, <1>10 DEF IndInv, Budget

(* IndInv is kept by clear: H1 permits are dropped, trackers are aborted. *)
LEMMA ClearInv ==
    ASSUME IndInv, Clear
    PROVE  IndInv'
<1> DEFINE live == pooled \ ClosedEntries
<1> DEFINE mux == {c \in live : proto[c] # "h1"}
<1> DEFINE p0 == [c \in Conn |-> IF c \in mux THEN "aborting" ELSE permit[c]]
<1> DEFINE R == OwnersIn(pooled) \union StaleLegacy
<1>1. /\ Release(p0, R)
      /\ pooled' = {} /\ older' = {}
      /\ driver' = Stopping(OwnersIn(live) \union {c \in mux : proto[c] = "h3" /\ c \in adopted})
      /\ UNCHANGED <<proto, origin, lent, reserving>>
  BY DEF Clear, Keep
<1>2. \A c \in mux : c \in Conn /\ permit[c] # "none" /\ permit[c] # "legacy"
  <2> SUFFICES ASSUME NEW c \in mux
               PROVE  c \in Conn /\ permit[c] # "none" /\ permit[c] # "legacy"
    OBVIOUS
  <2>1. c \in Conn /\ c \in pooled /\ proto[c] # "h1" /\ ~IsFinished(c)
    BY DEF IndInv, TypeOK, ClosedEntries
  <2>2. permit[c] \in {"tracker", "none"}
    BY <2>1 DEF IndInv, Placement
  <2>3. CASE proto[c] = "h3" /\ c \in adopted
    <3>1. driver[c] # "finished"
      BY <2>1, <2>3 DEF IsFinished
    <3> QED  BY <2>1, <2>2, <2>3, <3>1 DEF IndInv, Placement
  <2>4. CASE ~(proto[c] = "h3" /\ c \in adopted)
    BY <2>1, <2>2, <2>4 DEF IsFinished
  <2> QED  BY <2>3, <2>4
<1>3. R \subseteq Held /\ R \subseteq Conn
  BY DEF IndInv, TypeOK, Placement, Held, OwnersIn, StaleLegacy
<1>4. p0 \in [Conn -> PermitPlaces] /\ {x \in Conn : p0[x] # "none"} = Held
  BY <1>2 DEF IndInv, TypeOK, PermitPlaces, Held
<1> HIDE DEF p0
<1>5. Budget'
  BY <1>1, <1>3, <1>4, ReleaseBudget DEF IndInv, TypeOK, Budget
<1>6. TypeOK'
  BY <1>1, <1>3, <1>4, <1>5 DEF IndInv, TypeOK, Budget, PermitPlaces, DriverStates, Release, Dropped, Stopping
<1>7. MuxUnique'
  BY <1>1 DEF MuxUnique
<1>8. Placement'
  BY <1>1, <1>2, <1>3 DEF p0, IndInv, TypeOK, Placement, Release, Dropped, Stopping,
     OwnersIn, StaleLegacy, ClosedEntries, IsFinished
<1>9. MutexOwner'
  BY <1>1 DEF Clear, MutexFree, MutexOwner
<1> QED  BY <1>5, <1>6, <1>7, <1>8, <1>9 DEF IndInv, Budget

(* IndInv is kept by the deprecated return_h1, whether it finds the record    *)
(* of the checkout or counts the connection anew.                             *)
LEMMA LegacyReturnH1Inv ==
    ASSUME IndInv, NEW c \in Conn, LegacyReturnH1(c)
    PROVE  IndInv'
<1> DEFINE out == Overflow(origin[c])
<1>1. out \subseteq Held /\ out \subseteq Conn /\ c \notin out
      /\ \A d \in out : permit[d] = "entry"
  BY DEF IndInv, TypeOK, Placement, Held, LegacyReturnH1, Overflow, Oldest, Entries
<1> HIDE DEF out
<1>2. IsFiniteSet(Held \union {c}) /\ IsFiniteSet(out)
  BY <1>1, HeldFinite, FS_AddElement, FS_Subset
<1>3. Held' = (Held \union {c}) \ out
  BY <1>1 DEF IndInv, TypeOK, LegacyReturnH1, Held, Dropped, out
<1>4. /\ IsFiniteSet(Held')
      /\ Cardinality(Held') = Cardinality(Held \union {c}) - Cardinality(out)
  <2>1. (Held \union {c}) \intersect out = out
    BY <1>1
  <2>2. /\ IsFiniteSet((Held \union {c}) \ out)
        /\ Cardinality((Held \union {c}) \ out)
             = Cardinality(Held \union {c}) - Cardinality((Held \union {c}) \intersect out)
    BY <1>2, FS_Difference
  <2> QED  BY <1>3, <2>1, <2>2
<1>5. Cardinality(Held \union {c}) = IF AdoptsAnew(c) THEN Cardinality(Held) + 1
                                                      ELSE Cardinality(Held)
  <2>1. CASE AdoptsAnew(c)
    <3>1. c \notin Held
      BY <2>1 DEF IndInv, Placement, LegacyReturnH1, AdoptsAnew, Held
    <3> QED  BY <2>1, <3>1, HeldFinite, FS_AddElement
  <2>2. CASE ~AdoptsAnew(c)
    <3>1. Held \union {c} = Held
      BY <2>2 DEF AdoptsAnew, Held
    <3> QED  BY <2>2, <3>1
  <2> QED  BY <2>1, <2>2
<1>6. in_use' = Cardinality(Held') /\ in_use' \in Nat
  <2>1. Cardinality(Held') \in Nat /\ Cardinality(out) \in Nat /\ Cardinality(Held) \in Nat
    BY <1>2, <1>4, HeldFinite, FS_CardinalityType
  <2>2. in_use' = (IF AdoptsAnew(c) THEN in_use + 1 ELSE in_use) - Cardinality(out)
    BY DEF LegacyReturnH1, out
  <2> QED  BY <1>4, <1>5, <2>1, <2>2 DEF IndInv, BudgetConserved
<1>7. Held' \ adopted' \subseteq Held \ adopted
  BY <1>1, <1>3 DEF LegacyReturnH1, AdoptsAnew, Held, out
<1>8. IsFiniteSet(Held \ adopted)
  BY HeldFinite, FS_Difference
<1>9. /\ Cardinality(Held' \ adopted') <= Cardinality(Held \ adopted)
      /\ Cardinality(Held' \ adopted') \in Nat
      /\ Cardinality(Held \ adopted) \in Nat
  BY <1>7, <1>8, FS_Subset, FS_CardinalityType
<1>10. Budget'
  BY <1>6, <1>9, PoolAssumption DEF IndInv, HardLimit, Budget, BudgetConserved
<1> USE DEF LegacyReturnH1, Dropped, Stopping, KeepTouched, MutexFree, out
<1>11. TypeOK'
  BY <1>1, <1>10 DEF IndInv, TypeOK, Budget, PermitPlaces, DriverStates
<1>12. MuxUnique'
  BY <1>1 DEF IndInv, TypeOK, MuxUnique, Placement
<1>13. Placement'
  <2> SUFFICES ASSUME NEW d \in Conn PROVE Placement!(d)'
    BY DEF Placement
  <2> QED BY <1>1 DEF IndInv, TypeOK, Placement
<1>14. MutexOwner'
  BY DEF MutexOwner
<1> QED  BY <1>10, <1>11, <1>12, <1>13, <1>14 DEF IndInv, Budget

-----------------------------------------------------------------------------
(* The theorems.                                                            *)

(* The pool starts with nothing counted and nothing pooled. *)
LEMMA InitInv == Init => IndInv
<1> SUFFICES ASSUME Init PROVE IndInv
  OBVIOUS
<1>1. Held = {}
  BY DEF Init, Held
<1>2. Cardinality(Held) = 0 /\ Cardinality(Held \ adopted) = 0
  BY <1>1, FS_EmptySet
<1>3. BudgetConserved /\ HardLimit
  BY <1>2, PoolAssumption DEF Init, BudgetConserved, HardLimit
<1>4. TypeOK
  BY DEF Init, TypeOK, PermitPlaces, DriverStates, Idle
<1>5. MuxUnique /\ Placement /\ MutexOwner
  BY DEF Init, MuxUnique, Placement, MutexOwner
<1> QED  BY <1>3, <1>4, <1>5 DEF IndInv

(* Every step of the pool, of a dialer or of a task keeps IndInv. *)
LEMMA NextInv == IndInv /\ [Next]_vars => IndInv'
<1> SUFFICES ASSUME IndInv, [Next]_vars PROVE IndInv'
  OBVIOUS
<1>1. CASE UNCHANGED vars
  BY <1>1 DEF vars, IndInv, TypeOK, BudgetConserved, HardLimit, MuxUnique, Placement,
     MutexOwner, Held
<1>2. ASSUME NEW k \in Key, NEW prefs \in Prefs, NEW E \in ExpirySets,
             Acquire(k, prefs, E) \/ LegacyAcquire(k, prefs, E)
      PROVE  IndInv'
  <2>1. E \in SUBSET pooled
    BY DEF ExpirySets
  <2> QED  BY <1>2, <2>1, AcquireIntoInv DEF Acquire, LegacyAcquire
<1>3. CASE Next
  BY <1>2, <1>3, ReserveBeginInv, ReserveGrantedInv, ReserveEvictInv, ReserveRefusedInv,
     ReserveSpeculativeInv, SpeculativeEndsInv, DialFailsInv, InsertH2Inv, InsertH3Inv,
     InsertH1Inv, UseH1Inv, ReturnH1Inv, DropH1Inv, RemoveInv, ClearInv, DriverExitsInv,
     DriverStopsInv, TrackerEndsInv, LegacyInsertInv, LegacyForgetInv, LegacyReturnH1Inv
     DEF Next
<1> QED  BY <1>1, <1>3

(* IndInv holds in every reachable state of the pool. *)
THEOREM Invariance == Spec => []IndInv
BY InitInv, NextInv, PTL DEF Spec

(* The state keeps its shape, and connections_in_use never wraps below zero. *)
THEOREM TypeCorrect == Spec => []TypeOK
<1>1. IndInv => TypeOK
  BY DEF IndInv
<1> QED  BY <1>1, Invariance, PTL

(* connections_in_use is always the number of live permits, for any number   *)
(* of connections, keys and limits (Drop for ConnectionPermit).              *)
THEOREM BudgetIsExact == Spec => []BudgetConserved
<1>1. IndInv => BudgetConserved
  BY DEF IndInv
<1> QED  BY <1>1, Invariance, PTL

(* Reservations, speculative ones included, never exceed max_total           *)
(* (try_reserve_counter).                                                    *)
THEOREM LimitHolds == Spec => []HardLimit
<1>1. IndInv => HardLimit
  BY DEF IndInv
<1> QED  BY <1>1, Invariance, PTL

(* No live connection escapes the budget (track_connection_task, remove,     *)
(* evict_idle, clear, legacy_h1_permits).                                    *)
THEOREM LiveCounted == Spec => []LiveIsCounted
<1>1. IndInv => LiveIsCounted
  BY DEF IndInv, Placement, LiveIsCounted
<1> QED  BY <1>1, Invariance, PTL

(* One pooled H2 and one pooled H3 connection per key (insert_h2_reserved,   *)
(* insert_h3_reserved).                                                      *)
THEOREM MuxIsUnique == Spec => []MuxUnique
<1>1. IndInv => MuxUnique
  BY DEF IndInv
<1> QED  BY <1>1, Invariance, PTL

(* An H1 connection has one holder, and its permit is with that holder       *)
(* (try_acquire_h1, return_h1_reserved).                                     *)
THEOREM H1IsExclusive == Spec => []H1Exclusive
<1>1. IndInv => H1Exclusive
  BY DEF IndInv, Placement, H1Exclusive, TypeOK
<1> QED  BY <1>1, Invariance, PTL

(* The budget is exact, respected and complete.                              *)
THEOREM AccountingHolds == Spec => []Accounting
BY BudgetIsExact, LimitHolds, LiveCounted, PTL DEF Accounting

(* What only one caller may have is never with two.                          *)
THEOREM ExclusivityHolds == Spec => []Exclusivity
BY MuxIsUnique, H1IsExclusive, PTL DEF Exclusivity
=============================================================================
