--------------------------- MODULE RunRecordProofs ---------------------------
(***************************************************************************)
(* What every operation on a Run record preserves, whoever calls it and in *)
(* whatever order.  RunInv is the inductive invariant of one record; there *)
(* is one lemma per operation.                                             *)
(***************************************************************************)
EXTENDS RunRecord, FiniteSetTheorems, SequenceTheorems, TLAPS

\* The counters tell what the journals hold and stay under the ceiling.
Counted(run) ==
    /\ IsFiniteSet(run.pending)
    /\ run.reserved = Cardinality(run.pending)
    /\ run.consumed = Len(run.outputs)
    /\ run.consumed + run.reserved <= run.ceiling

\* The lifecycle state agrees with the Session, the expiry and the attempt.
Lifecycle(run) ==
    /\ run.ttl > 0
    /\ run.state = "admitted" => run.session = None /\ run.attempt = None
    /\ run.state # "admitted" => run.session # None
    /\ run.state \in Parked \union {"resuming"} => run.expires > 0
    /\ run.attempt # None => run.attempt.deadline > 0
    /\ run.state = "resuming" => run.attempt # None /\ run.attempt.result = "resuming"
    /\ run.state \in {"active", "parked"} /\ run.attempt # None => run.attempt.result = "active"
    /\ run.state = "cold_parked" /\ run.attempt # None =>
          /\ run.attempt.result # "resuming"
          /\ run.attempt.result = "cold_parked" => run.expires = run.attempt.deadline

RunInv(run) == run \in RunType /\ Counted(run) /\ Lifecycle(run)

(***************************************************************************)
(* NoRun is not a record: a record has a revision.                         *)
(***************************************************************************)
LEMMA NoRunIsNoRecord == NoRun \notin RunType
<1> SUFFICES ASSUME NoRun \in RunType PROVE FALSE
    OBVIOUS
<1>1. "revision" \in DOMAIN NoRun
    BY DEF RunType
<1>2. DOMAIN NoRun = {"none"}
    BY DEF NoRun
<1> QED
    BY <1>1, <1>2

(***************************************************************************)
(* A record that may advance has a next revision.                          *)
(***************************************************************************)
LEMMA NextRevision ==
    ASSUME NEW run, run \in RunType, CanAdvance(run)
    PROVE  run.revision + 1 \in U64
    BY RecordAssumption DEF CanAdvance, RunType, U64

(***************************************************************************)
(* A deadline that is not refused as an overflow is a time after zero.     *)
(***************************************************************************)
LEMMA DeadlineFits ==
    ASSUME NEW now \in U64, NEW wait \in U64, wait > 0, now + wait <= U64Max
    PROVE  now + wait \in U64 /\ now + wait > 0
    BY RecordAssumption DEF U64

(***************************************************************************)
(* Admission starts a record that satisfies the invariant.                 *)
(***************************************************************************)
LEMMA AdmittedInv ==
    ASSUME NEW ttl \in U64, ttl > 0, NEW ceiling \in U64, ceiling > 0
    PROVE  RunInv(AdmittedRun(ttl, ceiling))
<1> DEFINE run == AdmittedRun(ttl, ceiling)
<1>1. run \in RunType
    BY RecordAssumption DEF AdmittedRun, RunType, U64, States
<1>2. Counted(run)
    BY FS_EmptySet DEF AdmittedRun, Counted, U64
<1>3. Lifecycle(run)
    BY DEF AdmittedRun, Lifecycle, Parked, None
<1> QED
    BY <1>1, <1>2, <1>3 DEF RunInv

(***************************************************************************)
(* Attachment gives the record its Session.                                *)
(***************************************************************************)
LEMMA AttachedInv ==
    ASSUME NEW run, RunInv(run), NEW s \in Sessions, CanAttach(run)
    PROVE  RunInv(Attached(run, s))
<1>0. run \in RunType /\ Counted(run) /\ Lifecycle(run)
    BY DEF RunInv
<1>10. run.revision + 1 \in U64 /\ "active" \in States
    BY <1>0, NextRevision DEF CanAttach, States
<1>1. Attached(run, s) \in RunType
    BY <1>0, <1>10 DEF Attached, RunType
<1>2. Counted(Attached(run, s))
    BY <1>0 DEF Attached, Counted, RunType
<1>3. Lifecycle(Attached(run, s))
    BY <1>0, RecordAssumption DEF Attached, CanAttach, Lifecycle, RunType, Parked
<1> QED
    BY <1>1, <1>2, <1>3 DEF RunInv

(***************************************************************************)
(* A reservation adds exactly its units: none of its tokens is held yet.   *)
(***************************************************************************)
LEMMA ReservedInv ==
    ASSUME NEW run, RunInv(run), NEW m \in Mutations, NEW units \in 1..MaxUnits,
           CanReserve(run, m, units)
    PROVE  RunInv(Reserved(run, m, units))
<1> DEFINE new == {m} \X (1..units)
           next == Reserved(run, m, units)
<1>0. run \in RunType /\ Counted(run) /\ Lifecycle(run)
    BY DEF RunInv
<1>1. IsFiniteSet(new) /\ Cardinality(new) = units
  <2>1. IsFiniteSet({m}) /\ Cardinality({m}) = 1
      BY FS_Singleton
  <2>2. IsFiniteSet(1..units) /\ Cardinality(1..units) = units
      BY FS_Interval, RecordAssumption
  <2> QED
      BY <2>1, <2>2, FS_Product, RecordAssumption
<1>2. run.pending \intersect new = {}
    BY <1>0 DEF CanReserve, Unknown, TokensOf
<1>3. /\ IsFiniteSet(run.pending \union new)
      /\ Cardinality(run.pending \union new) = run.reserved + units
  <2>1. Cardinality(run.pending \intersect new) = 0
      BY <1>2, FS_EmptySet
  <2> HIDE DEF new
  <2>2. run.reserved \in Nat /\ units \in Nat
      BY <1>0, RecordAssumption DEF RunType, U64
  <2>3. /\ IsFiniteSet(run.pending \union new)
        /\ Cardinality(run.pending \union new)
              = Cardinality(run.pending) + Cardinality(new) - Cardinality(run.pending \intersect new)
      BY <1>0, <1>1, FS_Union DEF Counted
  <2> QED
      BY <1>0, <1>1, <2>1, <2>2, <2>3 DEF Counted
<1>4. run.pending \union new \in SUBSET Tokens
    BY <1>0, RecordAssumption DEF RunType, Tokens
<1>5. run.reserved + units \in U64 /\ run.revision + 1 \in U64
  <2>1. run.consumed \in Nat /\ run.reserved \in Nat /\ units \in Nat
      BY <1>0, RecordAssumption DEF RunType, U64
  <2>2. run.consumed + run.reserved + units <= U64Max /\ CanAdvance(run)
      BY DEF CanReserve, Occupied
  <2> QED
      BY <1>0, <2>1, <2>2, NextRevision, RecordAssumption DEF U64
<1>6. Reserved(run, m, units) \in RunType
    BY <1>0, <1>4, <1>5 DEF Reserved, RunType
<1>7. Counted(next)
  <2>1. /\ next.pending = run.pending \union new /\ next.reserved = run.reserved + units
        /\ next.outputs = run.outputs /\ next.consumed = run.consumed
        /\ next.ceiling = run.ceiling
      BY <1>0 DEF Reserved, RunType
  <2>2. run.consumed + (run.reserved + units) <= run.ceiling
      BY <1>0, RecordAssumption DEF CanReserve, Occupied, RunType, U64
  <2> HIDE DEF next, new
  <2> QED
      BY <1>0, <1>3, <2>1, <2>2 DEF Counted
<1>8. Lifecycle(Reserved(run, m, units))
    BY <1>0 DEF Reserved, Lifecycle, RunType
<1> QED
    BY <1>6, <1>7, <1>8 DEF RunInv

(***************************************************************************)
(* Exhaustion Parks the Run with an expiry of its own.                     *)
(***************************************************************************)
LEMMA ExhaustedInv ==
    ASSUME NEW run, RunInv(run), NEW m \in Mutations, NEW units \in 1..MaxUnits,
           NEW now \in U64, CanExhaust(run, m, units, now)
    PROVE  RunInv(Exhausted(run, m, now))
<1>0. run \in RunType /\ Counted(run) /\ Lifecycle(run)
    BY DEF RunInv
<1>11. run.ttl \in U64 /\ run.ttl > 0 /\ now + run.ttl <= U64Max
    BY <1>0 DEF CanExhaust, RunType, Lifecycle
<1>12. run.revision + 1 \in U64
    BY <1>0, NextRevision DEF CanExhaust
<1>10. /\ run.revision + 1 \in U64 /\ now + run.ttl \in U64 /\ now + run.ttl > 0
      /\ "parked" \in States
    BY <1>11, <1>12, DeadlineFits DEF States
<1>1. Exhausted(run, m, now) \in RunType
    BY <1>0, <1>10 DEF Exhausted, RunType
<1>2. Counted(Exhausted(run, m, now))
    BY <1>0 DEF Exhausted, Counted, RunType
<1>3. Lifecycle(Exhausted(run, m, now))
    BY <1>0, <1>10 DEF Exhausted, CanExhaust, Lifecycle, RunType, Parked
<1> QED
    BY <1>1, <1>2, <1>3 DEF RunInv

(***************************************************************************)
(* A confirmation turns one reserved unit into one recorded output.        *)
(***************************************************************************)
LEMMA ConfirmedInv ==
    ASSUME NEW run, RunInv(run), NEW m \in Mutations, NEW issue \in Issues,
           CanConfirm(run, m, issue)
    PROVE  RunInv(Confirmed(run, m, issue))
<1> DEFINE unit == CHOOSE t \in TokensOf(run, m) : TRUE
           output == [mutation |-> m, issue |-> issue]
           next == Confirmed(run, m, issue)
<1>0. run \in RunType /\ Counted(run) /\ Lifecycle(run)
    BY DEF RunInv
<1>1. unit \in run.pending
    BY DEF CanConfirm, TokensOf
<1>2. output \in Outputs
    BY DEF Outputs
<1>3. /\ next.pending = run.pending \ {unit} /\ next.reserved = run.reserved - 1
      /\ next.consumed = run.consumed + 1 /\ next.outputs = Append(run.outputs, output)
      /\ next.ceiling = run.ceiling
    BY <1>0 DEF Confirmed, RunType
<1> HIDE DEF unit, output
<1>4. /\ IsFiniteSet(run.pending \ {unit})
      /\ Cardinality(run.pending \ {unit}) = run.reserved - 1
    BY <1>0, <1>1, FS_RemoveElement DEF Counted
<1>5. run.reserved - 1 \in Nat
    BY <1>0, <1>4, FS_CardinalityType
<1>6. /\ Append(run.outputs, output) \in Seq(Outputs)
      /\ Len(Append(run.outputs, output)) = run.consumed + 1
    BY <1>0, <1>2, AppendProperties DEF Counted, RunType
<1>7. /\ run.reserved - 1 \in U64 /\ run.consumed + 1 \in U64 /\ run.revision + 1 \in U64
      /\ run.pending \ {unit} \in SUBSET Tokens
  <2>1. run.reserved \in U64 /\ run.consumed \in U64 /\ run.pending \in SUBSET Tokens
      BY <1>0 DEF RunType
  <2>2. run.revision + 1 \in U64
      BY <1>0, NextRevision DEF CanConfirm
  <2>3. run.reserved - 1 \in U64
      BY <1>5, <2>1, RecordAssumption DEF U64
  <2>4. run.consumed + 1 \in U64
      BY <2>1, RecordAssumption DEF CanConfirm, U64
  <2> QED
      BY <2>1, <2>2, <2>3, <2>4
<1>8. next \in RunType
  <2> DEFINE outputs == Append(run.outputs, output)
             pending == run.pending \ {unit}
  <2>1. next = [run EXCEPT !.pending = pending, !.reserved = run.reserved - 1,
                           !.consumed = run.consumed + 1, !.outputs = outputs,
                           !.revision = run.revision + 1]
      BY DEF Confirmed, unit, output
  <2>2. outputs \in Seq(Outputs) /\ pending \in SUBSET Tokens
      BY <1>6, <1>7
  <2> HIDE DEF outputs, pending, next
  <2> QED
      BY <1>0, <1>7, <2>1, <2>2 DEF RunType
<1>9. Counted(next)
  <2> HIDE DEF next
  <2>1. run.reserved \in Nat /\ run.consumed \in Nat
      BY <1>0 DEF RunType, U64
  <2>2. next.consumed + next.reserved <= next.ceiling
      BY <1>0, <1>3, <2>1 DEF Counted
  <2> QED
      BY <1>3, <1>4, <1>6, <2>2 DEF Counted
<1>10. Lifecycle(next)
    BY <1>0 DEF Confirmed, Lifecycle, RunType
<1> QED
    BY <1>8, <1>9, <1>10 DEF RunInv

(***************************************************************************)
(* A release gives back every unit the mutation still holds.               *)
(***************************************************************************)
LEMMA ReleasedInv ==
    ASSUME NEW run, RunInv(run), NEW m \in Mutations, CanRelease(run, m)
    PROVE  RunInv(Released(run, m))
<1> DEFINE held == TokensOf(run, m)
           next == Released(run, m)
<1>0. run \in RunType /\ Counted(run) /\ Lifecycle(run)
    BY DEF RunInv
<1>1. held \subseteq run.pending
    BY DEF TokensOf
<1>2. /\ next.pending = run.pending \ held
      /\ next.reserved = run.reserved - Cardinality(held)
      /\ next.consumed = run.consumed /\ next.outputs = run.outputs
      /\ next.ceiling = run.ceiling
    BY <1>0 DEF Released, RunType
<1> HIDE DEF held
<1>3. /\ IsFiniteSet(held) /\ Cardinality(held) \in Nat /\ Cardinality(held) <= run.reserved
    BY <1>0, <1>1, FS_Subset, FS_CardinalityType DEF Counted
<1>4. /\ IsFiniteSet(run.pending \ held)
      /\ Cardinality(run.pending \ held) = run.reserved - Cardinality(held)
  <2>1. run.pending \intersect held = held
      BY <1>1
  <2>2. /\ IsFiniteSet(run.pending \ held)
        /\ Cardinality(run.pending \ held)
              = Cardinality(run.pending) - Cardinality(run.pending \intersect held)
      BY <1>0, FS_Difference DEF Counted
  <2> QED
      BY <1>0, <2>1, <2>2 DEF Counted
<1>5. /\ run.reserved - Cardinality(held) \in U64 /\ run.revision + 1 \in U64
      /\ run.pending \ held \in SUBSET Tokens
  <2>1. run.reserved \in U64 /\ run.pending \in SUBSET Tokens
      BY <1>0 DEF RunType
  <2>2. run.revision + 1 \in U64
      BY <1>0, NextRevision DEF CanRelease
  <2>3. run.reserved - Cardinality(held) \in U64
      BY <1>3, <2>1, RecordAssumption DEF U64
  <2> QED
      BY <2>1, <2>2, <2>3
<1>6. next \in RunType
    BY <1>0, <1>5 DEF Released, RunType, held
<1>7. Counted(next)
  <2> HIDE DEF next
  <2>1. run.reserved \in Nat /\ run.consumed \in Nat /\ run.ceiling \in Nat
      BY <1>0 DEF RunType, U64
  <2>2. next.consumed + next.reserved <= next.ceiling
      BY <1>0, <1>2, <1>3, <2>1 DEF Counted
  <2> QED
      BY <1>0, <1>2, <1>4, <2>2 DEF Counted
<1>8. Lifecycle(next)
    BY <1>0 DEF Released, Lifecycle, RunType
<1> QED
    BY <1>6, <1>7, <1>8 DEF RunInv

(***************************************************************************)
(* A cold Park replaces the cleanup journal by one that is all to do.      *)
(***************************************************************************)
LEMMA ColdParkedInv ==
    ASSUME NEW run, RunInv(run), NEW s \in Sessions, NEW claims \in Seq(Issues),
           NEW now \in U64, CanParkCold(run, s, now)
    PROVE  RunInv(ColdParked(run, claims, now))
<1> DEFINE next == ColdParked(run, claims, now)
<1>0. run \in RunType /\ Counted(run) /\ Lifecycle(run)
    BY DEF RunInv
<1>1. Uncleaned(claims) \in Seq(Cleanups)
  <2>1. Uncleaned(claims) \in [1..Len(claims) -> Cleanups] /\ Len(claims) \in Nat
      BY LenProperties, ElementOfSeq DEF Uncleaned, Cleanups
  <2> QED
      BY <2>1, SeqDef
<1>11. run.ttl \in U64 /\ run.ttl > 0 /\ now + run.ttl <= U64Max
    BY <1>0 DEF CanParkCold, RunType, Lifecycle
<1>12. run.revision + 1 \in U64
    BY <1>0, NextRevision DEF CanParkCold
<1>2. /\ run.revision + 1 \in U64 /\ now + run.ttl \in U64 /\ now + run.ttl > 0
      /\ "cold_parked" \in States
    BY <1>11, <1>12, DeadlineFits DEF States
<1>3. next \in RunType
    BY <1>0, <1>1, <1>2 DEF ColdParked, RunType
<1>4. Counted(next)
    BY <1>0 DEF ColdParked, Counted, RunType
<1>5. Lifecycle(next)
    BY <1>0, <1>2 DEF ColdParked, CanParkCold, Lifecycle, RunType, Parked
<1> QED
    BY <1>3, <1>4, <1>5 DEF RunInv

(***************************************************************************)
(* A raise only widens the ceiling.                                        *)
(***************************************************************************)
LEMMA RaisedInv ==
    ASSUME NEW run, RunInv(run), NEW expected \in U64, NEW ceiling \in U64,
           CanRaise(run, expected, ceiling)
    PROVE  RunInv(Raised(run, ceiling))
<1> DEFINE next == Raised(run, ceiling)
<1>0. run \in RunType /\ Counted(run) /\ Lifecycle(run)
    BY DEF RunInv
<1>1. run.revision + 1 \in U64
    BY <1>0, NextRevision DEF CanRaise
<1>2. next \in RunType
    BY <1>0, <1>1 DEF Raised, RunType
<1>3. Counted(next)
  <2>1. run.consumed + run.reserved <= ceiling
      BY <1>0, RecordAssumption DEF CanRaise, Counted, RunType, U64
  <2> QED
      BY <1>0, <2>1 DEF Raised, Counted, RunType
<1>4. Lifecycle(next)
    BY <1>0 DEF Raised, Lifecycle, RunType
<1> QED
    BY <1>2, <1>3, <1>4 DEF RunInv

(***************************************************************************)
(* A resume opens an attempt; a warm one is over at once.                  *)
(***************************************************************************)
LEMMA ResumeBegunInv ==
    ASSUME NEW run, RunInv(run), NEW expected \in U64, NEW op \in Operations,
           NEW now \in U64, NEW lease \in U64, lease > 0,
           CanBeginResume(run, expected, op, now, lease)
    PROVE  RunInv(ResumeBegun(run, op, now, lease))
<1> DEFINE result  == IF run.state = "cold_parked" THEN "resuming" ELSE "active"
           attempt == [operation |-> op, deadline |-> now + lease, result |-> result]
           next    == ResumeBegun(run, op, now, lease)
<1>0. run \in RunType /\ Counted(run) /\ Lifecycle(run)
    BY DEF RunInv
<1>10. run.revision + 1 \in U64
    BY <1>0, NextRevision DEF CanBeginResume
<1>11. now + lease \in U64 /\ now + lease > 0
    BY DeadlineFits DEF CanBeginResume
<1>1. /\ run.revision + 1 \in U64 /\ now + lease \in U64 /\ now + lease > 0
      /\ result \in States /\ result \in {"active", "resuming"}
    BY <1>10, <1>11 DEF States
<1>2. attempt \in Attempts /\ attempt # None
  <2>1. attempt \in Attempts
      BY <1>1 DEF Attempts, Results
  <2>2. "operation" \in DOMAIN attempt /\ "operation" \notin DOMAIN None
      BY DEF None
  <2> QED
      BY <2>1, <2>2
<1>3. next = [run EXCEPT !.state = result, !.attempt = attempt, !.revision = run.revision + 1]
    BY DEF ResumeBegun
<1>4. run.state \in {"parked", "cold_parked"}
    BY DEF CanBeginResume, Parked
<1>5. attempt.deadline = now + lease /\ attempt.result = result
    OBVIOUS
<1> HIDE DEF attempt, result, next
<1>6. next \in RunType
    BY <1>0, <1>1, <1>2, <1>3 DEF RunType
<1>7. Counted(next)
    BY <1>0, <1>3 DEF Counted, RunType
<1>8. Lifecycle(next)
  <2>1. /\ next.state = result /\ next.attempt = attempt /\ next.ttl = run.ttl
        /\ next.session = run.session /\ next.expires = run.expires
      BY <1>0, <1>3 DEF RunType
  <2> QED
      BY <1>0, <1>1, <1>2, <1>4, <1>5, <2>1 DEF Lifecycle, Parked
<1> QED
    BY <1>6, <1>7, <1>8 DEF RunInv, next

(***************************************************************************)
(* Finalizing closes the attempt; a failure leaves the Run under its lease. *)
(***************************************************************************)
LEMMA ResumeFinalizedInv ==
    ASSUME NEW run, RunInv(run), NEW expected \in U64, NEW op \in Operations,
           NEW succeeded \in BOOLEAN, CanFinalizeResume(run, expected, op)
    PROVE  RunInv(ResumeFinalized(run, succeeded))
<1> DEFINE result  == IF succeeded THEN "active" ELSE "cold_parked"
           attempt == [run.attempt EXCEPT !.result = result]
           expires == IF succeeded THEN 0 ELSE run.attempt.deadline
           next    == ResumeFinalized(run, succeeded)
<1>0. run \in RunType /\ Counted(run) /\ Lifecycle(run)
    BY DEF RunInv
<1>1. run.attempt \in Attempts /\ run.attempt # None
    BY <1>0 DEF RunType, CanFinalizeResume, SameOperation
<1>2. /\ run.revision + 1 \in U64 /\ result \in States /\ expires \in U64
      /\ result \in {"active", "cold_parked"}
    BY <1>0, <1>1, NextRevision, RecordAssumption
       DEF CanFinalizeResume, U64, States, Attempts
<1>3. /\ attempt \in Attempts /\ attempt # None
      /\ attempt.deadline = run.attempt.deadline /\ attempt.result = result
  <2>1. attempt \in Attempts
      BY <1>1 DEF Attempts, Results
  <2>2. "operation" \in DOMAIN attempt /\ "operation" \notin DOMAIN None
      BY <2>1 DEF None, Attempts
  <2> QED
      BY <1>1, <2>1, <2>2 DEF Attempts
<1>4. next = [run EXCEPT !.state = result, !.expires = expires, !.attempt = attempt,
                         !.revision = run.revision + 1]
    BY DEF ResumeFinalized
<1>5. result = "cold_parked" => expires = run.attempt.deadline /\ expires > 0
    BY <1>0, <1>1 DEF Lifecycle
<1>6. run.state # "admitted"
    BY <1>0, <1>1 DEF Lifecycle
<1> HIDE DEF attempt, result, expires, next
<1>7. next \in RunType
    BY <1>0, <1>2, <1>3, <1>4 DEF RunType
<1>8. Counted(next)
    BY <1>0, <1>4 DEF Counted, RunType
<1>9. Lifecycle(next)
  <2>1. /\ next.state = result /\ next.attempt = attempt /\ next.expires = expires
        /\ next.session = run.session /\ next.ttl = run.ttl
      BY <1>0, <1>4 DEF RunType
  <2> QED
      BY <1>0, <1>1, <1>2, <1>3, <1>5, <1>6, <2>1 DEF Lifecycle, Parked
<1> QED
    BY <1>7, <1>8, <1>9 DEF RunInv, next

(***************************************************************************)
(* Journalling a released claim touches nothing but the journal.           *)
(***************************************************************************)
LEMMA JournaledInv ==
    ASSUME NEW run, RunInv(run), CanAdvance(run), NEW i \in DOMAIN run.cleanup
    PROVE  RunInv(Journaled(run, i))
<1> DEFINE cleanup == [run.cleanup EXCEPT ![i].completed = TRUE]
           next    == Journaled(run, i)
<1>0. run \in RunType /\ Counted(run) /\ Lifecycle(run)
    BY DEF RunInv
<1>1. cleanup \in Seq(Cleanups)
  <2> DEFINE entry == [run.cleanup[i] EXCEPT !.completed = TRUE]
  <2>1. run.cleanup \in Seq(Cleanups) /\ i \in 1..Len(run.cleanup)
      BY <1>0, LenProperties DEF RunType
  <2>0. run.cleanup[i] \in Cleanups
      BY <2>1, ElementOfSeq
  <2>2. entry \in Cleanups
      BY <2>0 DEF Cleanups
  <2>3. cleanup = [run.cleanup EXCEPT ![i] = entry]
      OBVIOUS
  <2> HIDE DEF entry, cleanup
  <2> QED
      BY <2>1, <2>2, <2>3, ExceptSeq
<1>2. next = [run EXCEPT !.cleanup = cleanup, !.revision = run.revision + 1]
    BY DEF Journaled
<1>3. run.revision + 1 \in U64
    BY <1>0, NextRevision
<1> HIDE DEF cleanup, next
<1>4. next \in RunType
    BY <1>0, <1>1, <1>2, <1>3 DEF RunType
<1>5. Counted(next)
    BY <1>0, <1>2 DEF Counted, RunType
<1>6. Lifecycle(next)
    BY <1>0, <1>2 DEF Lifecycle, RunType
<1> QED
    BY <1>4, <1>5, <1>6 DEF RunInv, next

(***************************************************************************)
(* Disposal keeps the record and its accounts.                             *)
(***************************************************************************)
LEMMA DisposedInv ==
    ASSUME NEW run, RunInv(run), CanAdvance(run), NEW now \in U64, Due(run, now)
    PROVE  RunInv(Disposed(run))
<1>0. run \in RunType /\ Counted(run) /\ Lifecycle(run)
    BY DEF RunInv
<1>1. run.revision + 1 \in U64 /\ "disposed" \in States
    BY <1>0, NextRevision DEF States
<1>2. Disposed(run) \in RunType
    BY <1>0, <1>1 DEF Disposed, RunType
<1>3. Counted(Disposed(run))
    BY <1>0 DEF Disposed, Counted, RunType
<1>4. Lifecycle(Disposed(run))
    BY <1>0 DEF Disposed, Due, Reapable, Lifecycle, RunType, Parked
<1> QED
    BY <1>2, <1>3, <1>4 DEF RunInv
=============================================================================
