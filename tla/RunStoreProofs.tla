---------------------------- MODULE RunStoreProofs ----------------------------
(***************************************************************************)
(* Theorems of RunStore for any number of Runs, Sessions, mutations,       *)
(* issues, crashes and clock values.  The inductive invariant Inv has one  *)
(* part per owner of state: the records (RunInv of RunRecordProofs), what  *)
(* their cleanup journals tell about `br', the reaper's pass, and the      *)
(* surroundings.  Every mutator writes one record; MutatorWrites collects  *)
(* what each of the nine writes, WriteKeepsInv draws the conclusion once.  *)
(***************************************************************************)
EXTENDS RunStore, RunRecordProofs

\* The cleanup journal tells the truth about the claims br released.
Told(run, released) ==
    /\ \A i \in DOMAIN run.cleanup :
          run.cleanup[i].completed => run.cleanup[i].issue \in released
    /\ run.state = "disposed" => Unreleased(run) = {}

Records ==
    /\ runs \in [Runs -> RunType \union {NoRun}]
    /\ \A r \in Runs : Exists(r) => RunInv(runs[r]) /\ Told(runs[r], freed[r])

\* A pass looks back in time, at Runs that exist; between a release and its
\* journal entry the Run it is about is still the one it released for.
Pass ==
    /\ reaper \in Reapers
    /\ reaper.now <= clock
    /\ \A r \in reaper.todo \union ({reaper.current} \ {None}) : Exists(r)
    /\ reaper.pc = "idle" => reaper.current = None
    /\ reaper.current # None => Due(runs[reaper.current], reaper.now)
    /\ reaper.pc = "released" =>
          /\ reaper.current # None
          /\ NextClaims(reaper.current) \subseteq freed[reaper.current]

Surroundings ==
    /\ clock \in 0..Horizon
    /\ assignee \in [Issues -> Actors \union {Nobody}]
    /\ listed \in [Sessions -> SUBSET SUBSET Issues]
    /\ freed \in [Runs -> SUBSET Issues]
    /\ crashes \in Nat

Inv == Records /\ Pass /\ Surroundings

(***************************************************************************)
(* Times on the clock are u64 values.                                      *)
(***************************************************************************)
LEMMA ClockFits ==
    ASSUME Surroundings
    PROVE  /\ clock \in U64 /\ Captured \subseteq U64
           /\ \A now \in Captured : now <= clock
    BY StoreAssumption, RecordAssumption DEF Surroundings, Captured, U64

(***************************************************************************)
(* A record with the same journal, not newly disposed, tells the same.     *)
(***************************************************************************)
LEMMA ToldSame ==
    ASSUME NEW run, NEW next, NEW released, Told(run, released),
           next.cleanup = run.cleanup,
           next.state = "disposed" => run.state = "disposed"
    PROVE  Told(next, released)
    BY DEF Told, Unreleased

\* What a step may make of one record, given the releases so far.
Sound(r, run, released) ==
    /\ RunInv(run)
    /\ Told(run, released)
    /\ Exists(r) => run.revision = runs[r].revision + 1
    /\ run.state = "disposed" => Exists(r) /\ runs[r].state = "disposed"

\* One mutator writes one sound record and leaves everything else but the
\* editor's list and the history of its own Run alone.
Writes(r) ==
    /\ \E run : Write(r, run) /\ Sound(r, run, freed'[r])
    /\ listed' \in [Sessions -> SUBSET SUBSET Issues]
    /\ freed' \in [Runs -> SUBSET Issues]
    /\ \A q \in Runs \ {r} : freed'[q] = freed[q]

(***************************************************************************)
(* A mutator that leaves the journal alone writes soundly.                 *)
(***************************************************************************)
LEMMA WriteOnlyWrites ==
    ASSUME Inv, NEW r \in Runs, Exists(r), NEW run, WriteOnly(r, run), RunInv(run),
           run.revision = runs[r].revision + 1,
           run.cleanup = runs[r].cleanup,
           run.state = "disposed" => runs[r].state = "disposed"
    PROVE  Writes(r)
<1>1. Told(run, freed[r])
    BY ToldSame DEF Inv, Records
<1>2. Write(r, run) /\ freed' = freed /\ listed' = listed
    BY DEF WriteOnly
<1>3. Sound(r, run, freed'[r])
    BY <1>1, <1>2 DEF Sound
<1> QED
    BY <1>2, <1>3 DEF Writes, Inv, Surroundings

(***************************************************************************)
(* Each of the nine mutators writes one sound record.                      *)
(***************************************************************************)
LEMMA MutatorWrites ==
    ASSUME Inv, NEW r \in Runs, Mutator(r)
    PROVE  Writes(r)
<1>0. /\ Exists(r) => RunInv(runs[r]) /\ runs[r] \in RunType
      /\ Captured \subseteq U64
    BY ClockFits DEF Inv, Records, RunInv
<1>1. CASE \E ttl \in Ttls, ceiling \in Ceilings : Admit(r, ttl, ceiling)
  <2>1. PICK ttl \in Ttls, ceiling \in Ceilings : Admit(r, ttl, ceiling)
      BY <1>1
  <2>2. ttl \in U64 /\ ttl > 0 /\ ceiling \in U64 /\ ceiling > 0
      BY StoreAssumption, RecordAssumption DEF U64
  <2>3. RunInv(AdmittedRun(ttl, ceiling))
      BY <2>2, AdmittedInv
  <2>4. Told(AdmittedRun(ttl, ceiling), freed[r]) /\ AdmittedRun(ttl, ceiling).state # "disposed"
      BY DEF Told, AdmittedRun
  <2>5. ~Exists(r) /\ WriteOnly(r, AdmittedRun(ttl, ceiling))
      BY <2>1 DEF Admit
  <2> QED
      BY <2>3, <2>4, <2>5 DEF Writes, Sound, WriteOnly, Inv, Surroundings
<1>2. CASE \E s \in Sessions : Attach(r, s)
  <2>1. PICK s \in Sessions : Attach(r, s)
      BY <1>2
  <2>2. Exists(r) /\ CanAttach(runs[r]) /\ WriteOnly(r, Attached(runs[r], s))
      BY <2>1 DEF Attach
  <2>3. RunInv(Attached(runs[r], s))
      BY <1>0, <2>2, AttachedInv
  <2>4. /\ Attached(runs[r], s).revision = runs[r].revision + 1
        /\ Attached(runs[r], s).cleanup = runs[r].cleanup
        /\ Attached(runs[r], s).state # "disposed"
      BY <1>0, <2>2 DEF Attached, RunType
  <2> QED
      BY <2>2, <2>3, <2>4, WriteOnlyWrites
<1>3. CASE \E m \in Mutations, units \in 1..MaxUnits, now \in Captured :
               ReserveGeneratedWork(r, m, units, now)
  <2>1. PICK m \in Mutations, units \in 1..MaxUnits, now \in Captured :
               ReserveGeneratedWork(r, m, units, now)
      BY <1>3
  <2>2. CASE CanReserve(runs[r], m, units) /\ WriteOnly(r, Reserved(runs[r], m, units))
    <3>1. Exists(r)
        BY <2>1 DEF ReserveGeneratedWork
    <3>2. RunInv(Reserved(runs[r], m, units))
        BY <1>0, <2>2, <3>1, ReservedInv
    <3>3. /\ Reserved(runs[r], m, units).revision = runs[r].revision + 1
          /\ Reserved(runs[r], m, units).cleanup = runs[r].cleanup
          /\ Reserved(runs[r], m, units).state = runs[r].state
        BY <1>0, <3>1 DEF Reserved, RunType
    <3> QED
        BY <2>2, <3>1, <3>2, <3>3, WriteOnlyWrites
  <2>3. CASE CanExhaust(runs[r], m, units, now) /\ WriteOnly(r, Exhausted(runs[r], m, now))
    <3>1. Exists(r)
        BY <2>1 DEF ReserveGeneratedWork
    <3>2. RunInv(Exhausted(runs[r], m, now))
        BY <1>0, <2>3, <3>1, ExhaustedInv
    <3>3. /\ Exhausted(runs[r], m, now).revision = runs[r].revision + 1
          /\ Exhausted(runs[r], m, now).cleanup = runs[r].cleanup
          /\ Exhausted(runs[r], m, now).state # "disposed"
        BY <1>0, <3>1 DEF Exhausted, RunType
    <3> QED
        BY <2>3, <3>1, <3>2, <3>3, WriteOnlyWrites
  <2> QED
      BY <2>1, <2>2, <2>3 DEF ReserveGeneratedWork
<1>4. CASE \E m \in Mutations, issue \in Issues : ConfirmGeneratedWork(r, m, issue)
  <2>1. PICK m \in Mutations, issue \in Issues : ConfirmGeneratedWork(r, m, issue)
      BY <1>4
  <2>2. Exists(r) /\ CanConfirm(runs[r], m, issue) /\ WriteOnly(r, Confirmed(runs[r], m, issue))
      BY <2>1 DEF ConfirmGeneratedWork
  <2>3. RunInv(Confirmed(runs[r], m, issue))
      BY <1>0, <2>2, ConfirmedInv
  <2>4. /\ Confirmed(runs[r], m, issue).revision = runs[r].revision + 1
        /\ Confirmed(runs[r], m, issue).cleanup = runs[r].cleanup
        /\ Confirmed(runs[r], m, issue).state = runs[r].state
      BY <1>0, <2>2 DEF Confirmed, RunType
  <2> QED
      BY <2>2, <2>3, <2>4, WriteOnlyWrites
<1>5. CASE \E m \in Mutations : ReleaseGeneratedWork(r, m)
  <2>1. PICK m \in Mutations : ReleaseGeneratedWork(r, m)
      BY <1>5
  <2>2. Exists(r) /\ CanRelease(runs[r], m) /\ WriteOnly(r, Released(runs[r], m))
      BY <2>1 DEF ReleaseGeneratedWork
  <2>3. RunInv(Released(runs[r], m))
      BY <1>0, <2>2, ReleasedInv
  <2>4. /\ Released(runs[r], m).revision = runs[r].revision + 1
        /\ Released(runs[r], m).cleanup = runs[r].cleanup
        /\ Released(runs[r], m).state = runs[r].state
      BY <1>0, <2>2 DEF Released, RunType
  <2> QED
      BY <2>2, <2>3, <2>4, WriteOnlyWrites
<1>6. CASE \E s \in Sessions, now \in Captured :
               \E held \in listed[s] : \E claims \in Orders(held) : ParkCold(r, s, claims, now)
  <2>10. PICK s \in Sessions, now \in Captured :
               \E held \in listed[s] : \E claims \in Orders(held) : ParkCold(r, s, claims, now)
      BY <1>6
  <2>11. PICK held \in listed[s] : \E claims \in Orders(held) : ParkCold(r, s, claims, now)
      BY <2>10
  <2>1. PICK claims \in Orders(held) : ParkCold(r, s, claims, now)
      BY <2>11
  <2>2. /\ Exists(r) /\ CanParkCold(runs[r], s, now)
        /\ Write(r, ColdParked(runs[r], claims, now))
        /\ listed' = [listed EXCEPT ![s] = {}]
        /\ freed' = [freed EXCEPT ![r] = {}]
      BY <2>1 DEF ParkCold
  <2>3. claims \in Seq(Issues)
    <3>1. held \in SUBSET Issues
        BY DEF Inv, Surroundings
    <3>2. Cardinality(held) \in Nat
        BY <3>1, FS_CardinalityType, FS_Subset, StoreAssumption
    <3>3. claims \in [1..Cardinality(held) -> held]
        BY DEF Orders
    <3>4. claims \in [1..Cardinality(held) -> Issues]
        BY <3>1, <3>3
    <3> QED
        BY <3>2, <3>4, SeqDef
  <2>4. RunInv(ColdParked(runs[r], claims, now))
      BY <1>0, <2>2, <2>3, ColdParkedInv
  <2>5. /\ ColdParked(runs[r], claims, now).revision = runs[r].revision + 1
        /\ ColdParked(runs[r], claims, now).cleanup = Uncleaned(claims)
        /\ ColdParked(runs[r], claims, now).state # "disposed"
      BY <1>0, <2>2 DEF ColdParked, RunType
  <2>6. Told(ColdParked(runs[r], claims, now), freed'[r])
      BY <2>5 DEF Told, Uncleaned
  <2> QED
      BY <2>2, <2>4, <2>5, <2>6 DEF Writes, Sound, Inv, Surroundings
<1>7. CASE \E expected \in U64, ceiling \in Ceilings : RaiseGeneratedWorkCeiling(r, expected, ceiling)
  <2>1. PICK expected \in U64, ceiling \in Ceilings : RaiseGeneratedWorkCeiling(r, expected, ceiling)
      BY <1>7
  <2>2. /\ Exists(r) /\ CanRaise(runs[r], expected, ceiling)
        /\ WriteOnly(r, Raised(runs[r], ceiling))
      BY <2>1 DEF RaiseGeneratedWorkCeiling
  <2>3. ceiling \in U64
      BY StoreAssumption, RecordAssumption DEF U64
  <2>4. RunInv(Raised(runs[r], ceiling))
      BY <1>0, <2>2, <2>3, RaisedInv
  <2>5. /\ Raised(runs[r], ceiling).revision = runs[r].revision + 1
        /\ Raised(runs[r], ceiling).cleanup = runs[r].cleanup
        /\ Raised(runs[r], ceiling).state = runs[r].state
      BY <1>0, <2>2 DEF Raised, RunType
  <2> QED
      BY <2>2, <2>4, <2>5, WriteOnlyWrites
<1>8. CASE \E expected \in U64, op \in Operations, now \in Captured :
               BeginResume(r, expected, op, now)
  <2>1. PICK expected \in U64, op \in Operations, now \in Captured :
               BeginResume(r, expected, op, now)
      BY <1>8
  <2>2. /\ Exists(r) /\ CanBeginResume(runs[r], expected, op, now, Lease)
        /\ WriteOnly(r, ResumeBegun(runs[r], op, now, Lease))
      BY <2>1 DEF BeginResume
  <2>3. Lease \in U64 /\ Lease > 0
      BY <1>0, <2>2, StoreAssumption, RecordAssumption DEF CanBeginResume, U64
  <2>4. RunInv(ResumeBegun(runs[r], op, now, Lease))
      BY <1>0, <2>2, <2>3, ResumeBegunInv
  <2>5. /\ ResumeBegun(runs[r], op, now, Lease).revision = runs[r].revision + 1
        /\ ResumeBegun(runs[r], op, now, Lease).cleanup = runs[r].cleanup
        /\ ResumeBegun(runs[r], op, now, Lease).state # "disposed"
      BY <1>0, <2>2 DEF ResumeBegun, RunType
  <2> QED
      BY <2>2, <2>4, <2>5, WriteOnlyWrites
<1>9. CASE \E expected \in U64, op \in Operations, succeeded \in BOOLEAN :
               FinalizeResume(r, expected, op, succeeded)
  <2>1. PICK expected \in U64, op \in Operations, succeeded \in BOOLEAN :
               FinalizeResume(r, expected, op, succeeded)
      BY <1>9
  <2>2. /\ Exists(r) /\ CanFinalizeResume(runs[r], expected, op)
        /\ WriteOnly(r, ResumeFinalized(runs[r], succeeded))
      BY <2>1 DEF FinalizeResume
  <2>3. RunInv(ResumeFinalized(runs[r], succeeded))
      BY <1>0, <2>2, ResumeFinalizedInv
  <2>4. /\ ResumeFinalized(runs[r], succeeded).revision = runs[r].revision + 1
        /\ ResumeFinalized(runs[r], succeeded).cleanup = runs[r].cleanup
        /\ ResumeFinalized(runs[r], succeeded).state # "disposed"
      BY <1>0, <2>2 DEF ResumeFinalized, RunType
  <2> QED
      BY <2>2, <2>3, <2>4, WriteOnlyWrites
<1> QED
    BY <1>1, <1>2, <1>3, <1>4, <1>5, <1>6, <1>7, <1>8, <1>9 DEF Mutator

(***************************************************************************)
(* A sound write keeps the invariant: the lock keeps it out of a pass.     *)
(***************************************************************************)
LEMMA WriteKeepsInv ==
    ASSUME Inv, NEW r \in Runs, Writes(r)
    PROVE  Inv'
<1>1. PICK run : Write(r, run) /\ Sound(r, run, freed'[r])
    BY DEF Writes
<1>2. /\ runs' = [runs EXCEPT ![r] = run] /\ reaper.pc = "idle"
      /\ UNCHANGED <<clock, reaper, assignee, crashes>>
    BY <1>1 DEF Write, Unlocked
<1>3. RunInv(run) /\ run \in RunType /\ Told(run, freed'[r])
    BY <1>1 DEF Sound, RunInv
<1>4. runs'[r] = run /\ \A q \in Runs \ {r} : runs'[q] = runs[q] /\ freed'[q] = freed[q]
    BY <1>2 DEF Inv, Records, Writes
<1>5. \A q \in Runs : Exists(q) => Exists(q)'
    BY <1>3, <1>4, NoRunIsNoRecord DEF Exists
<1>6. Records'
  <2>1. runs' \in [Runs -> RunType \union {NoRun}]
      BY <1>2, <1>3 DEF Inv, Records
  <2>2. ASSUME NEW q \in Runs, Exists(q)'
        PROVE  RunInv(runs'[q]) /\ Told(runs'[q], freed'[q])
    <3>1. CASE q = r
        BY <1>3, <1>4, <3>1
    <3>2. CASE q # r
        BY <1>4, <2>2, <3>2 DEF Inv, Records, Exists
    <3> QED
        BY <3>1, <3>2
  <2> QED
      BY <2>1, <2>2 DEF Records
<1>7. Pass'
    BY <1>2, <1>5 DEF Inv, Pass, Reapers
<1>8. Surroundings'
    BY <1>2 DEF Inv, Surroundings, Writes
<1> QED
    BY <1>6, <1>7, <1>8 DEF Inv

(***************************************************************************)
(* A time that is due stays due as the pass goes on: journalling does not  *)
(* move the deadline.                                                      *)
(***************************************************************************)
LEMMA JournalledStaysDue ==
    ASSUME NEW run, run \in RunType, NEW i \in DOMAIN run.cleanup, NEW now, Due(run, now)
    PROVE  Due(Journaled(run, i), now)
    BY DEF Due, Reapable, Deadline, Journaled, RunType

(***************************************************************************)
(* Journalling the claim that was released keeps the journal true.         *)
(***************************************************************************)
LEMMA JournalledIsTold ==
    ASSUME NEW run, run \in RunType, NEW i \in DOMAIN run.cleanup, NEW released,
           Told(run, released), run.cleanup[i].issue \in released,
           run.state # "disposed"
    PROVE  Told(Journaled(run, i), released)
<1> DEFINE next == Journaled(run, i)
<1>1. run.cleanup \in Seq(Cleanups)
    BY DEF RunType
<1>2. /\ next.cleanup = [run.cleanup EXCEPT ![i].completed = TRUE]
      /\ next.state = run.state
    BY DEF Journaled, RunType
<1>3. DOMAIN next.cleanup = DOMAIN run.cleanup
    BY <1>2
<1>4. ASSUME NEW j \in DOMAIN run.cleanup, next.cleanup[j].completed
      PROVE  next.cleanup[j].issue \in released
  <2>1. CASE j = i
    <3>1. run.cleanup[i] \in Cleanups
        BY <1>1, LenProperties, ElementOfSeq
    <3>2. next.cleanup[j].issue = run.cleanup[i].issue
        BY <1>2, <2>1, <3>1 DEF Cleanups
    <3> QED
        BY <3>2
  <2>2. CASE j # i
      BY <1>2, <1>4, <2>2 DEF Told
  <2> QED
      BY <2>1, <2>2
<1> QED
    BY <1>2, <1>3, <1>4 DEF Told

(***************************************************************************)
(* The Run a pass looks at exists, and the claim it releases next is one   *)
(* issue of that Run's journal.                                            *)
(***************************************************************************)
LEMMA NextClaimIsOne ==
    ASSUME Inv, NEW r \in Runs, Exists(r)
    PROVE  /\ NextUnreleased(runs[r]) \subseteq DOMAIN runs[r].cleanup
           /\ NextClaims(r) \subseteq Issues
           /\ \A c, d \in NextClaims(r) : c = d
<1>1. runs[r].cleanup \in Seq(Cleanups)
    BY DEF Inv, Records, RunInv, RunType
<1>2. NextUnreleased(runs[r]) \subseteq 1..Len(runs[r].cleanup)
  <2>1. DOMAIN runs[r].cleanup = 1..Len(runs[r].cleanup)
      BY <1>1, LenProperties
  <2> QED
      BY <2>1 DEF NextUnreleased, Unreleased
<1>3. ASSUME NEW i \in NextUnreleased(runs[r])
      PROVE  runs[r].cleanup[i].issue \in Issues
  <2>1. runs[r].cleanup[i] \in Cleanups
      BY <1>1, <1>2, ElementOfSeq
  <2> QED
      BY <2>1 DEF Cleanups
<1>4. \A i, j \in NextUnreleased(runs[r]) : i = j
  <2>1. Len(runs[r].cleanup) \in Nat
      BY <1>1, LenProperties
  <2>2. \A i, j \in NextUnreleased(runs[r]) : i \in Nat /\ j \in Nat /\ i <= j /\ j <= i
      BY <1>2, <2>1 DEF NextUnreleased
  <2> QED
      BY <2>2
<1>5. NextUnreleased(runs[r]) \subseteq DOMAIN runs[r].cleanup
    BY DEF NextUnreleased, Unreleased
<1> QED
    BY <1>3, <1>4, <1>5 DEF NextClaims

(***************************************************************************)
(* A release adds to the history and makes no journal untrue.              *)
(***************************************************************************)
LEMMA ReleaseKeeps ==
    ASSUME Inv, NEW r \in Runs, NEW issue \in Issues, Release(r, issue),
           UNCHANGED <<runs, clock, listed, crashes>>
    PROVE  Records' /\ Surroundings' /\ issue \in freed'[r]
<1>1. /\ assignee' = [assignee EXCEPT ![issue] = Nobody]
      /\ freed' = [freed EXCEPT ![r] = @ \union {issue}]
    BY DEF Release
<1>2. Surroundings' /\ issue \in freed'[r]
    BY <1>1 DEF Inv, Surroundings
<1>3. \A q \in Runs : freed[q] \subseteq freed'[q]
    BY <1>1 DEF Inv, Surroundings
<1>4. Records'
    BY <1>3 DEF Inv, Records, Exists, Told
<1> QED
    BY <1>2, <1>4

(***************************************************************************)
(* Dropping the pass, by its end, an error or a crash, keeps the rest.     *)
(***************************************************************************)
LEMMA IdleKeepsPass ==
    ASSUME Inv, reaper' = Idle, clock' = clock
    PROVE  Pass'
<1>1. Idle \in Reapers /\ Idle.now = 0 /\ Idle.todo = {} /\ Idle.current = None
      /\ Idle.pc # "released"
    BY RecordAssumption DEF Idle, Reapers, U64
<1> QED
    BY <1>1, StoreAssumption DEF Inv, Surroundings, Pass

(***************************************************************************)
(* A reaper's write of one record it visits keeps the records sound.       *)
(***************************************************************************)
LEMMA ReaperWriteKeeps ==
    ASSUME Inv, NEW r \in Runs, Exists(r), NEW run, RunInv(run), Told(run, freed[r]),
           runs' = [runs EXCEPT ![r] = run],
           UNCHANGED <<clock, assignee, listed, freed, crashes>>
    PROVE  /\ Records' /\ Surroundings'
           /\ runs'[r] = run
           /\ \A q \in Runs : Exists(q) => Exists(q)'
<1>1. runs'[r] = run /\ \A q \in Runs \ {r} : runs'[q] = runs[q]
    BY DEF Inv, Records
<1>2. run \in RunType
    BY DEF RunInv
<1>3. \A q \in Runs : Exists(q) => Exists(q)'
    BY <1>1, <1>2, NoRunIsNoRecord DEF Exists
<1>4. runs' \in [Runs -> RunType \union {NoRun}]
    BY <1>2 DEF Inv, Records
<1>5. \A q \in Runs : Exists(q)' => RunInv(runs'[q]) /\ Told(runs'[q], freed'[q])
    BY <1>1 DEF Inv, Records, Exists
<1>6. Records'
    BY <1>4, <1>5 DEF Records
<1>7. Surroundings'
    BY DEF Inv, Surroundings
<1> QED
    BY <1>1, <1>3, <1>6, <1>7

(***************************************************************************)
(* Going on to the next record, or to the next claim, keeps the pass.      *)
(***************************************************************************)
LEMMA ScanKeepsPass ==
    ASSUME Inv, clock' = clock, reaper' \in Reapers,
           reaper'.now = reaper.now, reaper'.pc = "scan",
           reaper'.todo \subseteq reaper.todo,
           reaper'.current # None =>
               reaper'.current \in Runs /\ runs'[reaper'.current] # NoRun
               /\ Due(runs'[reaper'.current], reaper.now),
           \A q \in Runs : Exists(q) => Exists(q)'
    PROVE  Pass'
<1>1. \A q \in reaper'.todo : Exists(q)'
    BY DEF Inv, Pass, Reapers
<1>2. \A q \in {reaper'.current} \ {None} : Exists(q)'
    BY DEF Exists
<1>3. reaper'.now <= clock'
    BY DEF Inv, Pass
<1> QED
    BY <1>1, <1>2, <1>3 DEF Pass

(***************************************************************************)
(* Every step of the reaper about one Run keeps the invariant.             *)
(***************************************************************************)
LEMMA ReaperKeepsInv ==
    ASSUME Inv, NEW r \in Runs, Reaper(r)
    PROVE  Inv'
<1>0. /\ reaper \in Reapers
      /\ Visiting(r) => Exists(r) /\ reaper.pc = "scan" /\ Due(runs[r], reaper.now)
      /\ Exists(r) => RunInv(runs[r]) /\ runs[r] \in RunType /\ Told(runs[r], freed[r])
      /\ reaper.now \in U64
      /\ r # None
    BY StoreAssumption DEF Inv, Pass, Records, Visiting, RunInv, Reapers
<1>1. ASSUME Leave, Visiting(r)
      PROVE  /\ reaper' \in Reapers /\ reaper'.now = reaper.now /\ reaper'.pc = "scan"
             /\ reaper'.todo \subseteq reaper.todo /\ reaper'.current = None
    BY <1>0, <1>1 DEF Leave, Reapers, Visiting
<1>2. CASE ReapSkip(r)
  <2>1. Records' /\ Surroundings' /\ \A q \in Runs : Exists(q) => Exists(q)'
      BY <1>2 DEF ReapSkip, Inv, Records, Surroundings, Exists
  <2>2. /\ reaper' \in Reapers /\ reaper'.now = reaper.now /\ reaper'.pc = "scan"
        /\ reaper'.todo \subseteq reaper.todo /\ reaper'.current = None
      BY <1>0, <1>2 DEF ReapSkip, Reapers
  <2>3. Pass'
      BY <1>2, <2>1, <2>2, ScanKeepsPass DEF ReapSkip
  <2> QED
      BY <2>1, <2>3 DEF Inv
<1>8. CASE ReapVisit(r)
  <2>1. Records' /\ Surroundings' /\ \A q \in Runs : Exists(q) => Exists(q)'
      BY <1>8 DEF ReapVisit, Inv, Records, Surroundings, Exists
  <2>2. /\ reaper' \in Reapers /\ reaper'.now = reaper.now /\ reaper'.pc = "scan"
        /\ reaper'.todo \subseteq reaper.todo /\ reaper'.current = r
      BY <1>0, <1>8 DEF ReapVisit, Reapers
  <2>3. Exists(r) /\ Due(runs[r], reaper.now) /\ UNCHANGED <<runs, clock>>
      BY <1>8 DEF ReapVisit, Inv, Pass
  <2>4. Pass'
      BY <2>1, <2>2, <2>3, ScanKeepsPass DEF Exists
  <2> QED
      BY <2>1, <2>4 DEF Inv
<1>3. CASE ReapRelease(r)
  <2>1. PICK issue \in NextClaims(r) : Release(r, issue)
      BY <1>3 DEF ReapRelease
  <2>2. /\ Visiting(r) /\ Due(runs[r], reaper.now) /\ Exists(r)
        /\ reaper' = [reaper EXCEPT !.pc = "released"] /\ reaper.current = r
        /\ UNCHANGED <<runs, clock, listed, crashes>>
      BY <1>0, <1>3 DEF ReapRelease, Visiting
  <2>3. issue \in Issues /\ NextClaims(r) = {issue}
      BY <2>1, <2>2, NextClaimIsOne
  <2>4. Records' /\ Surroundings' /\ issue \in freed'[r]
      BY <2>1, <2>2, <2>3, ReleaseKeeps
  <2>5. /\ reaper' \in Reapers /\ reaper'.now = reaper.now /\ reaper'.todo = reaper.todo
        /\ reaper'.current = r
      BY <1>0, <2>2 DEF Reapers
  <2>6. NextClaims(r)' \subseteq freed'[r]
      BY <2>2, <2>3, <2>4 DEF NextClaims
  <2>8. /\ reaper'.pc = "released" /\ Due(runs'[r], reaper'.now)
        /\ NextClaims(reaper.current)' \subseteq freed'[r]
        /\ \A q \in Runs : Exists(q) => Exists(q)'
      BY <1>0, <2>2, <2>5, <2>6 DEF Reapers, NextClaims, Exists
  <2>7. Pass'
      BY <1>0, <2>2, <2>5, <2>8 DEF Inv, Pass, Reapers
  <2> QED
      BY <2>4, <2>7 DEF Inv
<1>4. CASE ReapJournal(r)
  <2>1. PICK i \in NextUnreleased(runs[r]) : runs' = [runs EXCEPT ![r] = Journaled(@, i)]
      BY <1>4 DEF ReapJournal
  <2>2. /\ reaper.pc = "released" /\ reaper.current = r /\ CanAdvance(runs[r])
        /\ reaper' = [reaper EXCEPT !.pc = "scan"]
        /\ UNCHANGED <<clock, assignee, listed, freed, crashes>>
      BY <1>4 DEF ReapJournal
  <2>3. Exists(r) /\ Due(runs[r], reaper.now) /\ NextClaims(r) \subseteq freed[r]
      BY <1>0, <2>2 DEF Inv, Pass
  <2>4. i \in DOMAIN runs[r].cleanup /\ runs[r].cleanup[i].issue \in freed[r]
      BY <2>1, <2>3, NextClaimIsOne DEF NextClaims
  <2>5. RunInv(Journaled(runs[r], i))
      BY <1>0, <2>2, <2>3, <2>4, JournaledInv
  <2>6. runs[r].state # "disposed"
      BY <2>3 DEF Due, Reapable
  <2>7. Told(Journaled(runs[r], i), freed[r])
      BY <1>0, <2>3, <2>4, <2>6, JournalledIsTold
  <2>8. runs' = [runs EXCEPT ![r] = Journaled(runs[r], i)]
      BY <2>1
  <2>9. Records' /\ Surroundings' /\ \A q \in Runs : Exists(q) => Exists(q)'
      BY <2>2, <2>3, <2>5, <2>7, <2>8, ReaperWriteKeeps
  <2>12. runs'[r] = Journaled(runs[r], i) /\ Due(runs'[r], reaper.now)
      BY <1>0, <2>2, <2>3, <2>4, <2>8, JournalledStaysDue DEF Inv, Records
  <2>10. /\ reaper' \in Reapers /\ reaper'.now = reaper.now /\ reaper'.pc = "scan"
         /\ reaper'.todo = reaper.todo /\ reaper'.current = reaper.current
      BY <1>0, <2>2 DEF Reapers
  <2>11. Pass'
      BY <2>2, <2>3, <2>9, <2>10, <2>12, ScanKeepsPass DEF Exists
  <2> QED
      BY <2>9, <2>11 DEF Inv
<1>5. CASE ReapFail(r)
  <2>1. PICK issue \in NextClaims(r) : Release(r, issue) \/ UNCHANGED <<assignee, freed>>
      BY <1>5 DEF ReapFail
  <2>2. Visiting(r) /\ Leave /\ UNCHANGED <<runs, clock, listed, crashes>> /\ Exists(r)
      BY <1>0, <1>5 DEF ReapFail
  <2>3. Records' /\ Surroundings'
    <3>1. CASE Release(r, issue)
        BY <2>1, <2>2, <3>1, NextClaimIsOne, ReleaseKeeps
    <3>2. CASE UNCHANGED <<assignee, freed>>
        BY <2>2, <3>2 DEF Inv, Records, Surroundings, Exists
    <3> QED
        BY <2>1, <3>1, <3>2
  <2>4. Pass'
      BY <1>1, <2>2, ScanKeepsPass DEF Exists
  <2> QED
      BY <2>3, <2>4 DEF Inv
<1>6. CASE ReapDispose(r)
  <2>1. /\ Visiting(r) /\ Due(runs[r], reaper.now) /\ Unreleased(runs[r]) = {}
        /\ CanAdvance(runs[r]) /\ Leave /\ Exists(r)
        /\ runs' = [runs EXCEPT ![r] = Disposed(runs[r])]
        /\ UNCHANGED <<clock, assignee, listed, freed, crashes>>
      BY <1>0, <1>6 DEF ReapDispose
  <2>2. RunInv(Disposed(runs[r]))
      BY <1>0, <2>1, DisposedInv
  <2>3. Disposed(runs[r]).cleanup = runs[r].cleanup
      BY <1>0, <2>1 DEF Disposed, RunType
  <2>4. Told(Disposed(runs[r]), freed[r])
      BY <1>0, <2>1, <2>3 DEF Told, Unreleased
  <2>5. Records' /\ Surroundings' /\ \A q \in Runs : Exists(q) => Exists(q)'
      BY <2>1, <2>2, <2>4, ReaperWriteKeeps
  <2>6. Pass'
      BY <1>1, <2>1, <2>5, ScanKeepsPass
  <2> QED
      BY <2>5, <2>6 DEF Inv
<1>7. CASE ReapOverflow(r)
  <2>1. reaper' = Idle /\ UNCHANGED <<runs, clock, assignee, listed, freed, crashes>>
      BY <1>7 DEF ReapOverflow
  <2> QED
      BY <2>1, IdleKeepsPass DEF Inv, Records, Surroundings, Exists
<1> QED
    BY <1>2, <1>3, <1>4, <1>5, <1>6, <1>7, <1>8 DEF Reaper

(***************************************************************************)
(* The empty store satisfies the invariant.                                *)
(***************************************************************************)
LEMMA InitInv == Init => Inv
<1> SUFFICES ASSUME Init PROVE Inv
    OBVIOUS
<1>1. Records
    BY DEF Init, Records, Exists
<1>2. Pass
    BY RecordAssumption DEF Init, Pass, Idle, Reapers, U64
<1>3. Surroundings
    BY StoreAssumption DEF Init, Surroundings
<1> QED
    BY <1>1, <1>2, <1>3 DEF Inv

(***************************************************************************)
(* Every step keeps the invariant.                                         *)
(***************************************************************************)
LEMMA NextInv == Inv /\ [Next]_vars => Inv'
<1> SUFFICES ASSUME Inv, [Next]_vars PROVE Inv'
    OBVIOUS
<1>1. ASSUME NEW r \in Runs, Mutator(r) PROVE Inv'
    BY <1>1, MutatorWrites, WriteKeepsInv
<1>2. ASSUME NEW r \in Runs, Reaper(r) PROVE Inv'
    BY <1>2, ReaperKeepsInv
<1>3. CASE \E now \in Captured : ReapBegin(now)
  <2>1. PICK now \in Captured : ReapBegin(now)
      BY <1>3
  <2>2. now \in U64 /\ now <= clock
      BY ClockFits DEF Inv
  <2>3. Pass'
      BY <2>1, <2>2 DEF ReapBegin, Pass, Reapers, Exists
  <2> QED
      BY <2>1, <2>3 DEF ReapBegin, Inv, Records, Surroundings, Exists
<1>4. CASE ReapEnd \/ Crash
  <2>1. reaper' = Idle /\ clock' = clock
      BY <1>4 DEF ReapEnd, Crash
  <2>2. Pass'
      BY <2>1, IdleKeepsPass
  <2>3. Records'
      BY <1>4 DEF ReapEnd, Crash, Inv, Records, Exists
  <2>4. Surroundings'
      BY <1>4 DEF ReapEnd, Crash, Inv, Surroundings
  <2> QED
      BY <2>2, <2>3, <2>4 DEF Inv
<1>5. CASE Tick
  <2>1. Surroundings'
      BY <1>5, StoreAssumption DEF Tick, Inv, Surroundings
  <2>2. clock \in Nat /\ reaper.now \in Nat
      BY StoreAssumption, RecordAssumption DEF Inv, Surroundings, Pass, Reapers, U64
  <2>3. Pass'
      BY <1>5, <2>2 DEF Tick, Inv, Pass, Exists, NextClaims
  <2>4. Records'
      BY <1>5 DEF Tick, Inv, Records, Exists
  <2> QED
      BY <2>1, <2>3, <2>4 DEF Inv
<1>6. CASE \E a \in Actors, issue \in Issues : Claim(a, issue)
  <2>1. UNCHANGED <<runs, clock, reaper, listed, freed, crashes>>
      BY <1>6 DEF Claim
  <2>2. assignee' \in [Issues -> Actors \union {Nobody}]
      BY <1>6 DEF Claim, Inv, Surroundings
  <2> QED
      BY <2>1, <2>2 DEF Inv, Records, Pass, Surroundings, Exists, NextClaims
<1>7. CASE \E s \in Sessions : ListClaims(s)
  <2>1. UNCHANGED <<runs, clock, reaper, assignee, freed, crashes>>
      BY <1>7 DEF ListClaims
  <2>2. listed' \in [Sessions -> SUBSET SUBSET Issues]
      BY <1>7 DEF ListClaims, Claimed, Inv, Surroundings
  <2> QED
      BY <2>1, <2>2 DEF Inv, Records, Pass, Surroundings, Exists, NextClaims
<1>8. CASE UNCHANGED vars
    BY <1>8 DEF vars, Inv, Records, Pass, Surroundings, Exists, NextClaims
<1> QED
    BY <1>1, <1>2, <1>3, <1>4, <1>5, <1>6, <1>7, <1>8 DEF Next

(***************************************************************************)
(* The invariant holds in every state of every behaviour.                  *)
(***************************************************************************)
THEOREM Invariance == Spec => []Inv
    BY InitInv, NextInv, PTL DEF Spec

(***************************************************************************)
(* Records keep their shape and passes their Runs.                         *)
(***************************************************************************)
THEOREM TypeCorrect == Spec => []TypeOK
<1>1. Inv => TypeOK
    BY DEF Inv, Records, Pass, Surroundings, TypeOK
<1> QED
    BY <1>1, Invariance, PTL

(***************************************************************************)
(* Generated work never outgrows the ceiling of its Run.                   *)
(***************************************************************************)
THEOREM BudgetKept == Spec => []WithinBudget
<1>1. Inv => WithinBudget
    BY DEF Inv, Records, RunInv, Counted, WithinBudget
<1> QED
    BY <1>1, Invariance, PTL

(***************************************************************************)
(* The reaper and the list of resumable Runs never meet an incomplete      *)
(* record.                                                                 *)
(***************************************************************************)
THEOREM ReapableComplete == Spec => []ReapableIsComplete
<1>1. Inv => ReapableIsComplete
  <2> SUFFICES ASSUME Inv, NEW r \in Runs, Exists(r)
               PROVE  /\ Reapable(runs[r]) \/ runs[r].state = "parked" =>
                            runs[r].session # None /\ runs[r].expires > 0
                      /\ runs[r].state = "resuming" =>
                            runs[r].attempt # None /\ runs[r].attempt.result = "resuming"
      BY DEF ReapableIsComplete
  <2> QED
      BY DEF Inv, Records, RunInv, Lifecycle, Reapable, Parked
<1> QED
    BY <1>1, Invariance, PTL

(***************************************************************************)
(* A failed resume leaves the Run under the lease of its attempt.          *)
(***************************************************************************)
THEOREM LeaseKept == Spec => []FailedResumeKeepsLease
<1>1. Inv => FailedResumeKeepsLease
    BY DEF Inv, Records, RunInv, Lifecycle, FailedResumeKeepsLease
<1> QED
    BY <1>1, Invariance, PTL

(***************************************************************************)
(* No claim is written off before it is released, and none is left when a  *)
(* Run is disposed of.                                                     *)
(***************************************************************************)
THEOREM JournalIsTrue == Spec => []JournalledWasReleased
<1>1. Inv => JournalledWasReleased
  <2> SUFFICES ASSUME Inv, NEW r \in Runs, Exists(r), NEW i \in DOMAIN runs[r].cleanup,
                      runs[r].cleanup[i].completed \/ runs[r].state = "disposed"
               PROVE  runs[r].cleanup[i].issue \in freed[r]
      BY DEF JournalledWasReleased
  <2>1. Told(runs[r], freed[r])
      BY DEF Inv, Records
  <2>2. runs[r].cleanup[i].completed
      BY <2>1 DEF Told, Unreleased
  <2> QED
      BY <2>1, <2>2 DEF Told
<1> QED
    BY <1>1, Invariance, PTL

(***************************************************************************)
(* What one step may do to one record.                                     *)
(***************************************************************************)
LEMMA RecordStep ==
    ASSUME Inv, [Next]_vars, NEW q \in Runs, Exists(q), runs'[q] # runs[q]
    PROVE  /\ runs'[q] # NoRun /\ runs'[q].revision = runs[q].revision + 1
           /\ runs[q].state # "disposed" /\ runs'[q].state = "disposed" =>
                  Due(runs[q], reaper.now) /\ Unreleased(runs[q]) = {}
<1>0. runs \in [Runs -> RunType \union {NoRun}] /\ runs[q] \in RunType
    BY DEF Inv, Records, RunInv
<1>1. ASSUME NEW r \in Runs, Mutator(r)
      PROVE  /\ runs'[q] \in RunType /\ runs'[q].revision = runs[q].revision + 1
             /\ runs'[q].state = "disposed" => runs[q].state = "disposed"
  <2>1. PICK run : Write(r, run) /\ Sound(r, run, freed'[r])
      BY <1>1, MutatorWrites DEF Writes
  <2>2. r = q /\ runs'[q] = run
      BY <1>0, <2>1 DEF Write
  <2> QED
      BY <2>1, <2>2 DEF Sound, RunInv
<1>2. ASSUME NEW r \in Runs, ReapJournal(r)
      PROVE  /\ runs'[q] \in RunType /\ runs'[q].revision = runs[q].revision + 1
             /\ runs'[q].state = runs[q].state
  <2>1. PICK i \in NextUnreleased(runs[r]) : runs' = [runs EXCEPT ![r] = Journaled(runs[r], i)]
      BY <1>2 DEF ReapJournal
  <2>2. r = q /\ runs'[q] = Journaled(runs[q], i)
      BY <1>0, <2>1
  <2>3. i \in DOMAIN runs[q].cleanup /\ CanAdvance(runs[q])
      BY <1>2, <2>1, <2>2, NextClaimIsOne DEF ReapJournal
  <2>4. RunInv(Journaled(runs[q], i))
      BY <2>3, JournaledInv DEF Inv, Records
  <2>5. /\ Journaled(runs[q], i).revision = runs[q].revision + 1
        /\ Journaled(runs[q], i).state = runs[q].state
      BY <1>0 DEF Journaled, RunType
  <2> QED
      BY <2>2, <2>4, <2>5 DEF RunInv
<1>3. ASSUME NEW r \in Runs, ReapDispose(r)
      PROVE  /\ runs'[q] \in RunType /\ runs'[q].revision = runs[q].revision + 1
             /\ Due(runs[q], reaper.now) /\ Unreleased(runs[q]) = {}
  <2>1. runs' = [runs EXCEPT ![r] = Disposed(runs[r])]
      BY <1>3 DEF ReapDispose
  <2>2. r = q /\ runs'[q] = Disposed(runs[q])
      BY <1>0, <2>1
  <2>3. Due(runs[q], reaper.now) /\ Unreleased(runs[q]) = {} /\ CanAdvance(runs[q])
      BY <1>3, <2>2, StoreAssumption DEF ReapDispose, Visiting, Inv, Pass
  <2>4. RunInv(Disposed(runs[q]))
      BY <2>3, DisposedInv DEF Inv, Records, Pass, Reapers
  <2>5. Disposed(runs[q]).revision = runs[q].revision + 1
      BY <1>0 DEF Disposed, RunType
  <2> QED
      BY <2>2, <2>3, <2>4, <2>5 DEF RunInv
<1>4. \E r \in Runs : Mutator(r) \/ ReapJournal(r) \/ ReapDispose(r)
    BY DEF Next, Reaper, vars, ReapSkip, ReapVisit, ReapRelease, ReapFail, ReapOverflow, ReapBegin, ReapEnd,
           Crash, Tick, Claim, ListClaims
<1> QED
    BY <1>1, <1>2, <1>3, <1>4, NoRunIsNoRecord

(***************************************************************************)
(* A revision names one content of a record, forever.                      *)
(***************************************************************************)
THEOREM RevisionNamesRecord == Spec => RevisionCountsWrites
<1>1. Inv /\ [Next]_vars =>
        [\A r \in Runs : Exists(r) /\ runs'[r] # runs[r] =>
            runs'[r] # NoRun /\ runs'[r].revision = runs[r].revision + 1]_vars
    BY RecordStep
<1> QED
    BY <1>1, Invariance, PTL DEF Spec, RevisionCountsWrites

(***************************************************************************)
(* A time that is due for the pass is due on the wall clock.               *)
(***************************************************************************)
LEMMA DueOnTheClock ==
    ASSUME Inv, NEW r \in Runs, Exists(r), Due(runs[r], reaper.now)
    PROVE  Due(runs[r], clock)
<1>1. reaper.now \in Nat /\ clock \in Nat /\ reaper.now <= clock
    BY StoreAssumption, RecordAssumption DEF Inv, Surroundings, Pass, Reapers, U64
<1>2. runs[r] \in RunType /\ Lifecycle(runs[r])
    BY DEF Inv, Records, RunInv
<1>3. Deadline(runs[r]) \in Nat
  <2>1. runs[r].state = "resuming" => runs[r].attempt \in Attempts
      BY <1>2 DEF Lifecycle, RunType
  <2> QED
      BY <1>2, <2>1, RecordAssumption DEF Deadline, RunType, Attempts, U64
<1> QED
    BY <1>1, <1>3 DEF Due

(***************************************************************************)
(* Only expiry, after a complete cleanup, disposes of a Run.               *)
(***************************************************************************)
THEOREM DisposalIsEarned == Spec => DisposedAfterCleanup
<1>1. Inv /\ [Next]_vars =>
        [\A r \in Runs :
            Exists(r) /\ runs[r].state # "disposed" /\ runs'[r].state = "disposed" =>
                Due(runs[r], clock) /\ Unreleased(runs[r]) = {}]_vars
    BY RecordStep, DueOnTheClock
<1> QED
    BY <1>1, Invariance, PTL DEF Spec, DisposedAfterCleanup

(***************************************************************************)
(* Only the release of a recorded claim of a Run out of time unassigns.    *)
(***************************************************************************)
THEOREM ReleaseIsDue == Spec => ReleasesOnlyWhenDue
<1>1. ASSUME Inv, [Next]_vars, NEW issue \in Issues,
             assignee[issue] # Nobody, assignee'[issue] = Nobody
      PROVE  \E r \in Runs : /\ Exists(r) /\ Due(runs[r], clock)
                             /\ \E i \in Unreleased(runs[r]) : runs[r].cleanup[i].issue = issue
  <2>8. Nobody \notin Sessions /\ Nobody \notin Outsiders
      BY RecordAssumption, StoreAssumption DEF Nobody
  <2>9. Nobody \notin Actors
      BY <2>8 DEF Actors
  <2>0. assignee \in [Issues -> Actors \union {Nobody}] /\ Nobody \notin Actors
      BY <1>1, <2>9 DEF Inv, Surroundings
  <2>1. ASSUME NEW a \in Actors, NEW i \in Issues, Claim(a, i)
        PROVE  FALSE
    <3>1. i # issue /\ assignee' = [assignee EXCEPT ![i] = a]
        BY <1>1, <2>0, <2>1 DEF Claim
    <3> QED
        BY <1>1, <2>0, <3>1
  <2>2. PICK r \in Runs : ReapRelease(r) \/ ReapFail(r)
    <3>1. assignee' # assignee
        BY <1>1
    <3>2. \A r \in Runs : ~Mutator(r)
        BY <1>1, <3>1, MutatorWrites DEF Writes, Write
    <3> QED
        BY <1>1, <2>1, <3>1, <3>2 DEF Next, Reaper, vars, ReapSkip, ReapVisit, ReapJournal, ReapDispose,
           ReapOverflow, ReapBegin, ReapEnd, Crash, Tick, ListClaims
  <2>3. PICK c \in NextClaims(r) : Release(r, c)
      BY <1>1, <2>2 DEF ReapRelease, ReapFail
  <2>4. Visiting(r) /\ Due(runs[r], reaper.now) /\ Exists(r)
      BY <1>1, <2>2, StoreAssumption DEF ReapRelease, ReapFail, Inv, Pass, Visiting
  <2>5. c = issue
      BY <1>1, <2>0, <2>3 DEF Release
  <2>6. Due(runs[r], clock)
      BY <1>1, <2>4, DueOnTheClock
  <2>7. \E i \in Unreleased(runs[r]) : runs[r].cleanup[i].issue = issue
      BY <2>3, <2>5 DEF NextClaims, NextUnreleased
  <2> QED
      BY <2>4, <2>6, <2>7
<1>2. Inv /\ [Next]_vars =>
        [\A issue \in Issues : assignee[issue] # Nobody /\ assignee'[issue] = Nobody =>
            \E r \in Runs : /\ Exists(r) /\ Due(runs[r], clock)
                            /\ \E i \in Unreleased(runs[r]) :
                                  runs[r].cleanup[i].issue = issue]_vars
    BY <1>1
<1> QED
    BY <1>2, Invariance, PTL DEF Spec, ReleasesOnlyWhenDue
-----------------------------------------------------------------------------
(* What the history of one record keeps: an operation's stored answer and   *)
(* the outputs of a mutation.  Both follow from the list of ways in which   *)
(* a step may rewrite a record (RecordRewritten).                           *)


\* The rewrites of generated-work accounting.
Accounted(run, next) ==
    \/ \E m \in Mutations, units \in 1..MaxUnits :
          CanReserve(run, m, units) /\ next = Reserved(run, m, units)
    \/ \E m \in Mutations, now \in U64 : next = Exhausted(run, m, now)
    \/ \E m \in Mutations, issue \in Issues :
          CanConfirm(run, m, issue) /\ next = Confirmed(run, m, issue)
    \/ \E m \in Mutations : next = Released(run, m)

\* The rewrites of resuming.
ResumeWritten(run, next) ==
    \/ \E expected \in U64, op \in Operations, now \in U64 :
          /\ CanBeginResume(run, expected, op, now, Lease)
          /\ next = ResumeBegun(run, op, now, Lease)
    \/ \E expected \in U64, op \in Operations, succeeded \in BOOLEAN :
          /\ CanFinalizeResume(run, expected, op)
          /\ next = ResumeFinalized(run, succeeded)

\* All others: neither the accounting nor the stored attempt is touched, and a
\* Session is written into an admitted record only.
Otherwise(run, next) ==
    /\ next.pending = run.pending /\ next.outputs = run.outputs
    /\ next.attempt = run.attempt
    /\ run.state = "admitted" \/ next.session = run.session

Rewritten(run, next) ==
    Accounted(run, next) \/ ResumeWritten(run, next) \/ Otherwise(run, next)

(***************************************************************************)
(* A record that changes is rewritten in one of these ways.                *)
(***************************************************************************)
LEMMA RecordRewritten ==
    ASSUME Inv, [Next]_vars, NEW q \in Runs, Exists(q), runs'[q] # runs[q]
    PROVE  Rewritten(runs[q], runs'[q])
<1>0. /\ runs \in [Runs -> RunType \union {NoRun}] /\ runs[q] \in RunType
      /\ Captured \subseteq U64
    BY ClockFits DEF Inv, Records, RunInv
<1>1. ASSUME NEW r \in Runs, NEW run, Write(r, run) PROVE r = q /\ runs'[q] = run
    BY <1>0, <1>1 DEF Write
<1>2. ASSUME NEW r \in Runs, Mutator(r) PROVE Rewritten(runs[q], runs'[q])
  <2>1. ASSUME NEW ttl \in Ttls, NEW ceiling \in Ceilings, Admit(r, ttl, ceiling) PROVE FALSE
      BY <1>1, <2>1 DEF Admit, WriteOnly
  <2>2. ASSUME NEW s \in Sessions, Attach(r, s) PROVE Otherwise(runs[q], runs'[q])
    <3>1. runs'[q] = Attached(runs[q], s) /\ runs[q].state = "admitted"
        BY <1>1, <2>2 DEF Attach, CanAttach, WriteOnly
    <3> QED
        BY <1>0, <3>1 DEF Attached, Otherwise, RunType
  <2>3. ASSUME NEW m \in Mutations, NEW units \in 1..MaxUnits, NEW now \in Captured,
               ReserveGeneratedWork(r, m, units, now)
        PROVE  Accounted(runs[q], runs'[q])
    <3>1. CASE CanReserve(runs[r], m, units) /\ WriteOnly(r, Reserved(runs[r], m, units))
      <4>1. CanReserve(runs[q], m, units) /\ runs'[q] = Reserved(runs[q], m, units)
          BY <1>1, <3>1 DEF WriteOnly
      <4> QED
          BY <4>1 DEF Accounted
    <3>2. CASE WriteOnly(r, Exhausted(runs[r], m, now))
      <4>1. runs'[q] = Exhausted(runs[q], m, now)
          BY <1>1, <3>2 DEF WriteOnly
      <4> QED
          BY <1>0, <4>1 DEF Accounted
    <3> QED
        BY <2>3, <3>1, <3>2 DEF ReserveGeneratedWork
  <2>4. ASSUME NEW m \in Mutations, NEW issue \in Issues, ConfirmGeneratedWork(r, m, issue)
        PROVE  Accounted(runs[q], runs'[q])
    <3>1. CanConfirm(runs[q], m, issue) /\ runs'[q] = Confirmed(runs[q], m, issue)
        BY <1>1, <2>4 DEF ConfirmGeneratedWork, WriteOnly
    <3> QED
        BY <3>1 DEF Accounted
  <2>5. ASSUME NEW m \in Mutations, ReleaseGeneratedWork(r, m)
        PROVE  Accounted(runs[q], runs'[q])
    <3>1. runs'[q] = Released(runs[q], m)
        BY <1>1, <2>5 DEF ReleaseGeneratedWork, WriteOnly
    <3> QED
        BY <3>1 DEF Accounted
  <2>6. ASSUME NEW s \in Sessions, NEW now \in Captured, NEW claims, ParkCold(r, s, claims, now)
        PROVE  Otherwise(runs[q], runs'[q])
    <3>1. runs'[q] = ColdParked(runs[q], claims, now)
        BY <1>1, <2>6 DEF ParkCold
    <3> QED
        BY <1>0, <3>1 DEF ColdParked, Otherwise, RunType
  <2>7. ASSUME NEW expected \in U64, NEW ceiling \in Ceilings,
               RaiseGeneratedWorkCeiling(r, expected, ceiling)
        PROVE  Otherwise(runs[q], runs'[q])
    <3>1. runs'[q] = Raised(runs[q], ceiling)
        BY <1>1, <2>7 DEF RaiseGeneratedWorkCeiling, WriteOnly
    <3> QED
        BY <1>0, <3>1 DEF Raised, Otherwise, RunType
  <2>8. ASSUME NEW expected \in U64, NEW op \in Operations, NEW now \in Captured,
               BeginResume(r, expected, op, now)
        PROVE  ResumeWritten(runs[q], runs'[q])
    <3>1. /\ CanBeginResume(runs[q], expected, op, now, Lease)
          /\ runs'[q] = ResumeBegun(runs[q], op, now, Lease)
        BY <1>1, <2>8 DEF BeginResume, WriteOnly
    <3> QED
        BY <1>0, <3>1 DEF ResumeWritten
  <2>9. ASSUME NEW expected \in U64, NEW op \in Operations, NEW succeeded \in BOOLEAN,
               FinalizeResume(r, expected, op, succeeded)
        PROVE  ResumeWritten(runs[q], runs'[q])
    <3>1. /\ CanFinalizeResume(runs[q], expected, op)
          /\ runs'[q] = ResumeFinalized(runs[q], succeeded)
        BY <1>1, <2>9 DEF FinalizeResume, WriteOnly
    <3> QED
        BY <3>1 DEF ResumeWritten
  <2> QED
      BY <1>2, <2>1, <2>2, <2>3, <2>4, <2>5, <2>6, <2>7, <2>8, <2>9 DEF Mutator, Rewritten
<1>3. ASSUME NEW r \in Runs, ReapJournal(r) PROVE Otherwise(runs[q], runs'[q])
  <2>1. PICK i \in NextUnreleased(runs[r]) : runs' = [runs EXCEPT ![r] = Journaled(runs[r], i)]
      BY <1>3 DEF ReapJournal
  <2>2. runs'[q] = Journaled(runs[q], i)
      BY <1>0, <2>1
  <2> QED
      BY <1>0, <2>2 DEF Journaled, Otherwise, RunType
<1>4. ASSUME NEW r \in Runs, ReapDispose(r) PROVE Otherwise(runs[q], runs'[q])
  <2>1. runs'[q] = Disposed(runs[q])
      BY <1>0, <1>4 DEF ReapDispose
  <2> QED
      BY <1>0, <2>1 DEF Disposed, Otherwise, RunType
<1>5. \E r \in Runs : Mutator(r) \/ ReapJournal(r) \/ ReapDispose(r)
    BY DEF Next, Reaper, vars, ReapSkip, ReapVisit, ReapRelease, ReapFail, ReapOverflow, ReapBegin, ReapEnd,
           Crash, Tick, Claim, ListClaims
<1> QED
    BY <1>2, <1>3, <1>4, <1>5 DEF Rewritten

(***************************************************************************)
(* A Run keeps the Session it was attached to (runs.rs: attach).           *)
(***************************************************************************)
LEMMA SessionFixed ==
    ASSUME Inv, [Next]_vars, NEW q \in Runs, Exists(q), runs[q].session # None
    PROVE  runs'[q].session = runs[q].session
<1>1. runs[q] \in RunType /\ runs[q].state # "admitted"
    BY DEF Inv, Records, RunInv, Lifecycle
<1>2. CASE runs'[q] = runs[q]
    BY <1>2
<1>3. CASE runs'[q] # runs[q]
  <2>1. Rewritten(runs[q], runs'[q])
      BY <1>3, RecordRewritten
  <2>2. CASE Accounted(runs[q], runs'[q])
      BY <1>1, <2>2 DEF Accounted, Reserved, Exhausted, Confirmed, Released, RunType
  <2>3. CASE ResumeWritten(runs[q], runs'[q])
      BY <1>1, <2>3 DEF ResumeWritten, ResumeBegun, ResumeFinalized, RunType
  <2>4. CASE Otherwise(runs[q], runs'[q])
      BY <1>1, <2>4 DEF Otherwise
  <2> QED
      BY <2>1, <2>2, <2>3, <2>4 DEF Rewritten
<1> QED
    BY <1>2, <1>3

(***************************************************************************)
(* A stored answer is replaced by another operation's, or settled once     *)
(* under the lease it was given (runs.rs: begin_resume, finalize_resume).  *)
(***************************************************************************)
THEOREM AnswersStand == Spec => StoredAnswerStands
<1>1. ASSUME Inv, [Next]_vars, NEW q \in Runs, Exists(q), runs[q].attempt # None,
             runs'[q].attempt # runs[q].attempt
      PROVE  \/ runs'[q].attempt.operation # runs[q].attempt.operation
             \/ /\ runs[q].attempt.result = "resuming"
                /\ runs'[q].attempt.deadline = runs[q].attempt.deadline
  <2>0. runs[q] \in RunType /\ runs[q].attempt \in Attempts
      BY <1>1 DEF Inv, Records, RunInv, RunType
  <2>1. Rewritten(runs[q], runs'[q])
      BY <1>1, RecordRewritten
  <2>2. ~Otherwise(runs[q], runs'[q])
      BY <1>1 DEF Otherwise
  <2>3. ~Accounted(runs[q], runs'[q])
      BY <1>1, <2>0 DEF Accounted, Reserved, Exhausted, Confirmed, Released, RunType
  <2>4. ASSUME NEW expected \in U64, NEW op \in Operations, NEW now \in U64,
               CanBeginResume(runs[q], expected, op, now, Lease),
               runs'[q] = ResumeBegun(runs[q], op, now, Lease)
        PROVE  runs'[q].attempt.operation # runs[q].attempt.operation
    <3>1. runs'[q].attempt.operation = op
        BY <2>0, <2>4 DEF ResumeBegun, RunType
    <3> QED
        BY <1>1, <2>4, <3>1 DEF CanBeginResume, SameOperation
  <2>5. ASSUME NEW expected \in U64, NEW op \in Operations, NEW succeeded \in BOOLEAN,
               CanFinalizeResume(runs[q], expected, op),
               runs'[q] = ResumeFinalized(runs[q], succeeded)
        PROVE  /\ runs[q].attempt.result = "resuming"
               /\ runs'[q].attempt.deadline = runs[q].attempt.deadline
    <3> DEFINE next == IF succeeded THEN "active" ELSE "cold_parked"
    <3>1. runs'[q].attempt = [runs[q].attempt EXCEPT !.result = next]
        BY <2>0, <2>5 DEF ResumeFinalized, RunType
    <3> QED
        BY <2>0, <2>5, <3>1 DEF CanFinalizeResume, Attempts
  <2> QED
      BY <2>1, <2>2, <2>3, <2>4, <2>5 DEF Rewritten, ResumeWritten
<1>2. Inv /\ [Next]_vars =>
        [\A r \in Runs :
            Exists(r) /\ runs[r].attempt # None /\ runs'[r].attempt # runs[r].attempt =>
                \/ runs'[r].attempt.operation # runs[r].attempt.operation
                \/ /\ runs[r].attempt.result = "resuming"
                   /\ runs'[r].attempt.deadline = runs[r].attempt.deadline]_vars
    BY <1>1
<1> QED
    BY <1>2, Invariance, PTL DEF Spec, StoredAnswerStands

(***************************************************************************)
(* Accounting forgets no output and gives a mutation with an output no     *)
(* further unit.                                                           *)
(***************************************************************************)
LEMMA OutputsKept ==
    ASSUME NEW run \in RunType, NEW next, Accounted(run, next),
           NEW m \in Mutations, OutputsOf(run, m) # {}
    PROVE  /\ OutputsOf(run, m) \subseteq OutputsOf(next, m)
           /\ TokensOf(next, m) \subseteq TokensOf(run, m)
<1>1. ASSUME NEW n \in Mutations, NEW units \in 1..MaxUnits,
             CanReserve(run, n, units), next = Reserved(run, n, units)
      PROVE  OutputsOf(next, m) = OutputsOf(run, m) /\ TokensOf(next, m) = TokensOf(run, m)
  <2>1. n # m
      BY <1>1 DEF CanReserve, Unknown
  <2>2. next.outputs = run.outputs /\ next.pending = run.pending \union ({n} \X (1..units))
      BY <1>1 DEF Reserved, RunType
  <2> QED
      BY <2>1, <2>2 DEF OutputsOf, TokensOf
<1>2. ASSUME NEW n \in Mutations, NEW now \in U64, next = Exhausted(run, n, now)
      PROVE  OutputsOf(next, m) = OutputsOf(run, m) /\ TokensOf(next, m) = TokensOf(run, m)
    BY <1>2 DEF Exhausted, OutputsOf, TokensOf, RunType
<1>3. ASSUME NEW n \in Mutations, NEW issue \in Issues, next = Confirmed(run, n, issue)
      PROVE  /\ OutputsOf(run, m) \subseteq OutputsOf(next, m)
             /\ TokensOf(next, m) \subseteq TokensOf(run, m)
  <2> DEFINE unit == CHOOSE t \in TokensOf(run, n) : TRUE
             output == [mutation |-> n, issue |-> issue]
  <2>1. next.outputs = Append(run.outputs, output) /\ next.pending = run.pending \ {unit}
      BY <1>3 DEF Confirmed, RunType
  <2>2. run.outputs \in Seq(Outputs) /\ output \in Outputs
      BY DEF RunType, Outputs
  <2> HIDE DEF unit, output
  <2>3. /\ Len(next.outputs) = Len(run.outputs) + 1 /\ Len(run.outputs) \in Nat
        /\ \A i \in 1..Len(run.outputs) : next.outputs[i] = run.outputs[i]
      BY <2>1, <2>2, AppendProperties, LenProperties
  <2> QED
      BY <2>1, <2>3 DEF OutputsOf, TokensOf
<1>4. ASSUME NEW n \in Mutations, next = Released(run, n)
      PROVE  /\ OutputsOf(next, m) = OutputsOf(run, m)
             /\ TokensOf(next, m) \subseteq TokensOf(run, m)
    BY <1>4 DEF Released, OutputsOf, TokensOf, RunType
<1> QED
    BY <1>1, <1>2, <1>3, <1>4 DEF Accounted

(***************************************************************************)
(* A mutation with an issue never gets capacity again (runs.rs:            *)
(* reserve_generated_work).                                                *)
(***************************************************************************)
THEOREM ConfirmedForever == Spec => ConfirmedStaysConfirmed
<1>1. ASSUME Inv, [Next]_vars, NEW q \in Runs, NEW m \in Mutations,
             Exists(q), OutputsOf(runs[q], m) # {}
      PROVE  /\ OutputsOf(runs[q], m) \subseteq OutputsOf(runs'[q], m)
             /\ TokensOf(runs'[q], m) \subseteq TokensOf(runs[q], m)
  <2>0. runs[q] \in RunType
      BY <1>1 DEF Inv, Records, RunInv
  <2>1. CASE runs'[q] = runs[q]
      BY <2>1
  <2>2. CASE Accounted(runs[q], runs'[q])
      BY <1>1, <2>0, <2>2, OutputsKept
  <2>3. CASE Otherwise(runs[q], runs'[q])
      BY <2>3 DEF Otherwise, OutputsOf, TokensOf
  <2>4. CASE ResumeWritten(runs[q], runs'[q])
    <3>1. runs'[q].outputs = runs[q].outputs /\ runs'[q].pending = runs[q].pending
        BY <2>0, <2>4 DEF ResumeWritten, ResumeBegun, ResumeFinalized, RunType
    <3> QED
        BY <3>1 DEF OutputsOf, TokensOf
  <2> QED
      BY <1>1, <2>1, <2>2, <2>3, <2>4, RecordRewritten DEF Rewritten
<1>2. Inv /\ [Next]_vars =>
        [\A r \in Runs, m \in Mutations :
            Exists(r) /\ OutputsOf(runs[r], m) # {} =>
                /\ OutputsOf(runs[r], m) \subseteq OutputsOf(runs'[r], m)
                /\ TokensOf(runs'[r], m) \subseteq TokensOf(runs[r], m)]_vars
    BY <1>1
<1> QED
    BY <1>2, Invariance, PTL DEF Spec, ConfirmedStaysConfirmed
=============================================================================
