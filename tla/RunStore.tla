------------------------------- MODULE RunStore -------------------------------
(***************************************************************************)
(* The store of durable Runs (capture-service/src/runs.rs) as the          *)
(* processes around it use it: command-line calls of Agents and editors,   *)
(* operator calls of the Run socket, and the reaper of the capture daemon  *)
(* (cli/service.rs).  A mutator is atomic: it works under the store's      *)
(* exclusive file lock and ends in an atomic rename.  The reaper holds the *)
(* same lock for a whole pass, but its pass calls `br' between two writes, *)
(* so it is a process of its own that a crash can stop anywhere.           *)
(***************************************************************************)
EXTENDS RunRecord

CONSTANTS
    Runs,          \* Run UUIDs
    Outsiders,     \* Beads actors that belong to no Run
    Ttls,          \* park_ttl_ms values a Run is admitted with
    Ceilings,      \* generated-work ceilings an admission or an operator asks for
    Lease,         \* RESUME_LEASE_MS of the Run socket
    Horizon,       \* bound: the clock stops here
    MaxWait,       \* bound: how long a call's captured time may wait for the lock
    MaxCrashes,    \* bound: crashes of the daemon during a reaper pass
    Unreleasable   \* claims whose release by `br' always fails

ASSUME StoreAssumption ==
    /\ Ttls \subseteq (Nat \ {0})
    /\ Ceilings \subseteq (Nat \ {0})
    /\ Lease \in Nat \ {0}
    /\ Horizon \in Nat /\ Horizon <= U64Max /\ U64Max >= 1
    /\ \A c \in Ceilings : c <= U64Max
    /\ \A t \in Ttls : t <= U64Max
    /\ MaxWait \in Nat
    /\ Unreleasable \subseteq Issues
    /\ IsFiniteSet(Issues)
    /\ None \notin Outsiders \union Runs

VARIABLES
    runs,      \* Run UUID -> its record, or NoRun
    clock,     \* the wall clock, in abstract milliseconds
    reaper,    \* the reaper's pass: it holds the lock unless it is idle
    assignee,  \* Beads: issue -> the actor it is assigned to
    listed,    \* editor: Session -> {} or {the claims it was last seen to hold}
    freed,     \* history: Run -> claims `br' released since the Run's last cold Park
    crashes    \* crashes so far

vars == <<runs, clock, reaper, assignee, listed, freed, crashes>>

Actors == Sessions \union Outsiders
Nobody == None

Idle == [pc |-> "idle", now |-> 0, todo |-> {}, current |-> None]

Reapers == [ pc : {"idle", "scan", "released"}, now : U64,
             todo : SUBSET Runs, current : Runs \union {None} ]

Exists(r) == runs[r] # NoRun

\* now_ms() is read before the lock is waited for.
Captured == {t \in 0..clock : clock - t <= MaxWait}

Unlocked == reaper.pc = "idle"

Write(r, run) ==
    /\ Unlocked
    /\ runs' = [runs EXCEPT ![r] = run]
    /\ UNCHANGED <<clock, reaper, assignee, crashes>>

WriteOnly(r, run) == Write(r, run) /\ UNCHANGED <<listed, freed>>

Init ==
    /\ runs = [r \in Runs |-> NoRun]
    /\ clock = 0
    /\ reaper = Idle
    /\ assignee = [i \in Issues |-> Nobody]
    /\ listed = [s \in Sessions |-> {}]
    /\ freed = [r \in Runs |-> {}]
    /\ crashes = 0

-----------------------------------------------------------------------------
(* Mutators of the store.  A call that is refused writes nothing.          *)

Admit(r, ttl, ceiling) == ~Exists(r) /\ WriteOnly(r, AdmittedRun(ttl, ceiling))

Attach(r, s) == Exists(r) /\ CanAttach(runs[r]) /\ WriteOnly(r, Attached(runs[r], s))

ReserveGeneratedWork(r, m, units, now) ==
    /\ Exists(r)
    /\ \/ /\ CanReserve(runs[r], m, units)
          /\ WriteOnly(r, Reserved(runs[r], m, units))
       \/ /\ CanExhaust(runs[r], m, units, now)
          /\ WriteOnly(r, Exhausted(runs[r], m, now))

ConfirmGeneratedWork(r, m, issue) ==
    Exists(r) /\ CanConfirm(runs[r], m, issue) /\ WriteOnly(r, Confirmed(runs[r], m, issue))

ReleaseGeneratedWork(r, m) ==
    Exists(r) /\ CanRelease(runs[r], m) /\ WriteOnly(r, Released(runs[r], m))

\* Every order in which `br list' may report a set of issues.
Orders(held) ==
    {l \in [1..Cardinality(held) -> held] : \A i, j \in DOMAIN l : l[i] = l[j] => i = j}

\* The editor Parks with the claims it listed before: the Session works on meanwhile.
ParkCold(r, s, claims, now) ==
    /\ Exists(r) /\ CanParkCold(runs[r], s, now)
    /\ Write(r, ColdParked(runs[r], claims, now))
    /\ listed' = [listed EXCEPT ![s] = {}]
    /\ freed' = [freed EXCEPT ![r] = {}]

RaiseGeneratedWorkCeiling(r, expected, ceiling) ==
    Exists(r) /\ CanRaise(runs[r], expected, ceiling) /\ WriteOnly(r, Raised(runs[r], ceiling))

BeginResume(r, expected, op, now) ==
    /\ Exists(r) /\ CanBeginResume(runs[r], expected, op, now, Lease)
    /\ WriteOnly(r, ResumeBegun(runs[r], op, now, Lease))

FinalizeResume(r, expected, op, succeeded) ==
    /\ Exists(r) /\ CanFinalizeResume(runs[r], expected, op)
    /\ WriteOnly(r, ResumeFinalized(runs[r], succeeded))

-----------------------------------------------------------------------------
(* reap_expired: one pass over every record, under the lock.               *)

ReapBegin(now) ==
    /\ Unlocked
    /\ reaper' = [pc |-> "scan", now |-> now, todo |-> {r \in Runs : Exists(r)},
                  current |-> None]
    /\ UNCHANGED <<runs, clock, assignee, listed, freed, crashes>>

\* The pass turns to the next record, in the order of the directory.
ReapSkip(r) ==
    /\ reaper.pc = "scan" /\ reaper.current = None /\ r \in reaper.todo
    /\ ~Due(runs[r], reaper.now)
    /\ reaper' = [reaper EXCEPT !.todo = @ \ {r}]
    /\ UNCHANGED <<runs, clock, assignee, listed, freed, crashes>>

\* Mutant: a Park is reaped before its time.
ReapVisitEarly(r) ==
    /\ reaper.pc = "scan" /\ reaper.current = None /\ r \in reaper.todo
    /\ Reapable(runs[r])
    /\ reaper' = [reaper EXCEPT !.todo = @ \ {r}, !.current = r]
    /\ UNCHANGED <<runs, clock, assignee, listed, freed, crashes>>

ReapVisit(r) ==
    /\ reaper.pc = "scan" /\ reaper.current = None /\ r \in reaper.todo
    /\ Due(runs[r], reaper.now)
    /\ reaper' = [reaper EXCEPT !.todo = @ \ {r}, !.current = r]
    /\ UNCHANGED <<runs, clock, assignee, listed, freed, crashes>>

Visiting(r) == reaper.pc = "scan" /\ reaper.current = r

Leave == reaper' = [reaper EXCEPT !.current = None]

\* The claim of r that the pass releases next.
NextClaims(r) == {runs[r].cleanup[i].issue : i \in NextUnreleased(runs[r])}

\* `br update <issue> --assignee ""' takes the issue from whoever has it.
Release(r, issue) ==
    /\ issue \notin Unreleasable
    /\ assignee' = [assignee EXCEPT ![issue] = Nobody]
    /\ freed' = [freed EXCEPT ![r] = @ \union {issue}]

\* The release succeeds; the journal is not yet written.
ReapRelease(r) ==
    /\ Visiting(r)
    /\ \E issue \in NextClaims(r) : Release(r, issue)
    /\ reaper' = [reaper EXCEPT !.pc = "released"]
    /\ UNCHANGED <<runs, clock, listed, crashes>>

ReapJournal(r) ==
    /\ reaper.pc = "released" /\ reaper.current = r /\ CanAdvance(runs[r])
    /\ \E i \in NextUnreleased(runs[r]) : runs' = [runs EXCEPT ![r] = Journaled(@, i)]
    /\ reaper' = [reaper EXCEPT !.pc = "scan"]
    /\ UNCHANGED <<clock, assignee, listed, freed, crashes>>

\* Mutant: one failing claim ends the pass for every Run.
ReapFailForAll(r) ==
    /\ Visiting(r) /\ NextClaims(r) # {}
    /\ reaper' = Idle
    /\ UNCHANGED <<runs, clock, assignee, listed, freed, crashes>>

\* `br' reports a failure, with or without its effect: the Run waits for a later pass.
ReapFail(r) ==
    /\ Visiting(r)
    /\ \E issue \in NextClaims(r) : Release(r, issue) \/ UNCHANGED <<assignee, freed>>
    /\ Leave
    /\ UNCHANGED <<runs, clock, listed, crashes>>

\* Mutant: a Run is disposed of although a release failed.
ReapDisposeAnyway(r) ==
    /\ Visiting(r) /\ CanAdvance(runs[r])
    /\ runs' = [runs EXCEPT ![r] = Disposed(@)]
    /\ Leave
    /\ UNCHANGED <<clock, assignee, listed, freed, crashes>>

ReapDispose(r) ==
    /\ Visiting(r) /\ Unreleased(runs[r]) = {}
    /\ CanAdvance(runs[r])
    /\ runs' = [runs EXCEPT ![r] = Disposed(@)]
    /\ Leave
    /\ UNCHANGED <<clock, assignee, listed, freed, crashes>>

\* A revision that cannot advance ends the whole pass with an error.
ReapOverflow(r) ==
    /\ \/ reaper.pc = "released" /\ reaper.current = r
       \/ Visiting(r) /\ Unreleased(runs[r]) = {}
    /\ ~CanAdvance(runs[r])
    /\ reaper' = Idle
    /\ UNCHANGED <<runs, clock, assignee, listed, freed, crashes>>

ReapEnd ==
    /\ reaper.pc = "scan" /\ reaper.current = None /\ reaper.todo = {}
    /\ reaper' = Idle
    /\ UNCHANGED <<runs, clock, assignee, listed, freed, crashes>>

\* The kernel drops the lock of a dead daemon; the pass is forgotten.
Crash ==
    /\ ~Unlocked /\ crashes < MaxCrashes
    /\ reaper' = Idle
    /\ crashes' = crashes + 1
    /\ UNCHANGED <<runs, clock, assignee, listed, freed>>

-----------------------------------------------------------------------------
(* The surroundings: time, and actors that claim unassigned issues.        *)

Tick ==
    /\ clock < Horizon
    /\ clock' = clock + 1
    /\ UNCHANGED <<runs, reaper, assignee, listed, freed, crashes>>

\* A Park cancels the Session's turn without awaiting it, so a Session may
\* claim in any state of its Run.
Working(a) == a \in Outsiders \/ \E r \in Runs : Exists(r) /\ runs[r].session = a

Claim(a, issue) ==
    /\ assignee[issue] = Nobody /\ Working(a)
    /\ assignee' = [assignee EXCEPT ![issue] = a]
    /\ UNCHANGED <<runs, clock, reaper, listed, freed, crashes>>

Claimed(s) == {i \in Issues : assignee[i] = s}

\* `br list --assignee <session> --status in_progress', when a Park is asked for.
ListClaims(s) ==
    /\ listed[s] = {}
    /\ \E r \in Runs : Exists(r) /\ runs[r].session = s /\ runs[r].state \in {"active", "parked"}
    /\ listed' = [listed EXCEPT ![s] = {Claimed(s)}]
    /\ UNCHANGED <<runs, clock, reaper, assignee, freed, crashes>>

Mutator(r) ==
    \/ \E ttl \in Ttls, ceiling \in Ceilings : Admit(r, ttl, ceiling)
    \/ \E s \in Sessions : Attach(r, s)
    \/ \E m \in Mutations, units \in 1..MaxUnits, now \in Captured :
          ReserveGeneratedWork(r, m, units, now)
    \/ \E m \in Mutations, issue \in Issues : ConfirmGeneratedWork(r, m, issue)
    \/ \E m \in Mutations : ReleaseGeneratedWork(r, m)
    \/ \E s \in Sessions, now \in Captured :
          \E held \in listed[s] : \E claims \in Orders(held) : ParkCold(r, s, claims, now)
    \/ \E expected \in U64, ceiling \in Ceilings :
          RaiseGeneratedWorkCeiling(r, expected, ceiling)
    \/ \E expected \in U64, op \in Operations, now \in Captured :
          BeginResume(r, expected, op, now)
    \/ \E expected \in U64, op \in Operations, succeeded \in BOOLEAN :
          FinalizeResume(r, expected, op, succeeded)

Reaper(r) ==
    \/ ReapSkip(r) \/ ReapVisit(r) \/ ReapRelease(r) \/ ReapJournal(r)
    \/ ReapFail(r) \/ ReapDispose(r) \/ ReapOverflow(r)

Next ==
    \/ \E r \in Runs : Mutator(r) \/ Reaper(r)
    \/ \E now \in Captured : ReapBegin(now)
    \/ ReapEnd \/ Crash \/ Tick
    \/ \E a \in Actors, issue \in Issues : Claim(a, issue)
    \/ \E s \in Sessions : ListClaims(s)

Spec == Init /\ [][Next]_vars

(***************************************************************************)
(* The daemon repeats its pass every ten seconds, a pass reaches its end,  *)
(* and a release that can succeed is not refused forever.  Time passes.    *)
(***************************************************************************)
Fairness ==
    /\ WF_vars(Tick)
    /\ WF_vars(\E now \in Captured : now = clock /\ ReapBegin(now))
    /\ WF_vars(ReapEnd)
    /\ WF_vars(\E r \in Runs : ReapSkip(r) \/ ReapVisit(r))
    /\ \A r \in Runs : /\ WF_vars(ReapJournal(r))
                       /\ WF_vars(ReapDispose(r)) /\ WF_vars(ReapFail(r) \/ ReapRelease(r))
                       /\ SF_vars(ReapRelease(r))

FairSpec == Spec /\ Fairness
-----------------------------------------------------------------------------
(* Properties.                                                             *)

\* Every record keeps the shape its readers expect, and the reaper's pass is
\* about existing Runs (runs.rs: Run, validation in find_run, reap_expired).
TypeOK ==
    /\ runs \in [Runs -> RunType \union {NoRun}]
    /\ clock \in 0..Horizon
    /\ reaper \in Reapers
    /\ assignee \in [Issues -> Actors \union {Nobody}]
    /\ listed \in [Sessions -> SUBSET SUBSET Issues]
    /\ freed \in [Runs -> SUBSET Issues]
    /\ crashes \in Nat
    /\ \A r \in reaper.todo \union ({reaper.current} \ {None}) : Exists(r)

\* Generated work never outgrows the ceiling, however reservations, late
\* confirmations, releases, Parks and raises follow each other, and both
\* counters tell exactly what the journals hold (runs.rs: GeneratedWorkBudget).
WithinBudget ==
    \A r \in Runs : Exists(r) =>
        /\ runs[r].consumed + runs[r].reserved <= runs[r].ceiling
        /\ runs[r].reserved = Cardinality(runs[r].pending)
        /\ runs[r].consumed = Len(runs[r].outputs)

\* A Parked or resuming Run has a Session and an expiry, and a resuming one an open
\* attempt.  list_resumable and reap_expired fail for every Run of the store when a
\* cold Park they take up has no Session, and never reap a resuming Run without an
\* attempt (runs.rs: reap_expired, list_resumable).
ReapableIsComplete ==
    \A r \in Runs : Exists(r) =>
        /\ Reapable(runs[r]) \/ runs[r].state = "parked" =>
              runs[r].session # None /\ runs[r].expires > 0
        /\ runs[r].state = "resuming" =>
              runs[r].attempt # None /\ runs[r].attempt.result = "resuming"

\* A failed reconstruction puts the Run back under the lease it was given, not
\* under a fresh Park time (runs.rs: finalize_resume, "without extending its lease").
FailedResumeKeepsLease ==
    \A r \in Runs :
        Exists(r) /\ runs[r].state = "cold_parked" /\ runs[r].attempt # None =>
            runs[r].attempt.result # "resuming"
            /\ (runs[r].attempt.result = "cold_parked" => runs[r].expires = runs[r].attempt.deadline)

\* A claim is journalled as released only after `br' released it since the
\* Park that recorded it, and a disposed Run has released every recorded claim:
\* no crash, failed release, resume or second Park lets one be skipped (runs.rs:
\* park_cold, reap_expired).
JournalledWasReleased ==
    \A r \in Runs : Exists(r) =>
        \A i \in DOMAIN runs[r].cleanup :
            runs[r].cleanup[i].completed \/ runs[r].state = "disposed" =>
                runs[r].cleanup[i].issue \in freed[r]

\* A write and a revision are the same thing: a record changes only together
\* with its revision, by one, so that a revision a client read names one
\* content of the record (runs.rs: advance_revision in every mutator).
RevisionCountsWrites ==
    [][\A r \in Runs : Exists(r) /\ runs'[r] # runs[r] =>
          runs'[r] # NoRun /\ runs'[r].revision = runs[r].revision + 1]_vars

\* Once an operation id has its final answer, retries of that id by a client
\* that lost the reply are answered alike: the stored answer of an operation
\* changes only by another operation replacing it (runs.rs: begin_resume, finalize_resume).
StoredAnswerStands ==
    [][\A r \in Runs :
          Exists(r) /\ runs[r].attempt # None /\ runs'[r].attempt # runs[r].attempt =>
              \/ runs'[r].attempt.operation # runs[r].attempt.operation
              \/ /\ runs[r].attempt.result = "resuming"
                 /\ runs'[r].attempt.deadline = runs[r].attempt.deadline]_vars

\* A mutation that has produced an issue never gets capacity again, whatever
\* retries its caller makes later (runs.rs: reserve_generated_work).
ConfirmedStaysConfirmed ==
    [][\A r \in Runs, m \in Mutations :
          Exists(r) /\ OutputsOf(runs[r], m) # {} =>
              /\ OutputsOf(runs[r], m) \subseteq OutputsOf(runs'[r], m)
              /\ TokensOf(runs'[r], m) \subseteq TokensOf(runs[r], m)]_vars

\* The reaper takes an assignment away only for a Run that is out of time on
\* the wall clock, and only for a claim that Run's journal still lists as its
\* own to release (runs.rs: reap_expired).
ReleasesOnlyWhenDue ==
    [][\A issue \in Issues :
          assignee[issue] # Nobody /\ assignee'[issue] = Nobody =>
              \E r \in Runs : /\ Exists(r) /\ Due(runs[r], clock)
                              /\ \E i \in Unreleased(runs[r]) :
                                    runs[r].cleanup[i].issue = issue]_vars

\* A Run becomes disposed only when it is out of time and every claim of its
\* cleanup journal has been released and journalled (runs.rs: reap_expired).
DisposedAfterCleanup ==
    [][\A r \in Runs :
          Exists(r) /\ runs[r].state # "disposed" /\ runs'[r].state = "disposed" =>
              Due(runs[r], clock) /\ Unreleased(runs[r]) = {}]_vars

\* A release frees a claim of the Run it is made for, never one that another
\* actor has taken since (runs.rs: BeadsCleanup).
ReleasesOwnClaimOnly ==
    [][\A issue \in Issues :
          assignee[issue] # Nobody /\ assignee'[issue] = Nobody =>
              \E r \in Runs : Exists(r) /\ runs[r].session = assignee[issue]
                              /\ Due(runs[r], clock)]_vars

\* An expired Run does not stay expired: unless an operator resumes it in time
\* the reaper disposes of it, past crashes, transient failures, and claims of
\* other Runs that can never be released (runs.rs: reap_expired; cli/service.rs: reap).
ExpiredIsReaped ==
    \A r \in Runs :
        (Exists(r) /\ Due(runs[r], clock)
           /\ \A i \in Unreleased(runs[r]) : runs[r].cleanup[i].issue \notin Unreleasable)
        ~> ~(Exists(r) /\ Due(runs[r], clock))

=============================================================================
