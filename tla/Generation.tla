------------------------------ MODULE Generation ------------------------------
(***************************************************************************)
(* Crash-safe mediation of Beads issue generation for one Run              *)
(* (capture-service/src/generation.rs).  Every call of the broker is a     *)
(* process of its own: it confirms what earlier calls left pending, takes  *)
(* a unit of capacity from the Run, lets `br create' run and records the   *)
(* outcome.  Calls of several Agents overlap, a call may be killed between *)
(* any two steps, and a `br' it started may survive it.                    *)
(***************************************************************************)
EXTENDS RunRecord

CONSTANTS
    Brokers,      \* processes running `louiselm-capture run generate'
    Ttl,          \* park_ttl_ms of the Run
    Ceilings,     \* ceilings of the admission and of operator raises
    Lease,        \* RESUME_LEASE_MS
    MaxMishaps,   \* bound: killed brokers, failed starts and failed `br' calls
    MaxActs       \* bound: Parks, raises and resumes of the Run by its operator

ASSUME GenerationAssumption ==
    /\ Sessions # {} /\ U64Max > 1
    /\ Ttl \in Nat \ {0} /\ Ttl <= U64Max
    /\ Ceilings \subseteq 1..U64Max
    /\ Lease \in Nat \ {0} /\ Lease <= U64Max
    /\ MaxMishaps \in Nat /\ MaxActs \in Nat

VARIABLES
    run,        \* the Run's record
    broker,     \* broker -> where its call is
    beads,      \* issues of the Beads database that carry an external ref
    orphans,    \* mutations whose `br create' outlived its broker
    attempted,  \* history: mutations a `br create' was started for
    mishaps, acts

vars == <<run, broker, beads, orphans, attempted, mishaps, acts>>

Idle == [pc |-> "idle", mutation |-> None, valid |-> FALSE, found |-> {}, issue |-> None]

Generated == [ref : Mutations, issue : Issues]

Calls == [ pc : {"idle", "look", "list", "reconcile", "reserve", "execute", "ran",
                 "confirm", "release"},
           mutation : Mutations \union {None}, valid : BOOLEAN,
           found : SUBSET Generated, issue : Issues \union {None} ]

Session == CHOOSE s \in Sessions : TRUE

Init ==
    /\ \E ceiling \in Ceilings : run = Attached(AdmittedRun(Ttl, ceiling), Session)
    /\ broker = [b \in Brokers |-> Idle]
    /\ beads = {}
    /\ orphans = {}
    /\ attempted = {}
    /\ mishaps = 0 /\ acts = 0

At(b, pc) == broker[b].pc = pc
Goto(b, pc) == broker' = [broker EXCEPT ![b].pc = pc]
End(b) == broker' = [broker EXCEPT ![b] = Idle]

Mishap == mishaps < MaxMishaps /\ mishaps' = mishaps + 1

-----------------------------------------------------------------------------
(* One call of generate_with.                                              *)

Call(b, m, valid) ==
    /\ At(b, "idle")
    /\ broker' = [broker EXCEPT ![b] = [Idle EXCEPT !.pc = "look", !.mutation = m, !.valid = valid]]
    /\ UNCHANGED <<run, beads, orphans, attempted, mishaps, acts>>

Pending == {m \in Mutations : TokensOf(run, m) # {}}

\* Mutant: what earlier calls left pending is not reconciled.
LookNowhere(b) ==
    /\ At(b, "look") /\ Goto(b, "reserve")
    /\ UNCHANGED <<run, beads, orphans, attempted, mishaps, acts>>

\* reconcile_with: with nothing pending `br' is not asked.  The pending ids are
\* kept as the entries of the list that would match them.
Look(b) ==
    /\ At(b, "look")
    /\ IF Pending = {} THEN Goto(b, "reserve") ELSE
          broker' = [broker EXCEPT ![b].pc = "list",
                                   ![b].found = [ref : Pending, issue : Issues]]
    /\ UNCHANGED <<run, beads, orphans, attempted, mishaps, acts>>

\* Mutant: the external references are not compared.
ListUnmatched(b) ==
    /\ At(b, "list")
    /\ broker' = [broker EXCEPT ![b].pc = "reconcile",
                               ![b].found = {g \in @ : \E h \in beads : h.issue = g.issue}]
    /\ UNCHANGED <<run, beads, orphans, attempted, mishaps, acts>>

List(b) ==
    /\ At(b, "list")
    /\ broker' = [broker EXCEPT ![b].pc = "reconcile", ![b].found = @ \intersect beads]
    /\ UNCHANGED <<run, beads, orphans, attempted, mishaps, acts>>

\* `br list' does not start, fails or answers with malformed data.
ListFail(b) ==
    /\ At(b, "list") /\ Mishap
    /\ End(b)
    /\ UNCHANGED <<run, beads, orphans, attempted, acts>>

\* confirm_generated_work of one unit: written, already recorded, or refused.
Confirm(b, m, issue, next) ==
    \/ CanConfirm(run, m, issue) /\ run' = Confirmed(run, m, issue) /\ next
    \/ GeneratedIssue(run, m) = issue /\ UNCHANGED run /\ next
    \/ ~CanConfirm(run, m, issue) /\ GeneratedIssue(run, m) # issue /\ UNCHANGED run /\ End(b)

Reconcile(b) ==
    /\ At(b, "reconcile")
    /\ \/ \E g \in broker[b].found :
             Confirm(b, g.ref, g.issue, broker' = [broker EXCEPT ![b].found = @ \ {g}])
       \/ broker[b].found = {} /\ Goto(b, "reserve") /\ UNCHANGED run
    /\ UNCHANGED <<beads, orphans, attempted, mishaps, acts>>

\* Mutant: a mutation found pending is executed as if it were reserved.
ReservePending(b) ==
    /\ At(b, "reserve")
    /\ LET m == broker[b].mutation
       IN  \/ CanReserve(run, m, 1) /\ run' = Reserved(run, m, 1) /\ Goto(b, "execute")
           \/ TokensOf(run, m) # {} /\ UNCHANGED run /\ Goto(b, "execute")
           \/ ~CanReserve(run, m, 1) /\ TokensOf(run, m) = {} /\ UNCHANGED run /\ End(b)
    /\ UNCHANGED <<beads, orphans, attempted, mishaps, acts>>

\* Capacity is taken first; the arguments are looked at after it.
Reserve(b) ==
    /\ At(b, "reserve")
    /\ LET m == broker[b].mutation
       IN  \/ /\ CanReserve(run, m, 1)
              /\ run' = Reserved(run, m, 1)
              /\ IF broker[b].valid THEN Goto(b, "execute") ELSE End(b)
           \/ CanExhaust(run, m, 1, 0) /\ run' = Exhausted(run, m, 0) /\ End(b)
           \/ ~CanReserve(run, m, 1) /\ ~CanExhaust(run, m, 1, 0) /\ UNCHANGED run /\ End(b)
    /\ UNCHANGED <<beads, orphans, attempted, mishaps, acts>>

\* What `br create' may add for a mutation: an issue with a fresh id.
Fresh(m) == {[ref |-> m, issue |-> i] : i \in Issues \ {g.issue : g \in beads}}

Execute(b) ==
    /\ At(b, "execute")
    /\ \E g \in Fresh(broker[b].mutation) :
          /\ beads' = beads \union {g}
          /\ broker' = [broker EXCEPT ![b].pc = "ran", ![b].issue = g.issue]
    /\ attempted' = attempted \union {broker[b].mutation}
    /\ UNCHANGED <<run, orphans, mishaps, acts>>

\* `br' runs, changes nothing and fails: an ambiguous outcome.
ExecuteFail(b) ==
    /\ At(b, "execute") /\ Mishap
    /\ attempted' = attempted \union {broker[b].mutation}
    /\ End(b)
    /\ UNCHANGED <<run, beads, orphans, acts>>

\* The subprocess does not start: the reservation is given back.
StartFail(b) ==
    /\ At(b, "execute") /\ Mishap
    /\ Goto(b, "release")
    /\ UNCHANGED <<run, beads, orphans, attempted, acts>>

\* Mutant: the answer is recorded whole, not the issue's id.
AnswerWhole(b) ==
    /\ At(b, "ran")
    /\ broker' = [broker EXCEPT ![b].pc = "confirm",
                               ![b].issue = [ref |-> broker[b].mutation, issue |-> @]]
    /\ UNCHANGED <<run, beads, orphans, attempted, mishaps, acts>>

Answer(b) ==
    /\ At(b, "ran")
    /\ Goto(b, "confirm")
    /\ UNCHANGED <<run, beads, orphans, attempted, mishaps, acts>>

\* Mutant: a reported failure is taken for a mutation that did not happen.
AnswerLostReleases(b) ==
    /\ At(b, "ran") /\ Mishap
    /\ Goto(b, "release")
    /\ UNCHANGED <<run, beads, orphans, attempted, acts>>

\* The issue exists, but `br' reports a failure or prints malformed data.
AnswerLost(b) ==
    /\ At(b, "ran") /\ Mishap
    /\ End(b)
    /\ UNCHANGED <<run, beads, orphans, attempted, acts>>

ConfirmOwn(b) ==
    /\ At(b, "confirm")
    /\ Confirm(b, broker[b].mutation, broker[b].issue, End(b))
    /\ UNCHANGED <<beads, orphans, attempted, mishaps, acts>>

ReleaseOwn(b) ==
    /\ At(b, "release")
    /\ IF CanRelease(run, broker[b].mutation)
       THEN run' = Released(run, broker[b].mutation)
       ELSE UNCHANGED run
    /\ End(b)
    /\ UNCHANGED <<beads, orphans, attempted, mishaps, acts>>

\* A killed call; its `br create' may go on without it.
Kill(b) ==
    /\ ~At(b, "idle") /\ Mishap
    /\ End(b)
    /\ \/ UNCHANGED <<orphans, attempted>>
       \/ /\ At(b, "execute")
          /\ orphans' = orphans \union {broker[b].mutation}
          /\ attempted' = attempted \union {broker[b].mutation}
    /\ UNCHANGED <<run, beads, acts>>

\* The surviving `br' gets to its commit, whenever.
OrphanCreates(m) ==
    /\ m \in orphans
    /\ \E g \in Fresh(m) : beads' = beads \union {g}
    /\ orphans' = orphans \ {m}
    /\ UNCHANGED <<run, broker, attempted, mishaps, acts>>

-----------------------------------------------------------------------------
(* The operator and the editor act on the Run meanwhile.                   *)

Operator(next) ==
    /\ acts < MaxActs /\ acts' = acts + 1
    /\ run' = next
    /\ UNCHANGED <<broker, beads, orphans, attempted, mishaps>>

Raise(c) == CanRaise(run, run.revision, c) /\ Operator(Raised(run, c))

Park == CanParkCold(run, Session, 0) /\ Operator(ColdParked(run, <<>>, 0))

Resume(op) ==
    /\ CanBeginResume(run, run.revision, op, 0, Lease)
    /\ Operator(ResumeBegun(run, op, 0, Lease))

Finalize(op, succeeded) ==
    /\ CanFinalizeResume(run, run.revision, op)
    /\ Operator(ResumeFinalized(run, succeeded))

\* A Park may expire at any time: the clock is left out here.
Expire == Reapable(run) /\ CanAdvance(run) /\ Operator(Disposed(run))

Step(b) ==
    \/ Look(b) \/ List(b) \/ Reconcile(b) \/ Reserve(b)
    \/ Execute(b) \/ Answer(b) \/ ConfirmOwn(b) \/ ReleaseOwn(b)

Next ==
    \/ \E b \in Brokers :
          \/ \E m \in Mutations, valid \in BOOLEAN : Call(b, m, valid)
          \/ Step(b) \/ ListFail(b) \/ ExecuteFail(b) \/ StartFail(b) \/ AnswerLost(b) \/ Kill(b)
    \/ \E m \in Mutations : OrphanCreates(m)
    \/ \E c \in Ceilings : Raise(c)
    \/ Park \/ Expire
    \/ \E op \in Operations : Resume(op) \/ \E succeeded \in BOOLEAN : Finalize(op, succeeded)

Spec == Init /\ [][Next]_vars

\* A call that is not killed goes on; Agents go on generating work for the Run.
Fairness ==
    \A b \in Brokers :
        WF_vars(Step(b)) /\ WF_vars(\E m \in Mutations, valid \in BOOLEAN : Call(b, m, valid))

FairSpec == Spec /\ Fairness

-----------------------------------------------------------------------------
(* The ledger a Run is promised.                                           *)

Stage(m) ==
    CASE OutputsOf(run, m) # {}                                     -> "booked"
      [] OutputsOf(run, m) = {} /\ \E g \in beads : g.ref = m       -> "created"
      [] Unknown(run, m) /\ ~\E g \in beads : g.ref = m             -> "free"
      [] OTHER                                                      -> "held"

Ledger == INSTANCE GenerationLedger WITH
              MaxCeiling <- U64Max,
              stage      <- [m \in Mutations |-> Stage(m)],
              ceiling    <- run.ceiling

-----------------------------------------------------------------------------
(* Properties.                                                             *)

\* The record, every call and the database keep their shape (generation.rs: generate_with).
TypeOK ==
    /\ run \in RunType
    /\ broker \in [Brokers -> Calls]
    /\ beads \subseteq Generated
    /\ orphans \subseteq Mutations /\ attempted \subseteq Mutations
    /\ mishaps \in 0..MaxMishaps /\ acts \in 0..MaxActs

\* Overlapping, killed and retried calls together do what a ledger would do:
\* no issue without a unit of capacity held for it, no unit given back once the
\* issue exists (generation.rs: generate_with, reconcile_with).
KeepsLedger == Ledger!LedgerSpec

\* At most one issue per mutation identity, however often and by however many
\* processes the mutation is retried (generation.rs: GenerateRequest.mutation_id).
OneIssuePerMutation == \A g, h \in beads : g.ref = h.ref => g.issue = h.issue

\* An output is recorded for the mutation that made it, and an issue whose
\* mutation is not recorded yet still has its unit of capacity (generation.rs:
\* reconcile_with, confirm; an ambiguous outcome retains its reservation).
EveryIssueAccounted ==
    /\ \A i \in DOMAIN run.outputs :
          [ref |-> run.outputs[i].mutation, issue |-> run.outputs[i].issue] \in beads
    /\ \A g \in beads : GeneratedIssue(run, g.ref) = g.issue \/ TokensOf(run, g.ref) # {}

\* An issue that exists is recorded sooner or later if calls for the Run go on,
\* even when its own broker died or lost the answer (generation.rs: reconcile_with).
CreatedIsRecorded ==
    \A m \in Mutations : (\E g \in beads : g.ref = m) ~> (OutputsOf(run, m) # {})
=============================================================================
