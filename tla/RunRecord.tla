------------------------------ MODULE RunRecord ------------------------------
(***************************************************************************)
(* One durable workflow Run of the capture service: the JSON record of     *)
(* capture-service/src/runs.rs and what each operation of RunStore does to *)
(* it.  Every mutator of the code loads the record, decides, and replaces  *)
(* the file atomically while it holds the store's exclusive lock, so it is *)
(* one function from a record to a record here: CanAttach is the condition *)
(* under which attach writes, Attached the record it writes, and so on.  A *)
(* refused or already satisfied call writes nothing.  RunStore, Generation *)
(* and RunEditors put these functions into the hands of processes.         *)
(***************************************************************************)
EXTENDS Naturals, Sequences, FiniteSets

CONSTANTS
    Sessions,    \* attached Session identities (agent, ACP Session, directory)
    Mutations,   \* caller-chosen mutation UUIDs
    Issues,      \* Beads issue ids: generated outputs and claimed issues
    Operations,  \* operator resume operation UUIDs
    MaxUnits,    \* most units one reservation asks for
    U64Max       \* the largest u64: revisions, clock sums and counters end here


\* "No value" of the optional fields; NoRun is an absent record file.
None  == [none |-> "none"]
NoRun == [none |-> "run"]

ASSUME RecordAssumption ==
    /\ U64Max \in Nat \ {0}
    /\ MaxUnits \in Nat \ {0}
    /\ None \notin Sessions

States  == {"admitted", "active", "parked", "cold_parked", "resuming", "disposed"}
Parked  == {"parked", "cold_parked"}
Results == {"active", "resuming", "cold_parked"}

U64     == 0..U64Max

(***************************************************************************)
(* A reservation of n units is kept as its n unit tokens <<mutation, k>>;  *)
(* confirming a unit takes one token away, whichever, and releasing takes  *)
(* all of them.                                                            *)
(***************************************************************************)
Tokens  == Mutations \X (1..MaxUnits)

Attempts == [operation : Operations, deadline : U64, result : Results]
Outputs  == [mutation : Mutations, issue : Issues]
Cleanups == [issue : Issues, completed : BOOLEAN]

RunType ==
    [ revision : U64,
      session  : Sessions \union {None},
      state    : States,
      ttl      : U64,
      parkedAt : U64,
      expires  : U64,                        \* 0: no Park expiry
      trigger  : Mutations \union {None},
      attempt  : Attempts \union {None},
      ceiling  : U64,
      consumed : U64,
      reserved : U64,
      pending  : SUBSET Tokens,
      outputs  : Seq(Outputs),
      cleanup  : Seq(Cleanups) ]

TokensOf(run, m) == {t \in run.pending : t[1] = m}

\* generated_issue: the first output recorded for the mutation.
OutputsOf(run, m) == {i \in 1..Len(run.outputs) : run.outputs[i].mutation = m}

GeneratedIssue(run, m) ==
    IF OutputsOf(run, m) = {} THEN None
    ELSE run.outputs[CHOOSE i \in OutputsOf(run, m) :
                        \A j \in OutputsOf(run, m) : i <= j].issue

\* Mutant: the revision is advanced without a check.
CanAlwaysAdvance(run) == TRUE

\* advance_revision: refused when the counter is exhausted.
CanAdvance(run) == run.revision < U64Max

-----------------------------------------------------------------------------
(* Admission and attachment.                                               *)

AdmittedRun(ttl, ceiling) ==
    [ revision |-> 1, session |-> None, state |-> "admitted", ttl |-> ttl,
      parkedAt |-> 0, expires |-> 0, trigger |-> None, attempt |-> None,
      ceiling |-> ceiling, consumed |-> 0, reserved |-> 0, pending |-> {},
      outputs |-> <<>>, cleanup |-> <<>> ]

CanAttach(run) == run.state = "admitted" /\ CanAdvance(run)

Attached(run, session) ==
    [run EXCEPT !.session = session, !.state = "active", !.revision = @ + 1]

-----------------------------------------------------------------------------
(* Generated-work accounting.                                              *)

\* Mutant: capacity held for pending mutations is not counted.
OccupiedByOutputs(run, units) == run.consumed + units

Occupied(run, units) == run.consumed + run.reserved + units

\* Mutant: the outputs are not looked at.
UnknownToPending(run, m) == TokensOf(run, m) = {}

Unknown(run, m) == OutputsOf(run, m) = {} /\ TokensOf(run, m) = {}

CanReserve(run, m, units) ==
    /\ Unknown(run, m)
    /\ run.state = "active"
    /\ Occupied(run, units) <= U64Max
    /\ Occupied(run, units) <= run.ceiling
    /\ CanAdvance(run)

Reserved(run, m, units) ==
    [run EXCEPT !.reserved = @ + units,
                !.pending = @ \union ({m} \X (1..units)),
                !.revision = @ + 1]

CanExhaust(run, m, units, now) ==
    /\ Unknown(run, m)
    /\ run.state = "active"
    /\ Occupied(run, units) <= U64Max
    /\ Occupied(run, units) > run.ceiling
    /\ now + run.ttl <= U64Max
    /\ CanAdvance(run)

\* Mutant: a budget Park gets no expiry.
ExhaustedForever(run, m, now) ==
    [run EXCEPT !.state = "parked", !.parkedAt = now, !.trigger = m, !.revision = @ + 1]

Exhausted(run, m, now) ==
    [run EXCEPT !.state = "parked", !.parkedAt = now, !.expires = now + run.ttl,
                !.trigger = m, !.revision = @ + 1]

\* No state is required of the Run: an outcome may arrive after a Park.
CanConfirm(run, m, issue) ==
    /\ GeneratedIssue(run, m) # issue
    /\ TokensOf(run, m) # {}
    /\ run.consumed < U64Max
    /\ CanAdvance(run)

Confirmed(run, m, issue) ==
    LET unit == CHOOSE t \in TokensOf(run, m) : TRUE
    IN  [run EXCEPT !.pending = @ \ {unit},
                    !.reserved = @ - 1,
                    !.consumed = @ + 1,
                    !.outputs = Append(@, [mutation |-> m, issue |-> issue]),
                    !.revision = @ + 1]

CanRelease(run, m) == TokensOf(run, m) # {} /\ CanAdvance(run)

\* Mutant: a release is written under the revision it was read with.
ReleasedUnrevised(run, m) ==
    [run EXCEPT !.pending = @ \ TokensOf(run, m),
                !.reserved = @ - Cardinality(TokensOf(run, m))]

Released(run, m) ==
    [run EXCEPT !.pending = @ \ TokensOf(run, m),
                !.reserved = @ - Cardinality(TokensOf(run, m)),
                !.revision = @ + 1]

-----------------------------------------------------------------------------
(* Parking, operator raise and resume, disposal.                           *)

Uncleaned(claims) == [i \in DOMAIN claims |-> [issue |-> claims[i], completed |-> FALSE]]

CanParkCold(run, session, now) ==
    /\ run.session = session
    /\ run.state \in {"active", "parked"}
    /\ now + run.ttl <= U64Max
    /\ CanAdvance(run)

ColdParked(run, claims, now) ==
    [run EXCEPT !.state = "cold_parked", !.parkedAt = now, !.expires = now + run.ttl,
                !.cleanup = Uncleaned(claims), !.revision = @ + 1]

CanRaise(run, expected, ceiling) ==
    /\ run.revision = expected
    /\ run.state \in Parked
    /\ ceiling > run.ceiling
    /\ CanAdvance(run)

Raised(run, ceiling) == [run EXCEPT !.ceiling = ceiling, !.revision = @ + 1]

\* The attempt already stored under this operation id is answered, not redone.
SameOperation(run, op) == run.attempt # None /\ run.attempt.operation = op

CanBeginResume(run, expected, op, now, lease) ==
    /\ ~SameOperation(run, op)
    /\ run.revision = expected
    /\ run.state \in Parked
    /\ now + lease <= U64Max
    /\ CanAdvance(run)

ResumeBegun(run, op, now, lease) ==
    LET next == IF run.state = "cold_parked" THEN "resuming" ELSE "active"
    IN  [run EXCEPT !.state = next,
                    !.attempt = [operation |-> op, deadline |-> now + lease, result |-> next],
                    !.revision = @ + 1]

\* Mutant: an attempt that is over may be finalized again.
CanFinalizeAgain(run, expected, op) ==
    SameOperation(run, op) /\ run.revision = expected /\ CanAdvance(run)

\* Mutant: the revision the caller saw is not compared.
CanFinalizeUnseen(run, expected, op) ==
    SameOperation(run, op) /\ run.attempt.result = "resuming" /\ CanAdvance(run)

CanFinalizeResume(run, expected, op) ==
    /\ SameOperation(run, op)
    /\ run.attempt.result = "resuming"
    /\ run.revision = expected
    /\ CanAdvance(run)

\* Mutant: a failed resume returns to the expiry of the Park.
ResumeFinalizedOldExpiry(run, succeeded) ==
    LET next == IF succeeded THEN "active" ELSE "cold_parked"
    IN  [run EXCEPT !.state = next,
                    !.expires = IF succeeded THEN 0 ELSE @,
                    !.attempt = [run.attempt EXCEPT !.result = next],
                    !.revision = @ + 1]

ResumeFinalized(run, succeeded) ==
    LET next == IF succeeded THEN "active" ELSE "cold_parked"
    IN  [run EXCEPT !.state = next,
                    !.expires = IF succeeded THEN 0 ELSE run.attempt.deadline,
                    !.attempt = [run.attempt EXCEPT !.result = next],
                    !.revision = @ + 1]

\* reap_expired: what makes a Run due, and since when.
Reapable(run) == run.state \in {"resuming", "cold_parked"}

Deadline(run) == IF run.state = "resuming" THEN run.attempt.deadline ELSE run.expires

Due(run, now) == Reapable(run) /\ Deadline(run) <= now

\* Entries are released in list order; the pass over a Run stops at a failure.
Unreleased(run) == {i \in DOMAIN run.cleanup : ~run.cleanup[i].completed}

NextUnreleased(run) == {i \in Unreleased(run) : \A j \in Unreleased(run) : i <= j}

\* Mutant: one release completes the whole journal.
JournaledWhole(run, i) ==
    [run EXCEPT !.cleanup = [k \in DOMAIN @ |-> [@[k] EXCEPT !.completed = TRUE]],
                !.revision = @ + 1]

Journaled(run, i) == [run EXCEPT !.cleanup = [@ EXCEPT ![i].completed = TRUE], !.revision = @ + 1]

Disposed(run) == [run EXCEPT !.state = "disposed", !.revision = @ + 1]

=============================================================================
