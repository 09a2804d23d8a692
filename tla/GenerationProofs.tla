--------------------------- MODULE GenerationProofs ---------------------------
(***************************************************************************)
(* Mediated generation for any number of brokers, mutations and issues and *)
(* any number of kills and failures: a mutation is executed by one process *)
(* at a time and only under a reservation of its own, so it makes one      *)
(* issue at most, and the calls implement the ledger.                      *)
(***************************************************************************)
EXTENDS Generation, RunRecordProofs, WellFoundedInduction

Books(rec, m) == OutputsOf(rec, m) # {}
Holds(rec, m) == TokensOf(rec, m) # {}
Made(db, m) == \E g \in db : g.ref = m

\* The mutation's capacity is held and nothing has come of it yet.
Unspent(m) == Holds(run, m) /\ ~Books(run, m) /\ ~Made(beads, m)

\* A process that may still create an issue, or give the capacity back.
Decides(b) == broker[b].pc \in {"execute", "release"}

\* Everything recorded exists, and everything that exists is recorded or held.
Owned ==
    /\ \A i \in 1..Len(run.outputs) :
          [ref |-> run.outputs[i].mutation, issue |-> run.outputs[i].issue] \in beads
    /\ \A g \in beads : Books(run, g.ref) \/ Holds(run, g.ref)

\* What a call knows of the database is there.
Known ==
    \A b \in Brokers :
        /\ broker[b].pc # "idle" => broker[b].mutation \in Mutations
        /\ broker[b].pc = "reconcile" => broker[b].found \subseteq beads
        /\ broker[b].pc \in {"ran", "confirm"} =>
              [ref |-> broker[b].mutation, issue |-> broker[b].issue] \in beads

\* One process at most may still create the issue of a mutation.
Alone ==
    /\ \A b \in Brokers : Decides(b) =>
          /\ Unspent(broker[b].mutation) /\ broker[b].mutation \notin orphans
          /\ \A c \in Brokers \ {b} : Decides(c) => broker[c].mutation # broker[b].mutation
    /\ \A m \in orphans : Unspent(m)

GenInv == TypeOK /\ RunInv(run) /\ OneIssuePerMutation /\ Owned /\ Known /\ Alone

-----------------------------------------------------------------------------
(* What the operations on the record do to the accounts of a mutation.     *)

\* The two accounts of every mutation but m, and the ceiling, are the same.
Elsewhere(rec, next, m) ==
    /\ next.ceiling = rec.ceiling
    /\ \A n \in Mutations \ {m} :
          (Books(next, n) <=> Books(rec, n)) /\ (Holds(next, n) <=> Holds(rec, n))

(***************************************************************************)
(* A reservation holds a unit for its mutation.                            *)
(***************************************************************************)
LEMMA ReservedAccounts ==
    ASSUME NEW rec \in RunType, NEW m \in Mutations
    PROVE  LET next == Reserved(rec, m, 1)
           IN  /\ Elsewhere(rec, next, m) /\ Holds(next, m)
               /\ next.outputs = rec.outputs
<1> DEFINE next == Reserved(rec, m, 1)
<1>1. /\ next.pending = rec.pending \union ({m} \X (1..1))
      /\ next.outputs = rec.outputs /\ next.ceiling = rec.ceiling
    BY DEF Reserved, RunType
<1> HIDE DEF next
<1>2. \A n \in Mutations : OutputsOf(next, n) = OutputsOf(rec, n)
    BY <1>1 DEF OutputsOf
<1>3. \A n \in Mutations \ {m} : TokensOf(next, n) = TokensOf(rec, n)
    BY <1>1 DEF TokensOf
<1>4. <<m, 1>> \in TokensOf(next, m)
    BY <1>1 DEF TokensOf
<1> QED
    BY <1>1, <1>2, <1>3, <1>4 DEF Elsewhere, Books, Holds, next

(***************************************************************************)
(* A confirmation books one more output for its mutation.                  *)
(***************************************************************************)
LEMMA ConfirmedAccounts ==
    ASSUME NEW rec \in RunType, NEW m \in Mutations, NEW issue \in Issues,
           CanConfirm(rec, m, issue)
    PROVE  LET next == Confirmed(rec, m, issue)
           IN  /\ Elsewhere(rec, next, m) /\ Books(next, m)
               /\ \A i \in 1..Len(next.outputs) :
                     \/ i \in 1..Len(rec.outputs) /\ next.outputs[i] = rec.outputs[i]
                     \/ next.outputs[i] = [mutation |-> m, issue |-> issue]
<1> DEFINE next   == Confirmed(rec, m, issue)
           unit   == CHOOSE t \in TokensOf(rec, m) : TRUE
           output == [mutation |-> m, issue |-> issue]
<1>1. /\ next.pending = rec.pending \ {unit} /\ next.outputs = Append(rec.outputs, output)
      /\ next.ceiling = rec.ceiling
    BY DEF Confirmed, RunType
<1>2. rec.outputs \in Seq(Outputs) /\ output \in Outputs
    BY DEF RunType, Outputs
<1>3. output.mutation = m /\ unit[1] = m
  <2>1. unit \in TokensOf(rec, m)
      BY DEF CanConfirm
  <2> QED
      BY <2>1 DEF TokensOf
<1> HIDE DEF next, unit, output
<1>4. /\ Len(rec.outputs) \in Nat /\ Len(next.outputs) = Len(rec.outputs) + 1
      /\ \A i \in 1..Len(rec.outputs) : next.outputs[i] = rec.outputs[i]
      /\ next.outputs[Len(rec.outputs) + 1] = output
    BY <1>1, <1>2, AppendProperties, LenProperties
<1>5. Len(rec.outputs) + 1 \in OutputsOf(next, m)
    BY <1>3, <1>4 DEF OutputsOf
<1>6. \A n \in Mutations \ {m} : OutputsOf(next, n) = OutputsOf(rec, n)
    BY <1>3, <1>4 DEF OutputsOf
<1>7. \A n \in Mutations \ {m} : TokensOf(next, n) = TokensOf(rec, n)
    BY <1>1, <1>3 DEF TokensOf
<1>8. Elsewhere(rec, next, m) /\ Books(next, m)
    BY <1>1, <1>5, <1>6, <1>7 DEF Elsewhere, Books, Holds
<1>9. \A i \in 1..Len(next.outputs) :
         \/ i \in 1..Len(rec.outputs) /\ next.outputs[i] = rec.outputs[i]
         \/ next.outputs[i] = output
    BY <1>4
<1> QED
    BY <1>8, <1>9 DEF next, output

(***************************************************************************)
(* A release leaves its mutation without a unit.                           *)
(***************************************************************************)
LEMMA ReleasedAccounts ==
    ASSUME NEW rec \in RunType, NEW m \in Mutations
    PROVE  LET next == Released(rec, m)
           IN  /\ Elsewhere(rec, next, m) /\ ~Holds(next, m)
               /\ next.outputs = rec.outputs
<1> DEFINE next == Released(rec, m)
<1>1. /\ next.pending = rec.pending \ TokensOf(rec, m)
      /\ next.outputs = rec.outputs /\ next.ceiling = rec.ceiling
    BY DEF Released, RunType
<1> HIDE DEF next
<1>2. \A n \in Mutations : OutputsOf(next, n) = OutputsOf(rec, n)
    BY <1>1 DEF OutputsOf
<1>3. \A n \in Mutations \ {m} : TokensOf(next, n) = TokensOf(rec, n)
    BY <1>1 DEF TokensOf
<1>4. TokensOf(next, m) = {}
    BY <1>1 DEF TokensOf
<1> QED
    BY <1>1, <1>2, <1>3, <1>4 DEF Elsewhere, Books, Holds, next

\* A write that is not about generated work.
SameAccounts(rec, next) == next.pending = rec.pending /\ next.outputs = rec.outputs

(***************************************************************************)
(* Parks, raises, resumes and the disposal leave the accounts alone.       *)
(***************************************************************************)
LEMMA OperatorKeepsAccounts ==
    ASSUME GenInv, Park \/ Expire \/ (\E c \in Ceilings : Raise(c))
                   \/ \E op \in Operations : Resume(op) \/ \E ok \in BOOLEAN : Finalize(op, ok)
    PROVE  /\ RunInv(run') /\ SameAccounts(run, run')
           /\ \/ run'.ceiling = run.ceiling
              \/ run'.ceiling \in Ceilings /\ run'.ceiling > run.ceiling
<1>0. /\ RunInv(run) /\ run \in RunType /\ run.revision \in U64
      /\ 0 \in U64 /\ Lease \in U64 /\ Lease > 0
    BY GenerationAssumption, RecordAssumption DEF GenInv, RunInv, RunType, U64
<1>1. CASE Park
  <2>1. <<>> \in Seq(Issues) /\ Session \in Sessions
      BY EmptySeq, GenerationAssumption DEF Session
  <2>2. RunInv(run')
      BY <1>0, <1>1, <2>1, ColdParkedInv DEF Park, Operator
  <2> DEFINE cleanup == Uncleaned(<<>>)
  <2>3. run' = [run EXCEPT !.state = "cold_parked", !.parkedAt = 0, !.expires = 0 + run.ttl,
                           !.cleanup = cleanup, !.revision = @ + 1]
      BY <1>1 DEF Park, Operator, ColdParked
  <2> HIDE DEF cleanup
  <2>4. run'.pending = run.pending /\ run'.outputs = run.outputs /\ run'.ceiling = run.ceiling
      BY <1>0, <2>3 DEF RunType
  <2> QED
      BY <2>2, <2>4 DEF SameAccounts
<1>2. CASE Expire
  <2>1. Due(run, U64Max) /\ U64Max \in U64
    <3>1. run.state = "resuming" => run.attempt \in Attempts
        BY <1>0 DEF RunInv, Lifecycle, RunType
    <3>2. Deadline(run) \in U64
        BY <1>0, <3>1 DEF Deadline, Attempts, RunType
    <3> QED
        BY <1>2, <3>2, RecordAssumption DEF Expire, Due, U64
  <2>2. RunInv(run')
    <3>1. CanAdvance(run) /\ run' = Disposed(run)
        BY <1>2 DEF Expire, Operator
    <3> QED
        BY <1>0, <2>1, <3>1, DisposedInv
  <2>3. run' = [run EXCEPT !.state = "disposed", !.revision = @ + 1]
      BY <1>2 DEF Expire, Operator, Disposed
  <2>4. run'.pending = run.pending /\ run'.outputs = run.outputs /\ run'.ceiling = run.ceiling
      BY <1>0, <2>3 DEF RunType
  <2> QED
      BY <2>2, <2>4 DEF SameAccounts
<1>3. ASSUME NEW c \in Ceilings, Raise(c)
      PROVE  /\ RunInv(run') /\ SameAccounts(run, run')
             /\ run'.ceiling \in Ceilings /\ run'.ceiling > run.ceiling
  <2>1. c \in U64
      BY GenerationAssumption, RecordAssumption DEF U64
  <2>2. RunInv(run')
      BY <1>0, <1>3, <2>1, RaisedInv DEF Raise, Operator
  <2> QED
      BY <1>0, <1>3, <2>2 DEF Raise, Operator, CanRaise, Raised, SameAccounts, RunType
<1>4. ASSUME NEW op \in Operations, Resume(op)
      PROVE  RunInv(run') /\ SameAccounts(run, run') /\ run'.ceiling = run.ceiling
  <2>1. RunInv(run')
      BY <1>0, <1>4, ResumeBegunInv DEF Resume, Operator
  <2> QED
      BY <1>0, <1>4, <2>1 DEF Resume, Operator, ResumeBegun, SameAccounts, RunType
<1>5. ASSUME NEW op \in Operations, NEW ok \in BOOLEAN, Finalize(op, ok)
      PROVE  RunInv(run') /\ SameAccounts(run, run') /\ run'.ceiling = run.ceiling
  <2>1. RunInv(run')
      BY <1>0, <1>5, ResumeFinalizedInv DEF Finalize, Operator
  <2> QED
      BY <1>0, <1>5, <2>1 DEF Finalize, Operator, ResumeFinalized, SameAccounts, RunType
<1> QED
    BY <1>1, <1>2, <1>3, <1>4, <1>5

-----------------------------------------------------------------------------
(* The inductive invariant.                                                *)

\* What a call in progress may rely on.
Informed(call, db) ==
    /\ call.pc # "idle" => call.mutation \in Mutations
    /\ call.pc = "reconcile" => call.found \subseteq db
    /\ call.pc \in {"ran", "confirm"} => [ref |-> call.mutation, issue |-> call.issue] \in db

\* The bounds and the history are typed after the step.
Bounded == attempted' \subseteq Mutations /\ mishaps' \in 0..MaxMishaps /\ acts' \in 0..MaxActs

(***************************************************************************)
(* A mishap stays within the bound on mishaps.                             *)
(***************************************************************************)
LEMMA MishapCounted ==
    ASSUME GenInv, Mishap
    PROVE  mishaps' \in 0..MaxMishaps
BY GenerationAssumption DEF GenInv, TypeOK, Mishap

(***************************************************************************)
(* The state of the accounts tells whether capacity is held for nothing.   *)
(***************************************************************************)
LEMMA SameAccountsKeep ==
    ASSUME SameAccounts(run, run'), NEW m
    PROVE  (Books(run', m) <=> Books(run, m)) /\ (Holds(run', m) <=> Holds(run, m))
BY DEF SameAccounts, Books, Holds, OutputsOf, TokensOf

(***************************************************************************)
(* A call that writes nothing to the accounts and starts nothing.          *)
(***************************************************************************)
LEMMA QuietStepInv ==
    ASSUME GenInv, NEW b \in Brokers, NEW call \in Calls,
           broker' = [broker EXCEPT ![b] = call],
           UNCHANGED <<beads, orphans>>, SameAccounts(run, run'), RunInv(run'), Bounded,
           Informed(call, beads),
           call.pc \in {"execute", "release"} => Decides(b) /\ call.mutation = broker[b].mutation
    PROVE  GenInv'
<1>1. TypeOK'
    BY DEF GenInv, TypeOK, RunInv, Bounded
<1>2. OneIssuePerMutation'
    BY DEF GenInv, OneIssuePerMutation
<1>3. Owned'
    BY SameAccountsKeep DEF GenInv, Owned, SameAccounts
<1>4. broker \in [Brokers -> Calls]
    BY DEF GenInv, TypeOK
<1>5. Known'
    BY <1>4 DEF GenInv, Known, Informed
<1>6. \A m : Unspent(m)' <=> Unspent(m)
    BY SameAccountsKeep DEF Unspent, Made
<1>7. \A c \in Brokers : Decides(c)' => Decides(c) /\ broker'[c].mutation = broker[c].mutation
    BY <1>4 DEF Decides
<1>8. Alone'
    BY <1>6, <1>7 DEF GenInv, Alone
<1> QED
    BY <1>1, <1>2, <1>3, <1>5, <1>8 DEF GenInv

(***************************************************************************)
(* A call that works on the accounts of m while nobody else may decide     *)
(* about m.                                                                *)
(***************************************************************************)
LEMMA ExclusiveStepInv ==
    ASSUME GenInv, NEW b \in Brokers, NEW call \in Calls, NEW m \in Mutations,
           broker' = [broker EXCEPT ![b] = call],
           RunInv(run'), Bounded, Elsewhere(run, run', m),
           beads \subseteq beads', beads' \subseteq Generated,
           \A g \in beads' \ beads : g.ref = m,
           orphans' \subseteq Mutations, \A n \in orphans' : n \in orphans \/ n = m,
           OneIssuePerMutation', Owned', Informed(call, beads'),
           \A c \in Brokers \ {b} : Decides(c) => broker[c].mutation # m,
           m \in orphans' => Unspent(m)',
           call.pc \in {"execute", "release"} =>
              call.mutation = m /\ Unspent(m)' /\ m \notin orphans'
    PROVE  GenInv'
<1>1. TypeOK'
    BY DEF GenInv, TypeOK, RunInv, Bounded
<1>2. broker \in [Brokers -> Calls]
    BY DEF GenInv, TypeOK
<1>3. Known'
    BY <1>2 DEF GenInv, Known, Informed
<1>4. \A n \in Mutations \ {m} : Unspent(n) => Unspent(n)'
    BY DEF Unspent, Elsewhere, Made
<1>5. \A c \in Brokers \ {b} : Decides(c)' =>
         /\ Decides(c) /\ broker'[c].mutation = broker[c].mutation
         /\ broker[c].mutation # m /\ broker[c].mutation \in Mutations
    BY <1>2 DEF Decides, GenInv, Known
<1>6. Decides(b)' => broker'[b].mutation = m /\ Unspent(m)' /\ m \notin orphans'
    BY <1>2 DEF Decides
<1>7. \A n \in orphans' : Unspent(n)'
    BY <1>4 DEF GenInv, Alone
<1>8. ASSUME NEW c \in Brokers, Decides(c)'
      PROVE  /\ Unspent(broker[c].mutation)' /\ broker'[c].mutation \notin orphans'
             /\ \A d \in Brokers \ {c} : Decides(d)' => broker'[d].mutation # broker'[c].mutation
  <2>1. CASE c = b
      BY <1>5, <1>6, <1>8, <2>1
  <2>2. CASE c # b
    <3>1. /\ Decides(c) /\ broker'[c].mutation = broker[c].mutation
          /\ broker[c].mutation \in Mutations \ {m}
        BY <1>5, <1>8, <2>2
    <3>2. Unspent(broker[c].mutation) /\ broker[c].mutation \notin orphans
        BY <3>1 DEF GenInv, Alone
    <3>3. Unspent(broker[c].mutation)' /\ broker'[c].mutation \notin orphans'
      <4> DEFINE n == broker[c].mutation
      <4>1. n \in Mutations \ {m} /\ Unspent(n) /\ n \notin orphans /\ n' = n
          BY <3>1, <3>2
      <4>2. \A k \in Mutations \ {m} :
               k = broker'[c].mutation /\ Unspent(k) => Unspent(broker[c].mutation)'
          BY DEF Unspent, Elsewhere, Made
      <4> QED
          BY <4>1, <4>2
    <3>4. \A d \in Brokers \ {c} : Decides(d)' => broker'[d].mutation # broker'[c].mutation
        BY <1>5, <1>6, <3>1 DEF GenInv, Alone
    <3> QED
        BY <3>1, <3>3, <3>4
  <2> QED
      BY <2>1, <2>2
<1>9. Alone'
    BY <1>7, <1>8 DEF Alone
<1> QED
    BY <1>1, <1>3, <1>9 DEF GenInv

(***************************************************************************)
(* An idle broker is a call, and stopping a call leaves nothing behind.    *)
(***************************************************************************)
LEMMA EndIsQuiet ==
    ASSUME GenInv, NEW b \in Brokers, End(b), UNCHANGED <<beads, orphans>>, Bounded,
           SameAccounts(run, run'), RunInv(run')
    PROVE  GenInv'
<1>1. Idle \in Calls
    BY DEF Idle, Calls
<1>2. Idle.pc = "idle"
    BY DEF Idle
<1>3. broker' = [broker EXCEPT ![b] = Idle]
    BY DEF End
<1>4. Informed(Idle, beads)
    BY <1>2 DEF Informed
<1> HIDE DEF Idle
<1> QED
    BY <1>1, <1>2, <1>3, <1>4, QuietStepInv

(***************************************************************************)
(* A call that goes on knows no less than before.                          *)
(***************************************************************************)
LEMMA GotoIsQuiet ==
    ASSUME GenInv, NEW b \in Brokers, broker[b].pc # "idle",
           NEW pc \in {"reserve", "confirm", "release"}, Goto(b, pc),
           pc = "confirm" => broker[b].pc = "ran",
           pc = "release" => broker[b].pc = "execute",
           UNCHANGED <<beads, orphans>>, Bounded, UNCHANGED run
    PROVE  GenInv'
<1> DEFINE call == [broker[b] EXCEPT !.pc = pc]
<1>1. broker \in [Brokers -> Calls] /\ broker[b] \in Calls /\ RunInv(run')
    BY DEF GenInv, TypeOK
<1>2. call \in Calls /\ call.pc = pc /\ call.mutation = broker[b].mutation
      /\ call.issue = broker[b].issue
    BY <1>1 DEF Calls
<1>3. broker' = [broker EXCEPT ![b] = call]
    BY <1>1 DEF Goto
<1> HIDE DEF call
<1>4. Informed(call, beads)
    BY <1>2 DEF Informed, GenInv, Known
<1>5. pc = "release" => Decides(b)
    BY DEF Decides
<1>6. SameAccounts(run, run')
    BY DEF SameAccounts
<1> QED
    BY <1>1, <1>2, <1>3, <1>4, <1>5, <1>6, QuietStepInv

(***************************************************************************)
(* Recording an issue that exists keeps the invariant.                     *)
(***************************************************************************)
LEMMA ConfirmKeeps ==
    ASSUME GenInv, NEW b \in Brokers, NEW m \in Mutations, NEW issue \in Issues,
           [ref |-> m, issue |-> issue] \in beads,
           CanConfirm(run, m, issue), run' = Confirmed(run, m, issue),
           NEW call \in Calls, broker' = [broker EXCEPT ![b] = call],
           Informed(call, beads), call.pc \notin {"execute", "release"},
           UNCHANGED <<beads, orphans>>, Bounded
    PROVE  GenInv'
<1>0. RunInv(run) /\ run \in RunType
    BY DEF GenInv, RunInv
<1>1. RunInv(run')
    BY <1>0, ConfirmedInv
<1>2. /\ Elsewhere(run, run', m) /\ Books(run', m)
      /\ \A i \in 1..Len(run'.outputs) :
            \/ i \in 1..Len(run.outputs) /\ run'.outputs[i] = run.outputs[i]
            \/ run'.outputs[i] = [mutation |-> m, issue |-> issue]
    BY <1>0, ConfirmedAccounts
<1>3. Owned'
  <2>1. ASSUME NEW g \in beads PROVE Books(run', g.ref) \/ Holds(run', g.ref)
    <3>1. g.ref \in Mutations
        BY <2>1 DEF GenInv, TypeOK, Generated
    <3> QED
        BY <1>2, <3>1 DEF GenInv, Owned, Elsewhere
  <2>2. ASSUME NEW i \in 1..Len(run'.outputs)
        PROVE  [ref |-> run'.outputs[i].mutation, issue |-> run'.outputs[i].issue] \in beads
      BY <1>2 DEF GenInv, Owned
  <2> QED
      BY <2>1, <2>2 DEF Owned
<1>4. OneIssuePerMutation'
    BY DEF GenInv, OneIssuePerMutation
<1>5. \A c \in Brokers \ {b} : Decides(c) => broker[c].mutation # m
    BY DEF GenInv, Alone, Unspent, Made
<1>6. m \notin orphans
    BY DEF GenInv, Alone, Unspent, Made
<1>7. beads' \subseteq Generated /\ orphans' \subseteq Mutations
    BY DEF GenInv, TypeOK
<1> QED
    BY <1>1, <1>2, <1>3, <1>4, <1>5, <1>6, <1>7, ExclusiveStepInv

(***************************************************************************)
(* Capacity is reserved for a mutation of which there is nothing yet.      *)
(***************************************************************************)
LEMMA ReserveKeeps ==
    ASSUME GenInv, NEW b \in Brokers, NEW m \in Mutations, broker[b].mutation = m,
           CanReserve(run, m, 1), run' = Reserved(run, m, 1),
           IF broker[b].valid THEN Goto(b, "execute") ELSE End(b),
           UNCHANGED <<beads, orphans>>, Bounded
    PROVE  GenInv' /\ ~Books(run, m) /\ ~Holds(run, m) /\ ~Made(beads, m)
<1> DEFINE call == IF broker[b].valid THEN [broker[b] EXCEPT !.pc = "execute"] ELSE Idle
<1>0. RunInv(run) /\ run \in RunType /\ broker \in [Brokers -> Calls] /\ broker[b] \in Calls
    BY DEF GenInv, RunInv, TypeOK
<1>2. RunInv(run')
    BY <1>0, ReservedInv, RecordAssumption
<1>3. Elsewhere(run, run', m) /\ Holds(run', m) /\ run'.outputs = run.outputs
    BY <1>0, ReservedAccounts
<1>4. ~Books(run, m) /\ ~Holds(run, m)
    BY DEF CanReserve, Unknown, Books, Holds
<1>5. ~Made(beads, m)
    BY <1>4 DEF GenInv, Owned, Made
<1>6. call \in Calls /\ broker' = [broker EXCEPT ![b] = call]
    BY <1>0 DEF Calls, Idle, Goto, End
<1>7. call.pc \in {"execute", "idle"} /\ (call.pc = "execute" => call.mutation = m)
    BY <1>0 DEF Idle, Calls
<1> HIDE DEF call
<1>8. Informed(call, beads')
    BY <1>7 DEF Informed
<1>9. ~Books(run', m) /\ Unspent(m)'
  <2>1. OutputsOf(run', m) = OutputsOf(run, m)
      BY <1>3 DEF OutputsOf
  <2> QED
      BY <1>3, <1>4, <1>5, <2>1 DEF Unspent, Books, Made
<1>10. Owned'
  <2>1. ASSUME NEW g \in beads PROVE Books(run', g.ref) \/ Holds(run', g.ref)
    <3>1. g.ref \in Mutations
        BY <2>1 DEF GenInv, TypeOK, Generated
    <3> QED
        BY <1>3, <3>1 DEF GenInv, Owned, Elsewhere
  <2> QED
      BY <1>3, <2>1 DEF GenInv, Owned
<1>11. \A c \in Brokers \ {b} : Decides(c) => broker[c].mutation # m
    BY <1>4 DEF GenInv, Alone, Unspent
<1>12. m \notin orphans
    BY <1>4 DEF GenInv, Alone, Unspent
<1>13. OneIssuePerMutation' /\ beads' \subseteq Generated /\ orphans' \subseteq Mutations
    BY DEF GenInv, OneIssuePerMutation, TypeOK
<1> QED
    BY <1>2, <1>3, <1>4, <1>5, <1>6, <1>7, <1>8, <1>9, <1>10, <1>11, <1>12, <1>13,
       ExclusiveStepInv

(***************************************************************************)
(* An issue created for unspent capacity is the only one of its mutation.  *)
(***************************************************************************)
LEMMA CreatedAlone ==
    ASSUME GenInv, NEW m \in Mutations, Unspent(m), NEW g \in Fresh(m),
           beads' = beads \union {g}, UNCHANGED run
    PROVE  /\ g \in Generated /\ g.ref = m /\ beads' \subseteq Generated
           /\ OneIssuePerMutation' /\ Owned'
<1>1. g \in Generated /\ g.ref = m
    BY DEF Fresh, Generated
<1>2. beads' \subseteq Generated
    BY <1>1 DEF GenInv, TypeOK
<1>3. OneIssuePerMutation'
    BY <1>1 DEF GenInv, OneIssuePerMutation, Unspent, Made
<1>4. Owned'
    BY <1>1 DEF GenInv, Owned, Unspent
<1> QED
    BY <1>1, <1>2, <1>3, <1>4

(***************************************************************************)
(* `br create' of a call: the capacity of the mutation turns into an issue. *)
(***************************************************************************)
LEMMA ExecuteKeeps ==
    ASSUME GenInv, NEW b \in Brokers, NEW m \in Mutations, broker[b].mutation = m, Execute(b)
    PROVE  GenInv' /\ Unspent(m) /\ Made(beads', m)
                   /\ \A g \in beads' \ beads : g.ref = m
<1>0. broker \in [Brokers -> Calls] /\ broker[b] \in Calls /\ RunInv(run')
    BY DEF GenInv, TypeOK, Execute
<1>1. Decides(b) /\ Unspent(m) /\ m \notin orphans
    BY DEF Execute, At, Decides, GenInv, Alone
<1>2. PICK g \in Fresh(m) : /\ beads' = beads \union {g}
                            /\ broker' = [broker EXCEPT ![b].pc = "ran", ![b].issue = g.issue]
    BY DEF Execute
<1>3. /\ g \in Generated /\ g.ref = m /\ beads' \subseteq Generated
      /\ OneIssuePerMutation' /\ Owned'
    BY <1>1, <1>2, CreatedAlone DEF Execute
<1> DEFINE call == [broker[b] EXCEPT !.pc = "ran", !.issue = g.issue]
<1>4. /\ call \in Calls /\ call.pc = "ran" /\ call.mutation = m /\ call.issue = g.issue
      /\ broker' = [broker EXCEPT ![b] = call]
    BY <1>0, <1>2, <1>3 DEF Calls, Generated
<1> HIDE DEF call
<1>5. Informed(call, beads')
  <2>1. [ref |-> call.mutation, issue |-> call.issue] = g
      BY <1>3, <1>4 DEF Generated
  <2> QED
      BY <1>2, <1>4, <2>1 DEF Informed
<1>6. Elsewhere(run, run', m) /\ Bounded
    BY DEF Elsewhere, Execute, Bounded, GenInv, TypeOK
<1>7. \A c \in Brokers \ {b} : Decides(c) => broker[c].mutation # m
    BY <1>1 DEF GenInv, Alone
<1>8. orphans' = orphans /\ orphans \subseteq Mutations
    BY DEF Execute, GenInv, TypeOK
<1>9. \A h \in beads' \ beads : h.ref = m
    BY <1>2, <1>3
<1>10. GenInv'
    BY <1>0, <1>1, <1>2, <1>3, <1>4, <1>5, <1>6, <1>7, <1>8, <1>9, ExclusiveStepInv
<1> QED
    BY <1>1, <1>2, <1>3, <1>9, <1>10 DEF Made

(***************************************************************************)
(* The same by a `br' that outlived its broker.                            *)
(***************************************************************************)
LEMMA OrphanKeeps ==
    ASSUME GenInv, NEW m \in Mutations, OrphanCreates(m)
    PROVE  GenInv' /\ Unspent(m) /\ Made(beads', m)
                   /\ \A g \in beads' \ beads : g.ref = m
<1>1. Unspent(m) /\ m \in orphans
    BY DEF OrphanCreates, GenInv, Alone
<1>2. PICK g \in Fresh(m) : beads' = beads \union {g}
    BY DEF OrphanCreates
<1>3. /\ g \in Generated /\ g.ref = m /\ beads' \subseteq Generated
      /\ OneIssuePerMutation' /\ Owned'
    BY <1>1, <1>2, CreatedAlone DEF OrphanCreates
<1>4. /\ UNCHANGED <<run, broker, attempted, mishaps, acts>> /\ orphans' = orphans \ {m}
    BY DEF OrphanCreates
<1>5. TypeOK' /\ RunInv(run')
    BY <1>3, <1>4 DEF GenInv, TypeOK
<1>6. Known'
    BY <1>2, <1>4 DEF GenInv, Known
<1>7. \A n \in Mutations \ {m} : Unspent(n) => Unspent(n)'
    BY <1>2, <1>3, <1>4 DEF Unspent, Made
<1>8. \A c \in Brokers : Decides(c)' =>
         /\ Decides(c) /\ broker'[c].mutation = broker[c].mutation
         /\ broker[c].mutation \in Mutations \ {m}
    BY <1>1, <1>4 DEF Decides, GenInv, Known, Alone
<1>9. Alone'
  <2>1. ASSUME NEW c \in Brokers, Decides(c)'
        PROVE  /\ Unspent(broker[c].mutation)' /\ broker'[c].mutation \notin orphans'
               /\ \A d \in Brokers \ {c} : Decides(d)' => broker'[d].mutation # broker'[c].mutation
    <3>1. /\ Decides(c) /\ broker'[c].mutation = broker[c].mutation
          /\ broker[c].mutation \in Mutations \ {m}
        BY <1>8, <2>1
    <3>2. Unspent(broker[c].mutation) /\ broker[c].mutation \notin orphans
        BY <3>1 DEF GenInv, Alone
    <3>3. Unspent(broker[c].mutation)'
        BY <1>2, <1>3, <1>4, <3>1, <3>2 DEF Unspent, Made
    <3>4. \A d \in Brokers \ {c} : Decides(d)' => broker'[d].mutation # broker'[c].mutation
        BY <1>8, <3>1 DEF GenInv, Alone
    <3> QED
        BY <1>4, <3>1, <3>2, <3>3, <3>4
  <2>2. \A n \in orphans' : Unspent(n)'
      BY <1>4, <1>7 DEF GenInv, Alone, TypeOK
  <2> QED
      BY <2>1, <2>2 DEF Alone
<1>10. GenInv'
    BY <1>3, <1>5, <1>6, <1>9 DEF GenInv
<1> QED
    BY <1>1, <1>2, <1>3, <1>10 DEF Made

(***************************************************************************)
(* Capacity is given back by the only process that could have used it.     *)
(***************************************************************************)
LEMMA ReleaseKeeps ==
    ASSUME GenInv, NEW b \in Brokers, NEW m \in Mutations, broker[b].mutation = m,
           broker[b].pc = "release", CanRelease(run, m), run' = Released(run, m),
           End(b), UNCHANGED <<beads, orphans>>, Bounded
    PROVE  GenInv' /\ Unspent(m)
<1>0. RunInv(run) /\ run \in RunType
    BY DEF GenInv, RunInv
<1>1. Decides(b) /\ Unspent(m) /\ m \notin orphans
    BY DEF Decides, GenInv, Alone
<1>2. RunInv(run')
    BY <1>0, ReleasedInv
<1>3. Elsewhere(run, run', m) /\ run'.outputs = run.outputs
    BY <1>0, ReleasedAccounts
<1>4. Idle \in Calls /\ Idle.pc = "idle" /\ broker' = [broker EXCEPT ![b] = Idle]
    BY DEF Idle, Calls, End
<1>5. Informed(Idle, beads')
    BY <1>4 DEF Informed
<1>6. Owned'
  <2>1. ASSUME NEW g \in beads PROVE Books(run', g.ref) \/ Holds(run', g.ref)
    <3>1. g.ref \in Mutations \ {m}
        BY <1>1, <2>1 DEF GenInv, TypeOK, Generated, Unspent, Made
    <3> QED
        BY <1>3, <3>1 DEF GenInv, Owned, Elsewhere
  <2> QED
      BY <1>3, <2>1 DEF GenInv, Owned
<1>7. \A c \in Brokers \ {b} : Decides(c) => broker[c].mutation # m
    BY <1>1 DEF GenInv, Alone
<1>8. OneIssuePerMutation' /\ beads' \subseteq Generated /\ orphans' \subseteq Mutations
    BY DEF GenInv, OneIssuePerMutation, TypeOK
<1> HIDE DEF Idle
<1>9. GenInv'
    BY <1>1, <1>2, <1>3, <1>4, <1>5, <1>6, <1>7, <1>8, ExclusiveStepInv
<1> QED
    BY <1>1, <1>9

(***************************************************************************)
(* A killed call hands its mutation to the `br' it started, or to nobody.  *)
(***************************************************************************)
LEMMA KillKeeps ==
    ASSUME GenInv, NEW b \in Brokers, Kill(b)
    PROVE  GenInv'
<1>1. Bounded
  <2>1. broker[b].mutation \in Mutations /\ attempted \subseteq Mutations /\ acts \in 0..MaxActs
      BY DEF Kill, At, GenInv, Known, TypeOK
  <2>2. mishaps' \in 0..MaxMishaps
      BY MishapCounted DEF Kill
  <2> QED
      BY <2>1, <2>2 DEF Kill, Bounded
<1>2. End(b) /\ UNCHANGED <<run, beads>> /\ RunInv(run') /\ SameAccounts(run, run')
    BY DEF Kill, GenInv, SameAccounts
<1>3. CASE UNCHANGED orphans
    BY <1>1, <1>2, <1>3, EndIsQuiet
<1>4. ASSUME broker[b].pc = "execute", orphans' = orphans \union {broker[b].mutation}
      PROVE  GenInv'
  <2>1. PICK m \in Mutations : broker[b].mutation = m
      BY <1>4 DEF GenInv, Known
  <2>2. Decides(b) /\ Unspent(m) /\ m \notin orphans
      BY <1>4, <2>1 DEF Decides, GenInv, Alone
  <2>3. Unspent(m)'
      BY <1>2, <2>2 DEF Unspent
  <2>4. Idle \in Calls /\ Idle.pc = "idle" /\ broker' = [broker EXCEPT ![b] = Idle]
      BY <1>2 DEF Idle, Calls, End
  <2>5. Informed(Idle, beads')
      BY <2>4 DEF Informed
  <2>6. \A c \in Brokers \ {b} : Decides(c) => broker[c].mutation # m
      BY <2>1, <2>2 DEF GenInv, Alone
  <2>7. OneIssuePerMutation' /\ Owned' /\ Elsewhere(run, run', m)
      BY <1>2 DEF GenInv, OneIssuePerMutation, Owned, Elsewhere
  <2>8. /\ beads' = beads /\ beads' \subseteq Generated /\ orphans' \subseteq Mutations
        /\ \A n \in orphans' : n \in orphans \/ n = m
      BY <1>2, <1>4, <2>1 DEF GenInv, TypeOK
  <2> HIDE DEF Idle
  <2> QED
      BY <1>1, <1>2, <2>3, <2>4, <2>5, <2>6, <2>7, <2>8, ExclusiveStepInv
<1> QED
    BY <1>3, <1>4 DEF Kill, At

-----------------------------------------------------------------------------
(* The ledger the accounts stand for.                                      *)

StageOf(m) ==
    /\ Books(run, m) => Stage(m) = "booked"
    /\ ~Books(run, m) /\ Made(beads, m) => Stage(m) = "created"
    /\ ~Books(run, m) /\ ~Made(beads, m) /\ Holds(run, m) => Stage(m) = "held"
    /\ ~Books(run, m) /\ ~Made(beads, m) /\ ~Holds(run, m) => Stage(m) = "free"

(***************************************************************************)
(* The stage of a mutation, from its accounts and its issues.              *)
(***************************************************************************)
LEMMA StageIs == ASSUME NEW m PROVE StageOf(m) /\ StageOf(m)'
<1>1. StageOf(m)
    BY DEF StageOf, Stage, Books, Made, Holds, Unknown
<1>2. StageOf(m)'
    BY DEF StageOf, Stage, Books, Made, Holds, Unknown
<1> QED
    BY <1>1, <1>2

(***************************************************************************)
(* A step that leaves accounts, issues and ceiling alone is a stutter.     *)
(***************************************************************************)
LEMMA QuietLedger ==
    ASSUME SameAccounts(run, run'), UNCHANGED beads, run'.ceiling = run.ceiling
    PROVE  UNCHANGED Ledger!ledger
<1>1. \A m : Stage(m)' = Stage(m)
  <2> TAKE m
  <2>1. (Books(run', m) <=> Books(run, m)) /\ (Holds(run', m) <=> Holds(run, m))
      BY SameAccountsKeep
  <2> QED
      BY <2>1, StageIs DEF StageOf
<1> QED
    BY <1>1 DEF Ledger!ledger

(***************************************************************************)
(* A step on the accounts of one mutation moves that mutation alone.       *)
(***************************************************************************)
LEMMA MoveLedger ==
    ASSUME NEW m \in Mutations, NEW from, NEW to, Stage(m) = from, Stage(m)' = to,
           Elsewhere(run, run', m), beads \subseteq beads',
           \A g \in beads' \ beads : g.ref = m
    PROVE  Ledger!Move(m, from, to)
<1>1. \A n \in Mutations \ {m} : Stage(n)' = Stage(n)
  <2> TAKE n \in Mutations \ {m}
  <2>1. Made(beads', n) <=> Made(beads, n)
      BY DEF Made
  <2> QED
      BY <2>1, StageIs DEF StageOf, Elsewhere
<1>2. [k \in Mutations |-> Stage(k)]' = [[k \in Mutations |-> Stage(k)] EXCEPT ![m] = to]
    BY <1>1
<1> QED
    BY <1>2 DEF Ledger!Move, Elsewhere

(***************************************************************************)
(* Whatever has been taken is booked or held by the record.                *)
(***************************************************************************)
LEMMA TakenFits ==
    ASSUME GenInv
    PROVE  /\ Cardinality(Ledger!Taken) \in Nat
           /\ Cardinality(Ledger!Taken) <= run.consumed + run.reserved
<1> DEFINE outputs == 1..Len(run.outputs)
           booked  == {run.outputs[i].mutation : i \in outputs}
           held    == {t[1] : t \in run.pending}
           author  == [i \in outputs |-> run.outputs[i].mutation]
           holder  == [t \in run.pending |-> t[1]]
<1>1. run \in RunType /\ Counted(run) /\ Len(run.outputs) \in Nat
    BY DEF GenInv, RunInv, RunType
<1>2. IsFiniteSet(outputs) /\ Cardinality(outputs) = run.consumed
    BY <1>1, FS_Interval DEF Counted
<1>3. IsFiniteSet(booked) /\ Cardinality(booked) <= run.consumed
  <2>1. author \in Surjection(outputs, booked)
      BY DEF Surjection
  <2> QED
      BY <1>2, <2>1, FS_Surjection
<1>4. IsFiniteSet(held) /\ Cardinality(held) <= run.reserved
  <2>1. holder \in Surjection(run.pending, held)
      BY DEF Surjection
  <2> QED
      BY <1>1, <2>1, FS_Surjection DEF Counted
<1>5. Ledger!Taken \subseteq booked \union held
  <2>1. ASSUME NEW m \in Mutations, Stage(m) # "free" PROVE m \in booked \union held
    <3>1. Books(run, m) \/ Holds(run, m)
        BY <2>1, StageIs DEF StageOf, Made, GenInv, Owned
    <3> QED
        BY <3>1 DEF Books, Holds, OutputsOf, TokensOf
  <2> QED
      BY <2>1 DEF Ledger!Taken
<1> HIDE DEF outputs, booked, held
<1>6. /\ IsFiniteSet(booked \union held)
      /\ Cardinality(booked \union held) <= run.consumed + run.reserved
  <2>1. /\ Cardinality(booked) \in Nat /\ Cardinality(held) \in Nat
        /\ Cardinality(booked \intersect held) \in Nat
      BY <1>3, <1>4, FS_CardinalityType, FS_Intersection
  <2>2. run.consumed \in Nat /\ run.reserved \in Nat
      BY <1>1 DEF RunType, U64
  <2>3. /\ IsFiniteSet(booked \union held)
        /\ Cardinality(booked \union held)
              = Cardinality(booked) + Cardinality(held) - Cardinality(booked \intersect held)
      BY <1>3, <1>4, FS_Union
  <2> QED
      BY <1>3, <1>4, <2>1, <2>2, <2>3
<1>7. IsFiniteSet(Ledger!Taken) /\ Cardinality(Ledger!Taken) <= Cardinality(booked \union held)
    BY <1>5, <1>6, FS_Subset
<1>8. /\ Cardinality(Ledger!Taken) \in Nat /\ Cardinality(booked \union held) \in Nat
      /\ run.consumed \in Nat /\ run.reserved \in Nat
    BY <1>1, <1>6, <1>7, FS_CardinalityType DEF RunType, U64
<1> QED
    BY <1>6, <1>7, <1>8

(***************************************************************************)
(* A nonempty set of naturals has a least member.                          *)
(***************************************************************************)
LEMMA LeastMember ==
    ASSUME NEW S, S \subseteq Nat, S # {}
    PROVE  \E i \in S : \A j \in S : i <= j
<1> DEFINE R == OpToRel(<, Nat)
<1>1. IsWellFoundedOn(R, Nat)
    BY NatLessThanWellFounded
<1>2. \A i, j \in Nat : <<i, j>> \in R <=> i < j
    BY DEF OpToRel
<1> HIDE DEF R
<1>3. PICK i \in S : \A j \in S : ~(<<j, i>> \in R)
    BY <1>1, WFMin
<1>4. \A j \in S : i \in Nat /\ j \in Nat /\ ~(j < i)
    BY <1>2, <1>3
<1>5. \A j \in S : i <= j
    BY <1>4
<1> QED
    BY <1>5

(***************************************************************************)
(* The output recorded for a mutation is its one issue.                    *)
(***************************************************************************)
LEMMA RecordedIsIssue ==
    ASSUME GenInv, NEW m \in Mutations, Books(run, m)
    PROVE  \A g \in beads : g.ref = m => GeneratedIssue(run, m) = g.issue
<1> DEFINE first == CHOOSE i \in OutputsOf(run, m) : \A j \in OutputsOf(run, m) : i <= j
<1>1. OutputsOf(run, m) \subseteq Nat /\ OutputsOf(run, m) # {}
    BY DEF OutputsOf, Books
<1>2. first \in OutputsOf(run, m)
    BY <1>1, LeastMember
<1>3. GeneratedIssue(run, m) = run.outputs[first].issue
    BY <1>1 DEF GeneratedIssue
<1> HIDE DEF first
<1>4. first \in 1..Len(run.outputs) /\ run.outputs[first].mutation = m
    BY <1>2 DEF OutputsOf
<1>5. [ref |-> m, issue |-> run.outputs[first].issue] \in beads
    BY <1>4 DEF GenInv, Owned
<1> QED
    BY <1>3, <1>5 DEF GenInv, OneIssuePerMutation

-----------------------------------------------------------------------------
(* Every step keeps the invariant and is a step of the ledger.             *)

Kept == GenInv' /\ [Ledger!LedgerNext]_(Ledger!ledger)

(***************************************************************************)
(* A quiet write is a stutter of the ledger.                               *)
(***************************************************************************)
LEMMA QuietKept ==
    ASSUME GenInv', SameAccounts(run, run'), UNCHANGED beads, run'.ceiling = run.ceiling
    PROVE  Kept
BY QuietLedger DEF Kept

(***************************************************************************)
(* Confirming an issue that exists books it, or changes nothing.           *)
(***************************************************************************)
LEMMA ConfirmKept ==
    ASSUME GenInv, NEW b \in Brokers, NEW m \in Mutations, NEW issue \in Issues,
           [ref |-> m, issue |-> issue] \in beads,
           NEW call \in Calls, Informed(call, beads), call.pc \notin {"execute", "release"},
           Confirm(b, m, issue, broker' = [broker EXCEPT ![b] = call]),
           UNCHANGED <<beads, orphans, attempted, mishaps, acts>>
    PROVE  Kept
<1>0. Bounded /\ RunInv(run) /\ run \in RunType /\ SameAccounts(run, run)
    BY DEF Bounded, GenInv, TypeOK, SameAccounts
<1>1. CASE /\ CanConfirm(run, m, issue) /\ run' = Confirmed(run, m, issue)
           /\ broker' = [broker EXCEPT ![b] = call]
  <2>1. GenInv'
      BY <1>0, <1>1, ConfirmKeeps
  <2>2. ~Books(run, m) /\ Made(beads, m)
    <3>1. GeneratedIssue(run, m) # issue
        BY <1>1 DEF CanConfirm
    <3>2. Made(beads, m)
        BY DEF Made
    <3>3. ~Books(run, m)
        BY <3>1, RecordedIsIssue
    <3> QED
        BY <3>2, <3>3
  <2>3. Elsewhere(run, run', m) /\ Books(run', m)
      BY <1>0, <1>1, ConfirmedAccounts
  <2>4. Stage(m) = "created" /\ Stage(m)' = "booked"
      BY <2>2, <2>3, StageIs DEF StageOf
  <2>5. Ledger!Book(m)
      BY <2>3, <2>4, MoveLedger DEF Ledger!Book
  <2> QED
      BY <2>1, <2>5 DEF Kept, Ledger!LedgerNext
<1>2. CASE UNCHANGED run /\ broker' = [broker EXCEPT ![b] = call]
  <2>1. GenInv'
      BY <1>0, <1>2, QuietStepInv
  <2> QED
      BY <1>0, <1>2, <2>1, QuietKept
<1>3. CASE UNCHANGED run /\ End(b)
  <2>1. GenInv'
      BY <1>0, <1>3, EndIsQuiet
  <2> QED
      BY <1>0, <1>3, <2>1, QuietKept
<1> QED
    BY <1>1, <1>2, <1>3 DEF Confirm

(***************************************************************************)
(* Reserving holds a unit that is still free, or Parks the Run.            *)
(***************************************************************************)
LEMMA ReserveKept ==
    ASSUME GenInv, NEW b \in Brokers, Reserve(b)
    PROVE  Kept
<1>0. /\ Bounded /\ RunInv(run) /\ run \in RunType /\ SameAccounts(run, run)
      /\ UNCHANGED <<beads, orphans>>
    BY DEF Bounded, GenInv, TypeOK, SameAccounts, Reserve
<1>1. PICK m \in Mutations : broker[b].mutation = m
    BY DEF Reserve, At, GenInv, Known
<1>2. ASSUME CanReserve(run, m, 1), run' = Reserved(run, m, 1),
             IF broker[b].valid THEN Goto(b, "execute") ELSE End(b)
      PROVE  Kept
  <2>1. GenInv' /\ ~Books(run, m) /\ ~Holds(run, m) /\ ~Made(beads, m)
      BY <1>0, <1>1, <1>2, ReserveKeeps
  <2>2. Elsewhere(run, run', m) /\ Holds(run', m) /\ run'.outputs = run.outputs
      BY <1>0, <1>2, ReservedAccounts
  <2>3. ~Books(run', m)
      BY <2>1, <2>2 DEF Books, OutputsOf
  <2>4. Stage(m) = "free" /\ Stage(m)' = "held"
      BY <1>0, <2>1, <2>2, <2>3, StageIs DEF StageOf
  <2>5. Ledger!Move(m, "free", "held")
      BY <1>0, <2>2, <2>4, MoveLedger
  <2>6. Cardinality(Ledger!Taken) < run.ceiling
    <3>1. /\ run.consumed \in Nat /\ run.reserved \in Nat /\ run.ceiling \in Nat
          /\ run.consumed + run.reserved + 1 <= run.ceiling
        BY <1>0, <1>2 DEF CanReserve, Occupied, RunType, U64
    <3> QED
        BY <3>1, TakenFits
  <2>7. Ledger!Hold(m)
    <3>1. Ledger!Cardinality(Ledger!Taken) = Cardinality(Ledger!Taken)
        BY DEF Ledger!Cardinality, Cardinality
    <3> QED
        BY <2>5, <2>6, <3>1 DEF Ledger!Hold
  <2> QED
      BY <2>1, <2>7 DEF Kept, Ledger!LedgerNext
<1>3. ASSUME CanExhaust(run, m, 1, 0), run' = Exhausted(run, m, 0), End(b)
      PROVE  Kept
  <2>1. RunInv(run')
      BY <1>0, <1>3, ExhaustedInv, RecordAssumption DEF U64
  <2>2. SameAccounts(run, run') /\ run'.ceiling = run.ceiling
      BY <1>0, <1>3 DEF Exhausted, SameAccounts, RunType
  <2>3. GenInv'
      BY <1>0, <1>3, <2>1, <2>2, EndIsQuiet
  <2> QED
      BY <1>0, <2>2, <2>3, QuietKept
<1>4. ASSUME UNCHANGED run, End(b) PROVE Kept
  <2>1. GenInv'
      BY <1>0, <1>4, EndIsQuiet
  <2> QED
      BY <1>0, <1>4, <2>1, QuietKept
<1> QED
    BY <1>1, <1>2, <1>3, <1>4 DEF Reserve

(***************************************************************************)
(* The steps of one broker.                                                *)
(***************************************************************************)
LEMMA BrokerKept ==
    ASSUME GenInv, NEW b \in Brokers,
           \/ \E m \in Mutations, valid \in BOOLEAN : Call(b, m, valid)
           \/ Step(b) \/ ListFail(b) \/ ExecuteFail(b) \/ StartFail(b) \/ AnswerLost(b) \/ Kill(b)
    PROVE  Kept
<1>0. /\ broker \in [Brokers -> Calls] /\ broker[b] \in Calls /\ RunInv(run) /\ run \in RunType
      /\ SameAccounts(run, run) /\ beads \subseteq Generated
      /\ attempted \subseteq Mutations /\ acts \in 0..MaxActs
      /\ broker[b].pc # "idle" => broker[b].mutation \in Mutations
    BY DEF GenInv, RunInv, TypeOK, SameAccounts, Known
<1>b. UNCHANGED <<attempted, mishaps, acts>> => Bounded
    BY DEF GenInv, TypeOK, Bounded
<1>q. GenInv' /\ UNCHANGED <<run, beads>> => Kept
    BY QuietKept DEF SameAccounts
<1>1. ASSUME NEW m \in Mutations, NEW valid \in BOOLEAN, Call(b, m, valid) PROVE Kept
  <2> DEFINE call == [Idle EXCEPT !.pc = "look", !.mutation = m, !.valid = valid]
  <2>1. call \in Calls /\ call.pc = "look" /\ call.mutation = m
      BY DEF Idle, Calls
  <2>2. broker' = [broker EXCEPT ![b] = call]
      BY <1>1 DEF Call
  <2> HIDE DEF call
  <2>3. Informed(call, beads)
      BY <2>1 DEF Informed
  <2>4. UNCHANGED <<run, beads, orphans, attempted, mishaps, acts>>
      BY <1>1 DEF Call
  <2> QED
      BY <1>0, <1>b, <1>q, <2>1, <2>2, <2>3, <2>4, QuietStepInv
<1>2. CASE Look(b)
  <2>0. UNCHANGED <<run, beads, orphans, attempted, mishaps, acts>> /\ broker[b].pc = "look"
      BY <1>2 DEF Look, At
  <2>1. CASE Goto(b, "reserve")
      BY <1>b, <1>q, <2>0, <2>1, GotoIsQuiet
  <2>2. CASE broker' = [broker EXCEPT ![b].pc = "list",
                                      ![b].found = [ref : Pending, issue : Issues]]
    <3> DEFINE call == [broker[b] EXCEPT !.pc = "list", !.found = [ref : Pending, issue : Issues]]
    <3>1. [ref : Pending, issue : Issues] \subseteq Generated
        BY DEF Pending, Generated
    <3>2. call \in Calls /\ call.pc = "list" /\ call.mutation = broker[b].mutation
        BY <1>0, <3>1 DEF Calls
    <3>3. broker' = [broker EXCEPT ![b] = call]
        BY <1>0, <2>2
    <3> HIDE DEF call
    <3>4. Informed(call, beads)
        BY <1>0, <2>0, <3>2 DEF Informed
    <3> QED
        BY <1>0, <1>b, <1>q, <2>0, <3>2, <3>3, <3>4, QuietStepInv
  <2> QED
      BY <1>2, <2>1, <2>2 DEF Look
<1>3. CASE List(b)
  <2> DEFINE found == broker[b].found \intersect beads
             call  == [broker[b] EXCEPT !.pc = "reconcile", !.found = found]
  <2>0. UNCHANGED <<run, beads, orphans, attempted, mishaps, acts>> /\ broker[b].pc = "list"
      BY <1>3 DEF List, At
  <2>1. found \subseteq Generated
      BY <1>0
  <2>2. call \in Calls /\ call.pc = "reconcile" /\ call.mutation = broker[b].mutation
        /\ call.found = found
      BY <1>0, <2>1 DEF Calls
  <2>3. broker' = [broker EXCEPT ![b] = call]
      BY <1>0, <1>3 DEF List
  <2> HIDE DEF call
  <2>4. Informed(call, beads)
      BY <1>0, <2>0, <2>2 DEF Informed
  <2> QED
      BY <1>0, <1>b, <1>q, <2>0, <2>2, <2>3, <2>4, QuietStepInv
<1>4. CASE Reconcile(b)
  <2>0. UNCHANGED <<beads, orphans, attempted, mishaps, acts>> /\ broker[b].pc = "reconcile"
      BY <1>4 DEF Reconcile, At
  <2>1. ASSUME NEW g \in broker[b].found,
               Confirm(b, g.ref, g.issue, broker' = [broker EXCEPT ![b].found = @ \ {g}])
        PROVE  Kept
    <3> DEFINE rest == broker[b].found \ {g}
               call == [broker[b] EXCEPT !.found = rest]
    <3>1. g \in beads /\ rest \subseteq beads /\ broker[b].found \subseteq Generated
        BY <1>0, <2>0, <2>1 DEF GenInv, Known
    <3>2. /\ g.ref \in Mutations /\ g.issue \in Issues
          /\ [ref |-> g.ref, issue |-> g.issue] \in beads
        BY <1>0, <3>1 DEF Generated
    <3>3. call \in Calls /\ call.pc = "reconcile" /\ call.mutation = broker[b].mutation
          /\ call.found = rest
        BY <1>0, <2>0, <3>1 DEF Calls
    <3>4. broker' = [broker EXCEPT ![b].found = @ \ {g}]
             <=> broker' = [broker EXCEPT ![b] = call]
        BY <1>0
    <3> HIDE DEF call
    <3>5. Informed(call, beads)
        BY <1>0, <2>0, <3>1, <3>3 DEF Informed
    <3>6. Confirm(b, g.ref, g.issue, broker' = [broker EXCEPT ![b] = call])
        BY <2>1, <3>4 DEF Confirm
    <3> QED
        BY <2>0, <3>2, <3>3, <3>5, <3>6, ConfirmKept
  <2>2. CASE Goto(b, "reserve") /\ UNCHANGED run
      BY <1>b, <1>q, <2>0, <2>2, GotoIsQuiet
  <2> QED
      BY <1>4, <2>1, <2>2 DEF Reconcile
<1>5. CASE Reserve(b)
    BY <1>5, ReserveKept
<1>6. CASE Execute(b)
  <2>1. PICK m \in Mutations : broker[b].mutation = m
      BY <1>0, <1>6 DEF Execute, At
  <2>2. /\ GenInv' /\ Unspent(m) /\ Made(beads', m)
        /\ \A g \in beads' \ beads : g.ref = m
      BY <1>6, <2>1, ExecuteKeeps
  <2>3. beads \subseteq beads' /\ run' = run
      BY <1>6 DEF Execute
  <2>4. Stage(m) = "held" /\ Stage(m)' = "created"
      BY <2>2, <2>3, StageIs DEF StageOf, Unspent
  <2>5. Ledger!Make(m)
      BY <2>2, <2>3, <2>4, MoveLedger DEF Ledger!Make, Elsewhere
  <2> QED
      BY <2>2, <2>5 DEF Kept, Ledger!LedgerNext
<1>7. CASE Answer(b)
  <2>1. UNCHANGED <<run, beads, orphans, attempted, mishaps, acts>> /\ broker[b].pc = "ran"
        /\ Goto(b, "confirm")
      BY <1>7 DEF Answer, At
  <2> QED
      BY <1>b, <1>q, <2>1, GotoIsQuiet
<1>8. CASE ConfirmOwn(b)
  <2>1. UNCHANGED <<beads, orphans, attempted, mishaps, acts>> /\ broker[b].pc = "confirm"
      BY <1>8 DEF ConfirmOwn, At
  <2>2. [ref |-> broker[b].mutation, issue |-> broker[b].issue] \in beads
      BY <2>1 DEF GenInv, Known
  <2>3. PICK m \in Mutations, i \in Issues : broker[b].mutation = m /\ broker[b].issue = i
    <3>1. [ref |-> broker[b].mutation, issue |-> broker[b].issue] \in Generated
        BY <1>0, <2>2
    <3> QED
        BY <3>1 DEF Generated
  <2>4. Idle \in Calls /\ Idle.pc = "idle"
      BY DEF Idle, Calls
  <2>5. Informed(Idle, beads)
      BY <2>4 DEF Informed
  <2>6. Confirm(b, m, i, broker' = [broker EXCEPT ![b] = Idle])
      BY <1>8, <2>3 DEF ConfirmOwn, End
  <2> HIDE DEF Idle
  <2> QED
      BY <2>1, <2>2, <2>3, <2>4, <2>5, <2>6, ConfirmKept
<1>9. CASE ReleaseOwn(b)
  <2>0. /\ UNCHANGED <<beads, orphans, attempted, mishaps, acts>>
        /\ broker[b].pc = "release" /\ End(b)
      BY <1>9 DEF ReleaseOwn, At
  <2>1. PICK m \in Mutations : broker[b].mutation = m
      BY <1>0, <2>0
  <2>2. CASE CanRelease(run, m) /\ run' = Released(run, m)
    <3>1. GenInv' /\ Unspent(m)
        BY <1>b, <2>0, <2>1, <2>2, ReleaseKeeps
    <3>2. Elsewhere(run, run', m) /\ ~Holds(run', m) /\ run'.outputs = run.outputs
        BY <1>0, <2>2, ReleasedAccounts
    <3>3. ~Books(run', m)
        BY <3>1, <3>2 DEF Unspent, Books, OutputsOf
    <3>4. Stage(m) = "held" /\ Stage(m)' = "free"
        BY <2>0, <3>1, <3>2, <3>3, StageIs DEF StageOf, Unspent
    <3>5. Ledger!GiveBack(m)
        BY <2>0, <3>2, <3>4, MoveLedger DEF Ledger!GiveBack
    <3> QED
        BY <3>1, <3>5 DEF Kept, Ledger!LedgerNext
  <2>3. CASE UNCHANGED run
    <3>1. GenInv'
        BY <1>0, <1>b, <2>0, <2>3, EndIsQuiet
    <3> QED
        BY <1>q, <2>0, <2>3, <3>1
  <2> QED
      BY <1>9, <2>1, <2>2, <2>3 DEF ReleaseOwn
<1>10. CASE ListFail(b) \/ ExecuteFail(b) \/ AnswerLost(b)
  <2>1. UNCHANGED <<run, beads, orphans, acts>> /\ End(b) /\ Mishap
      BY <1>10 DEF ListFail, ExecuteFail, AnswerLost
  <2>2. attempted' \subseteq Mutations
      BY <1>0, <1>10 DEF ListFail, ExecuteFail, AnswerLost, At
  <2>3. Bounded
      BY <1>0, <2>1, <2>2, MishapCounted DEF Bounded
  <2>4. GenInv'
      BY <1>0, <2>1, <2>3, EndIsQuiet
  <2> QED
      BY <1>q, <2>1, <2>4
<1>11. CASE StartFail(b)
  <2>1. /\ UNCHANGED <<run, beads, orphans, attempted, acts>> /\ Mishap
        /\ broker[b].pc = "execute" /\ Goto(b, "release")
      BY <1>11 DEF StartFail, At
  <2>2. Bounded
      BY <1>0, <2>1, MishapCounted DEF Bounded
  <2>3. GenInv'
      BY <2>1, <2>2, GotoIsQuiet
  <2> QED
      BY <1>q, <2>1, <2>3
<1>12. CASE Kill(b)
    BY <1>12, <1>q, KillKeeps DEF Kill
<1> QED
    BY <1>1, <1>2, <1>3, <1>4, <1>5, <1>6, <1>7, <1>8, <1>9, <1>10, <1>11, <1>12 DEF Step

(***************************************************************************)
(* The steps of the operator: at most the ceiling is raised.               *)
(***************************************************************************)
LEMMA OperatorKept ==
    ASSUME GenInv, Park \/ Expire \/ (\E c \in Ceilings : Raise(c))
                   \/ \E op \in Operations : Resume(op) \/ \E ok \in BOOLEAN : Finalize(op, ok)
    PROVE  Kept
<1>1. /\ RunInv(run') /\ SameAccounts(run, run')
      /\ \/ run'.ceiling = run.ceiling
         \/ run'.ceiling \in Ceilings /\ run'.ceiling > run.ceiling
    BY OperatorKeepsAccounts
<1>2. UNCHANGED <<broker, beads, orphans, attempted, mishaps>> /\ acts < MaxActs /\ acts' = acts + 1
    BY DEF Park, Expire, Raise, Resume, Finalize, Operator
<1>3. acts' \in 0..MaxActs
    BY <1>2, GenerationAssumption DEF GenInv, TypeOK
<1>4. TypeOK'
    BY <1>1, <1>2, <1>3 DEF GenInv, TypeOK, RunInv
<1>5. OneIssuePerMutation' /\ Known'
    BY <1>2 DEF GenInv, OneIssuePerMutation, Known
<1>6. Owned'
    BY <1>1, <1>2, SameAccountsKeep DEF GenInv, Owned, SameAccounts
<1>7. Alone'
  <2>1. \A m : Unspent(m)' <=> Unspent(m)
      BY <1>1, <1>2, SameAccountsKeep DEF Unspent
  <2>2. \A b \in Brokers : Decides(b)' <=> Decides(b)
      BY <1>2 DEF Decides
  <2> QED
      BY <1>2, <2>1, <2>2 DEF GenInv, Alone
<1>8. GenInv'
    BY <1>1, <1>4, <1>5, <1>6, <1>7 DEF GenInv
<1>9. CASE run'.ceiling = run.ceiling
    BY <1>1, <1>2, <1>8, <1>9, QuietKept
<1>10. CASE run'.ceiling \in Ceilings /\ run'.ceiling > run.ceiling
  <2>1. \A m : Stage(m)' = Stage(m)
    <3> TAKE m
    <3>1. (Books(run', m) <=> Books(run, m)) /\ (Holds(run', m) <=> Holds(run, m))
        BY <1>1, SameAccountsKeep
    <3> QED
        BY <1>2, <3>1, StageIs DEF StageOf
  <2>2. run'.ceiling \in 0..U64Max
      BY <1>1 DEF RunInv, RunType, U64
  <2>3. Ledger!RaiseCeiling
      BY <1>10, <2>1, <2>2 DEF Ledger!RaiseCeiling
  <2> QED
      BY <1>8, <2>3 DEF Kept, Ledger!LedgerNext
<1> QED
    BY <1>1, <1>9, <1>10

(***************************************************************************)
(* The invariant is inductive and every step is one of the ledger.         *)
(***************************************************************************)
LEMMA StepKept == GenInv /\ [Next]_vars => Kept
<1> SUFFICES ASSUME GenInv, [Next]_vars PROVE Kept
    OBVIOUS
<1>1. ASSUME NEW m \in Mutations, OrphanCreates(m) PROVE Kept
  <2>1. /\ GenInv' /\ Unspent(m) /\ Made(beads', m)
        /\ \A g \in beads' \ beads : g.ref = m
      BY <1>1, OrphanKeeps
  <2>2. beads \subseteq beads' /\ run' = run
      BY <1>1 DEF OrphanCreates
  <2>3. Stage(m) = "held" /\ Stage(m)' = "created"
      BY <2>1, <2>2, StageIs DEF StageOf, Unspent
  <2>4. Ledger!Make(m)
      BY <2>1, <2>2, <2>3, MoveLedger DEF Ledger!Make, Elsewhere
  <2> QED
      BY <2>1, <2>4 DEF Kept, Ledger!LedgerNext
<1>2. CASE UNCHANGED vars
  <2>1. GenInv'
      BY <1>2 DEF vars, GenInv, TypeOK, OneIssuePerMutation, Owned, Known, Alone, Decides, Unspent
  <2> QED
      BY <1>2, <2>1, QuietKept DEF vars, SameAccounts
<1> QED
    BY <1>1, <1>2, BrokerKept, OperatorKept DEF Next

(***************************************************************************)
(* A Run that was admitted and attached satisfies the invariant and is a   *)
(* new ledger.                                                             *)
(***************************************************************************)
LEMMA InitKept == Init => GenInv /\ Ledger!LedgerInit
<1> SUFFICES ASSUME Init PROVE GenInv /\ Ledger!LedgerInit
    OBVIOUS
<1>1. PICK ceiling \in Ceilings : run = Attached(AdmittedRun(Ttl, ceiling), Session)
    BY DEF Init
<1> DEFINE new == AdmittedRun(Ttl, ceiling)
<1>2. Ttl \in U64 /\ Ttl > 0 /\ ceiling \in U64 /\ ceiling > 0 /\ Session \in Sessions
    BY GenerationAssumption, RecordAssumption DEF U64, Session
<1>3. RunInv(new)
    BY <1>2, AdmittedInv
<1>4. CanAttach(new)
    BY GenerationAssumption DEF CanAttach, CanAdvance, AdmittedRun
<1>5. RunInv(run)
    BY <1>1, <1>2, <1>3, <1>4, AttachedInv
<1>6. run.pending = {} /\ run.outputs = <<>> /\ run.ceiling = ceiling
    BY <1>1 DEF Attached, AdmittedRun
<1>7. \A m : ~Books(run, m) /\ ~Holds(run, m)
    BY <1>6 DEF Books, Holds, OutputsOf, TokensOf
<1>8. /\ broker = [b \in Brokers |-> Idle] /\ beads = {} /\ orphans = {} /\ attempted = {}
      /\ mishaps = 0 /\ acts = 0
    BY DEF Init
<1>9. TypeOK
  <2>1. Idle \in Calls
      BY DEF Idle, Calls
  <2> HIDE DEF Idle
  <2> QED
      BY <1>5, <1>8, <2>1, GenerationAssumption DEF TypeOK, RunInv
<1>10. \A b \in Brokers : broker[b].pc = "idle"
    BY <1>8 DEF Idle
<1>11. OneIssuePerMutation /\ Owned /\ Known /\ Alone
    BY <1>6, <1>8, <1>10 DEF OneIssuePerMutation, Owned, Known, Alone, Decides
<1>12. Ledger!LedgerInit
  <2>1. \A m : Stage(m) = "free"
      BY <1>7, <1>8, StageIs DEF StageOf, Made
  <2> QED
      BY <1>2, <1>6, <2>1 DEF Ledger!LedgerInit, U64
<1> QED
    BY <1>5, <1>9, <1>11, <1>12 DEF GenInv

-----------------------------------------------------------------------------

(***************************************************************************)
(* The inductive invariant holds in every reachable state: whoever may     *)
(* still create the issue of a mutation, or give its unit back, is the     *)
(* only one, and the unit is held (generation.rs: generate_with).          *)
(***************************************************************************)
THEOREM GenerationInvariance == Spec => []GenInv
<1>1. Init => GenInv
    BY InitKept
<1>2. GenInv /\ [Next]_vars => GenInv'
    BY StepKept DEF Kept
<1> QED
    BY <1>1, <1>2, PTL DEF Spec

(***************************************************************************)
(* Record, calls and database keep their types (generation.rs:             *)
(* generate_with).                                                         *)
(***************************************************************************)
THEOREM GenerationTypeCorrect == Spec => []TypeOK
<1>1. GenInv => TypeOK
    BY DEF GenInv
<1> QED
    BY <1>1, GenerationInvariance, PTL

(***************************************************************************)
(* A mutation identity makes one issue at most, however often it is        *)
(* retried and whatever was killed (generation.rs: GenerateRequest).       *)
(***************************************************************************)
THEOREM OneIssueEver == Spec => []OneIssuePerMutation
<1>1. GenInv => OneIssuePerMutation
    BY DEF GenInv
<1> QED
    BY <1>1, GenerationInvariance, PTL

(***************************************************************************)
(* No recorded output is invented and no issue is unaccounted for          *)
(* (generation.rs: reconcile_with, confirm).                               *)
(***************************************************************************)
THEOREM IssuesAccounted == Spec => []EveryIssueAccounted
<1>1. GenInv => EveryIssueAccounted
  <2> SUFFICES ASSUME GenInv PROVE EveryIssueAccounted
      OBVIOUS
  <2>1. DOMAIN run.outputs = 1..Len(run.outputs)
      BY LenProperties DEF GenInv, RunInv, RunType
  <2>2. ASSUME NEW g \in beads
        PROVE  GeneratedIssue(run, g.ref) = g.issue \/ TokensOf(run, g.ref) # {}
    <3>1. g.ref \in Mutations /\ (Books(run, g.ref) \/ Holds(run, g.ref))
        BY DEF GenInv, TypeOK, Generated, Owned
    <3> QED
        BY <3>1, RecordedIsIssue DEF Holds
  <2> QED
      BY <2>1, <2>2 DEF GenInv, Owned, EveryIssueAccounted
<1> QED
    BY <1>1, GenerationInvariance, PTL

(***************************************************************************)
(* Overlapping, killed and retried calls together implement the ledger:    *)
(* an issue only for a unit held, a unit given back only while there is no *)
(* issue, and nothing booked twice (generation.rs: generate_with,          *)
(* reconcile_with).                                                        *)
(***************************************************************************)
THEOREM GenerationKeepsLedger == Spec => KeepsLedger
<1>1. Init => Ledger!LedgerInit
    BY InitKept
<1>2. GenInv /\ [Next]_vars => [Ledger!LedgerNext]_(Ledger!ledger)
    BY StepKept DEF Kept
<1> QED
    BY <1>1, <1>2, GenerationInvariance, PTL DEF Spec, KeepsLedger, Ledger!LedgerSpec

(***************************************************************************)
(* Units held, issues created and outputs booked together fit the ceiling  *)
(* the operator has approved, for infinitely many mutations too            *)
(* (generation.rs: a reservation comes before every `br create').          *)
(***************************************************************************)
THEOREM CreatedWithinApproval == Spec => []Ledger!LedgerSound
<1>1. GenInv => Ledger!LedgerSound
  <2> SUFFICES ASSUME GenInv PROVE Ledger!LedgerSound
      OBVIOUS
  <2>1. /\ run.consumed \in Nat /\ run.reserved \in Nat /\ run.ceiling \in Nat
        /\ run.consumed + run.reserved <= run.ceiling
      BY DEF GenInv, RunInv, RunType, U64, Counted
  <2>2. Cardinality(Ledger!Taken) <= run.ceiling
      BY <2>1, TakenFits
  <2>3. Ledger!Cardinality(Ledger!Taken) = Cardinality(Ledger!Taken)
      BY DEF Ledger!Cardinality, Cardinality
  <2> QED
      BY <2>2, <2>3 DEF Ledger!LedgerSound
<1> QED
    BY <1>1, GenerationInvariance, PTL
=============================================================================
