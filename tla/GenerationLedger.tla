--------------------------- MODULE GenerationLedger ---------------------------
(***************************************************************************)
(* What mediated issue generation promises a Run: every mutation moves     *)
(* from nothing to a held unit of capacity, to one created issue, to one   *)
(* booked output, and at every moment the units held, created and booked   *)
(* fit the ceiling.  A unit is given back only while no issue exists for   *)
(* it; an issue, once created, is never forgotten or paid for twice.       *)
(***************************************************************************)
EXTENDS Integers, FiniteSets, FiniteSetTheorems, TLAPS

CONSTANTS Mutations, MaxCeiling

VARIABLES
    stage,     \* mutation -> "free", "held", "created" or "booked"
    ceiling    \* capacity the operator has approved

ledger == <<stage, ceiling>>

Stages == {"free", "held", "created", "booked"}

Taken == {m \in Mutations : stage[m] # "free"}

LedgerType == stage \in [Mutations -> Stages] /\ ceiling \in 0..MaxCeiling

\* Units held, created and booked never exceed the approved capacity.
LedgerSound == Cardinality(Taken) <= ceiling

LedgerInit == ceiling \in 0..MaxCeiling /\ stage = [m \in Mutations |-> "free"]

Move(m, from, to) ==
    /\ stage[m] = from
    /\ stage' = [stage EXCEPT ![m] = to]
    /\ UNCHANGED ceiling

Hold(m) == Cardinality(Taken) < ceiling /\ Move(m, "free", "held")

GiveBack(m) == Move(m, "held", "free")

Make(m) == Move(m, "held", "created")

Book(m) == Move(m, "created", "booked")

RaiseCeiling ==
    /\ \E c \in 0..MaxCeiling : c > ceiling /\ ceiling' = c
    /\ UNCHANGED stage

LedgerNext == RaiseCeiling \/ \E m \in Mutations : Hold(m) \/ GiveBack(m) \/ Make(m) \/ Book(m)

LedgerSpec == LedgerInit /\ [][LedgerNext]_ledger

-----------------------------------------------------------------------------

(***************************************************************************)
(* A ledger keeps its promise: capacity is never exceeded (generation.rs:  *)
(* a reservation comes before every `br create').                          *)
(***************************************************************************)
THEOREM LedgerKeepsCeiling ==
    ASSUME IsFiniteSet(Mutations), MaxCeiling \in Nat
    PROVE  LedgerSpec => []LedgerSound
<1> DEFINE LInv == LedgerType /\ LedgerSound
<1>f. IsFiniteSet(Taken) /\ Cardinality(Taken) \in Nat
    BY FS_Subset, FS_CardinalityType DEF Taken
<1>1. LedgerInit => LInv
  <2>1. LedgerInit => Taken = {}
      BY DEF LedgerInit, Taken
  <2>2. LedgerInit => Cardinality(Taken) = 0
      BY <2>1, FS_EmptySet
  <2> QED
      BY <2>2 DEF LedgerInit, LedgerType, LedgerSound, Stages
<1>2. LInv /\ [LedgerNext]_ledger => LInv'
  <2> SUFFICES ASSUME LInv, [LedgerNext]_ledger PROVE LInv'
      OBVIOUS
  <2>1. CASE RaiseCeiling
    <3>1. Taken' = Taken /\ ceiling' \in 0..MaxCeiling /\ ceiling < ceiling'
        BY <2>1 DEF RaiseCeiling, Taken
    <3>2. Cardinality(Taken)' <= ceiling'
        BY <3>1, <1>f DEF LedgerSound, LedgerType
    <3> QED
        BY <2>1, <3>1, <3>2 DEF RaiseCeiling, LedgerType, LedgerSound
  <2>2. ASSUME NEW m \in Mutations, Hold(m) PROVE LInv'
    <3>1. Taken' = Taken \union {m} /\ m \notin Taken
        BY <2>2 DEF Hold, Move, Taken, LedgerType
    <3>2. Cardinality(Taken') = Cardinality(Taken) + 1
        BY <3>1, <1>f, FS_AddElement
    <3>3. Cardinality(Taken)' <= ceiling'
        BY <2>2, <3>2, <1>f DEF Hold, Move, LedgerType
    <3> QED
        BY <2>2, <3>3 DEF Hold, Move, LedgerType, LedgerSound, Stages
  <2>3. ASSUME NEW m \in Mutations, GiveBack(m) \/ Make(m) \/ Book(m) PROVE LInv'
    <3>1. Taken' \subseteq Taken
        BY <2>3 DEF GiveBack, Make, Book, Move, Taken, LedgerType
    <3>2. Cardinality(Taken') <= Cardinality(Taken) /\ Cardinality(Taken') \in Nat
        BY <3>1, <1>f, FS_Subset, FS_CardinalityType
    <3>3. Cardinality(Taken)' <= ceiling'
        BY <2>3, <3>2, <1>f DEF GiveBack, Make, Book, Move, LedgerType, LedgerSound
    <3> QED
        BY <2>3, <3>3 DEF GiveBack, Make, Book, Move, LedgerType, LedgerSound, Stages
  <2>4. CASE UNCHANGED ledger
      BY <2>4 DEF ledger, LedgerType, LedgerSound, Taken
  <2> QED
      BY <2>1, <2>2, <2>3, <2>4 DEF LedgerNext
<1> QED
    BY <1>1, <1>2, PTL DEF LedgerSpec
=============================================================================
