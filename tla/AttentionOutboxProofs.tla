------------------------ MODULE AttentionOutboxProofs ------------------------
(***************************************************************************)
(* Theorems about AttentionOutbox for any number of mutations, entries and *)
(* faults.                                                                 *)
(***************************************************************************)
EXTENDS AttentionOutbox, SequenceTheorems, TLAPS

\* Types; a worker that is not idle offers a projection.
Typed ==
    /\ entries \in Seq(EntryFiles)
    /\ acks \in Seq(AckFiles)
    /\ worker \in {"idle", "waiting", "answered"}
    /\ offer \in Projections \union {NoProjection}
    /\ worker # "idle" => offer \in Projections
    /\ flying \subseteq Nat \X Projections
    /\ inbox \in Inboxes /\ onDisk \subseteq Inboxes
    /\ mishaps \in 0..MaxMishaps

\* What the inbox can fall back to holds all that was acknowledged, and all
\* that the worker is about to acknowledge.
Held ==
    /\ inbox \in onDisk
    /\ AckedIsDurable
    /\ worker = "answered" => \A v \in onDisk : offer.sequence <= v.cursor.sequence

Inv == Typed /\ Held /\ EnqueuedOnce /\ Len(entries) <= MaxEntries

-----------------------------------------------------------------------------

LEMMA CursorIsNat == \A v \in Inboxes : v.cursor.sequence \in Nat
BY DEF Inboxes, Projections, NoProjection

(***************************************************************************)
(* The receiver's step on a typed request keeps the inbox typed, and never *)
(* moves the cursor back.                                                  *)
(***************************************************************************)
LEMMA ProjectedOn ==
    ASSUME inbox \in Inboxes, NEW p \in Projections
    PROVE  /\ Projected(p) \in Inboxes
           /\ Projected(p).cursor.sequence >= inbox.cursor.sequence
           /\ Projected(p).cursor.sequence >= p.sequence
<1>1. p.sequence \in Nat /\ inbox.cursor.sequence \in Nat
    BY CursorIsNat DEF Projections
<1>2. CASE p.sequence <= inbox.cursor.sequence
    BY <1>1, <1>2 DEF Projected
<1>3. CASE ~(p.sequence <= inbox.cursor.sequence)
  <2>1. After(p.change, inbox.items) \in SUBSET Items
      BY DEF After, Projections, Changes, Inboxes, Items
  <2>2. Projected(p) = [cursor |-> p, items |-> After(p.change, inbox.items)]
      BY <1>3 DEF Projected
  <2> QED
      BY <1>1, <1>3, <2>1, <2>2 DEF Inboxes
<1> QED
    BY <1>2, <1>3

(***************************************************************************)
(* What storing a state that is not behind the inbox keeps.                *)
(***************************************************************************)
LEMMA StoringHolds ==
    ASSUME Typed, Held, NEW next \in Inboxes,
           next.cursor.sequence >= inbox.cursor.sequence,
           \/ Persist(next) \/ PersistFails(next)
    PROVE  /\ inbox' \in Inboxes /\ onDisk' \subseteq Inboxes
           /\ inbox' \in onDisk'
           /\ mishaps' \in 0..MaxMishaps
           /\ \A n \in Nat : (\A v \in onDisk : n <= v.cursor.sequence)
                                => \A v \in onDisk' : n <= v.cursor.sequence
<1>1. mishaps' \in 0..MaxMishaps
    BY OutboxAssumption DEF Persist, PersistFails, Fault, Typed
<1>2. \A v \in onDisk' : v \in onDisk \/ v = next
    BY DEF Persist, PersistFails
<1>3. /\ inbox' \in Inboxes /\ onDisk' \subseteq Inboxes /\ inbox' \in onDisk'
    BY DEF Persist, PersistFails, Typed, Held
<1>4. \A v \in Inboxes : v.cursor.sequence \in Nat
    BY CursorIsNat
<1>5. ASSUME NEW n \in Nat, \A v \in onDisk : n <= v.cursor.sequence,
             NEW w \in onDisk'
      PROVE  n <= w.cursor.sequence
  <2>1. CASE w \in onDisk
      BY <1>5, <2>1
  <2>2. CASE w = next
      BY <1>4, <1>5, <2>2 DEF Held, Typed
  <2> QED
      BY <1>2, <2>1, <2>2
<1> QED
    BY <1>1, <1>3, <1>5

\* The files of `left` are those of `files`, each in some state.
Refiled(left, files) ==
    \A i \in 1..Len(left) : \E state \in FileStates :
        left[i] = [files[i] EXCEPT !.file = state]

(***************************************************************************)
(* A loss of power leaves a prefix of the files.                           *)
(***************************************************************************)
LEMMA SurvivorsArePrefix ==
    ASSUME NEW S, NEW files \in Seq(S), \A f \in S : f.file \in FileStates,
           \A f \in S, state \in FileStates : [f EXCEPT !.file = state] \in S,
           NEW left \in Survivors(files)
    PROVE  left \in Seq(S) /\ Len(left) <= Len(files) /\ Refiled(left, files)
<1>0. Len(files) \in Nat /\ \A i \in 1..Len(files) : files[i] \in S
    OBVIOUS
<1>1. PICK n \in 0..Len(files) : \E kept \in [1..n -> FileStates] :
          left = [i \in 1..n |-> [files[i] EXCEPT !.file = kept[i]]]
    BY DEF Survivors
<1>2. PICK kept \in [1..n -> FileStates] :
          left = [i \in 1..n |-> [files[i] EXCEPT !.file = kept[i]]]
    BY <1>1
<1>3. n \in Nat /\ n <= Len(files)
    BY <1>0, <1>1
<1>4. \A i \in 1..n : left[i] = [files[i] EXCEPT !.file = kept[i]] /\ left[i] \in S
    BY <1>0, <1>2, <1>3
<1>5. left \in Seq(S) /\ Len(left) = n
    BY <1>2, <1>3, <1>4
<1> QED
    BY <1>2, <1>3, <1>4, <1>5 DEF Refiled

-----------------------------------------------------------------------------

LEMMA InitInv == Init => Inv
<1> SUFFICES ASSUME Init PROVE Inv
    OBVIOUS
<1>1. inbox \in Inboxes /\ inbox.cursor.sequence = 0
    BY DEF Init, Inboxes, NoProjection
<1>2. Typed
    BY <1>1, OutboxAssumption DEF Init, Typed
<1>3. Held
    BY <1>1 DEF Init, Held, AckedIsDurable
<1> QED
    BY <1>2, <1>3, OutboxAssumption DEF Inv, Init, EnqueuedOnce

\* An entry of the outbox, and what is sent of it, are typed.
LEMMA WireTyped ==
    ASSUME Typed, NEW i \in 1..Len(entries)
    PROVE  entries[i] \in EntryFiles /\ Wire(i) \in Projections
<1>1. entries \in Seq(EntryFiles) /\ i \in Nat \ {0}
    BY DEF Typed
<1>2. entries[i] \in EntryFiles
    BY <1>1
<1>3. entries[i].change \in Changes
    BY <1>2 DEF EntryFiles
<1> QED
    BY <1>1, <1>2, <1>3 DEF Wire, Projections

(***************************************************************************)
(* The producer's steps: the outbox grows by an identity it does not have, *)
(* or an entry is synced again.                                            *)
(***************************************************************************)
LEMMA ProducerKeepsInv ==
    ASSUME Inv, Producer
    PROVE  Inv'
<1>0. /\ entries \in Seq(EntryFiles) /\ Len(entries) \in Nat /\ Len(entries) <= MaxEntries
      /\ \A i \in 1..Len(entries) : entries[i] \in EntryFiles
    BY DEF Inv, Typed
<1>1. ASSUME NEW m \in Mutations, EnqueueAgain(m) PROVE Inv'
  <2>1. PICK i \in 1..Len(entries) : entries' = [entries EXCEPT ![i].file = "synced"]
      BY <1>1 DEF EnqueueAgain
  <2>2. /\ entries' \in Seq(EntryFiles) /\ Len(entries') = Len(entries)
        /\ \A j \in 1..Len(entries) : entries'[j].mutation = entries[j].mutation
      BY <1>0, <2>1 DEF EntryFiles, FileStates
  <2>3. Typed' /\ Held'
      BY <1>1, <2>2 DEF Inv, Typed, Held, AckedIsDurable, EnqueueAgain
  <2>4. EnqueuedOnce'
      BY <2>2 DEF Inv, EnqueuedOnce
  <2> QED
      BY <1>0, <2>2, <2>3, <2>4 DEF Inv
<1>2. ASSUME NEW m \in Mutations, NEW change \in Changes, NEW file \in FileStates,
             EnqueueNew(m, change, file), mishaps' \in 0..MaxMishaps
      PROVE  Inv'
  <2>1. /\ entries' = Append(entries, [mutation |-> m, change |-> change, file |-> file])
        /\ Len(entries) < MaxEntries
      BY <1>2 DEF EnqueueNew
  <2>2. [mutation |-> m, change |-> change, file |-> file] \in EntryFiles
      BY DEF EntryFiles
  <2>3. /\ entries' \in Seq(EntryFiles) /\ Len(entries') = Len(entries) + 1
        /\ \A j \in 1..Len(entries) : entries'[j] = entries[j]
        /\ entries'[Len(entries) + 1].mutation = m
      BY <1>0, <2>1, <2>2
  <2>4. Typed' /\ Held'
      BY <1>2, <2>3 DEF Inv, Typed, Held, AckedIsDurable, EnqueueNew
  <2>5. \A j \in 1..Len(entries) : entries[j].mutation # m
      BY <1>2 DEF EnqueueNew, Recorded
  <2>6. EnqueuedOnce'
      BY <1>0, <2>3, <2>5 DEF Inv, EnqueuedOnce
  <2> QED
      BY <1>0, <2>1, <2>3, <2>4, <2>6, OutboxAssumption DEF Inv
<1>3. mishaps \in 0..MaxMishaps
    BY DEF Inv, Typed
<1>4. ASSUME NEW m \in Mutations, NEW change \in Changes, Enqueue(m, change) PROVE Inv'
    BY <1>2, <1>3, <1>4 DEF Enqueue, FileStates
<1>5. ASSUME NEW m \in Mutations, NEW change \in Changes, EnqueueCut(m, change) PROVE Inv'
  <2>1. mishaps' \in 0..MaxMishaps
      BY <1>3, <1>5, OutboxAssumption DEF EnqueueCut, Fault
  <2> QED
      BY <1>2, <1>5, <2>1 DEF EnqueueCut, FileStates
<1> QED
    BY <1>1, <1>4, <1>5 DEF Producer

(***************************************************************************)
(* The delivery worker's steps.                                            *)
(***************************************************************************)
LEMMA WorkerKeepsInv ==
    ASSUME Inv, Publish \/ Acknowledge \/ AcknowledgeCut \/ GiveUp
    PROVE  Inv'
<1>0. /\ mishaps \in 0..MaxMishaps
      /\ entries \in Seq(EntryFiles) /\ Len(entries) \in Nat
      /\ acks \in Seq(AckFiles) /\ Len(acks) \in Nat
    BY DEF Inv, Typed
<1>1. CASE Publish
  <2>1. Wire(Pending) \in Projections
    <3>1. Pending \in 1..Len(entries)
        BY <1>0, <1>1 DEF Publish, Unacknowledged, Pending
    <3> QED
        BY <3>1, WireTyped DEF Inv
  <2> QED
      BY <1>1, <2>1 DEF Inv, Typed, Held, AckedIsDurable, EnqueuedOnce, Publish
<1>2. ASSUME NEW file \in FileStates, Acknowledges(file), mishaps' \in 0..MaxMishaps PROVE Inv'
  <2>1. worker = "answered" /\ worker' = "idle" /\ offer \in Projections
      BY <1>2 DEF Acknowledges, Inv, Typed
  <2>2. CASE /\ Unacknowledged /\ Wire(Pending) = offer
             /\ acks' = Append(acks, [digest |-> offer, file |-> file])
    <3>1. [digest |-> offer, file |-> file] \in AckFiles
        BY <2>1 DEF AckFiles
    <3>2. acks' \in Seq(AckFiles) /\ Len(acks') = Len(acks) + 1
        BY <1>0, <2>2, <3>1
    <3>3. Typed'
        BY <1>2, <2>1, <3>2 DEF Inv, Typed, Acknowledges
    <3>4. offer.sequence = Len(acks) + 1
        BY <2>2 DEF Wire, Pending
    <3>5. AckedIsDurable'
        BY <1>2, <2>1, <3>2, <3>4 DEF Inv, Held, AckedIsDurable, Acknowledges
    <3> QED
        BY <1>2, <2>1, <3>3, <3>5 DEF Inv, Held, EnqueuedOnce, Acknowledges
  <2>3. CASE UNCHANGED acks
      BY <1>2, <2>1, <2>3 DEF Inv, Typed, Held, AckedIsDurable, EnqueuedOnce, Acknowledges
  <2> QED
      BY <1>2, <2>2, <2>3 DEF Acknowledges
<1>3. CASE Acknowledge
    BY <1>0, <1>2, <1>3 DEF Acknowledge, FileStates
<1>4. CASE AcknowledgeCut
  <2>1. mishaps' \in 0..MaxMishaps
      BY <1>0, <1>4, OutboxAssumption DEF AcknowledgeCut, Fault
  <2> QED
      BY <1>2, <1>4, <2>1 DEF AcknowledgeCut, FileStates
<1>5. CASE GiveUp
  <2>1. mishaps' \in 0..MaxMishaps
      BY <1>0, <1>5, OutboxAssumption DEF GiveUp, Fault
  <2>2. flying' \subseteq Nat \X Projections
      BY <1>0, <1>5, OutboxAssumption DEF GiveUp, Inv, Typed
  <2> QED
      BY <1>5, <2>1, <2>2 DEF Inv, Typed, Held, AckedIsDurable, EnqueuedOnce, GiveUp
<1> QED
    BY <1>1, <1>3, <1>4, <1>5

(***************************************************************************)
(* Handling one request.                                                   *)
(***************************************************************************)
LEMMA ProjectHolds ==
    ASSUME Typed, Held, NEW p \in Projections, NEW accepted \in BOOLEAN,
           Project(p, accepted)
    PROVE  /\ inbox' \in Inboxes /\ onDisk' \subseteq Inboxes
           /\ inbox' \in onDisk'
           /\ mishaps' \in 0..MaxMishaps
           /\ \A n \in Nat : (\A v \in onDisk : n <= v.cursor.sequence)
                                => \A v \in onDisk' : n <= v.cursor.sequence
           /\ accepted => \A v \in onDisk' : p.sequence <= v.cursor.sequence
<1>1. /\ Projected(p) \in Inboxes
      /\ Projected(p).cursor.sequence >= inbox.cursor.sequence
      /\ Projected(p).cursor.sequence >= p.sequence
    BY ProjectedOn DEF Typed
<1>2. CASE Persist(Projected(p)) \/ PersistFails(Projected(p))
  <2>1. accepted => Persist(Projected(p))
      BY DEF Project, Persist
  <2>2. p.sequence \in Nat
      BY DEF Projections
  <2>3. accepted => \A v \in onDisk' : p.sequence <= v.cursor.sequence
      BY <1>1, <2>1, <2>2, CursorIsNat DEF Persist
  <2> QED
      BY <1>1, <1>2, <2>3, StoringHolds
<1>3. CASE ~accepted /\ UNCHANGED <<inbox, onDisk, mishaps>>
    BY <1>3 DEF Typed, Held
<1> QED
    BY <1>2, <1>3 DEF Project

(***************************************************************************)
(* The receiver's steps.                                                   *)
(***************************************************************************)
LEMMA ReceiverKeepsInv ==
    ASSUME Inv, Receive \/ ReceiveLate \/ EditorClears \/ ReceiverStops
    PROVE  Inv'
<1>0. /\ Typed /\ Held /\ Len(acks) \in Nat
      /\ offer \in Projections => offer.sequence \in Nat
    BY DEF Inv, Typed, Projections
<1>1. ASSUME inbox' \in Inboxes, onDisk' \subseteq Inboxes, inbox' \in onDisk',
             mishaps' \in 0..MaxMishaps,
             \A n \in Nat : (\A v \in onDisk : n <= v.cursor.sequence)
                                => \A v \in onDisk' : n <= v.cursor.sequence,
             UNCHANGED <<entries, acks, offer>>,
             flying' \subseteq Nat \X Projections,
             worker' \in {worker, "idle", "answered"},
             worker' = "answered" => offer \in Projections,
             worker' = "answered" => \/ worker = "answered"
                                     \/ \A v \in onDisk' : offer.sequence <= v.cursor.sequence
      PROVE  Inv'
  <2>1. Typed'
      BY <1>0, <1>1 DEF Typed
  <2>2. AckedIsDurable'
      BY <1>0, <1>1 DEF Held, AckedIsDurable
  <2>3. (worker = "answered" => \A v \in onDisk : offer.sequence <= v.cursor.sequence)'
      BY <1>0, <1>1 DEF Held
  <2> QED
      BY <1>1, <2>1, <2>2, <2>3 DEF Inv, Held, EnqueuedOnce
<1>2. CASE Receive
  <2>1. PICK accepted \in BOOLEAN :
            /\ Project(offer, accepted)
            /\ worker' = IF accepted THEN "answered" ELSE "idle"
      BY <1>2 DEF Receive
  <2>2. offer \in Projections
      BY <1>0, <1>2 DEF Receive, Typed
  <2> QED
      BY <1>0, <1>1, <1>2, <2>1, <2>2, ProjectHolds DEF Receive, Typed
<1>3. CASE ReceiveLate
  <2>1. PICK request \in flying, accepted \in BOOLEAN :
            Project(request[2], accepted) /\ flying' = flying \ {request}
      BY <1>3 DEF ReceiveLate
  <2>2. request[2] \in Projections
      BY <1>0, <2>1 DEF Typed
  <2> QED
      BY <1>0, <1>1, <1>3, <2>1, <2>2, ProjectHolds DEF ReceiveLate, brokerVars, Typed
<1>4. CASE EditorClears
  <2>1. PICK gone \in SUBSET inbox.items :
            LET next == [inbox EXCEPT !.items = @ \ gone]
            IN  Persist(next) \/ PersistFails(next)
      BY <1>4 DEF EditorClears
  <2> DEFINE next == [inbox EXCEPT !.items = @ \ gone]
  <2>2. next \in Inboxes /\ next.cursor = inbox.cursor
      BY <1>0 DEF Typed, Inboxes
  <2>3. next.cursor.sequence >= inbox.cursor.sequence
      BY <1>0, <2>2, CursorIsNat DEF Typed
  <2>4. Persist(next) \/ PersistFails(next)
      BY <2>1
  <2> HIDE DEF next
  <2> QED
      BY <1>0, <1>1, <1>4, <2>2, <2>3, <2>4, StoringHolds DEF EditorClears, brokerVars, Typed
<1>5. CASE ReceiverStops
  <2>1. mishaps' \in 0..MaxMishaps
      BY <1>0, <1>5, OutboxAssumption DEF ReceiverStops, Fault, Typed
  <2> QED
      BY <1>0, <1>1, <1>5, <2>1 DEF ReceiverStops, Typed, Held
<1> QED
    BY <1>2, <1>3, <1>4, <1>5

(***************************************************************************)
(* A loss of power.                                                        *)
(***************************************************************************)
LEMMA PowerLossKeepsInv ==
    ASSUME Inv, PowerLoss
    PROVE  Inv'
<1>0. /\ entries \in Seq(EntryFiles) /\ acks \in Seq(AckFiles)
      /\ Len(entries) \in Nat /\ Len(acks) \in Nat
    BY DEF Inv, Typed
<1>1. /\ entries' \in Seq(EntryFiles) /\ Len(entries') <= Len(entries)
      /\ Refiled(entries', entries)
  <2>1. /\ \A f \in EntryFiles : f.file \in FileStates
        /\ \A f \in EntryFiles, state \in FileStates : [f EXCEPT !.file = state] \in EntryFiles
      BY DEF EntryFiles
  <2> QED
      BY <1>0, <2>1, SurvivorsArePrefix DEF PowerLoss
<1>2. acks' \in Seq(AckFiles) /\ Len(acks') <= Len(acks)
  <2>1. /\ \A f \in AckFiles : f.file \in FileStates
        /\ \A f \in AckFiles, state \in FileStates : [f EXCEPT !.file = state] \in AckFiles
      BY DEF AckFiles
  <2> QED
      BY <1>0, <2>1, SurvivorsArePrefix DEF PowerLoss
<1>3. /\ inbox' \in onDisk /\ onDisk' = {inbox'} /\ inbox' \in Inboxes
      /\ worker' = "idle" /\ flying' = {} /\ offer' = offer
    BY DEF PowerLoss, Inv, Typed
<1>4. Typed'
  <2>1. mishaps' \in 0..MaxMishaps
      BY OutboxAssumption DEF PowerLoss, Fault, Inv, Typed
  <2> QED
      BY <1>1, <1>2, <1>3, <2>1 DEF Inv, Typed
<1>5. Held'
  <2>1. inbox'.cursor.sequence \in Nat /\ Len(acks) <= inbox'.cursor.sequence
      BY <1>3, CursorIsNat DEF Inv, Held, AckedIsDurable
  <2>2. Len(acks') \in Nat
      BY <1>2
  <2> QED
      BY <1>0, <1>2, <1>3, <2>1, <2>2 DEF Held, AckedIsDurable
<1>6. EnqueuedOnce'
  <2>1. Len(entries') \in Nat
      BY <1>1
  <2>2. \A i \in 1..Len(entries') : i \in 1..Len(entries) /\ entries[i] \in EntryFiles
      BY <1>0, <1>1, <2>1
  <2>3. \A i \in 1..Len(entries') : entries'[i].mutation = entries[i].mutation
      BY <1>1, <2>2 DEF EntryFiles, Refiled
  <2> QED
      BY <2>2, <2>3 DEF Inv, EnqueuedOnce
<1>7. Len(entries') <= MaxEntries
    BY <1>0, <1>1, OutboxAssumption DEF Inv
<1> QED
    BY <1>4, <1>5, <1>6, <1>7 DEF Inv

LEMMA NextKeepsInv ==
    ASSUME Inv, [Next]_vars
    PROVE  Inv'
<1>1. CASE UNCHANGED vars
    BY <1>1 DEF vars, Inv, Typed, Held, AckedIsDurable, EnqueuedOnce
<1> QED
    BY <1>1, ProducerKeepsInv, WorkerKeepsInv, ReceiverKeepsInv, PowerLossKeepsInv DEF Next

THEOREM InvAlways == Spec => []Inv
BY InitInv, NextKeepsInv, PTL DEF Spec

-----------------------------------------------------------------------------

\* The state has its shape, and the outbox respects its bound, whatever the
\* number of entries, faults and losses of power (attention.rs: enqueue).
THEOREM OutboxTypeCorrect == Spec => []TypeOK
<1>1. Inv => TypeOK
    BY DEF Inv, Typed, TypeOK
<1> QED
    BY <1>1, InvAlways, PTL

\* What is acknowledged survives any loss of power (attention_projection.rs: project).
THEOREM AcknowledgedSurvives == Spec => []AckedIsDurable
<1>1. Inv => AckedIsDurable
    BY DEF Inv, Held
<1> QED
    BY <1>1, InvAlways, PTL

\* No identity is queued twice (attention.rs: enqueue).
THEOREM QueuedOnce == Spec => []EnqueuedOnce
<1>1. Inv => EnqueuedOnce
    BY DEF Inv
<1> QED
    BY <1>1, InvAlways, PTL

-----------------------------------------------------------------------------

\* How a step can change the inbox.
LEMMA InboxStep ==
    ASSUME Inv, [Next]_vars, ~PowerLoss
    PROVE  \/ inbox' = inbox
           \/ \E p \in Projections : /\ ~LeavesGap(p)
                                     /\ inbox' = Projected(p)
           \/ inbox' \in Inboxes /\ inbox'.items \subseteq inbox.items
<1>1. CASE Receive \/ ReceiveLate
  <2>1. PICK p \in Projections, accepted \in BOOLEAN : Project(p, accepted)
      BY <1>1 DEF Receive, ReceiveLate, Inv, Typed
  <2> QED
      BY <2>1 DEF Project, Persist, PersistFails
<1>2. CASE EditorClears
  <2>1. PICK gone \in SUBSET inbox.items :
            LET next == [inbox EXCEPT !.items = @ \ gone]
            IN  Persist(next) \/ PersistFails(next)
      BY <1>2 DEF EditorClears
  <2>2. inbox' = inbox \/ inbox' = [inbox EXCEPT !.items = @ \ gone]
      BY <2>1 DEF Persist, PersistFails
  <2> QED
      BY <2>2 DEF Inv, Typed, Inboxes
<1>3. CASE UNCHANGED inbox
    BY <1>3
<1>4. Producer => UNCHANGED inbox
    BY DEF Producer, EnqueueAgain, Enqueue, EnqueueCut, EnqueueNew
<1>5. (Publish \/ Acknowledge \/ AcknowledgeCut \/ GiveUp \/ ReceiverStops) => UNCHANGED inbox
    BY DEF Publish, Acknowledge, AcknowledgeCut, Acknowledges, GiveUp, ReceiverStops
<1> QED
    BY <1>1, <1>2, <1>3, <1>4, <1>5 DEF Next, vars

\* What a change adds is what it raises.
LEMMA AfterAdds ==
    ASSUME NEW change \in Changes, NEW items \in SUBSET Items,
           NEW item \in After(change, items), item \notin items
    PROVE  change = [op |-> "upsert", item |-> item]
<1>1. change.op = "upsert" /\ item = change.item
    BY DEF After
<1> QED
    BY <1>1 DEF Changes

\* A late copy or a retry never brings a resolved condition back
\* (attention_projection.rs: project).
THEOREM ResolvedStaysResolved == Spec => NeverResurrected
<1>1. ASSUME Inv, [Next]_vars, ~PowerLoss, NEW item \in inbox'.items \ inbox.items
      PROVE  /\ inbox'.cursor.sequence = inbox.cursor.sequence + 1
             /\ inbox'.cursor.change = [op |-> "upsert", item |-> item]
  <2>1. PICK p \in Projections : ~LeavesGap(p) /\ inbox' = Projected(p)
      BY <1>1, InboxStep
  <2>2. /\ p.sequence \in Nat /\ inbox.cursor.sequence \in Nat
        /\ p.change \in Changes /\ inbox.items \in SUBSET Items
      BY <1>1, CursorIsNat DEF Projections, Inv, Typed, Inboxes
  <2>3. /\ ~(p.sequence <= inbox.cursor.sequence)
        /\ inbox' = [cursor |-> p, items |-> After(p.change, inbox.items)]
      BY <1>1, <2>1 DEF Projected
  <2>4. p.change = [op |-> "upsert", item |-> item]
      BY <1>1, <2>2, <2>3, AfterAdds
  <2>5. p.sequence = inbox.cursor.sequence + 1
      BY <2>1, <2>2, <2>3 DEF LeavesGap
  <2> QED
      BY <2>3, <2>4, <2>5
<1>2. Inv /\ [Next]_vars =>
          [\A item \in inbox'.items \ inbox.items :
              \/ PowerLoss
              \/ /\ inbox'.cursor.sequence = inbox.cursor.sequence + 1
                 /\ inbox'.cursor.change = [op |-> "upsert", item |-> item]]_vars
    BY <1>1
<1> QED
    BY <1>2, InvAlways, PTL DEF Spec, NeverResurrected

-----------------------------------------------------------------------------
(* What the inbox shows is unresolved.  This needs that no entry which was *)
(* delivered is lost again: either power is never lost, or an entry is     *)
(* delivered only when it is synced.                                       *)

EntriesLast == "power" \notin Faults \/ "entry_unsynced" \notin Faults

\* The projection is that of an entry which is here to stay.
Stored(p) ==
    /\ p.sequence \in 1..Len(entries)
    /\ p = Wire(p.sequence)
    /\ entries[p.sequence].file # "torn"

\* One state of the inbox agrees with the outbox.
Agrees(v) ==
    /\ v.cursor = NoProjection \/ Stored(v.cursor)
    /\ \A item \in v.items : Unresolved(item, v.cursor.sequence)

\* Only the last entry can be torn, so all entries up to a stored one are whole.
WholeBut == \A i, j \in 1..Len(entries) : i < j => entries[i].file # "torn"

AgreeInv ==
    /\ WholeBut
    /\ \A p \in {offer} : worker # "idle" => Stored(p)
    /\ \A request \in flying : Stored(request[2])
    /\ \A v \in onDisk : Agrees(v)
    /\ "entry_unsynced" \notin Faults =>
          \A i \in 1..Len(entries) : entries[i].file # "written"

\* The outbox still has the whole entries it had.
EntriesStay ==
    \A i \in 1..Len(entries) : entries[i].file # "torn" =>
        /\ i \in 1..Len(entries') /\ entries'[i].file # "torn"
        /\ entries'[i].change = entries[i].change

LEMMA StoredStays ==
    ASSUME Inv, Inv', EntriesStay, NEW p, Stored(p)
    PROVE  Stored(p)'
BY DEF EntriesStay, Stored, Wire

LEMMA AgreesStays ==
    ASSUME Inv, Inv', EntriesStay, WholeBut, NEW v \in Inboxes, Agrees(v)
    PROVE  Agrees(v)'
<1>1. CASE v.cursor = NoProjection
  <2>1. v.items = {}
      BY <1>1 DEF Agrees, Unresolved, NoProjection
  <2> QED
      BY <1>1, <2>1 DEF Agrees, NoProjection
<1>2. CASE Stored(v.cursor)
  <2>1. Stored(v.cursor)'
      BY <1>2, StoredStays
  <2> DEFINE n == v.cursor.sequence
  <2>2. Len(entries) \in Nat /\ n \in 1..Len(entries)
      BY <1>2 DEF Inv, Typed, Stored
  <2>3. \A i \in 1..n : i \in 1..Len(entries) /\ entries[i].file # "torn"
      BY <1>2, <2>2 DEF Stored, WholeBut
  <2>4. \A i \in 1..n : entries'[i].change = entries[i].change
      BY <2>3 DEF EntriesStay
  <2>5. ASSUME NEW item, Unresolved(item, n) PROVE Unresolved(item, n)'
    <3>1. PICK k \in 1..n : /\ entries[k].change = [op |-> "upsert", item |-> item]
                            /\ \A j \in k + 1..n : ~Resolves(entries[j].change, item)
        BY <2>5 DEF Unresolved
    <3>2. \A j \in k + 1..n : ~Resolves(entries'[j].change, item)
        BY <2>2, <2>4, <3>1
    <3> QED
        BY <2>4, <3>1, <3>2 DEF Unresolved, Resolves
  <2> QED
      BY <2>1, <2>5 DEF Agrees
<1> QED
    BY <1>1, <1>2 DEF Agrees

(***************************************************************************)
(* The next entry, applied, leaves the inbox in agreement with the outbox. *)
(***************************************************************************)
LEMMA ProjectedAgrees ==
    ASSUME Inv, NEW p, Stored(p), ~LeavesGap(p), Agrees(inbox)
    PROVE  Agrees(Projected(p))
<1>1. /\ inbox.cursor.sequence \in Nat /\ Len(entries) \in Nat
      /\ p.sequence \in 1..Len(entries) /\ p.change = entries[p.sequence].change
      /\ p.change \in Changes /\ inbox.items \in SUBSET Items
  <2>1. /\ entries \in Seq(EntryFiles) /\ inbox \in Inboxes /\ p.sequence \in 1..Len(entries)
        /\ p = Wire(p.sequence)
      BY DEF Inv, Typed, Stored
  <2>2. entries[p.sequence].change \in Changes
    <3>1. entries[p.sequence] \in EntryFiles
        BY <2>1, WireTyped DEF Inv
    <3> QED
        BY <3>1 DEF EntryFiles
  <2> QED
      BY <2>1, <2>2, CursorIsNat DEF Wire, Inboxes
<1>2. CASE p.sequence <= inbox.cursor.sequence
    BY <1>2 DEF Projected
<1>3. CASE ~(p.sequence <= inbox.cursor.sequence)
  <2> DEFINE n == inbox.cursor.sequence
  <2>1. p.sequence = n + 1
      BY <1>1, <1>3 DEF LeavesGap
  <2>2. Projected(p) = [cursor |-> p, items |-> After(p.change, inbox.items)]
      BY <1>3 DEF Projected
  <2>3. ASSUME NEW item \in After(p.change, inbox.items), item \in inbox.items,
               ~Resolves(p.change, item)
        PROVE  Unresolved(item, n + 1)
    <3>1. PICK k \in 1..n : /\ entries[k].change = [op |-> "upsert", item |-> item]
                            /\ \A j \in k + 1..n : ~Resolves(entries[j].change, item)
        BY <2>3 DEF Agrees, Unresolved
    <3>2. \A j \in k + 1..n + 1 : ~Resolves(entries[j].change, item)
        BY <1>1, <2>1, <2>3, <3>1
    <3> QED
        BY <1>1, <3>1, <3>2 DEF Unresolved
  <2>4. ASSUME NEW item \in After(p.change, inbox.items), Resolves(p.change, item) PROVE FALSE
    <3>1. CASE p.change.op = "clear"
        BY <2>4, <3>1 DEF After, Resolves
    <3>2. CASE p.change.op = "clear_subject"
        BY <2>4, <3>2 DEF After, Resolves
    <3> QED
        BY <2>4, <3>1, <3>2 DEF Resolves
  <2>5. ASSUME NEW item \in After(p.change, inbox.items), item \notin inbox.items
        PROVE  Unresolved(item, n + 1)
    <3>1. entries[n + 1].change = [op |-> "upsert", item |-> item]
        BY <1>1, <2>1, <2>5, AfterAdds
    <3>2. \A j \in n + 1 + 1..n + 1 : FALSE
        BY <1>1
    <3>3. n + 1 \in 1..n + 1
        BY <1>1
    <3> QED
        BY <3>1, <3>2, <3>3 DEF Unresolved
  <2>6. \A item \in After(p.change, inbox.items) : Unresolved(item, n + 1)
      BY <2>3, <2>4, <2>5
  <2> QED
      BY <2>1, <2>2, <2>6 DEF Agrees
<1> QED
    BY <1>2, <1>3

(***************************************************************************)
(* When every entry that is filled is synced, a loss of power takes at     *)
(* most an entry cut short, and leaves the others as they are.             *)
(***************************************************************************)
LEMMA PowerSparesEntries ==
    ASSUME EntriesLast, Inv, AgreeInv, PowerLoss
    PROVE  /\ Len(entries') \in 0..Len(entries)
           /\ \A i \in 1..Len(entries) : entries[i].file # "torn" => i <= Len(entries')
           /\ \A i \in 1..Len(entries') : /\ entries'[i].file = entries[i].file
                                          /\ entries'[i].change = entries[i].change
<1>0. entries \in Seq(EntryFiles) /\ Len(entries) \in Nat
    BY DEF Inv, Typed
<1>1. "entry_unsynced" \notin Faults
    BY DEF PowerLoss, Fault, EntriesLast
<1>2. \A i \in 1..Len(entries) : entries[i] \in EntryFiles
    BY <1>0
<1>3. \A i \in 1..Len(entries) : entries[i].file \in {"torn", "synced"}
    BY <1>1, <1>2 DEF AgreeInv, EntryFiles, FileStates
<1>4. PICK n \in {k \in 0..Len(entries) : \A i \in k + 1..Len(entries) : entries[i].file # "synced"} :
          \E kept \in {k \in [1..n -> FileStates] : \A i \in 1..n : k[i] \in Kept(entries[i].file)} :
             entries' = [i \in 1..n |-> [entries[i] EXCEPT !.file = kept[i]]]
  <2>1. entries' \in Survivors(entries)
      BY DEF PowerLoss
  <2> QED
      BY <2>1 DEF Survivors
<1>5. PICK kept \in {k \in [1..n -> FileStates] : \A i \in 1..n : k[i] \in Kept(entries[i].file)} :
             entries' = [i \in 1..n |-> [entries[i] EXCEPT !.file = kept[i]]]
    BY <1>4
<1>6. /\ n \in Nat /\ n <= Len(entries)
      /\ \A i \in 1..Len(entries) : entries[i].file # "torn" => i <= n
    BY <1>0, <1>3, <1>4
<1>7. Len(entries') = n
    BY <1>5, <1>6
<1>8. \A i \in 1..n : kept[i] = entries[i].file
    BY <1>0, <1>3, <1>5, <1>6 DEF Kept
<1>9. ASSUME NEW i \in 1..n
      PROVE  entries'[i].file = entries[i].file /\ entries'[i].change = entries[i].change
  <2>1. entries'[i] = [entries[i] EXCEPT !.file = kept[i]] /\ entries[i] \in EntryFiles
      BY <1>2, <1>5, <1>6
  <2> QED
      BY <1>8, <2>1 DEF EntryFiles
<1> QED
    BY <1>6, <1>7, <1>9

(***************************************************************************)
(* The producer's steps and a loss of power keep the entries that count.   *)
(***************************************************************************)
LEMMA EntriesKept ==
    ASSUME EntriesLast, Inv, AgreeInv, Inv', [Next]_vars
    PROVE  /\ EntriesStay /\ WholeBut'
           /\ "entry_unsynced" \notin Faults =>
                 \A i \in 1..Len(entries') : entries'[i].file # "written"
<1>0. entries \in Seq(EntryFiles) /\ Len(entries) \in Nat
    BY DEF Inv, Typed
<1>1. CASE UNCHANGED entries
    BY <1>1 DEF EntriesStay, AgreeInv, WholeBut
<1>2. ASSUME NEW m \in Mutations, EnqueueAgain(m)
      PROVE  /\ EntriesStay /\ WholeBut'
             /\ "entry_unsynced" \notin Faults =>
                   \A i \in 1..Len(entries') : entries'[i].file # "written"
  <2>1. PICK i \in 1..Len(entries) : entries' = [entries EXCEPT ![i].file = "synced"]
      BY <1>2 DEF EnqueueAgain
  <2>2. /\ Len(entries') = Len(entries)
        /\ \A j \in 1..Len(entries) : /\ entries'[j].change = entries[j].change
                                       /\ entries'[j].file \in {entries[j].file, "synced"}
      BY <1>0, <2>1 DEF EntryFiles
  <2> QED
      BY <2>2 DEF EntriesStay, AgreeInv, WholeBut
<1>3. ASSUME NEW m \in Mutations, NEW change \in Changes, NEW file \in FileStates,
             EnqueueNew(m, change, file),
             file = "written" => "entry_unsynced" \in Faults
      PROVE  /\ EntriesStay /\ WholeBut'
             /\ "entry_unsynced" \notin Faults =>
                   \A i \in 1..Len(entries') : entries'[i].file # "written"
  <2>1. entries' = Append(entries, [mutation |-> m, change |-> change, file |-> file])
      BY <1>3 DEF EnqueueNew
  <2>2. /\ Len(entries') = Len(entries) + 1
        /\ \A j \in 1..Len(entries) : entries'[j] = entries[j]
        /\ entries'[Len(entries) + 1].file = file
      BY <1>0, <2>1
  <2>3. \A j \in 1..Len(entries) : entries[j].file # "torn"
      BY <1>3 DEF EnqueueNew, EntriesReadable
  <2>4. \A j \in 1..Len(entries') : j \in 1..Len(entries) \/ j = Len(entries) + 1
      BY <1>0, <2>2
  <2>5. EntriesStay
      BY <1>0, <2>2 DEF EntriesStay
  <2>6. WholeBut'
      BY <1>0, <2>2, <2>3 DEF WholeBut
  <2>7. "entry_unsynced" \notin Faults =>
            \A i \in 1..Len(entries') : entries'[i].file # "written"
      BY <1>3, <2>2, <2>4 DEF AgreeInv
  <2> QED
      BY <2>5, <2>6, <2>7
<1>4. CASE Producer
    BY <1>2, <1>3, <1>4 DEF Producer, Enqueue, EnqueueCut, Fault, FileStates
<1>5. CASE PowerLoss
  <2>1. /\ Len(entries') \in 0..Len(entries)
        /\ \A i \in 1..Len(entries) : entries[i].file # "torn" => i <= Len(entries')
        /\ \A i \in 1..Len(entries') : /\ entries'[i].file = entries[i].file
                                       /\ entries'[i].change = entries[i].change
      BY <1>5, PowerSparesEntries
  <2> QED
      BY <1>0, <2>1 DEF EntriesStay, AgreeInv, WholeBut
<1>6. (Publish \/ Acknowledge \/ AcknowledgeCut \/ GiveUp) => UNCHANGED entries
    BY DEF Publish, Acknowledge, AcknowledgeCut, Acknowledges, GiveUp
<1>7. (Receive \/ ReceiveLate \/ EditorClears \/ ReceiverStops) => UNCHANGED entries
    BY DEF Receive, ReceiveLate, EditorClears, ReceiverStops, brokerVars
<1> QED
    BY <1>1, <1>4, <1>5, <1>6, <1>7 DEF Next, vars

(***************************************************************************)
(* Requests and stored states agree with the outbox before entries change. *)
(***************************************************************************)
LEMMA RequestsStored ==
    ASSUME Inv, AgreeInv, [Next]_vars
    PROVE  /\ \A p \in {offer'} : worker' # "idle" => Stored(p)
           /\ \A request \in flying' : Stored(request[2])
<1>1. CASE Publish
  <2>1. /\ Len(acks) \in Nat /\ Len(entries) \in Nat /\ offer' = Wire(Pending)
        /\ Pending \in 1..Len(entries) /\ flying' = flying
        /\ EntriesReadable
      BY <1>1 DEF Inv, Typed, Publish, Unacknowledged, Pending
  <2>2. Wire(Pending).sequence = Pending
      BY DEF Wire
  <2>3. Stored(offer')
      BY <2>1, <2>2 DEF Stored, EntriesReadable
  <2> QED
      BY <2>1, <2>3 DEF AgreeInv
<1>2. CASE GiveUp
  <2>1. PICK copies : copies \subseteq {<<mishaps, offer>>} /\ flying' = flying \union copies
                      /\ (copies # {} => worker = "waiting")
    <3>1. CASE UNCHANGED flying
      <4>1. flying' = flying \union {}
          BY <3>1
      <4> QED
          BY <4>1
    <3>2. CASE worker = "waiting" /\ flying' = flying \union {<<mishaps, offer>>}
        BY <3>2
    <3> QED
        BY <1>2, <3>1, <3>2 DEF GiveUp
  <2> QED
      BY <1>2, <2>1 DEF GiveUp, AgreeInv
<1>3. CASE Acknowledge \/ AcknowledgeCut
    BY <1>3 DEF AgreeInv, Acknowledge, AcknowledgeCut, Acknowledges
<1>4. CASE Receive
    BY <1>4 DEF AgreeInv, Receive
<1>5. CASE ReceiveLate
    BY <1>5 DEF AgreeInv, ReceiveLate, brokerVars
<1>6. CASE ReceiverStops \/ PowerLoss
    BY <1>6 DEF AgreeInv, ReceiverStops, PowerLoss
<1>7. EditorClears => UNCHANGED <<worker, offer, flying>>
    BY DEF EditorClears, brokerVars
<1>8. Producer => UNCHANGED <<worker, offer, flying>>
    BY DEF Producer, EnqueueAgain, Enqueue, EnqueueCut, EnqueueNew
<1> QED
    BY <1>1, <1>2, <1>3, <1>4, <1>5, <1>6, <1>7, <1>8 DEF Next, vars, AgreeInv

LEMMA StatesAgree ==
    ASSUME Inv, AgreeInv, [Next]_vars, NEW w \in onDisk'
    PROVE  Agrees(w)
<1>0. Agrees(inbox) /\ \A v \in onDisk : Agrees(v)
    BY DEF AgreeInv, Inv, Held
<1>1. ASSUME NEW p, Stored(p), NEW accepted \in BOOLEAN, Project(p, accepted) PROVE Agrees(w)
  <2>1. w \in onDisk \/ (w = Projected(p) /\ ~LeavesGap(p))
      BY <1>1 DEF Project, Persist, PersistFails
  <2> QED
      BY <1>0, <1>1, <2>1, ProjectedAgrees
<1>2. CASE Receive
    BY <1>1, <1>2 DEF Receive, AgreeInv
<1>3. CASE ReceiveLate
    BY <1>1, <1>3 DEF ReceiveLate, AgreeInv
<1>4. CASE EditorClears
  <2>1. PICK gone \in SUBSET inbox.items :
            LET next == [inbox EXCEPT !.items = @ \ gone]
            IN  Persist(next) \/ PersistFails(next)
      BY <1>4 DEF EditorClears
  <2>2. w \in onDisk \/ w = [inbox EXCEPT !.items = @ \ gone]
      BY <2>1 DEF Persist, PersistFails
  <2>3. CASE w = [inbox EXCEPT !.items = @ \ gone]
    <3>1. w.cursor = inbox.cursor /\ w.items \subseteq inbox.items
        BY <2>3 DEF Inv, Typed, Inboxes
    <3> QED
        BY <1>0, <3>1 DEF Agrees
  <2> QED
      BY <1>0, <2>2, <2>3
<1>5. CASE PowerLoss
    BY <1>0, <1>5 DEF PowerLoss
<1>6. CASE UNCHANGED onDisk
    BY <1>0, <1>6
<1>7. (Publish \/ Acknowledge \/ AcknowledgeCut \/ GiveUp \/ ReceiverStops) => UNCHANGED onDisk
    BY DEF Publish, Acknowledge, AcknowledgeCut, Acknowledges, GiveUp, ReceiverStops
<1>8. Producer => UNCHANGED onDisk
    BY DEF Producer, EnqueueAgain, Enqueue, EnqueueCut, EnqueueNew
<1> QED
    BY <1>2, <1>3, <1>4, <1>5, <1>6, <1>7, <1>8 DEF Next, vars

LEMMA NextKeepsAgree ==
    ASSUME EntriesLast, Inv, AgreeInv, Inv', [Next]_vars
    PROVE  AgreeInv'
<1>1. EntriesStay /\ WholeBut
    BY EntriesKept DEF AgreeInv
<1>2. \A p \in {offer'} : worker' # "idle" => Stored(p)'
    BY <1>1, RequestsStored, StoredStays
<1>3. \A request \in flying' : Stored(request[2])'
    BY <1>1, RequestsStored, StoredStays
<1>4. \A v \in onDisk' : v \in Inboxes
    BY DEF Inv, Typed
<1>5. \A v \in onDisk' : Agrees(v)'
    BY <1>1, <1>4, StatesAgree, AgreesStays
<1> QED
    BY <1>2, <1>3, <1>5, EntriesKept DEF AgreeInv

\* The inbox shows only what is raised and not resolved, whatever copies of
\* requests arrive how late, as long as no delivered entry is lost with the power
\* (attention_projection.rs: project, apply).
THEOREM ShownIsUnresolved ==
    ASSUME EntriesLast
    PROVE  Spec => []ShowsOnlyUnresolved
<1>1. Init => AgreeInv
    BY DEF Init, AgreeInv, WholeBut, Agrees
<1>2. Inv /\ Inv' /\ AgreeInv /\ [Next]_vars => AgreeInv'
    BY NextKeepsAgree
<1>3. Inv /\ AgreeInv => ShowsOnlyUnresolved
    BY DEF Inv, Held, AgreeInv, Agrees, ShowsOnlyUnresolved
<1> QED
    BY <1>1, <1>2, <1>3, InvAlways, PTL DEF Spec

-----------------------------------------------------------------------------
(* The outbox and the receiver implement ProjectionLog, under the same     *)
(* condition: a delivered entry is not lost with the power.                *)

\* The log that ProjectionLog speaks of.
Queued == [i \in Whole |-> entries[i].change]

\* No state a loss of power can leave is ahead of the inbox.
NoneAhead == \A v \in onDisk : v.cursor.sequence <= inbox.cursor.sequence

\* The entries that are not torn are a prefix of the outbox.
LEMMA QueuedIsSequence ==
    ASSUME Inv, WholeBut
    PROVE  /\ Queued \in Seq(Changes)
           /\ Len(Queued) \in 0..Len(entries)
           /\ Whole = 1..Len(Queued)
           /\ EntriesReadable => Len(Queued) = Len(entries)
<1>0. entries \in Seq(EntryFiles) /\ Len(entries) \in Nat
    BY DEF Inv, Typed
<1>1. PICK n \in 0..Len(entries) : Whole = 1..n /\ (EntriesReadable => n = Len(entries))
  <2>1. CASE EntriesReadable
    <3>1. Whole = 1..Len(entries)
        BY <2>1 DEF Whole, EntriesReadable
    <3> QED
        BY <1>0, <3>1
  <2>2. CASE ~EntriesReadable
    <3>1. PICK k \in 1..Len(entries) : entries[k].file = "torn"
        BY <2>2 DEF EntriesReadable
    <3>2. k = Len(entries)
        BY <1>0, <3>1 DEF WholeBut
    <3>3. Whole = 1..Len(entries) - 1
        BY <1>0, <3>1, <3>2 DEF WholeBut, Whole
    <3> QED
        BY <1>0, <2>2, <3>1, <3>3
  <2> QED
      BY <2>1, <2>2
<1>2. \A i \in 1..n : entries[i].change \in Changes
  <2>1. \A i \in 1..n : entries[i] \in EntryFiles
      BY <1>0
  <2> QED
      BY <2>1 DEF EntryFiles
<1>3. Queued = [i \in 1..n |-> entries[i].change] /\ n \in Nat
    BY <1>0, <1>1 DEF Queued
<1>4. Queued \in Seq(Changes) /\ Len(Queued) = n
    BY <1>2, <1>3
<1> QED
    BY <1>1, <1>4

LEMMA QueuedStays ==
    ASSUME EntriesStay,
           \A i \in 1..Len(entries') : entries'[i].file # "torn" =>
               i \in 1..Len(entries) /\ entries[i].file # "torn"
    PROVE  Queued' = Queued
<1>1. Whole' = Whole
    BY DEF EntriesStay, Whole
<1>2. \A i \in Whole : entries'[i].change = entries[i].change
    BY DEF EntriesStay, Whole
<1> QED
    BY <1>1, <1>2 DEF Queued

(***************************************************************************)
(* The producer queues a change, or nothing that can be read.              *)
(***************************************************************************)
LEMMA ProducerQueues ==
    ASSUME EntriesLast, Inv, Inv', AgreeInv, Producer
    PROVE  \/ Queued' = Queued
           \/ \E c \in Changes : Queued' = Append(Queued, c)
<1>0. /\ entries \in Seq(EntryFiles) /\ Len(entries) \in Nat
      /\ \A i \in 1..Len(entries) : entries[i] \in EntryFiles
    BY DEF Inv, Typed
<1>1. EntriesStay /\ WholeBut /\ WholeBut'
    BY EntriesKept DEF Next, AgreeInv
<1>2. ASSUME NEW m \in Mutations, EnqueueAgain(m) PROVE Queued' = Queued
  <2>1. Len(entries') = Len(entries)
      BY <1>0, <1>2 DEF EnqueueAgain
  <2>2. \A i \in 1..Len(entries) : entries[i].file # "torn"
      BY <1>2 DEF EnqueueAgain, EntriesReadable
  <2> QED
      BY <1>1, <2>1, <2>2, QueuedStays
<1>3. ASSUME NEW m \in Mutations, NEW change \in Changes, NEW file \in FileStates,
             EnqueueNew(m, change, file)
      PROVE  Queued' = Queued \/ Queued' = Append(Queued, change)
  <2>1. /\ EntriesReadable
        /\ entries' = Append(entries, [mutation |-> m, change |-> change, file |-> file])
      BY <1>3 DEF EnqueueNew
  <2>2. /\ Len(entries') = Len(entries) + 1
        /\ \A j \in 1..Len(entries) : entries'[j] = entries[j]
        /\ entries'[Len(entries) + 1].file = file
        /\ entries'[Len(entries) + 1].change = change
      BY <1>0, <2>1
  <2>3. CASE file = "torn"
    <3>1. ASSUME NEW i \in 1..Len(entries'), entries'[i].file # "torn"
          PROVE  i \in 1..Len(entries) /\ entries[i].file # "torn"
        BY <1>0, <2>2, <2>3, <3>1
    <3> QED
        BY <1>1, <3>1, QueuedStays
  <2>4. CASE file # "torn"
    <3>1. Queued \in Seq(Changes) /\ Len(Queued) = Len(entries) /\ Whole = 1..Len(entries)
        BY <1>1, <2>1, QueuedIsSequence
    <3>2. Whole' = 1..Len(entries) + 1
        BY <1>0, <2>1, <2>2, <2>4 DEF Whole, EntriesReadable
    <3>3. Queued' = [i \in 1..Len(entries) + 1 |-> entries'[i].change]
        BY <3>2 DEF Queued
    <3>4. \A i \in 1..Len(entries) : Queued[i] = entries[i].change
        BY <3>1 DEF Queued
    <3>5. /\ Append(Queued, change) \in Seq(Changes)
          /\ Len(Append(Queued, change)) = Len(entries) + 1
          /\ \A i \in 1..Len(entries) : Append(Queued, change)[i] = entries[i].change
          /\ Append(Queued, change)[Len(entries) + 1] = change
        BY <3>1, <3>4, AppendProperties
    <3>6. \A i \in 1..Len(entries) + 1 : Append(Queued, change)[i] = entries'[i].change
        BY <1>0, <2>2, <3>5
    <3>7. Queued' \in Seq(Changes) /\ Len(Queued') = Len(entries) + 1
      <4>1. \A i \in 1..Len(entries) + 1 : entries'[i].change \in Changes
        <5>1. \A i \in 1..Len(entries) : entries[i].change \in Changes
            BY <1>0 DEF EntryFiles
        <5> QED
            BY <1>0, <2>2, <5>1
      <4> QED
          BY <1>0, <3>3, <4>1
    <3>8. \A i \in 1..Len(Queued') : Queued'[i] = Append(Queued, change)[i]
        BY <3>3, <3>6, <3>7
    <3> QED
        BY <3>5, <3>7, <3>8, SeqEqual
  <2> QED
      BY <2>3, <2>4
<1>4. ASSUME NEW m \in Mutations, NEW change \in Changes,
             Enqueue(m, change) \/ EnqueueCut(m, change)
      PROVE  Queued' = Queued \/ Queued' = Append(Queued, change)
    BY <1>3, <1>4 DEF Enqueue, EnqueueCut, FileStates
<1> QED
    BY <1>2, <1>4 DEF Producer

LEMMA OthersKeepQueued ==
    ASSUME EntriesLast, Inv, Inv', AgreeInv, [Next]_vars, Producer => PowerLoss
    PROVE  Queued' = Queued
<1>1. CASE UNCHANGED entries
    BY <1>1 DEF Queued, Whole
<1>2. CASE PowerLoss
  <2>1. Len(entries) \in Nat /\ Len(entries') \in Nat
      BY DEF Inv, Typed
  <2>2. EntriesStay
      BY EntriesKept
  <2>3. ASSUME NEW i \in 1..Len(entries'), entries'[i].file # "torn"
        PROVE  i \in 1..Len(entries) /\ entries[i].file # "torn"
      BY <1>2, <2>1, <2>3, PowerSparesEntries
  <2> QED
      BY <2>2, <2>3, QueuedStays
<1>3. (Publish \/ Acknowledge \/ AcknowledgeCut \/ GiveUp) => UNCHANGED entries
    BY DEF Publish, Acknowledge, AcknowledgeCut, Acknowledges, GiveUp
<1>4. (Receive \/ ReceiveLate \/ EditorClears \/ ReceiverStops) => UNCHANGED entries
    BY DEF Receive, ReceiveLate, EditorClears, ReceiverStops, brokerVars
<1> QED
    BY <1>1, <1>2, <1>3, <1>4 DEF Next, vars

(***************************************************************************)
(* What a step of the receiver does to the cursor.                         *)
(***************************************************************************)
LEMMA ProjectMovesOn ==
    ASSUME Inv, WholeBut, NoneAhead, NEW p, p \in Projections, Stored(p),
           NEW accepted \in BOOLEAN, Project(p, accepted)
    PROVE  /\ NoneAhead'
           /\ \/ inbox'.cursor.sequence = inbox.cursor.sequence
              \/ /\ inbox'.cursor.sequence = inbox.cursor.sequence + 1
                 /\ inbox'.cursor.sequence <= Len(Queued)
<1>1. /\ inbox \in Inboxes /\ onDisk \subseteq Inboxes /\ inbox \in onDisk
      /\ inbox.cursor.sequence \in Nat /\ p.sequence \in Nat
      /\ \A v \in onDisk : v.cursor.sequence \in Nat
    BY CursorIsNat DEF Inv, Typed, Held, Projections
<1>2. p.sequence <= Len(Queued)
    BY QueuedIsSequence DEF Stored, Whole
<1>3. CASE UNCHANGED <<inbox, onDisk>>
    BY <1>3 DEF NoneAhead
<1>4. CASE inbox' = Projected(p) /\ onDisk' \subseteq onDisk \union {Projected(p)} /\ ~LeavesGap(p)
  <2>1. \/ Projected(p) = inbox
        \/ /\ Projected(p).cursor = p
           /\ p.sequence = inbox.cursor.sequence + 1
      BY <1>1, <1>4 DEF Projected, LeavesGap
  <2> QED
      BY <1>1, <1>2, <1>4, <2>1 DEF NoneAhead
<1> QED
    BY <1>3, <1>4 DEF Project, Persist, PersistFails

(***************************************************************************)
(* The other steps leave the cursor alone, a loss of power aside.          *)
(***************************************************************************)
LEMMA CursorStays ==
    ASSUME Inv, NoneAhead, [Next]_vars, ~Receive, ~ReceiveLate, ~PowerLoss
    PROVE  NoneAhead' /\ inbox'.cursor = inbox.cursor
<1>1. CASE EditorClears
  <2>1. PICK gone \in SUBSET inbox.items :
            LET next == [inbox EXCEPT !.items = @ \ gone]
            IN  Persist(next) \/ PersistFails(next)
      BY <1>1 DEF EditorClears
  <2>2. [inbox EXCEPT !.items = @ \ gone].cursor = inbox.cursor
      BY DEF Inv, Typed, Inboxes
  <2>3. \/ UNCHANGED <<inbox, onDisk>>
        \/ /\ inbox' = [inbox EXCEPT !.items = @ \ gone]
           /\ onDisk' \subseteq onDisk \union {inbox'}
      BY <2>1 DEF Persist, PersistFails
  <2>4. inbox.cursor.sequence \in Nat
      BY CursorIsNat DEF Inv, Typed
  <2>5. inbox'.cursor = inbox.cursor
      BY <2>2, <2>3
  <2>6. ASSUME NEW v \in onDisk' PROVE v.cursor.sequence <= inbox'.cursor.sequence
    <3>1. v \in onDisk \/ v = inbox'
        BY <2>3
    <3> QED
        BY <2>4, <2>5, <3>1 DEF NoneAhead
  <2> QED
      BY <2>5, <2>6 DEF NoneAhead
<1>2. CASE UNCHANGED <<inbox, onDisk>>
    BY <1>2 DEF NoneAhead
<1>3. Producer => UNCHANGED <<inbox, onDisk>>
    BY DEF Producer, EnqueueAgain, Enqueue, EnqueueCut, EnqueueNew
<1>4. (Publish \/ Acknowledge \/ AcknowledgeCut \/ GiveUp \/ ReceiverStops) =>
          UNCHANGED <<inbox, onDisk>>
    BY DEF Publish, Acknowledge, AcknowledgeCut, Acknowledges, GiveUp, ReceiverStops
<1> QED
    BY <1>1, <1>2, <1>3, <1>4 DEF Next, vars

\* What is known acknowledged grows by one, which the inbox holds already.
LEMMA AcksStep ==
    ASSUME Inv, [Next]_vars, ~PowerLoss
    PROVE  \/ acks' = acks
           \/ /\ Acknowledge \/ AcknowledgeCut
              /\ Len(acks') = Len(acks) + 1
              /\ Len(acks) < inbox.cursor.sequence
<1>1. ASSUME NEW file, Acknowledges(file), acks' # acks
      PROVE  Len(acks') = Len(acks) + 1 /\ Len(acks) < inbox.cursor.sequence
  <2>1. /\ worker = "answered" /\ Wire(Pending) = offer
        /\ acks' = Append(acks, [digest |-> offer, file |-> file])
      BY <1>1 DEF Acknowledges
  <2>2. acks \in Seq(AckFiles) /\ Len(acks) \in Nat
      BY DEF Inv, Typed
  <2>3. offer.sequence = Len(acks) + 1
      BY <2>1 DEF Wire, Pending
  <2>4. offer.sequence <= inbox.cursor.sequence /\ inbox.cursor.sequence \in Nat
      BY <2>1, CursorIsNat DEF Inv, Typed, Held
  <2> QED
      BY <2>1, <2>2, <2>3, <2>4
<1>2. (Acknowledge \/ AcknowledgeCut) => \E file : Acknowledges(file)
    BY DEF Acknowledge, AcknowledgeCut
<1>3. (Producer \/ Publish \/ GiveUp) => acks' = acks
    BY DEF Producer, EnqueueAgain, Enqueue, EnqueueCut, EnqueueNew, Publish, GiveUp
<1>4. (Receive \/ ReceiveLate \/ EditorClears \/ ReceiverStops) => acks' = acks
    BY DEF Receive, ReceiveLate, EditorClears, ReceiverStops, brokerVars
<1> QED
    BY <1>1, <1>2, <1>3, <1>4 DEF Next, vars

(***************************************************************************)
(* A loss of power is a step of the log back to what was told at least.    *)
(***************************************************************************)
LEMMA PowerLossForgets ==
    ASSUME EntriesLast, Inv, Inv', AgreeInv, NoneAhead, PowerLoss
    PROVE  NoneAhead' /\ Log!Forget
<1>1. /\ inbox' \in onDisk /\ onDisk' = {inbox'}
      /\ acks \in Seq(AckFiles) /\ acks' \in Survivors(acks) /\ Len(acks) \in Nat
      /\ \A v \in onDisk : v.cursor.sequence \in Nat
      /\ inbox \in onDisk
    BY CursorIsNat DEF PowerLoss, Inv, Typed, Held
<1>2. Len(acks') \in Nat /\ Len(acks') <= Len(acks)
  <2>1. /\ \A f \in AckFiles : f.file \in FileStates
        /\ \A f \in AckFiles, state \in FileStates : [f EXCEPT !.file = state] \in AckFiles
      BY DEF AckFiles
  <2>2. acks' \in Seq(AckFiles) /\ Len(acks') <= Len(acks)
      BY <1>1, <2>1, SurvivorsArePrefix
  <2> QED
      BY <2>2
<1>3. inbox'.cursor.sequence \in Len(acks)..inbox.cursor.sequence
    BY <1>1 DEF NoneAhead, Inv, Held, AckedIsDurable
<1>4. NoneAhead'
    BY <1>1 DEF NoneAhead
<1>5. Queued' = Queued
    BY OthersKeepQueued DEF Next
<1> QED
    BY <1>1, <1>2, <1>3, <1>4, <1>5 DEF Log!Forget, Queued

(***************************************************************************)
(* Every step is a step of the log, or leaves it as it is.                 *)
(***************************************************************************)
LEMMA StepsAreLogSteps ==
    ASSUME EntriesLast, Inv, Inv', AgreeInv, NoneAhead, [Next]_vars
    PROVE  NoneAhead' /\ [Log!LogNext]_Log!logVars
<1>0. /\ WholeBut /\ Agrees(inbox) /\ Len(acks) \in Nat /\ inbox.cursor.sequence \in Nat
    BY CursorIsNat DEF AgreeInv, Inv, Typed, Held
<1>1. CASE PowerLoss
    BY <1>1, PowerLossForgets DEF Log!LogNext
<1>2. CASE Receive \/ ReceiveLate
  <2>1. PICK p \in Projections, accepted \in BOOLEAN : Stored(p) /\ Project(p, accepted)
    <3>1. CASE Receive
        BY <3>1 DEF Receive, Inv, Typed, AgreeInv
    <3>2. CASE ReceiveLate
        BY <3>2 DEF ReceiveLate, Inv, Typed, AgreeInv
    <3> QED
        BY <1>2, <3>1, <3>2
  <2>2. /\ NoneAhead'
        /\ \/ inbox'.cursor.sequence = inbox.cursor.sequence
           \/ /\ inbox'.cursor.sequence = inbox.cursor.sequence + 1
              /\ inbox'.cursor.sequence <= Len(Queued)
      BY <1>0, <2>1, ProjectMovesOn
  <2>3. Queued \in Seq(Changes) /\ Len(Queued) \in Nat
      BY <1>0, QueuedIsSequence DEF Inv, Typed
  <2>4. UNCHANGED acks /\ Queued' = Queued
      BY <1>2 DEF Receive, ReceiveLate, brokerVars, Queued, Whole
  <2>5. CASE inbox'.cursor.sequence = inbox.cursor.sequence
      BY <2>2, <2>4, <2>5 DEF Log!logVars, Queued
  <2>6. CASE /\ inbox'.cursor.sequence = inbox.cursor.sequence + 1
             /\ inbox'.cursor.sequence <= Len(Queued)
    <3>1. inbox.cursor.sequence < Len(Queued)
        BY <1>0, <2>3, <2>6
    <3>2. Log!Apply
        BY <2>4, <2>6, <3>1 DEF Log!Apply, Queued
    <3> QED
        BY <2>2, <3>2 DEF Log!LogNext
  <2> QED
      BY <2>2, <2>5, <2>6
<1>3. CASE ~Receive /\ ~ReceiveLate /\ ~PowerLoss
  <2>1. NoneAhead' /\ inbox'.cursor.sequence = inbox.cursor.sequence
      BY <1>3, CursorStays
  <2>2. CASE Producer
    <3>1. acks' = acks
        BY <2>2 DEF Producer, EnqueueAgain, Enqueue, EnqueueCut, EnqueueNew
    <3>2. CASE Queued' = Queued
        BY <2>1, <3>1, <3>2 DEF Log!logVars, Queued
    <3>3. ASSUME NEW c \in Changes, Queued' = Append(Queued, c) PROVE Log!Queue
        BY <2>1, <3>1, <3>3 DEF Log!Queue, Queued
    <3>4. Queued' = Queued \/ \E c \in Changes : Queued' = Append(Queued, c)
        BY <2>2, ProducerQueues
    <3> QED
        BY <2>1, <3>2, <3>3, <3>4 DEF Log!LogNext
  <2>3. CASE ~Producer
    <3>1. Queued' = Queued
        BY <2>3, OthersKeepQueued
    <3>2. CASE acks' = acks
        BY <2>1, <3>1, <3>2 DEF Log!logVars, Queued
    <3>3. CASE Len(acks') = Len(acks) + 1 /\ Len(acks) < inbox.cursor.sequence
      <4>1. Log!Tell
          BY <2>1, <3>1, <3>3 DEF Log!Tell, Queued
      <4> QED
          BY <2>1, <4>1 DEF Log!LogNext
    <3> QED
        BY <1>3, <2>1, <3>2, <3>3, AcksStep
  <2> QED
      BY <2>2, <2>3
<1> QED
    BY <1>1, <1>2, <1>3

LEMMA StartsAsLog == Init => Log!LogInit /\ NoneAhead
<1> SUFFICES ASSUME Init PROVE Log!LogInit /\ NoneAhead
    OBVIOUS
<1>1. entries = <<>> /\ acks = <<>> /\ inbox.cursor.sequence = 0 /\ onDisk = {inbox}
    BY DEF Init, NoProjection
<1>2. Whole = {}
    BY <1>1 DEF Whole
<1>3. Queued = <<>>
    BY <1>2 DEF Queued
<1> QED
    BY <1>1, <1>3 DEF Log!LogInit, Queued, NoneAhead

\* As long as no delivered entry is lost with the power, the broker's outbox and
\* the receiver's inbox are the log that ProjectionLog promises: what is queued
\* takes effect in order and once, and what was acknowledged is never lost
\* (attention.rs: enqueue, acknowledge; attention_projection.rs: project).
THEOREM OutboxImplementsLog ==
    ASSUME EntriesLast
    PROVE  Spec => KeepsLog
<1>1. Init => AgreeInv
    BY DEF Init, AgreeInv, WholeBut, Agrees
<1>2. Init => Log!LogInit /\ NoneAhead
    BY StartsAsLog
<1>3. Inv /\ Inv' /\ AgreeInv /\ [Next]_vars => AgreeInv'
    BY NextKeepsAgree
<1>4. Inv /\ Inv' /\ AgreeInv /\ NoneAhead /\ [Next]_vars =>
          NoneAhead' /\ [Log!LogNext]_Log!logVars
    BY StepsAreLogSteps
<1> QED
    BY <1>1, <1>2, <1>3, <1>4, InvAlways, PTL DEF Spec, KeepsLog, Log!LogSpec
=============================================================================
