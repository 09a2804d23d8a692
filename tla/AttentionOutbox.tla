--------------------------- MODULE AttentionOutbox ---------------------------
(***************************************************************************)
(* The broker's ordered Attention projection: the outbox that the broker   *)
(* keeps on disk (skills-core, broker/attention.rs), its delivery worker   *)
(* (bin/control/attention.rs), and the receiver that applies each entry    *)
(* together with its cursor (capture-service, attention_projection.rs).    *)
(*                                                                         *)
(* Both sides write files, so the model tells apart what a file system     *)
(* shows (`entries`, `acks`, `inbox`) and what a loss of power can turn it *)
(* into (the file states, `onDisk`).                                       *)
(***************************************************************************)
EXTENDS Naturals, Sequences, FiniteSets

CONSTANTS
    Mutations,      \* identities of the broker's source mutations
    Subjects,       \* Sessions and Runs
    Conditions,     \* conditions of one subject: kind and operation id
    MaxEntries,     \* bound of the outbox (4096 in the code)
    MaxMishaps,     \* bound on faults of all kinds
    Faults          \* which kinds of fault happen

ASSUME OutboxAssumption ==
    /\ MaxEntries \in Nat /\ MaxMishaps \in Nat
    /\ Faults \subseteq {"entry_torn", "entry_unsynced", "ack_torn", "ack_unsynced",
                         "persist", "delay", "power"}

VARIABLES
    entries,    \* files of entries/, by sequence number
    acks,       \* files of acks/, by sequence number
    worker,     \* delivery worker: "idle", "waiting", "answered"
    offer,      \* the projection the worker last read and published
    flying,     \* requests nobody waits for any more, not yet handled
    inbox,      \* attention.json as the receiver reads it
    onDisk,     \* what attention.json may be after a loss of power
    mishaps     \* faults so far

brokerVars == <<entries, acks, worker, offer>>
vars == <<entries, acks, worker, offer, flying, inbox, onDisk, mishaps>>

Items == Subjects \X Conditions

Changes == [op : {"upsert", "clear"}, item : Items]
             \union [op : {"clear_subject"}, subject : Subjects]

\* A file that must not exist before: created, then filled, then synced
\* together with its directory.  "written" is filled but not known to be synced.
FileStates == {"torn", "written", "synced"}

NoProjection == [sequence |-> 0]
Projections == [sequence : Nat \ {0}, change : Changes]

\* The Projection of an entry as it is sent and hashed; the mutation's identity
\* is not part of it.
Wire(i) == [sequence |-> i, change |-> entries[i].change]

-----------------------------------------------------------------------------
(* The outbox *)

EntriesReadable == \A i \in 1..Len(entries) : entries[i].file # "torn"

AcksReadable ==
    \A i \in 1..Len(acks) : i <= Len(entries) =>
        acks[i].file # "torn" /\ acks[i].digest = Wire(i)

Unacknowledged == Len(acks) < Len(entries)
Pending == Len(acks) + 1

Fault(kind) ==
    /\ kind \in Faults /\ mishaps < MaxMishaps
    /\ mishaps' = mishaps + 1

\* Mutant: an entry whose sync failed is not taken for queued.
RecordedSynced(m) ==
    \E i \in 1..Len(entries) : entries[i].mutation = m /\ entries[i].file = "synced"

Recorded(m) == \E i \in 1..Len(entries) : entries[i].mutation = m

\* enqueue of an identity the outbox has: the entry is synced once more.  With
\* another change it is refused.
EnqueueAgain(m) ==
    /\ EntriesReadable
    /\ \E i \in 1..Len(entries) :
          /\ entries[i].mutation = m
          /\ entries' = [entries EXCEPT ![i].file = "synced"]
    /\ UNCHANGED <<acks, worker, offer, flying, inbox, onDisk, mishaps>>

EnqueueNew(m, change, file) ==
    /\ EntriesReadable
    /\ ~Recorded(m)
    /\ Len(entries) < MaxEntries
    /\ entries' = Append(entries, [mutation |-> m, change |-> change, file |-> file])
    /\ UNCHANGED <<acks, worker, offer, flying, inbox, onDisk>>

Enqueue(m, change) == EnqueueNew(m, change, "synced") /\ UNCHANGED mishaps

\* The write fails, or the process is terminated, before the file is filled or
\* before it is synced; the caller has no success to rely on.
EnqueueCut(m, change) ==
    \/ EnqueueNew(m, change, "torn") /\ Fault("entry_torn")
    \/ EnqueueNew(m, change, "written") /\ Fault("entry_unsynced")

-----------------------------------------------------------------------------
(* The delivery worker *)

\* deliver_next reads the oldest pending entry and publishes it.
Publish ==
    /\ worker = "idle"
    /\ EntriesReadable /\ AcksReadable /\ Unacknowledged
    /\ worker' = "waiting"
    /\ offer' = Wire(Pending)
    /\ UNCHANGED <<entries, acks, flying, inbox, onDisk, mishaps>>

\* Mutant: sent is taken for answered.
AcknowledgesUnanswered(file) ==
    /\ worker # "idle"
    /\ worker' = "idle"
    /\ IF EntriesReadable /\ AcksReadable /\ Unacknowledged /\ Wire(Pending) = offer
       THEN acks' = Append(acks, [digest |-> offer, file |-> file])
       ELSE UNCHANGED acks
    /\ UNCHANGED <<entries, offer, flying, inbox, onDisk>>

\* Only the exact oldest pending entry is acknowledged.
Acknowledges(file) ==
    /\ worker = "answered"
    /\ worker' = "idle"
    /\ IF EntriesReadable /\ AcksReadable /\ Unacknowledged /\ Wire(Pending) = offer
       THEN acks' = Append(acks, [digest |-> offer, file |-> file])
       ELSE UNCHANGED acks
    /\ UNCHANGED <<entries, offer, flying, inbox, onDisk>>

Acknowledge == Acknowledges("synced") /\ UNCHANGED mishaps

AcknowledgeCut ==
    \/ Acknowledges("torn") /\ Fault("ack_torn")
    \/ Acknowledges("written") /\ Fault("ack_unsynced")

\* The exchange ends without an answer: a deadline, a lost connection, a broker
\* that stops.  The receiver's worker may already have the request, and handles
\* it later.
GiveUp ==
    /\ worker # "idle" /\ Fault("delay")
    /\ worker' = "idle"
    /\ \/ UNCHANGED flying
       \/ worker = "waiting" /\ flying' = flying \union {<<mishaps, offer>>}
    /\ UNCHANGED <<entries, acks, offer, inbox, onDisk>>

-----------------------------------------------------------------------------
(* The receiver *)

\* apply: the items after a change.
After(change, items) ==
    IF change.op = "upsert" THEN items \union {change.item}
    ELSE IF change.op = "clear" THEN items \ {change.item}
    ELSE {i \in items : i[1] # change.subject}

\* Mutant: an identical retry conflicts too.
ConflictsAlways(p) == p.sequence = inbox.cursor.sequence

Conflicts(p) == p.sequence = inbox.cursor.sequence /\ p # inbox.cursor
LeavesGap(p) == p.sequence > inbox.cursor.sequence + 1

\* Mutant: an old entry is applied again.
ProjectedAlways(p) == [cursor |-> p, items |-> After(p.change, inbox.items)]

\* A delivery that is not the next one leaves everything as it is; its state is
\* stored all the same, because the rename that made it visible may not have
\* been synced.
Projected(p) ==
    IF p.sequence <= inbox.cursor.sequence THEN inbox
    ELSE [cursor |-> p, items |-> After(p.change, inbox.items)]

\* persist: a new file is synced, renamed, and its directory synced.
Persist(next) == inbox' = next /\ onDisk' = {next} /\ UNCHANGED mishaps

\* It fails before the rename, or after it.
PersistFails(next) ==
    /\ Fault("persist")
    /\ \/ UNCHANGED <<inbox, onDisk>>
       \/ inbox' = next /\ onDisk' = onDisk \union {next}

\* Mutant: a stale delivery is answered at once.
ProjectStaleUnstored(p, accepted) ==
    LET stale == p.sequence <= inbox.cursor.sequence
    IN  \/ /\ accepted /\ stale /\ ~Conflicts(p)
           /\ UNCHANGED <<inbox, onDisk, mishaps>>
        \/ /\ accepted /\ ~stale /\ ~LeavesGap(p)
           /\ Persist(Projected(p))
        \/ /\ ~accepted /\ ~stale /\ ~LeavesGap(p)
           /\ PersistFails(Projected(p))
        \/ /\ ~accepted /\ (Conflicts(p) \/ LeavesGap(p))
           /\ UNCHANGED <<inbox, onDisk, mishaps>>

\* project, with the answer it gives.
Project(p, accepted) ==
    \/ /\ accepted /\ ~Conflicts(p) /\ ~LeavesGap(p)
       /\ Persist(Projected(p))
    \/ /\ ~accepted /\ ~Conflicts(p) /\ ~LeavesGap(p)
       /\ PersistFails(Projected(p))
    \/ /\ ~accepted /\ (Conflicts(p) \/ LeavesGap(p))
       /\ UNCHANGED <<inbox, onDisk, mishaps>>

Receive ==
    /\ worker = "waiting"
    /\ \E accepted \in BOOLEAN :
          /\ Project(offer, accepted)
          /\ worker' = IF accepted THEN "answered" ELSE "idle"
    /\ UNCHANGED <<entries, acks, offer, flying>>

ReceiveLate ==
    /\ \E request \in flying, accepted \in BOOLEAN :
          /\ Project(request[2], accepted)
          /\ flying' = flying \ {request}
    /\ UNCHANGED brokerVars

\* clear, clear_session_kind and clear_session, called by an editor: some items
\* of one subject go.
EditorClears ==
    /\ \E s \in Subjects, gone \in SUBSET inbox.items :
          /\ gone # {} /\ \A i \in gone : i[1] = s
          /\ LET next == [inbox EXCEPT !.items = @ \ gone]
             IN  Persist(next) \/ PersistFails(next)
    /\ UNCHANGED <<brokerVars, flying>>

\* The capture service stops and starts again.
ReceiverStops ==
    /\ Fault("delay")
    /\ worker' = IF worker = "waiting" THEN "idle" ELSE worker
    /\ flying' = {}
    /\ UNCHANGED <<entries, acks, offer, inbox, onDisk>>

-----------------------------------------------------------------------------
(* Loss of power *)

\* What a file that is still there can be.
Kept(file) == IF file = "written" THEN {"torn", "synced"} ELSE {file}

\* Files made since the directory was last synced may be gone.
Survivors(files) ==
    UNION {{[i \in 1..n |-> [files[i] EXCEPT !.file = kept[i]]] :
               kept \in {k \in [1..n -> FileStates] : \A i \in 1..n : k[i] \in Kept(files[i].file)}} :
           n \in {k \in 0..Len(files) : \A i \in k + 1..Len(files) : files[i].file # "synced"}}

PowerLoss ==
    /\ Fault("power")
    /\ entries' \in Survivors(entries)
    /\ acks' \in Survivors(acks)
    /\ worker' = "idle" /\ flying' = {} /\ UNCHANGED offer
    /\ inbox' \in onDisk /\ onDisk' = {inbox'}

-----------------------------------------------------------------------------

Init ==
    /\ entries = <<>> /\ acks = <<>>
    /\ worker = "idle" /\ offer = NoProjection
    /\ flying = {}
    /\ inbox = [cursor |-> NoProjection, items |-> {}]
    /\ onDisk = {inbox}
    /\ mishaps = 0

Producer ==
    \E m \in Mutations :
        \/ EnqueueAgain(m)
        \/ \E change \in Changes : Enqueue(m, change) \/ EnqueueCut(m, change)

Next ==
    \/ Producer
    \/ Publish \/ Acknowledge \/ AcknowledgeCut \/ GiveUp
    \/ Receive \/ ReceiveLate \/ EditorClears \/ ReceiverStops
    \/ PowerLoss

Spec == Init /\ [][Next]_vars

\* The delivery worker runs as long as the broker does and tries again for ever;
\* the receiver handles what it has read.
Fairness ==
    /\ WF_vars(Publish)
    /\ WF_vars(Receive)
    /\ WF_vars(Acknowledge \/ AcknowledgeCut)

FairSpec == Spec /\ Fairness

-----------------------------------------------------------------------------
(* Properties *)

EntryFiles == [mutation : Mutations, change : Changes, file : FileStates]
AckFiles == [digest : Projections, file : FileStates]
Inboxes == [cursor : Projections \union {NoProjection}, items : SUBSET Items]

\* Shape of the state.
TypeOK ==
    /\ entries \in Seq(EntryFiles) /\ Len(entries) <= MaxEntries
    /\ acks \in Seq(AckFiles)
    /\ worker \in {"idle", "waiting", "answered"}
    /\ offer \in Projections \union {NoProjection}
    /\ flying \subseteq Nat \X Projections
    /\ inbox \in Inboxes /\ onDisk \subseteq Inboxes
    /\ mishaps \in 0..MaxMishaps

\* An acknowledged entry is in every state the inbox can be in after a loss of
\* power: the receiver answers a retry only after storing its state again,
\* because the first attempt may have failed after the rename
\* (attention_projection.rs: project; attention.rs: acknowledge).
AckedIsDurable == \A v \in onDisk : Len(acks) <= v.cursor.sequence

\* An identity is queued at most once, a retry after a failed sync included
\* (attention.rs: enqueue).
EnqueuedOnce ==
    \A i, j \in 1..Len(entries) : entries[i].mutation = entries[j].mutation => i = j

Resolves(change, item) ==
    \/ change.op = "clear" /\ change.item = item
    \/ change.op = "clear_subject" /\ change.subject = item[1]

\* Raised by one of the first n entries and resolved by none since.
Unresolved(item, n) ==
    \E k \in 1..n :
        /\ entries[k].change = [op |-> "upsert", item |-> item]
        /\ \A j \in k + 1..n : ~Resolves(entries[j].change, item)

\* The inbox shows only conditions that were raised and that no entry up to the
\* cursor has resolved since, whatever copies of requests arrive how late
\* (attention_projection.rs: project and apply).
ShowsOnlyUnresolved ==
    \A item \in inbox.items : Unresolved(item, inbox.cursor.sequence)

\* A condition comes (back) into the inbox only by an entry that raises it and
\* moves the cursor on: a retry or a late copy never brings back what an editor
\* or a later entry has cleared.  A loss of power can (attention_projection.rs: project).
NeverResurrected ==
    [][\A item \in inbox'.items \ inbox.items :
          \/ PowerLoss
          \/ /\ inbox'.cursor.sequence = inbox.cursor.sequence + 1
             /\ inbox'.cursor.change = [op |-> "upsert", item |-> item]]_vars

\* The outbox and the receiver together are the log of ProjectionLog.  An entry
\* cut short is not in it: nobody can read it, and it is the last one.
Whole == {i \in 1..Len(entries) : entries[i].file # "torn"}

Log == INSTANCE ProjectionLog WITH
           log <- [i \in Whole |-> entries[i].change],
           applied <- inbox.cursor.sequence,
           told <- Len(acks)

KeepsLog == Log!LogSpec

\* Every queued entry is acknowledged in the end (control/attention.rs: start,
\* retrying for ever; attention.rs: deliver_next).
EveryEntryAcknowledged ==
    \A i \in 1..MaxEntries :
        i <= Len(entries) ~> i <= Len(acks) /\ acks[i].file # "torn"
=============================================================================
