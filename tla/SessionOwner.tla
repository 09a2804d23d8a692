---------------------------- MODULE SessionOwner ----------------------------
(* The lifecycle owner of one sandboxed Session (skills-core,              *)
(* launch_supervisor/lifecycle.rs, resume_dispatch.rs, key_authority.rs,   *)
(* conformance_monitor.rs): one thread that dispatches typed events, moves *)
(* the process tree between Running, Parked and Terminal, narrows the      *)
(* command gate, signs a chain of receipts about what it did and makes the *)
(* broker store them, across broker and controller losses.                 *)
(*                                                                         *)
(* A handler of the code is an operator that maps the owner's record to    *)
(* its next value; an event of the mailbox is an action.  `e' is the set   *)
(* of things that go wrong in the mechanics while a handler runs.          *)
EXTENDS Naturals, Sequences, FiniteSets, SequencesExt

CONSTANTS
    MaxRequests,     \* lifecycle requests the broker forwards (a bound)
    MaxLosses,       \* connections lost for another reason than a refusal (a bound)
    MaxPending,      \* MAX_PENDING_RECEIPTS
    Actions,         \* the lifecycle actions requested
    Faults,          \* what may go wrong in a mechanic
    Events,          \* what may happen to a Session besides requests
    Guarded,         \* the Session is behind a sender guard
    Monitored        \* the Session's host conformance is monitored

ASSUME OwnerAssumption ==
    /\ {MaxRequests, MaxLosses} \subseteq Nat /\ MaxPending \in Nat \ {0, 1, 2}
    /\ Actions \subseteq {"Park", "Resume", "Interrupt", "Disposal"}
    /\ Faults \subseteq {"stuck", "ambiguous", "exited", "revoke", "cleanup", "guard"}
    /\ Events \subseteq {"deadline", "exit", "controller", "conformance", "key", "halfopen"}
    /\ {Guarded, Monitored} \subseteq BOOLEAN

VARIABLES
    owner,    \* the SessionOwner and the resources it owns
    asked,    \* lifecycle requests sent to it, retransmitted at will
    stored,   \* receipts in the broker's durable chain
    link,     \* the broker's side of the channel: open, closed, quarantined
    catchup,  \* head the reconnect under way at the broker must reach
    losses    \* connections lost so far

vars == <<owner, asked, stored, link, catchup, losses>>

-----------------------------------------------------------------------------
(* Receipts *)

\* What the broker accepts after a receipt that reached `from'.
ValidTransition(from, r) ==
    <<from, r.kind, r.to>> \in
        {<<"Running", "Park", "Parked">>, <<"Parked", "Resume", "Running">>,
         <<"Running", "Interrupt", "Running">>, <<"Parked", "Interrupt", "Parked">>,
         <<"Running", "Disposal", "Terminal">>, <<"Parked", "Disposal", "Terminal">>}

\* The state an action leads to, "Invalid" where it is not defined.
Transition(state, act) ==
    CASE state = "Running" /\ act = "Park"                     -> "Parked"
      [] state = "Parked" /\ act = "Resume"                    -> "Running"
      [] act = "Interrupt" /\ state \in {"Running", "Parked"}  -> state
      [] act = "Disposal" /\ state \in {"Running", "Parked"}   -> "Terminal"
      [] OTHER                                                 -> "Invalid"

Tip(o) == Len(o.receipts)
Gap(o) == (Tip(o) - o.brokerHead) + Len(o.deferred)
Backlog(o) == Tip(o) # o.brokerHead \/ o.deferred # <<>>
Unsigned(o) == IF o.pending.phase = "Signing" THEN 1 ELSE 0
PendingCount(o) == Gap(o) + Unsigned(o)

Payload(kind, to, by) == [kind |-> kind, to |-> to, by |-> by]
Causal(cause) == Payload("Park", "Parked", cause)
\* The payload as it is signed, at the sequence it was given.
Receipt(pay, seq) == [kind |-> pay.kind, to |-> pay.to, by |-> pay.by, seq |-> seq]

NoOp == [phase |-> "None"]
\* An operation under way; its payload takes the sequence after the head.
Operation(o, pay, phase, respond, finish) ==
    [phase |-> phase, pay |-> pay, seq |-> Tip(o) + 1, index |-> 0,
     respond |-> respond, finish |-> finish]
Doing(o, act) == o.pending # NoOp /\ o.pending.pay.kind = act

\* Mutant: the answer of a preparation is taken whatever became of the Session.
PreparingAnyState(o) == Doing(o, "Resume") /\ o.pending.phase = "Applying"

Preparing(o) == Doing(o, "Resume") /\ o.pending.phase = "Applying" /\ o.state = "Parked"

Defer(o, pay) ==
    IF Gap(o) < MaxPending THEN [o EXCEPT !.deferred = Append(@, pay)] ELSE o

-----------------------------------------------------------------------------
(* The gate, the tree and the end of the Session *)

Revoke(o, e) == IF "revoke" \in e THEN o ELSE [o EXCEPT !.gate = FALSE]
Narrowed(o) == [o EXCEPT !.channel = IF @ = "Closed" THEN @ ELSE "Revoked"]
Shut(o, e) == [Revoke(o, e) EXCEPT !.channel = "Revoked"]
RevokeEnabled(o, e) ==
    IF o.channel = "Enabled" THEN [Revoke(o, e) EXCEPT !.channel = "Revoked"] ELSE o

\* ParkResult: how an attempted freeze of the whole tree ends.
ParkResult(o, e) ==
    IF o.tree = "gone" \/ {"ambiguous", "guard"} \intersect e # {} THEN "Ambiguous"
    ELSE IF "exited" \in e THEN "Terminal"
    ELSE IF "stuck" \in e /\ o.tree = "running" THEN "Running" ELSE "Parked"
AttemptPark(o, e) ==
    CASE ParkResult(o, e) = "Parked"    -> [o EXCEPT !.state = "Parked", !.tree = "frozen"]
      [] ParkResult(o, e) = "Running"   -> [o EXCEPT !.state = "Running"]
      [] ParkResult(o, e) = "Terminal"  -> [o EXCEPT !.tree = "gone"]
      [] ParkResult(o, e) = "Ambiguous" ->
            [o EXCEPT !.tree = IF @ = "gone" THEN @ ELSE "unknown"]

\* terminate_session: the capability is closed whatever happens to the tree.
Terminate(o, e) ==
    [o EXCEPT !.gate = FALSE, !.tree = IF "cleanup" \in e /\ @ # "gone" THEN "unknown" ELSE "gone"]

Quiesce(o) == [o EXCEPT !.relay = IF @ = "open" THEN "closing" ELSE @]
First(old, new) == IF old = "none" THEN new ELSE old

\* Mutant: the owner ends without waiting for its evidence.
FinishNow(o, finish) ==
    CASE finish = "none" -> o
      [] finish # "none" /\ o.relay \in {"open", "closing"} ->
            [o EXCEPT !.finishQuiet = First(@, finish)]
      [] finish # "none" /\ o.relay \notin {"open", "closing"} -> [o EXCEPT !.finished = finish]

\* Mutant: a finish asked for before the relay is quiet is dropped.
FinishForgotten(o, finish) ==
    IF finish # "none" /\ o.relay = "closed" THEN [o EXCEPT !.finished = finish] ELSE o

RequestFinish(o, finish) ==
    CASE finish = "none" -> o
      [] finish # "none" /\ ~o.quarantined /\ o.state = "Terminal" /\ Backlog(o) ->
            [o EXCEPT !.finishDrained = First(@, finish)]
      [] finish # "none" /\ (o.quarantined \/ o.state # "Terminal" \/ ~Backlog(o)) ->
            IF o.relay \in {"open", "closing"}
            THEN [o EXCEPT !.finishQuiet = First(@, finish)]
            ELSE [o EXCEPT !.finished = IF o.relay = "broken" THEN "err" ELSE finish]

\* A response that ends the Session once it is sent; others change nothing.
Reply(o, finish, head) ==
    IF finish = "none" THEN o
    ELSE [o EXCEPT !.replies = @ \union {[finish |-> finish, head |-> head, live |-> TRUE]}]
Failed(o, by, finish) ==
    Reply([o EXCEPT !.failed = @ \union {[by |-> by, finish |-> finish]}], finish, 0)

ForgetController(o) == [o EXCEPT !.lost = FALSE, !.lostPark = FALSE, !.settling = FALSE]

QuarantineMechanic(o, op, e) ==
    LET n == Terminate(Quiesce([ForgetController(o) EXCEPT
                 !.quarantined = TRUE, !.blocked = TRUE, !.queued = "none",
                 !.finishDrained = "none", !.pending = NoOp]), e)
        m == [n EXCEPT !.unproven = "cleanup" \in e, !.channel = "Closed",
                       !.state = IF "cleanup" \in e THEN @ ELSE "Terminal"]
    IN  IF op # NoOp /\ op.respond THEN Failed(m, op.pay.by, "err") ELSE RequestFinish(m, "err")

\* fail_mechanic_in_state: nothing happened, or the tree exited.
FailMechanic(o, e) ==
    Failed([RevokeEnabled(o, e) EXCEPT !.pending = NoOp, !.blocked = TRUE],
           o.pending.pay.by, "none")

FailPreparation(o, e) ==
    LET n == RevokeEnabled(o, e)
        m == FailMechanic([n EXCEPT !.channel = "Revoked"], e)
    IN  IF "guard" \in e \/ (o.channel = "Enabled" /\ "revoke" \in e)
        THEN QuarantineMechanic(n, o.pending, e)
        ELSE [m EXCEPT !.blocked = m.lost \/ m.unproven \/ Backlog(m)]

\* begin_terminal_receipt; with a backlog its operation fails at once.
BeginTerminalReceipt(o, finish) ==
    LET pay == Payload("Disposal", "Terminal", <<"event">>)
    IN  IF Backlog(o)
        THEN RequestFinish(Defer([o EXCEPT !.blocked = TRUE], pay), finish)
        ELSE [o EXCEPT !.pending = Operation(o, pay, "Signing", FALSE, finish)]

BeginTerminalEvent(o, finish, e) ==
    LET n == Terminate(Quiesce(ForgetController(o)), e)
        m == [n EXCEPT !.unproven = FALSE, !.state = "Terminal", !.channel = "Closed"]
    IN  CASE o.state = "Terminal" -> o
          [] o.state # "Terminal" /\ "cleanup" \in e ->
                RequestFinish([n EXCEPT !.unproven = TRUE, !.blocked = TRUE,
                                        !.channel = "Revoked"], "err")
          [] o.state # "Terminal" /\ "cleanup" \notin e ->
                IF o.pending # NoOp THEN [m EXCEPT !.queued = finish]
                ELSE BeginTerminalReceipt(m, finish)

TakeQueued(o) ==
    IF o.queued = "none" THEN o
    ELSE BeginTerminalReceipt([o EXCEPT !.queued = "none"], o.queued)

\* Mutant: a signed receipt is deferred once more.
UnrecordedAlways(op) == TRUE

\* A receipt that is signed keeps its place in the chain.
Unrecorded(op) == op.index = 0

\* The operation is taken back, and nothing is widened after it.
Aborted(o, e) == [RevokeEnabled(o, e) EXCEPT !.pending = NoOp, !.blocked = TRUE]
Told(o, op) ==
    IF op.respond THEN Failed(o, op.pay.by, op.finish) ELSE RequestFinish(o, op.finish)
Owing(o, op) == IF Unrecorded(op) THEN Defer(o, op.pay) ELSE o

\* A lost controller's Park is awaited only while there is a record of it.
Awaiting(o, op, owed) ==
    [o EXCEPT !.lostPark =
        @ /\ (op.pay.by # <<"controller">> \/ op.index # 0 \/ o.deferred # owed)]

\* A Resume that failed is followed by the Park that undid it.
Reparked(o, op, result, e) ==
    CASE result = "Parked"    ->
            TakeQueued(Told(Defer(o, Causal(IF op.phase = "Activating"
                                            THEN <<"inactive", op.pay.by[2]>>
                                            ELSE <<"unacknowledged", op.pay.by[2]>>)), op))
      [] result = "Running"   -> TakeQueued(Told(o, op))
      [] result = "Terminal"  ->
            BeginTerminalEvent([Told(o, op) EXCEPT !.queued = "none"], "ok", e)
      [] result = "Ambiguous" -> QuarantineMechanic(o, op, e)
FailResume(o, e) ==
    Reparked(Owing(AttemptPark(Narrowed(Revoke(Aborted(o, e), e)), e), o.pending), o.pending,
             IF "revoke" \in e THEN "Ambiguous" ELSE ParkResult(o, e), e)

\* fail_receipt_operation: the outcome stays owed as evidence.
FailReceipt(o, e) ==
    IF o.pending = NoOp THEN o
    ELSE IF Preparing(o) THEN FailPreparation(o, e)
    ELSE IF Doing(o, "Resume") /\ o.state # "Terminal" THEN FailResume(o, e)
    ELSE TakeQueued(Told(Awaiting(Owing(Aborted(o, e), o.pending), o.pending, o.deferred),
                         o.pending))

-----------------------------------------------------------------------------
(* Operations *)

Send(o, i) == [o EXCEPT !.wire = Append(@, i)]

\* Mutant: a durable Park does not start the settlement.
SettlesNever(o) == o

\* maybe_begin_controller_loss_settlement
MaybeSettle(o) ==
    IF /\ o.lost /\ ~o.lostPark /\ ~o.settling /\ o.state = "Parked"
       /\ o.conn = "Connected" /\ o.pending = NoOp /\ o.resending = 0
       /\ o.draining = NoOp /\ ~Backlog(o)
    THEN [o EXCEPT !.settling = TRUE] ELSE o

\* begin_caused_park and begin_controller_loss_park: a Park nobody asked for.
BeginCausedPark(o, cause, e) ==
    LET n == [o EXCEPT !.pending = Operation(o, Causal(cause), "Signing", FALSE, "none")]
    IN  IF Backlog(o) THEN FailReceipt(n, e) ELSE n

\* An admitted request in phase Applying, then signed unless evidence is owed.
Applying(o, q) ==
    [o EXCEPT !.pending = Operation(o, Payload(q.act, Transition(o.state, q.act), q.id),
                                    "Applying", TRUE,
                                    IF q.act = "Disposal" THEN "ok" ELSE "none")]
StartSigning(o, owed, e) ==
    IF owed THEN FailReceipt(o, e) ELSE [o EXCEPT !.pending.phase = "Signing"]

BeginPark(o, q, e) ==
    LET n == Shut(Applying(o, q), e)
        m == AttemptPark(n, e)
        result == ParkResult(n, e)
    IN  CASE result = "Running"   -> FailMechanic(m, e)
          [] result = "Terminal"  -> BeginTerminalEvent(FailMechanic(m, e), "ok", e)
          [] result = "Ambiguous" -> QuarantineMechanic(m, m.pending, e)
          [] result = "Parked"    ->
                IF "revoke" \in e THEN FailMechanic(m, e)
                ELSE StartSigning(m, Backlog(o), e)

BeginInterrupt(o, q, e) ==
    LET n == Applying(o, q)
    IN  CASE "ambiguous" \in e -> QuarantineMechanic(n, n.pending, e)
          [] "exited" \in e    ->
                BeginTerminalEvent([FailMechanic(n, e) EXCEPT !.tree = "gone"], "ok", e)
          [] "stuck" \in e     -> FailMechanic(n, e)
          [] {"ambiguous", "exited", "stuck"} \intersect e = {} ->
                StartSigning(n, Backlog(o), e)

BeginDisposal(o, q, e) ==
    LET n == Terminate(Quiesce(Applying(ForgetController(o), q)), e)
        m == [n EXCEPT !.unproven = FALSE, !.state = "Terminal", !.channel = "Closed"]
    IN  IF "cleanup" \in e
        THEN Failed([n EXCEPT !.unproven = TRUE, !.blocked = TRUE, !.channel = "Revoked",
                              !.pending = NoOp], q.id, "err")
        ELSE StartSigning(m, Backlog(o), e)

BeginControllerLossDisposal(o, e) ==
    LET n == Quiesce([o EXCEPT !.pending = Operation(o,
                 Payload("Disposal", "Terminal", <<"settled">>),
                 "Applying", FALSE, "ok")])
        m == Terminate(n, e)
    IN  IF "cleanup" \in e
        THEN [m EXCEPT !.unproven = TRUE, !.blocked = TRUE, !.pending = NoOp]
        ELSE StartSigning([m EXCEPT !.unproven = FALSE, !.lost = FALSE,
                                    !.state = "Terminal", !.channel = "Closed"],
                          Backlog(o), e)

CancelWait(o) ==
    IF o.wait = NoOp THEN o ELSE Failed([o EXCEPT !.wait = NoOp], o.wait.id, "none")

\* A Resume is prepared frozen; only its preparation thaws the tree.
BeginResume(o, q) == Applying(o, q)

\* The tree of a lost controller was frozen before, is frozen now, or is not.
ControllerGone(o, was, e) ==
    LET result == IF o.state = "Parked" THEN "Parked" ELSE ParkResult(o, e)
        m == IF o.state = "Parked" THEN o ELSE AttemptPark(o, e)
    IN  CASE result = "Terminal"  -> BeginTerminalEvent(m, "ok", e)
          [] result = "Ambiguous" -> QuarantineMechanic(m, NoOp, e)
          [] OTHER ->
                IF "revoke" \in e \/ m.state # "Parked" THEN m
                ELSE IF was = "Parked" THEN MaybeSettle(m)
                ELSE BeginCausedPark([m EXCEPT !.lostPark = TRUE], <<"controller">>, e)
BeginControllerLoss(o, e) ==
    LET n == CancelWait(o) IN
    IF n.state = "Terminal" \/ n.lost \/ n.lostPark \/ n.settling THEN n
    ELSE ControllerGone(Shut(FailReceipt([n EXCEPT !.lost = TRUE, !.blocked = TRUE], e), e),
                        n.state, e)

\* Mutant: a suspension meanwhile is overlooked.
ActivatesAnyway(o) == Doing(o, "Resume") /\ o.state = "Running"

\* What was revoked meanwhile is not enabled again.
Activates(o) == Doing(o, "Resume") /\ o.state = "Running" /\ ~o.suspended

\* complete_pending_receipt: an acknowledged Resume still has to be activated.
Complete(o, enable, e) ==
    LET op == o.pending
        settles == o.lostPark /\ op.pay.by = <<"controller">>
        n == [o EXCEPT !.pending = NoOp,
                !.done = IF op.respond THEN @ \union {op.pay.by} ELSE @]
        m == IF op.pay.kind = "Park" /\ ~n.lost /\ ~n.unproven /\ ~Backlog(n)
             THEN [n EXCEPT !.blocked = FALSE] ELSE n
        told == IF op.respond
                THEN Reply(m, op.finish, IF op.pay.to = "Terminal" THEN op.index ELSE 0)
                ELSE RequestFinish(m, op.finish)
        last == [told EXCEPT !.lostPark = @ /\ ~settles]
    IN  CASE enable /\ Activates(o) ->
                LET a == [o EXCEPT !.pending.phase = "Activating"]
                IN  IF "revoke" \in e THEN FailReceipt(a, e) ELSE [a EXCEPT !.gate = TRUE]
          [] OTHER -> IF last.queued # "none" THEN TakeQueued(last)
                      ELSE IF settles THEN MaybeSettle(last) ELSE last

-----------------------------------------------------------------------------
(* Losing the broker and reconciling with it *)

DeferBrokerLossPark(o) == [Defer(o, Causal(<<"reconcile">>)) EXCEPT !.blocked = TRUE]

\* park_for_reconciliation
ParkForReconciliation(o, e) ==
    CASE o.state # "Running"               -> o
      [] o.state = "Running" /\ ParkResult(o, e) = "Terminal" ->
            BeginTerminalEvent(AttemptPark(o, e), "ok", e)
      [] o.state = "Running" /\ ParkResult(o, e) = "Ambiguous" ->
            QuarantineMechanic(AttemptPark(o, e), NoOp, e)
      [] OTHER                             -> AttemptPark(o, e)
FrozeNow(o, e) == o.state # "Running" \/ ParkResult(o, e) = "Parked"
FreezeOwing(o, e) ==
    IF o.state = "Running" THEN DeferBrokerLossPark(ParkForReconciliation(o, e)) ELSE o
Over(o) == o.quarantined \/ o.state = "Terminal"

\* Mutant: the head offered is the last one acknowledged.
OfferedKnown(o) == o.brokerHead

\* The head a reconnect offers: the last signed receipt, stored or not.
Offered(o) == Tip(o)

Offering(o) == [o EXCEPT !.offered = Offered(o)]

Detached(o, e) ==
    [Narrowed(Revoke(o, e)) EXCEPT
        !.resending = 0, !.draining = NoOp, !.settling = FALSE, !.conn = "Grace",
        !.acks = <<>>, !.trying = TRUE, !.replies = {[r EXCEPT !.live = FALSE] : r \in @}]
FailGuarded(o, e) ==
    IF Doing(o, "Resume") /\ (Guarded \/ o.pending.phase = "Activating")
    THEN FailReceipt(o, e) ELSE o
LoseBroker(o, e) ==
    IF o.conn \in {"Connected", "Reconciling"}
    THEN Offering(FailGuarded(Detached(o, e), e)) ELSE o

ParkUnreachable(o, e) ==
    LET m == ParkForReconciliation(o, e)
        gone == [m EXCEPT !.conn = "Disconnected"]
    IN  IF FrozeNow(o, e) THEN BeginCausedPark(gone, <<"broker">>, e)
        ELSE IF Over(m) THEN m ELSE gone
Unreachable(o, e) ==
    IF o.state = "Running" THEN ParkUnreachable(o, e) ELSE [o EXCEPT !.conn = "Disconnected"]
GraceExpired(o, e) == Unreachable(FailReceipt(o, e), e)

\* Mutant: a reconnect leaves the deferred evidence alone.
StartDrainingNever(o) == o

\* Mutant: evidence is taken off the queue before it is signed.
StartDrainingEarly(o) ==
    IF o.draining # NoOp \/ o.deferred = <<>> THEN o
    ELSE [o EXCEPT !.draining = [phase |-> "Signing", pay |-> o.deferred[1],
                                 seq |-> Tip(o) + 1, index |-> 0],
                   !.deferred = Tail(@)]

StartDraining(o) ==
    IF o.draining # NoOp \/ o.deferred = <<>> THEN o
    ELSE [o EXCEPT !.draining = [phase |-> "Signing", pay |-> o.deferred[1],
                                 seq |-> Tip(o) + 1, index |-> 0]]

CompleteDurable(o, e) ==
    IF o.pending.phase = "AwaitingDurableAck" /\ o.pending.index = o.brokerHead
    THEN Complete(o, FALSE, e) ELSE o
Reattached(o) ==
    MaybeSettle([o EXCEPT !.conn = "Connected",
                    !.lostPark = @ /\ ~\E i \in 1 .. o.brokerHead :
                                          o.receipts[i].by = <<"controller">>])
Unblock(o) ==
    IF /\ ~o.lostPark /\ ~o.settling /\ ~o.lost /\ ~o.unproven
       /\ o.state # "Terminal" /\ Tip(o) = o.brokerHead
    THEN [o EXCEPT !.blocked = FALSE] ELSE o
FinishDrained(o) == RequestFinish([o EXCEPT !.finishDrained = "none"], o.finishDrained)
Unfrozen(o) ==
    IF Over(o) THEN o
    ELSE [o EXCEPT !.blocked = TRUE, !.conn = "Connected", !.channel = "Revoked"]
Reconciled(o, e) ==
    IF o.deferred = <<>> THEN FinishDrained(Unblock(Reattached(o)))
    ELSE IF FrozeNow(o, e)
    THEN StartDraining([FreezeOwing(o, e) EXCEPT !.conn = "Reconciling"])
    ELSE Unfrozen(ParkForReconciliation(o, e))
FinishReconnect(o, e) == Reconciled(CompleteDurable([o EXCEPT !.resending = 0], e), e)

Unreconciled(o, was) ==
    LET owing == IF was = "Running" /\ o.state = "Parked" THEN DeferBrokerLossPark(o) ELSE o
    IN  IF Over(o) THEN o ELSE [Narrowed(owing) EXCEPT !.conn = "Connected"]
FailReconciliation(o, e) ==
    Unreconciled(ParkForReconciliation([o EXCEPT !.resending = 0, !.blocked = TRUE], e),
                 o.state)

FailUnfrozen(o, e) == IF Over(o) THEN o ELSE FailReconciliation(o, e)
\* The broker is behind: the tree is frozen and the receipts are sent again.
CatchUp(o, head, e) ==
    IF FrozeNow(o, e)
    THEN Send([FreezeOwing(o, e) EXCEPT !.conn = "Reconciling", !.resending = head + 1], head + 1)
    ELSE FailUnfrozen(ParkForReconciliation(o, e), e)

\* Mutant: the checkpoint is taken for the owner's own head.
ReconnectedTrusting(o, head, e) ==
    FinishReconnect([o EXCEPT !.brokerHead = Tip(o), !.trying = FALSE], e)

\* Mutant: receipts past the checkpoint are dropped.
ReconnectedTruncating(o, head, e) ==
    FinishReconnect([o EXCEPT !.receipts = SubSeq(@, 1, head), !.brokerHead = head,
                              !.trying = FALSE], e)

\* handle_broker_reconnected for a checkpoint of the owner's own chain.
Reconnected(o, head, e) ==
    LET n == [o EXCEPT !.brokerHead = head, !.trying = FALSE]
    IN  IF head = Tip(n) THEN FinishReconnect(n, e) ELSE CatchUp(FailReceipt(n, e), head, e)

FailDraining(o) ==
    [o EXCEPT !.draining = NoOp, !.blocked = TRUE, !.conn = "Connected",
              !.channel = IF o.state = "Terminal" THEN "Closed" ELSE "Revoked"]

\* handle_receipt_acknowledgement: matched by its head alone.
Acknowledged(o, i, e) ==
    CASE o.draining # NoOp ->
            IF o.draining.index # i THEN FailDraining(o)
            ELSE LET n == [o EXCEPT !.brokerHead = i, !.draining = NoOp]
                 IN  IF n.deferred = <<>> THEN FinishReconnect(n, e) ELSE StartDraining(n)
      [] o.draining = NoOp /\ o.resending # 0 ->
            IF i # o.resending THEN FailReconciliation(o, e)
            ELSE LET n == [o EXCEPT !.brokerHead = i]
                 IN  IF i < Tip(o) THEN Send([n EXCEPT !.resending = i + 1], i + 1)
                     ELSE FinishReconnect(n, e)
      [] o.draining = NoOp /\ o.resending = 0 ->
            CASE o.pending.phase \in {"None", "Activating"} -> o
              [] o.pending.phase = "AwaitingDurableAck" /\ o.pending.index = i ->
                    Complete([o EXCEPT !.brokerHead = i], TRUE, e)
              [] OTHER -> FailReceipt(o, e)

-----------------------------------------------------------------------------
(* Host conformance and key authority *)

\* Mutant: the Park is recorded again.
OwesParkAlways(o) == TRUE

\* A failed Resume has its Park recorded already.
OwesPark(o) == ~Doing(o, "Resume")

\* The Park of a Session that is busy, or not heard, is owed.
OweSuspension(o, due) == IF due THEN Defer(o, Causal(<<"conformance">>)) ELSE o
SuspendConformance(o, contained, e) ==
    LET n == [o EXCEPT !.contained = @ \/ contained]
        m == [Shut(n, e) EXCEPT !.suspended = TRUE]
        frozen == AttemptPark(m, e)
    IN  IF o.suspended THEN n
        ELSE IF ParkResult(m, e) # "Parked" \/ "revoke" \in e
        THEN QuarantineMechanic(frozen, o.pending, e)
        ELSE IF o.state # "Running" THEN frozen
        ELSE IF o.pending = NoOp /\ ~Backlog(o) /\ o.conn = "Connected"
        THEN BeginCausedPark(frozen, <<"conformance">>, e)
        ELSE OweSuspension(FailReceipt(frozen, e), OwesPark(o))

WithdrawKeyAuthority(o, e) ==
    LET n == AttemptPark([Revoke(o, e) EXCEPT !.withdrawn = TRUE, !.blocked = TRUE,
                              !.channel = "Revoked"], e)
        m == [n EXCEPT !.conn = "Disconnected", !.trying = FALSE, !.wire = <<>>, !.acks = <<>>]
    IN  IF "revoke" \in e \/ ParkResult(o, e) # "Parked"
        THEN QuarantineMechanic(m, NoOp, e) ELSE m

-----------------------------------------------------------------------------
(* Events *)

\* What goes wrong in the mechanics of one handler.
Luck == {e \in SUBSET Faults : Cardinality(e) <= 1 \/ e = {"ambiguous", "cleanup"}}

Init ==
    /\ owner = [state |-> "Running", tree |-> "running", gate |-> TRUE, channel |-> "Enabled",
                receipts |-> <<Receipt(Payload("Start", "Running", <<"start">>), 1)>>,
                brokerHead |-> 1, pending |-> NoOp, deferred |-> <<>>,
                conn |-> "Connected", resending |-> 0, draining |-> NoOp,
                trying |-> FALSE, offered |-> 0, offer |-> 0, wire |-> <<>>, acks |-> <<>>,
                lost |-> FALSE, lostPark |-> FALSE, settling |-> FALSE,
                unproven |-> FALSE, quarantined |-> FALSE, withdrawn |-> FALSE,
                blocked |-> FALSE, queued |-> "none", relay |-> "open",
                finishQuiet |-> "none", finishDrained |-> "none", finished |-> "none",
                suspended |-> FALSE, contained |-> FALSE, wait |-> NoOp,
                replies |-> {}, failed |-> {}, done |-> {}]
    /\ asked = {} /\ stored = 1 /\ link = "open" /\ catchup = 1 /\ losses = 0

\* The thread still runs, and dispatches events in full.
Live == owner.finished = "none" /\ ~owner.withdrawn
Attached == owner.conn \in {"Connected", "Reconciling"}
\* The broker's session worker and the owner hear each other.
Heard == Live /\ Attached /\ link = "open" /\ stored >= catchup /\ ~owner.quarantined

Outside == <<asked, stored, link, catchup, losses>>
Handle(new) == owner' = new /\ UNCHANGED Outside

\* An operator reads the status and has a request made from it.
Ask ==
    /\ Heard /\ Cardinality(asked) < MaxRequests
    /\ \E act \in Actions :
          asked' = asked \union {[id |-> <<"request", Cardinality(asked)>>, act |-> act,
                                  state |-> owner.state, seq |-> owner.brokerHead]}
    /\ UNCHANGED <<owner, stored, link, catchup, losses>>

Answered(q) == q.id \in owner.done \/ \E f \in owner.failed : f.by = q.id

\* A repeated request gets its first answer again, with what that answer ends.
Repeat(q) ==
    /\ Heard /\ Answered(q)
    /\ \/ \E f \in owner.failed : f.by = q.id /\ Handle(Reply(owner, f.finish, 0))
       \/ /\ q.id \in owner.done /\ q.act = "Disposal" /\ owner.state = "Terminal"
          /\ \E i \in 1 .. Tip(owner) :
                owner.receipts[i].by = q.id /\ Handle(Reply(owner, "ok", i))

\* Mutant: the slots kept free are one too few.
LimitOffByOne(act) ==
    CASE act = "Interrupt" -> MaxPending - 1
      [] act = "Park"      -> MaxPending
      [] act = "Resume"    -> 1

Limit(act) ==
    CASE act = "Interrupt" -> MaxPending - 2
      [] act = "Park"      -> MaxPending - 1
      [] act = "Resume"    -> 1
Full(q) == q.act # "Disposal" /\ PendingCount(owner) >= Limit(q.act)
\* reject_at_failure_cache_bound: too much evidence is owed already.
RejectFull(q) ==
    /\ Heard /\ ~Answered(q) /\ Full(q)
    /\ \E e \in Luck : Handle([Narrowed(Revoke(owner, e)) EXCEPT !.blocked = TRUE])

\* Nothing is widened while evidence is owed or a loss is unsettled.
MayWiden(o) == ~o.blocked /\ ~Backlog(o) /\ Unsigned(o) = 0

\* A Disposal may cancel a Resume that has not thawed anything.
Cancels(q) == q.act = "Disposal" /\ (owner.wait # NoOp \/ Preparing(owner))
Admitted(q) ==
    /\ Heard /\ ~Answered(q) /\ ~Full(q)
    /\ q.act = "Resume" => MayWiden(owner)
    /\ q.act = "Interrupt" => ~owner.lost /\ ~owner.unproven
    /\ Cancels(q) \/ (owner.pending = NoOp /\ owner.wait = NoOp)
    /\ q.state = owner.state /\ q.seq = owner.brokerHead
    /\ Transition(owner.state, q.act) # "Invalid"

Park(q) == q.act = "Park" /\ Admitted(q) /\ \E e \in Luck : Handle(BeginPark(owner, q, e))
Interrupt(q) ==
    q.act = "Interrupt" /\ Admitted(q) /\ \E e \in Luck : Handle(BeginInterrupt(owner, q, e))
Dispose(q) ==
    /\ q.act = "Disposal" /\ Admitted(q)
    /\ \E e \in Luck :
          LET n == CancelWait(owner)
              m == IF Preparing(n) THEN FailPreparation(n, e) ELSE n
          IN  Handle(IF Preparing(n) /\ (m.state # "Parked" \/ m.unproven) THEN m
                     ELSE BeginDisposal(m, q, e))
\* A monitored Session is only resumed by a check started after the request.
Resume(q) ==
    /\ q.act = "Resume" /\ Admitted(q)
    /\ IF Monitored THEN ~owner.contained /\ Handle([owner EXCEPT !.wait = q])
                    ELSE Handle(BeginResume(owner, q))

\* The guard was prepared for the thaw, or not.
Prepared ==
    /\ Live /\ Preparing(owner)
    /\ \E e \in Luck :
          LET running == [owner EXCEPT !.state = "Running", !.tree = "running",
                                       !.pending.phase = "Signing"]
          IN  Handle(CASE {"guard", "stuck"} \intersect e # {} -> FailPreparation(owner, e)
                       [] "exited" \in e ->
                            BeginTerminalEvent([FailMechanic(owner, e) EXCEPT !.tree = "gone"],
                                               "ok", e)
                       [] "ambiguous" \in e ->
                            QuarantineMechanic([owner EXCEPT !.tree = "unknown"],
                                               owner.pending, e)
                       [] OTHER -> running)

Signed ==
    /\ Live /\ owner.pending.phase = "Signing"
    /\ LET i == Tip(owner) + 1 IN
       Handle(Send([owner EXCEPT
           !.receipts = Append(@, Receipt(owner.pending.pay, owner.pending.seq)),
           !.pending.phase = "AwaitingDurableAck", !.pending.index = i], i))
\* The tree ended while a Resume was prepared or activated: its answer is void.
Void(o) ==
    \/ o.pending.phase = "Applying" /\ o.state # "Parked"
    \/ o.pending.phase = "Activating" /\ o.state # "Running"
\* The signer refuses, a send fails, or an operation's deadline passes.
OperationFails ==
    /\ Live /\ owner.pending # NoOp /\ ("deadline" \in Events \/ Void(owner))
    /\ \E e \in Luck : Handle(FailReceipt(owner, e))

Activated ==
    /\ Live /\ owner.pending.phase = "Activating" /\ owner.state = "Running"
    /\ \E e \in Luck :
          Handle(IF "guard" \in e THEN FailReceipt(owner, e)
                 ELSE Complete([owner EXCEPT !.channel = "Enabled"], FALSE, e))

ReceiveAck ==
    /\ Live /\ owner.acks # <<>> /\ owner.offer = 0
    /\ LET n == [owner EXCEPT !.acks = Tail(@)] IN
       \E e \in Luck :
          Handle(IF owner.quarantined THEN n ELSE Acknowledged(n, owner.acks[1], e))

DrainSigned ==
    /\ Live /\ owner.draining.phase = "Signing"
    /\ LET i == Tip(owner) + 1 IN
       Handle(Send([owner EXCEPT
           !.receipts = Append(@, Receipt(owner.draining.pay, owner.draining.seq)),
           !.deferred = Tail(@),
           !.draining.phase = "AwaitingDurableAck", !.draining.index = i], i))
DrainFails ==
    "deadline" \in Events /\ Live /\ owner.draining # NoOp /\ Handle(FailDraining(owner))

\* The channel ends, or the owner gives up one that still works: a timeout, a
\* publication or a guarded connection that failed.
BrokerLost ==
    /\ Live /\ Attached
    /\ \/ link # "open" /\ losses' = losses
       \/ link = "open" /\ "halfopen" \in Events /\ losses < MaxLosses /\ losses' = losses + 1
    /\ \E e \in Luck : owner' = LoseBroker(owner, e)
    /\ UNCHANGED <<asked, stored, link, catchup>>
BrokerGraceExpired ==
    Live /\ owner.conn = "Grace" /\ \E e \in Luck : Handle(GraceExpired(owner, e))
BrokerReconnected ==
    /\ Live /\ owner.offer # 0
    /\ \E e \in Luck : Handle(Reconnected([owner EXCEPT !.offer = 0], owner.offer, e))

ControllerDetached ==
    /\ "controller" \in Events /\ Live /\ \E e \in Luck : Handle(BeginControllerLoss(owner, e))
ControllerLossSettled ==
    /\ Live /\ owner.settling
    /\ \E e \in Luck :
          Handle(BeginControllerLossDisposal([owner EXCEPT !.settling = FALSE], e))
ControllerLossUnsettled ==
    /\ "deadline" \in Events /\ Live /\ owner.settling
    /\ Handle([owner EXCEPT !.settling = FALSE, !.blocked = TRUE])

\* The process exits, or its relay or its identity is lost.
RunningAgent ==
    /\ "exit" \in Events /\ Live /\ owner.relay = "open"
    /\ \E e \in Luck, finish \in {"ok", "err"} : Handle(BeginTerminalEvent(owner, finish, e))
RelayQuiesced ==
    /\ Live /\ owner.relay = "closing"
    /\ \E result \in {"closed", "broken"} :
          Handle(RequestFinish([owner EXCEPT !.relay = result, !.finishQuiet = "none"],
                               owner.finishQuiet))

\* The channel took a response, or did not.
ResponseSent ==
    /\ Live
    /\ \E r \in owner.replies, e \in Luck :
          LET n == [owner EXCEPT !.replies = @ \ {r}] IN
          \/ /\ r.live
             /\ Handle(RequestFinish(n, r.finish))
          \/ /\ ~r.live
             /\ Handle(IF /\ r.finish = "ok" /\ r.head # 0 /\ owner.state = "Terminal"
                          /\ owner.conn \in {"Grace", "Disconnected"}
                          /\ r.head = owner.brokerHead /\ ~Backlog(owner)
                          /\ ~owner.quarantined /\ ~owner.unproven
                       THEN RequestFinish(n, "ok") ELSE n)
ResponseFails ==
    /\ Live /\ link # "open"
    /\ \E r \in owner.replies, e \in Luck :
          Handle(LET n == [owner EXCEPT !.replies = @ \ {r}]
                 IN  IF r.live THEN LoseBroker(n, e) ELSE n)

Watched == Monitored /\ Live /\ owner.state # "Terminal" /\ ~owner.quarantined
\* A check fails or grows stale, or its waiver expires.
ConformanceLost ==
    /\ "conformance" \in Events /\ Watched
    /\ \E e \in Luck, contained \in BOOLEAN :
          Handle(CancelWait(SuspendConformance(owner, contained, e)))
\* A check started after the Resume was asked for finds the host conformant.
ConformanceConfirmed ==
    /\ Watched /\ owner.wait # NoOp
    /\ IF owner.contained THEN Handle(CancelWait(owner))
       ELSE Handle(BeginResume([owner EXCEPT !.wait = NoOp, !.suspended = FALSE], owner.wait))

KeyWithdrawn ==
    "key" \in Events /\ Live /\ \E e \in Luck : Handle(WithdrawKeyAuthority(owner, e))
\* Afterwards only the end of the controller or of the agent ends the thread.
WithdrawnEnds ==
    /\ owner.withdrawn /\ owner.finished = "none"
    /\ \E e \in Luck : Handle([Terminate(owner, e) EXCEPT !.finished = "err"])

-----------------------------------------------------------------------------
(* The broker's side *)

\* The next of the chain, of a request the broker has no receipt of.  An event the
\* owner caused itself bears the digest of its predecessor, and so has an id of its own.
Acceptable(i) ==
    /\ i = stored + 1
    /\ owner.receipts[i].seq = i
    /\ ValidTransition(owner.receipts[stored].to, owner.receipts[i])
    /\ owner.receipts[i].by[1] = "request" =>
          \A j \in 1 .. stored : owner.receipts[j].by # owner.receipts[i].by

\* A receipt is appended durably and acknowledged.
BrokerStores ==
    /\ link = "open" /\ owner.wire # <<>> /\ Acceptable(owner.wire[1])
    /\ stored' = stored + 1
    /\ owner' = [owner EXCEPT !.wire = Tail(@),
                    !.acks = IF Attached \/ owner.offer # 0 THEN Append(@, owner.wire[1]) ELSE @]
    /\ UNCHANGED <<asked, link, catchup, losses>>
\* A refusal closes the channel, and quarantines a Session that reconnects.
BrokerRefuses ==
    /\ link = "open" /\ owner.wire # <<>> /\ ~Acceptable(owner.wire[1])
    /\ link' = IF stored < catchup THEN "quarantined" ELSE "closed"
    /\ owner' = [owner EXCEPT !.wire = <<>>]
    /\ UNCHANGED <<asked, stored, catchup, losses>>
ChannelBreaks ==
    /\ link = "open" /\ losses < MaxLosses /\ losses' = losses + 1
    /\ link' = "closed" /\ owner' = [owner EXCEPT !.wire = <<>>]
    /\ UNCHANGED <<asked, stored, catchup>>
\* The broker answers a reconnect with its head, or finds itself ahead of it.
BrokerAnswers ==
    /\ Live /\ owner.trying /\ owner.conn \in {"Grace", "Disconnected"}
    /\ owner.offer = 0 /\ link # "quarantined"
    /\ \/ /\ stored <= owner.offered
          /\ owner' = [owner EXCEPT !.offer = stored, !.wire = <<>>, !.acks = <<>>]
          /\ link' = "open" /\ catchup' = owner.offered
          /\ UNCHANGED <<asked, stored, losses>>
       \/ /\ stored > owner.offered
          /\ link' = "quarantined"
          /\ UNCHANGED <<owner, asked, stored, catchup, losses>>

Requested(q) ==
    Repeat(q) \/ RejectFull(q) \/ Park(q) \/ Interrupt(q) \/ Dispose(q) \/ Resume(q)

Next ==
    \/ Ask
    \/ \E q \in asked : Requested(q)
    \/ Prepared \/ Signed \/ OperationFails \/ Activated \/ ReceiveAck
    \/ DrainSigned \/ DrainFails
    \/ BrokerLost \/ BrokerGraceExpired \/ BrokerReconnected
    \/ ControllerDetached \/ ControllerLossSettled \/ ControllerLossUnsettled
    \/ RunningAgent \/ RelayQuiesced \/ ResponseSent \/ ResponseFails
    \/ ConformanceLost \/ ConformanceConfirmed \/ KeyWithdrawn \/ WithdrawnEnds
    \/ BrokerStores \/ BrokerRefuses \/ ChannelBreaks \/ BrokerAnswers

Spec == Init /\ [][Next]_vars

\* The thread goes through its mailbox, the signer and the timer answer, and
\* the broker reads what it is sent and answers a reconnect.
Fairness ==
    /\ WF_vars(Prepared) /\ WF_vars(OperationFails) /\ WF_vars(Signed) /\ WF_vars(Activated) /\ WF_vars(ReceiveAck)
    /\ WF_vars(DrainSigned) /\ WF_vars(BrokerLost) /\ WF_vars(BrokerGraceExpired)
    /\ WF_vars(BrokerReconnected) /\ WF_vars(ControllerLossSettled)
    /\ WF_vars(RelayQuiesced) /\ WF_vars(ResponseSent) /\ WF_vars(ConformanceConfirmed)
    /\ WF_vars(BrokerStores) /\ WF_vars(BrokerRefuses) /\ WF_vars(BrokerAnswers)

FairSpec == Spec /\ Fairness

-----------------------------------------------------------------------------
(* Properties *)

Phases == {"None", "Applying", "Signing", "AwaitingDurableAck", "Activating"}
\* The fields hold what the types of SessionOwner admit, bounds included.
TypeOK ==
    /\ owner.state \in {"Running", "Parked", "Terminal"}
    /\ owner.tree \in {"running", "frozen", "unknown", "gone"}
    /\ owner.channel \in {"Enabled", "Revoked", "Closed"}
    /\ owner.conn \in {"Connected", "Grace", "Disconnected", "Reconciling"}
    /\ owner.relay \in {"open", "closing", "closed", "broken"}
    /\ owner.pending.phase \in Phases /\ owner.draining.phase \in Phases
    /\ owner.pending # NoOp => owner.pending.index \in 0 .. Tip(owner)
    /\ owner.brokerHead \in 1 .. Tip(owner) /\ owner.resending \in 0 .. Tip(owner)
    /\ Gap(owner) <= MaxPending
    /\ {owner.gate, owner.lost, owner.lostPark, owner.settling, owner.unproven,
        owner.quarantined, owner.withdrawn, owner.blocked, owner.trying,
        owner.suspended, owner.contained} \subseteq BOOLEAN
    /\ {owner.queued, owner.finishQuiet, owner.finishDrained, owner.finished}
          \subseteq {"none", "ok", "err"}
    /\ stored \in 1 .. Tip(owner) /\ catchup \in 1 .. Tip(owner)
    /\ link \in {"open", "closed", "quarantined"} /\ losses \in 0 .. MaxLosses

\* All the Session's evidence in order: signed, being signed, and owed.
Outcome(r) == Payload(r.kind, r.to, r.by)
Evidence(o) ==
    [i \in 1 .. Tip(o) |-> Outcome(o.receipts[i])]
        \o (IF o.pending.phase = "Signing" THEN <<o.pending.pay>> ELSE <<>>)
        \o o.deferred
        \o (IF o.queued # "none" THEN <<Payload("Disposal", "Terminal", <<"event">>)>> ELSE <<>>)
Owed(o) == ToSet(Evidence(o))

\* The broker refuses a chain that skips a state for good, so what is signed,
\* being signed and owed is one legal chain although Parks, Resumes and
\* suspensions fail in between (fail_receipt_operation, begin_caused_park,
\* defer).  It is not when a gate cannot be shut, or when a controller is lost
\* where Sessions are resumed.
LegalChain ==
    LET ev == Evidence(owner) IN
    /\ \A i \in 1 .. Len(ev) - 1 : ValidTransition(ev[i].to, ev[i + 1])
    /\ \A i \in 1 .. Tip(owner) : owner.receipts[i].seq = i

\* The chain ends in the state the Session is in: nothing that happened to
\* the tree goes unrecorded.  A quarantine or a withdrawn key ends the record.
EvidenceMatchesState ==
    LET ev == Evidence(owner) IN
    ~owner.quarantined /\ ~owner.withdrawn => ev[Len(ev)].to = owner.state

\* Commands pass only in a running Session whose Resume the broker has made
\* durable and whose conformance stands (complete_pending_receipt).
GateNeedsDurability ==
    owner.gate => /\ owner.state = "Running" /\ ~owner.suspended
                  /\ \A i \in 1 .. Tip(owner) : owner.receipts[i].kind = "Resume" => i <= stored

\* The owner never takes for durable what the broker has not stored, whichever
\* acknowledgement or checkpoint of whichever connection told it.
KnownIsDurable == owner.brokerHead <= stored

\* What the broker stored is one legal chain from the Start.
DurableChain ==
    \A i \in 1 .. stored - 1 : ValidTransition(owner.receipts[i].to, owner.receipts[i + 1])

\* A request leaves one record at most, however often it is repeated and
\* whether it was acknowledged, failed or drained later.
RecordedOnce ==
    LET ev == Evidence(owner) IN
    \A i, j \in 1 .. Len(ev) : i # j /\ ev[i].by \in {q.id : q \in asked} => ev[i].by # ev[j].by

\* The owner ends with success only when the broker has stored the whole chain
\* down to the Disposal and the tree is gone (request_finish).
FinishedIsRecorded ==
    owner.finished = "ok" /\ ~owner.quarantined =>
        /\ owner.receipts[Tip(owner)].to = "Terminal" /\ stored = Tip(owner)
        /\ owner.deferred = <<>> /\ owner.tree = "gone"

\* Lost channels and acknowledgements make the broker close a connection; what
\* a reconnect offers and sends, no request twice among it, never makes it take
\* the history for corrupt (broker/reconnect.rs, reconnect_failure;
\* launch_receipt.rs, verify_suffix).
NeverRefused == link = "open" \/ link = "closed"

\* Evidence is only ever added, except by a quarantine (fail_receipt_operation,
\* begin_terminal_event, finish_broker_reconnect).
KeepsEvidence ==
    [][owner'.quarantined \/ Owed(owner) \subseteq Owed(owner')]_vars

\* Signed receipts are immutable: the list only grows.
SignedStays ==
    [][/\ Tip(owner) <= Tip(owner')
       /\ \A i \in 1 .. Tip(owner) : owner'.receipts[i] = owner.receipts[i]]_vars

\* Nothing brings a Session back from Terminal, or its tree to life.
TerminalIsFinal ==
    [][owner.state = "Terminal" =>
          owner'.state = "Terminal" /\ owner'.tree # "running"]_vars

\* The tree is thawed only when the broker has stored all the evidence there
\* is and no controller loss is unsettled (guard_resume_prepared).
ThawNeedsDurability ==
    [][owner.tree = "frozen" /\ owner'.tree = "running" =>
          stored = Tip(owner) /\ owner.deferred = <<>> /\ ~owner.lost]_vars

\* A Session whose conformance is suspended is frozen (suspend_conformance).
SuspendedStaysFrozen == owner.suspended => owner.tree # "running"

\* No evidence waits for a reconnect that no event will start.
Unblocked(o) == ~Backlog(o) \/ o.conn # "Connected"
Stopped == owner.quarantined \/ owner.finished # "none"

\* The owner of a terminated Session ends (request_finish).
TerminalFinishes == owner.state = "Terminal" /\ Unblocked(owner) ~> owner.finished # "none"

\* A reconnect makes the broker store everything owed, or the Session stops
\* (handle_broker_reconnected, finish_broker_reconnect).
ReconnectDrains ==
    owner.conn # "Connected" ~> Stopped \/ (owner.conn = "Connected" /\ ~Backlog(owner))

\* A Session whose controller is lost is disposed (maybe_begin_controller_loss_settlement).
LossSettles == owner.lost /\ Unblocked(owner) ~> owner.state = "Terminal"
=============================================================================
