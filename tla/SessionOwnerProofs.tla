------------------------- MODULE SessionOwnerProofs -------------------------
(* What holds of one Session's owner and its broker for every number of    *)
(* requests, losses and pending receipts and every choice of faults: the   *)
(* handlers leave signed history alone, the owner never believes more than *)
(* the broker stored, and what the broker stored is one legal chain.       *)
EXTENDS SessionOwner, SequenceTheorems, TLAPS

\* What every handler needs of the owner it is given, and leaves.
Sound(o) ==
    /\ {"receipts", "brokerHead", "offer", "acks", "wire", "trying", "offered", "state", "tree",
        "quarantined"} \subseteq DOMAIN o
    /\ o.state = "Terminal" => o.tree = "gone"

\* A handler that signs, receives and thaws nothing: history and the known
\* head stay, and so does a quarantine; no reconnect is begun.
Kept(o, n) ==
    /\ Sound(n)
    /\ n.receipts = o.receipts /\ n.brokerHead = o.brokerHead /\ n.offer = o.offer
    /\ n.acks \in {o.acks, <<>>} /\ n.wire \in {o.wire, <<>>}
    /\ n.offered = o.offered /\ (n.trying => o.trying)
    /\ o.state = "Terminal" => n.state = "Terminal"
    /\ n.tree = "running" => o.tree = "running"
    /\ o.quarantined => n.quarantined

LEMMA KeptSelf == ASSUME NEW o, Sound(o) PROVE Kept(o, o)
  BY DEF Kept, Sound

LEMMA KeptTrans ==
  ASSUME NEW a, NEW b, NEW c, Kept(a, b), Kept(b, c) PROVE Kept(a, c)
  BY DEF Kept

LEMMA RevokeKeeps == ASSUME NEW o, NEW e, Sound(o) PROVE Kept(o, Revoke(o, e))
  BY DEF Kept, Sound, Revoke

LEMMA NarrowedKeeps == ASSUME NEW o, Sound(o) PROVE Kept(o, Narrowed(o))
  BY DEF Kept, Sound, Narrowed

LEMMA ShutKeeps == ASSUME NEW o, NEW e, Sound(o) PROVE Kept(o, Shut(o, e))
<1> DEFINE n == Revoke(o, e)
<1>1. Kept(o, n) BY RevokeKeeps
<1> HIDE DEF n
<1>2. Kept(o, [n EXCEPT !.channel = "Revoked"]) BY <1>1 DEF Kept, Sound
<1>3. QED BY <1>2 DEF Shut, n

LEMMA RevokeEnabledKeeps == ASSUME NEW o, NEW e, Sound(o) PROVE Kept(o, RevokeEnabled(o, e))
  BY DEF Kept, Sound, RevokeEnabled, Revoke

LEMMA ParkResults ==
  ASSUME NEW o, NEW e
  PROVE  ParkResult(o, e) \in {"Ambiguous", "Terminal", "Running", "Parked"}
  BY DEF ParkResult

LEMMA ParkedIsAlive ==
  ASSUME NEW o, NEW e, ParkResult(o, e) # "Ambiguous" PROVE o.tree # "gone"
  BY DEF ParkResult

LEMMA AttemptParkKeeps == ASSUME NEW o, NEW e, Sound(o) PROVE Kept(o, AttemptPark(o, e))
  BY ParkResults, ParkedIsAlive DEF Kept, Sound, AttemptPark

LEMMA TerminateKeeps ==
  ASSUME NEW o, NEW e, Sound(o)
  PROVE  /\ Kept(o, Terminate(o, e))
         /\ "cleanup" \notin e => Terminate(o, e).tree = "gone"
  BY DEF Kept, Sound, Terminate

LEMMA QuiesceKeeps == ASSUME NEW o, Sound(o) PROVE Kept(o, Quiesce(o))
  BY DEF Kept, Sound, Quiesce

LEMMA RequestFinishKeeps ==
  ASSUME NEW o, NEW f, Sound(o) PROVE Kept(o, RequestFinish(o, f))
  BY DEF Kept, Sound, RequestFinish

LEMMA ReplyKeeps == ASSUME NEW o, NEW f, NEW h, Sound(o) PROVE Kept(o, Reply(o, f, h))
  BY DEF Kept, Sound, Reply

LEMMA FailedKeeps == ASSUME NEW o, NEW by, NEW f, Sound(o) PROVE Kept(o, Failed(o, by, f))
  BY DEF Kept, Sound, Failed, Reply

LEMMA DeferKeeps == ASSUME NEW o, NEW pay, Sound(o) PROVE Kept(o, Defer(o, pay))
  BY DEF Kept, Sound, Defer

LEMMA ForgetControllerKeeps == ASSUME NEW o, Sound(o) PROVE Kept(o, ForgetController(o))
  BY DEF Kept, Sound, ForgetController

LEMMA QuarantineMechanicKeeps ==
  ASSUME NEW o, NEW op, NEW e, Sound(o) PROVE Kept(o, QuarantineMechanic(o, op, e))
<1> DEFINE a == [ForgetController(o) EXCEPT
                 !.quarantined = TRUE, !.blocked = TRUE, !.queued = "none",
                 !.finishDrained = "none", !.pending = NoOp]
           n == Terminate(Quiesce(a), e)
           m == [n EXCEPT !.unproven = "cleanup" \in e, !.channel = "Closed",
                       !.state = IF "cleanup" \in e THEN @ ELSE "Terminal"]
<1>1. Kept(o, a) BY ForgetControllerKeeps DEF Kept, Sound
<1>2. Kept(a, Quiesce(a)) BY <1>1, QuiesceKeeps DEF Kept
<1>3. Kept(Quiesce(a), n) /\ ("cleanup" \notin e => n.tree = "gone")
  BY <1>2, TerminateKeeps DEF Kept
<1>4. Kept(o, n) BY <1>1, <1>2, <1>3, KeptTrans
<1>5. Kept(n, m) BY <1>3 DEF Kept, Sound
<1>6. Kept(o, m) BY <1>4, <1>5, KeptTrans
<1> HIDE DEF m
<1>7. Kept(m, Failed(m, op.pay.by, "err")) /\ Kept(m, RequestFinish(m, "err"))
  BY <1>6, FailedKeeps, RequestFinishKeeps DEF Kept
<1>8. QED BY <1>6, <1>7, KeptTrans DEF m, QuarantineMechanic

LEMMA FailMechanicKeeps == ASSUME NEW o, NEW e, Sound(o) PROVE Kept(o, FailMechanic(o, e))
<1> DEFINE n == [RevokeEnabled(o, e) EXCEPT !.pending = NoOp, !.blocked = TRUE]
<1>1. Kept(o, n) BY RevokeEnabledKeeps DEF Kept, Sound
<1> HIDE DEF n
<1>2. Kept(n, Failed(n, o.pending.pay.by, "none")) BY <1>1, FailedKeeps DEF Kept
<1>3. QED BY <1>1, <1>2, KeptTrans DEF FailMechanic, n

LEMMA FailPreparationKeeps ==
  ASSUME NEW o, NEW e, Sound(o) PROVE Kept(o, FailPreparation(o, e))
<1> DEFINE n == RevokeEnabled(o, e)
           a == [n EXCEPT !.channel = "Revoked"]
           m == FailMechanic(a, e)
<1>1. Kept(o, n) BY RevokeEnabledKeeps
<1> HIDE DEF n
<1>2. Kept(o, a) BY <1>1 DEF Kept, Sound
<1> HIDE DEF a
<1>3. Kept(o, m) BY <1>2, FailMechanicKeeps, KeptTrans DEF Kept
<1> HIDE DEF m
<1>4. Kept(o, [m EXCEPT !.blocked = m.lost \/ m.unproven \/ Backlog(m)])
  BY <1>3 DEF Kept, Sound
<1>5. Kept(o, QuarantineMechanic(n, o.pending, e))
  BY <1>1, QuarantineMechanicKeeps, KeptTrans DEF Kept
<1>6. QED BY <1>4, <1>5 DEF FailPreparation, m, a, n

LEMMA BeginTerminalReceiptKeeps ==
  ASSUME NEW o, NEW f, Sound(o) PROVE Kept(o, BeginTerminalReceipt(o, f))
<1> DEFINE a == [o EXCEPT !.blocked = TRUE]
           pay == Payload("Disposal", "Terminal", <<"event">>)
           b == Defer(a, pay)
<1>1. Kept(o, a) BY DEF Kept, Sound
<1> HIDE DEF a, pay
<1>2. Kept(o, b) BY <1>1, DeferKeeps, KeptTrans DEF Kept
<1> HIDE DEF b
<1>3. Kept(o, RequestFinish(b, f)) BY <1>2, RequestFinishKeeps, KeptTrans DEF Kept
<1>4. Kept(o, [o EXCEPT !.pending = Operation(o, pay, "Signing", FALSE, f)])
  BY DEF Kept, Sound
<1>5. QED BY <1>3, <1>4 DEF BeginTerminalReceipt, a, b, pay

LEMMA BeginTerminalEventKeeps ==
  ASSUME NEW o, NEW f, NEW e, Sound(o) PROVE Kept(o, BeginTerminalEvent(o, f, e))
<1> DEFINE a == ForgetController(o)
           b == Quiesce(a)
           n == Terminate(b, e)
           m == [n EXCEPT !.unproven = FALSE, !.state = "Terminal", !.channel = "Closed"]
           u == [n EXCEPT !.unproven = TRUE, !.blocked = TRUE, !.channel = "Revoked"]
<1>1. Kept(o, a) BY ForgetControllerKeeps
<1> HIDE DEF a
<1>2. Kept(o, b) BY <1>1, QuiesceKeeps, KeptTrans DEF Kept
<1> HIDE DEF b
<1>3. Kept(o, n) /\ ("cleanup" \notin e => n.tree = "gone")
  BY <1>2, TerminateKeeps, KeptTrans DEF Kept
<1> HIDE DEF n
<1>4. Kept(o, u) BY <1>3 DEF Kept, Sound
<1>5. "cleanup" \notin e => Kept(o, m) BY <1>3 DEF Kept, Sound
<1> HIDE DEF u, m
<1>6. Kept(o, RequestFinish(u, "err")) BY <1>4, RequestFinishKeeps, KeptTrans DEF Kept
<1>7. "cleanup" \notin e => Kept(o, BeginTerminalReceipt(m, f))
  BY <1>5, BeginTerminalReceiptKeeps, KeptTrans DEF Kept
<1>8. "cleanup" \notin e => Kept(o, [m EXCEPT !.queued = f])
  BY <1>5 DEF Kept, Sound
<1>9. Kept(o, o) BY KeptSelf
<1>10. QED BY <1>6, <1>7, <1>8, <1>9 DEF BeginTerminalEvent, m, u, n, b, a

LEMMA TakeQueuedKeeps == ASSUME NEW o, Sound(o) PROVE Kept(o, TakeQueued(o))
<1> DEFINE a == [o EXCEPT !.queued = "none"]
<1>1. Kept(o, a) BY DEF Kept, Sound
<1> HIDE DEF a
<1>2. Kept(o, BeginTerminalReceipt(a, o.queued))
  BY <1>1, BeginTerminalReceiptKeeps, KeptTrans DEF Kept
<1>3. QED BY <1>2, KeptSelf DEF TakeQueued, a

LEMMA AbortedKeeps == ASSUME NEW o, NEW e, Sound(o) PROVE Kept(o, Aborted(o, e))
  BY RevokeEnabledKeeps DEF Kept, Sound, Aborted

LEMMA ToldKeeps == ASSUME NEW o, NEW op, Sound(o) PROVE Kept(o, Told(o, op))
  BY FailedKeeps, RequestFinishKeeps DEF Told

LEMMA OwingKeeps == ASSUME NEW o, NEW op, Sound(o) PROVE Kept(o, Owing(o, op))
  BY DeferKeeps, KeptSelf DEF Owing

LEMMA AwaitingKeeps ==
  ASSUME NEW o, NEW op, NEW owed, Sound(o) PROVE Kept(o, Awaiting(o, op, owed))
  BY DEF Kept, Sound, Awaiting

LEMMA ReparkedKeeps ==
  ASSUME NEW o, NEW op, NEW e,
         NEW result \in {"Ambiguous", "Terminal", "Running", "Parked"}, Sound(o)
  PROVE  Kept(o, Reparked(o, op, result, e))
<1> DEFINE why == Causal(IF op.phase = "Activating" THEN <<"inactive", op.pay.by[2]>>
                                                    ELSE <<"unacknowledged", op.pay.by[2]>>)
           parked == Told(Defer(o, why), op)
           told == Told(o, op)
           quiet == [told EXCEPT !.queued = "none"]
<1>1. Kept(o, parked)
  <2>1. Kept(o, Defer(o, why)) BY DeferKeeps
  <2>2. QED BY <2>1, ToldKeeps, KeptTrans DEF Kept
<1>2. Kept(o, told) BY ToldKeeps
<1> HIDE DEF parked, told
<1>3. Kept(o, quiet) BY <1>2 DEF Kept, Sound
<1> HIDE DEF quiet
<1>4. Kept(o, TakeQueued(parked)) /\ Kept(o, TakeQueued(told))
  BY <1>1, <1>2, TakeQueuedKeeps, KeptTrans DEF Kept
<1>5. Kept(o, BeginTerminalEvent(quiet, "ok", e))
  BY <1>3, BeginTerminalEventKeeps, KeptTrans DEF Kept
<1>6. Kept(o, QuarantineMechanic(o, op, e)) BY QuarantineMechanicKeeps
<1>7. QED BY <1>4, <1>5, <1>6 DEF Reparked, parked, quiet, told, why

LEMMA FailResumeKeeps == ASSUME NEW o, NEW e, Sound(o) PROVE Kept(o, FailResume(o, e))
<1> DEFINE a == Aborted(o, e)
           r == Revoke(a, e)
           frozen == AttemptPark(Narrowed(r), e)
           owing == Owing(frozen, o.pending)
           result == IF "revoke" \in e THEN "Ambiguous" ELSE ParkResult(o, e)
<1>1. Kept(o, a) BY AbortedKeeps
<1> HIDE DEF a
<1>2. Kept(o, r) BY <1>1, RevokeKeeps, KeptTrans DEF Kept
<1> HIDE DEF r
<1>3. Kept(o, Narrowed(r)) BY <1>2, NarrowedKeeps, KeptTrans DEF Kept
<1>4. Kept(o, frozen) BY <1>3, AttemptParkKeeps, KeptTrans DEF Kept
<1> HIDE DEF frozen
<1>5. Kept(o, owing) BY <1>4, OwingKeeps, KeptTrans DEF Kept
<1> HIDE DEF owing
<1>6. result \in {"Ambiguous", "Terminal", "Running", "Parked"} BY ParkResults
<1> HIDE DEF result
<1>7. Kept(owing, Reparked(owing, o.pending, result, e))
  BY <1>5, <1>6, ReparkedKeeps DEF Kept
<1>8. QED BY <1>5, <1>7, KeptTrans DEF FailResume, result, owing, frozen, r, a

LEMMA FailReceiptKeeps == ASSUME NEW o, NEW e, Sound(o) PROVE Kept(o, FailReceipt(o, e))
<1> DEFINE op == o.pending
           a == Aborted(o, e)
           owing == Owing(a, op)
           awaiting == Awaiting(owing, op, o.deferred)
           told == Told(awaiting, op)
<1>1. Kept(o, a) BY AbortedKeeps
<1> HIDE DEF a, op
<1>2. Kept(o, owing) BY <1>1, OwingKeeps, KeptTrans DEF Kept
<1> HIDE DEF owing
<1>3. Kept(o, awaiting)
  <2>1. Kept(owing, awaiting) BY <1>2, AwaitingKeeps DEF Kept
  <2>2. QED BY <1>2, <2>1, KeptTrans
<1> HIDE DEF awaiting
<1>4. Kept(o, told) BY <1>3, ToldKeeps, KeptTrans DEF Kept
<1> HIDE DEF told
<1>5. Kept(o, TakeQueued(told)) BY <1>4, TakeQueuedKeeps, KeptTrans DEF Kept
<1>6. QED
  BY <1>5, KeptSelf, FailPreparationKeeps, FailResumeKeeps
  DEF FailReceipt, told, awaiting, owing, a, op

LEMMA MaybeSettleKeeps == ASSUME NEW o, Sound(o) PROVE Kept(o, MaybeSettle(o))
  BY DEF Kept, Sound, MaybeSettle

LEMMA BeginCausedParkKeeps ==
  ASSUME NEW o, NEW cause, NEW e, Sound(o) PROVE Kept(o, BeginCausedPark(o, cause, e))
<1> DEFINE n == [o EXCEPT !.pending = Operation(o, Causal(cause), "Signing", FALSE, "none")]
<1>1. Kept(o, n) BY DEF Kept, Sound
<1> HIDE DEF n
<1>2. Kept(o, FailReceipt(n, e)) BY <1>1, FailReceiptKeeps, KeptTrans DEF Kept
<1>3. QED BY <1>1, <1>2 DEF BeginCausedPark, n

LEMMA ApplyingKeeps == ASSUME NEW o, NEW q, Sound(o) PROVE Kept(o, Applying(o, q))
  BY DEF Kept, Sound, Applying

LEMMA StartSigningKeeps ==
  ASSUME NEW o, NEW owed, NEW e, Sound(o) PROVE Kept(o, StartSigning(o, owed, e))
<1>1. Kept(o, FailReceipt(o, e)) BY FailReceiptKeeps
<1>2. Kept(o, [o EXCEPT !.pending.phase = "Signing"]) BY DEF Kept, Sound
<1>3. QED BY <1>1, <1>2 DEF StartSigning

LEMMA BeginParkKeeps == ASSUME NEW o, NEW q, NEW e, Sound(o) PROVE Kept(o, BeginPark(o, q, e))
<1> DEFINE a == Applying(o, q)
           n == Shut(a, e)
           m == AttemptPark(n, e)
           f == FailMechanic(m, e)
<1>1. Kept(o, a) BY ApplyingKeeps
<1> HIDE DEF a
<1>2. Kept(o, n) BY <1>1, ShutKeeps, KeptTrans DEF Kept
<1> HIDE DEF n
<1>3. Kept(o, m) BY <1>2, AttemptParkKeeps, KeptTrans DEF Kept
<1> HIDE DEF m
<1>4. Kept(o, f) BY <1>3, FailMechanicKeeps, KeptTrans DEF Kept
<1> HIDE DEF f
<1>5. Kept(o, BeginTerminalEvent(f, "ok", e)) BY <1>4, BeginTerminalEventKeeps, KeptTrans DEF Kept
<1>6. Kept(o, QuarantineMechanic(m, m.pending, e))
  BY <1>3, QuarantineMechanicKeeps, KeptTrans DEF Kept
<1>7. Kept(o, StartSigning(m, Backlog(o), e)) BY <1>3, StartSigningKeeps, KeptTrans DEF Kept
<1>8. BeginPark(o, q, e) \in {f, BeginTerminalEvent(f, "ok", e),
                              QuarantineMechanic(m, m.pending, e), StartSigning(m, Backlog(o), e)}
  BY ParkResults DEF BeginPark, f, m, n, a
<1>9. QED BY <1>4, <1>5, <1>6, <1>7, <1>8

LEMMA BeginInterruptKeeps ==
  ASSUME NEW o, NEW q, NEW e, Sound(o) PROVE Kept(o, BeginInterrupt(o, q, e))
<1> DEFINE n == Applying(o, q)
           f == FailMechanic(n, e)
           g == [f EXCEPT !.tree = "gone"]
<1>1. Kept(o, n) BY ApplyingKeeps
<1> HIDE DEF n
<1>2. Kept(o, f) BY <1>1, FailMechanicKeeps, KeptTrans DEF Kept
<1> HIDE DEF f
<1>3. Kept(o, g) BY <1>2 DEF Kept, Sound
<1> HIDE DEF g
<1>4. Kept(o, BeginTerminalEvent(g, "ok", e)) BY <1>3, BeginTerminalEventKeeps, KeptTrans DEF Kept
<1>5. Kept(o, QuarantineMechanic(n, n.pending, e))
  BY <1>1, QuarantineMechanicKeeps, KeptTrans DEF Kept
<1>6. Kept(o, StartSigning(n, Backlog(o), e)) BY <1>1, StartSigningKeeps, KeptTrans DEF Kept
<1>7. BeginInterrupt(o, q, e) \in {f, BeginTerminalEvent(g, "ok", e),
                                   QuarantineMechanic(n, n.pending, e),
                                   StartSigning(n, Backlog(o), e)}
  BY DEF BeginInterrupt, g, f, n
<1>8. QED BY <1>2, <1>4, <1>5, <1>6, <1>7

LEMMA BeginDisposalKeeps ==
  ASSUME NEW o, NEW q, NEW e, Sound(o) PROVE Kept(o, BeginDisposal(o, q, e))
<1> DEFINE a == ForgetController(o)
           b == Applying(a, q)
           c == Quiesce(b)
           n == Terminate(c, e)
           m == [n EXCEPT !.unproven = FALSE, !.state = "Terminal", !.channel = "Closed"]
           u == [n EXCEPT !.unproven = TRUE, !.blocked = TRUE, !.channel = "Revoked",
                          !.pending = NoOp]
<1>1. Kept(o, a) BY ForgetControllerKeeps
<1> HIDE DEF a
<1>2. Kept(o, b) BY <1>1, ApplyingKeeps, KeptTrans DEF Kept
<1> HIDE DEF b
<1>3. Kept(o, c) BY <1>2, QuiesceKeeps, KeptTrans DEF Kept
<1> HIDE DEF c
<1>4. Kept(o, n) /\ ("cleanup" \notin e => n.tree = "gone")
  BY <1>3, TerminateKeeps, KeptTrans DEF Kept
<1> HIDE DEF n
<1>5. Kept(o, u) BY <1>4 DEF Kept, Sound
<1>6. "cleanup" \notin e => Kept(o, m) BY <1>4 DEF Kept, Sound
<1> HIDE DEF u, m
<1>7. Kept(o, Failed(u, q.id, "err")) BY <1>5, FailedKeeps, KeptTrans DEF Kept
<1>8. "cleanup" \notin e => Kept(o, StartSigning(m, Backlog(o), e))
  BY <1>6, StartSigningKeeps, KeptTrans DEF Kept
<1>9. BeginDisposal(o, q, e) = IF "cleanup" \in e THEN Failed(u, q.id, "err")
                                                  ELSE StartSigning(m, Backlog(o), e)
  BY DEF BeginDisposal, m, u, n, c, b, a
<1>10. QED BY <1>7, <1>8, <1>9

LEMMA BeginControllerLossDisposalKeeps ==
  ASSUME NEW o, NEW e, Sound(o) PROVE Kept(o, BeginControllerLossDisposal(o, e))
<1> DEFINE a == [o EXCEPT !.pending = Operation(o,
                     Payload("Disposal", "Terminal", <<"settled">>),
                     "Applying", FALSE, "ok")]
           n == Quiesce(a)
           m == Terminate(n, e)
           u == [m EXCEPT !.unproven = TRUE, !.blocked = TRUE, !.pending = NoOp]
           w == [m EXCEPT !.unproven = FALSE, !.lost = FALSE,
                          !.state = "Terminal", !.channel = "Closed"]
<1>1. Kept(o, a) BY DEF Kept, Sound
<1> HIDE DEF a
<1>2. Kept(o, n) BY <1>1, QuiesceKeeps, KeptTrans DEF Kept
<1> HIDE DEF n
<1>3. Kept(o, m) /\ ("cleanup" \notin e => m.tree = "gone")
  BY <1>2, TerminateKeeps, KeptTrans DEF Kept
<1> HIDE DEF m
<1>4. Kept(o, u) BY <1>3 DEF Kept, Sound
<1>5. "cleanup" \notin e => Kept(o, w) BY <1>3 DEF Kept, Sound
<1> HIDE DEF w
<1>6. "cleanup" \notin e => Kept(o, StartSigning(w, Backlog(o), e))
  BY <1>5, StartSigningKeeps, KeptTrans DEF Kept
<1>7. BeginControllerLossDisposal(o, e) = IF "cleanup" \in e THEN u
                                                             ELSE StartSigning(w, Backlog(o), e)
  BY DEF BeginControllerLossDisposal, w, m, n, a
<1>8. QED BY <1>4, <1>6, <1>7

LEMMA CancelWaitKeeps == ASSUME NEW o, Sound(o) PROVE Kept(o, CancelWait(o))
<1> DEFINE a == [o EXCEPT !.wait = NoOp]
<1>1. Kept(o, a) BY DEF Kept, Sound
<1> HIDE DEF a
<1>2. Kept(o, Failed(a, o.wait.id, "none")) BY <1>1, FailedKeeps, KeptTrans DEF Kept
<1>3. QED BY <1>2, KeptSelf DEF CancelWait, a

LEMMA BeginResumeKeeps == ASSUME NEW o, NEW q, Sound(o) PROVE Kept(o, BeginResume(o, q))
  BY ApplyingKeeps DEF BeginResume

LEMMA ControllerGoneKeeps ==
  ASSUME NEW o, NEW was, NEW e, Sound(o) PROVE Kept(o, ControllerGone(o, was, e))
<1> DEFINE m == IF o.state = "Parked" THEN o ELSE AttemptPark(o, e)
           owing == [m EXCEPT !.lostPark = TRUE]
<1>1. Kept(o, m) BY KeptSelf, AttemptParkKeeps
<1> HIDE DEF m
<1>2. Kept(o, owing) BY <1>1 DEF Kept, Sound
<1> HIDE DEF owing
<1>3. Kept(o, BeginTerminalEvent(m, "ok", e)) BY <1>1, BeginTerminalEventKeeps, KeptTrans DEF Kept
<1>4. Kept(o, QuarantineMechanic(m, NoOp, e)) BY <1>1, QuarantineMechanicKeeps, KeptTrans DEF Kept
<1>5. Kept(o, MaybeSettle(m)) BY <1>1, MaybeSettleKeeps, KeptTrans DEF Kept
<1>6. Kept(o, BeginCausedPark(owing, <<"controller">>, e))
  BY <1>2, BeginCausedParkKeeps, KeptTrans DEF Kept
<1>7. ControllerGone(o, was, e) \in {m, BeginTerminalEvent(m, "ok", e),
                                     QuarantineMechanic(m, NoOp, e), MaybeSettle(m),
                                     BeginCausedPark(owing, <<"controller">>, e)}
  BY DEF ControllerGone, owing, m
<1>8. QED BY <1>1, <1>3, <1>4, <1>5, <1>6, <1>7

LEMMA BeginControllerLossKeeps ==
  ASSUME NEW o, NEW e, Sound(o) PROVE Kept(o, BeginControllerLoss(o, e))
<1> DEFINE n == CancelWait(o)
           a == [n EXCEPT !.lost = TRUE, !.blocked = TRUE]
           failed == FailReceipt(a, e)
           shut == Shut(failed, e)
<1>1. Kept(o, n) BY CancelWaitKeeps
<1> HIDE DEF n
<1>2. Kept(o, a) BY <1>1 DEF Kept, Sound
<1> HIDE DEF a
<1>3. Kept(o, failed) BY <1>2, FailReceiptKeeps, KeptTrans DEF Kept
<1> HIDE DEF failed
<1>4. Kept(o, shut) BY <1>3, ShutKeeps, KeptTrans DEF Kept
<1> HIDE DEF shut
<1>5. Kept(shut, ControllerGone(shut, n.state, e)) BY <1>4, ControllerGoneKeeps DEF Kept
<1>6. QED BY <1>1, <1>4, <1>5, KeptTrans DEF BeginControllerLoss, shut, failed, a, n

LEMMA CompleteKeeps ==
  ASSUME NEW o, NEW enable, NEW e, Sound(o) PROVE Kept(o, Complete(o, enable, e))
<1> DEFINE op == o.pending
           settles == o.lostPark /\ op.pay.by = <<"controller">>
           n == [o EXCEPT !.pending = NoOp,
                   !.done = IF op.respond THEN @ \union {op.pay.by} ELSE @]
           m == IF op.pay.kind = "Park" /\ ~n.lost /\ ~n.unproven /\ ~Backlog(n)
                THEN [n EXCEPT !.blocked = FALSE] ELSE n
           head == IF op.pay.to = "Terminal" THEN op.index ELSE 0
           told == IF op.respond THEN Reply(m, op.finish, head) ELSE RequestFinish(m, op.finish)
           last == [told EXCEPT !.lostPark = @ /\ ~settles]
           a == [o EXCEPT !.pending.phase = "Activating"]
           open == [a EXCEPT !.gate = TRUE]
<1>1. Kept(o, n) BY DEF Kept, Sound
<1> HIDE DEF n
<1>2. Kept(o, m) BY <1>1 DEF Kept, Sound
<1> HIDE DEF m, head
<1>3. Kept(o, told) BY <1>2, ReplyKeeps, RequestFinishKeeps, KeptTrans DEF Kept
<1> HIDE DEF told, settles
<1>4. Kept(o, last) BY <1>3 DEF Kept, Sound
<1> HIDE DEF last
<1>5. Kept(o, TakeQueued(last)) BY <1>4, TakeQueuedKeeps, KeptTrans DEF Kept
<1>6. Kept(o, MaybeSettle(last)) BY <1>4, MaybeSettleKeeps, KeptTrans DEF Kept
<1>7. Kept(o, a) BY DEF Kept, Sound
<1> HIDE DEF a
<1>8. Kept(o, FailReceipt(a, e)) BY <1>7, FailReceiptKeeps, KeptTrans DEF Kept
<1>9. Kept(o, open) BY <1>7 DEF Kept, Sound
<1>10. Complete(o, enable, e) \in {FailReceipt(a, e), open, TakeQueued(last), MaybeSettle(last),
                                   last}
  BY DEF Complete, open, a, last, told, head, m, n, settles
<1>11. QED BY <1>4, <1>5, <1>6, <1>8, <1>9, <1>10

LEMMA DeferBrokerLossParkKeeps == ASSUME NEW o, Sound(o) PROVE Kept(o, DeferBrokerLossPark(o))
<1> DEFINE why == Causal(<<"reconcile">>)
           n == Defer(o, why)
<1>1. Kept(o, n) BY DeferKeeps
<1> HIDE DEF n
<1>2. Kept(o, [n EXCEPT !.blocked = TRUE]) BY <1>1 DEF Kept, Sound
<1>3. QED BY <1>2 DEF DeferBrokerLossPark, n

LEMMA ParkForReconciliationKeeps ==
  ASSUME NEW o, NEW e, Sound(o) PROVE Kept(o, ParkForReconciliation(o, e))
<1> DEFINE n == AttemptPark(o, e)
<1>1. Kept(o, n) BY AttemptParkKeeps
<1> HIDE DEF n
<1>2. Kept(o, BeginTerminalEvent(n, "ok", e)) BY <1>1, BeginTerminalEventKeeps, KeptTrans DEF Kept
<1>3. Kept(o, QuarantineMechanic(n, NoOp, e)) BY <1>1, QuarantineMechanicKeeps, KeptTrans DEF Kept
<1>4. Kept(o, o) BY KeptSelf
<1>5. ParkForReconciliation(o, e) \in {o, n, BeginTerminalEvent(n, "ok", e),
                                       QuarantineMechanic(n, NoOp, e)}
  BY DEF ParkForReconciliation, n
<1>6. QED BY <1>1, <1>2, <1>3, <1>4, <1>5

LEMMA FreezeOwingKeeps == ASSUME NEW o, NEW e, Sound(o) PROVE Kept(o, FreezeOwing(o, e))
<1> DEFINE n == ParkForReconciliation(o, e)
<1>1. Kept(o, n) BY ParkForReconciliationKeeps
<1> HIDE DEF n
<1>2. Kept(o, DeferBrokerLossPark(n)) BY <1>1, DeferBrokerLossParkKeeps, KeptTrans DEF Kept
<1>3. QED BY <1>2, KeptSelf DEF FreezeOwing, n

\* A lost connection begins a reconnect, which offers the last signed receipt.
Detaching(o) == [o EXCEPT !.trying = TRUE]
Seeking(o) == [Detaching(o) EXCEPT !.offered = Tip(o)]

LEMMA DetachedKeeps ==
  ASSUME NEW o, NEW e, Sound(o) PROVE Kept(Detaching(o), Detached(o, e))
<1> DEFINE a == Revoke(o, e)
           b == Narrowed(a)
<1>1. Kept(o, a) BY RevokeKeeps
<1> HIDE DEF a
<1>2. Kept(o, b) BY <1>1, NarrowedKeeps, KeptTrans DEF Kept
<1> HIDE DEF b
<1> DEFINE n == [b EXCEPT
        !.resending = 0, !.draining = NoOp, !.settling = FALSE, !.conn = "Grace",
        !.acks = <<>>, !.trying = TRUE, !.replies = {[r EXCEPT !.live = FALSE] : r \in @}]
<1>3. /\ Sound(n) /\ n.receipts = b.receipts /\ n.brokerHead = b.brokerHead
      /\ n.offer = b.offer /\ n.acks = <<>> /\ n.wire = b.wire /\ n.offered = b.offered
      /\ n.state = b.state /\ n.tree = b.tree /\ n.quarantined = b.quarantined
  BY <1>2 DEF Kept, Sound
<1> HIDE DEF n
<1> DEFINE d == Detaching(o)
<1>4. /\ d.receipts = o.receipts /\ d.brokerHead = o.brokerHead /\ d.offer = o.offer
      /\ d.wire = o.wire /\ d.offered = o.offered /\ d.state = o.state /\ d.tree = o.tree
      /\ d.quarantined = o.quarantined /\ d.trying = TRUE
  BY DEF Detaching, Sound
<1> HIDE DEF d
<1>5. Kept(d, n) BY <1>2, <1>3, <1>4 DEF Kept
<1>6. QED BY <1>5 DEF Detached, d, n, b, a

LEMMA FailGuardedKeeps == ASSUME NEW o, NEW e, Sound(o) PROVE Kept(o, FailGuarded(o, e))
  BY FailReceiptKeeps, KeptSelf DEF FailGuarded

LEMMA LoseBrokerKeeps ==
  ASSUME NEW o, NEW e, Sound(o)
  PROVE  LoseBroker(o, e) = o \/ Kept(Seeking(o), LoseBroker(o, e))
<1> DEFINE d == Detaching(o)
           n == Detached(o, e)
           m == FailGuarded(n, e)
<1>1. Kept(d, n) BY DetachedKeeps
<1>2. /\ Sound(Seeking(o)) /\ Sound(d) /\ d.receipts = o.receipts /\ d.offer = o.offer
      /\ Seeking(o).receipts = d.receipts /\ Seeking(o).brokerHead = d.brokerHead
      /\ Seeking(o).offer = d.offer /\ Seeking(o).acks = d.acks /\ Seeking(o).wire = d.wire
      /\ Seeking(o).trying = TRUE /\ Seeking(o).offered = Len(d.receipts)
      /\ Seeking(o).state = d.state /\ Seeking(o).tree = d.tree
      /\ Seeking(o).quarantined = d.quarantined
  BY DEF Seeking, Detaching, Sound, Tip
<1> HIDE DEF n, d
<1>3. Kept(d, m) BY <1>1, FailGuardedKeeps, KeptTrans DEF Kept
<1> HIDE DEF m
<1>4. Kept(Seeking(o), Offering(m))
  BY <1>2, <1>3 DEF Kept, Sound, Offering, Offered, Tip
<1>5. QED BY <1>4 DEF LoseBroker, m, n

LEMMA ParkUnreachableKeeps == ASSUME NEW o, NEW e, Sound(o) PROVE Kept(o, ParkUnreachable(o, e))
<1> DEFINE m == ParkForReconciliation(o, e)
           gone == [m EXCEPT !.conn = "Disconnected"]
<1>1. Kept(o, m) BY ParkForReconciliationKeeps
<1> HIDE DEF m
<1>2. Kept(o, gone) BY <1>1 DEF Kept, Sound
<1> HIDE DEF gone
<1>3. Kept(o, BeginCausedPark(gone, <<"broker">>, e))
  BY <1>2, BeginCausedParkKeeps, KeptTrans DEF Kept
<1>4. QED BY <1>1, <1>2, <1>3 DEF ParkUnreachable, gone, m

LEMMA UnreachableKeeps == ASSUME NEW o, NEW e, Sound(o) PROVE Kept(o, Unreachable(o, e))
<1>1. Kept(o, [o EXCEPT !.conn = "Disconnected"]) BY DEF Kept, Sound
<1>2. QED BY <1>1, ParkUnreachableKeeps DEF Unreachable

LEMMA GraceExpiredKeeps == ASSUME NEW o, NEW e, Sound(o) PROVE Kept(o, GraceExpired(o, e))
  BY FailReceiptKeeps, UnreachableKeeps, KeptTrans DEF Kept, GraceExpired

LEMMA StartDrainingKeeps == ASSUME NEW o, Sound(o) PROVE Kept(o, StartDraining(o))
  BY DEF Kept, Sound, StartDraining

LEMMA CompleteDurableKeeps ==
  ASSUME NEW o, NEW e, Sound(o) PROVE Kept(o, CompleteDurable(o, e))
<1>1. Kept(o, Complete(o, FALSE, e)) BY CompleteKeeps
<1>2. QED BY <1>1, KeptSelf DEF CompleteDurable

LEMMA ReattachedKeeps == ASSUME NEW o, Sound(o) PROVE Kept(o, Reattached(o))
<1> DEFINE n == [o EXCEPT !.conn = "Connected",
                    !.lostPark = @ /\ ~\E i \in 1 .. o.brokerHead :
                                          o.receipts[i].by = <<"controller">>]
<1>1. Kept(o, n) BY DEF Kept, Sound
<1> HIDE DEF n
<1>2. Kept(o, MaybeSettle(n)) BY <1>1, MaybeSettleKeeps, KeptTrans DEF Kept
<1>3. QED BY <1>2 DEF Reattached, n

LEMMA UnblockKeeps == ASSUME NEW o, Sound(o) PROVE Kept(o, Unblock(o))
  BY DEF Kept, Sound, Unblock

LEMMA FinishDrainedKeeps == ASSUME NEW o, Sound(o) PROVE Kept(o, FinishDrained(o))
<1> DEFINE n == [o EXCEPT !.finishDrained = "none"]
<1>1. Kept(o, n) BY DEF Kept, Sound
<1> HIDE DEF n
<1>2. Kept(o, RequestFinish(n, o.finishDrained)) BY <1>1, RequestFinishKeeps, KeptTrans DEF Kept
<1>3. QED BY <1>2 DEF FinishDrained, n

LEMMA UnfrozenKeeps == ASSUME NEW o, Sound(o) PROVE Kept(o, Unfrozen(o))
  BY DEF Kept, Sound, Unfrozen

LEMMA ReconciledKeeps == ASSUME NEW o, NEW e, Sound(o) PROVE Kept(o, Reconciled(o, e))
<1> DEFINE back == Reattached(o)
           free == Unblock(back)
           froze == FreezeOwing(o, e)
           drain == [froze EXCEPT !.conn = "Reconciling"]
           m == ParkForReconciliation(o, e)
<1>1. Kept(o, back) BY ReattachedKeeps
<1> HIDE DEF back
<1>2. Kept(o, free) BY <1>1, UnblockKeeps, KeptTrans DEF Kept
<1> HIDE DEF free
<1>3. Kept(o, FinishDrained(free)) BY <1>2, FinishDrainedKeeps, KeptTrans DEF Kept
<1>4. Kept(o, froze) BY FreezeOwingKeeps
<1> HIDE DEF froze
<1>5. Kept(o, drain) BY <1>4 DEF Kept, Sound
<1> HIDE DEF drain
<1>6. Kept(o, StartDraining(drain)) BY <1>5, StartDrainingKeeps, KeptTrans DEF Kept
<1>7. Kept(o, m) BY ParkForReconciliationKeeps
<1> HIDE DEF m
<1>8. Kept(o, Unfrozen(m)) BY <1>7, UnfrozenKeeps, KeptTrans DEF Kept
<1>9. QED BY <1>3, <1>6, <1>8 DEF Reconciled, m, drain, froze, free, back

LEMMA FinishReconnectKeeps ==
  ASSUME NEW o, NEW e, Sound(o) PROVE Kept(o, FinishReconnect(o, e))
<1> DEFINE n == [o EXCEPT !.resending = 0]
           m == CompleteDurable(n, e)
<1>1. Kept(o, n) BY DEF Kept, Sound
<1> HIDE DEF n
<1>2. Kept(o, m) BY <1>1, CompleteDurableKeeps, KeptTrans DEF Kept
<1> HIDE DEF m
<1>3. Kept(o, Reconciled(m, e)) BY <1>2, ReconciledKeeps, KeptTrans DEF Kept
<1>4. QED BY <1>3 DEF FinishReconnect, m, n

LEMMA UnreconciledKeeps ==
  ASSUME NEW o, NEW was, Sound(o) PROVE Kept(o, Unreconciled(o, was))
<1> DEFINE owing == IF was = "Running" /\ o.state = "Parked" THEN DeferBrokerLossPark(o) ELSE o
           narrow == Narrowed(owing)
<1>1. Kept(o, owing) BY DeferBrokerLossParkKeeps, KeptSelf
<1> HIDE DEF owing
<1>2. Kept(o, narrow) BY <1>1, NarrowedKeeps, KeptTrans DEF Kept
<1> HIDE DEF narrow
<1>3. Kept(o, [narrow EXCEPT !.conn = "Connected"]) BY <1>2 DEF Kept, Sound
<1>4. QED BY <1>3, KeptSelf DEF Unreconciled, narrow, owing

LEMMA FailReconciliationKeeps ==
  ASSUME NEW o, NEW e, Sound(o) PROVE Kept(o, FailReconciliation(o, e))
<1> DEFINE n == [o EXCEPT !.resending = 0, !.blocked = TRUE]
           m == ParkForReconciliation(n, e)
<1>1. Kept(o, n) BY DEF Kept, Sound
<1> HIDE DEF n
<1>2. Kept(o, m) BY <1>1, ParkForReconciliationKeeps, KeptTrans DEF Kept
<1> HIDE DEF m
<1>3. Kept(m, Unreconciled(m, o.state)) BY <1>2, UnreconciledKeeps DEF Kept
<1>4. QED BY <1>2, <1>3, KeptTrans DEF FailReconciliation, m, n

LEMMA FailUnfrozenKeeps == ASSUME NEW o, NEW e, Sound(o) PROVE Kept(o, FailUnfrozen(o, e))
  BY FailReconciliationKeeps, KeptSelf DEF FailUnfrozen

LEMMA FailDrainingKeeps == ASSUME NEW o, Sound(o) PROVE Kept(o, FailDraining(o))
  BY DEF Kept, Sound, FailDraining

LEMMA OweSuspensionKeeps ==
  ASSUME NEW o, NEW due, Sound(o) PROVE Kept(o, OweSuspension(o, due))
<1> DEFINE why == Causal(<<"conformance">>)
<1>1. Kept(o, Defer(o, why)) BY DeferKeeps
<1>2. QED BY <1>1, KeptSelf DEF OweSuspension, why

LEMMA SuspendConformanceKeeps ==
  ASSUME NEW o, NEW contained, NEW e, Sound(o) PROVE Kept(o, SuspendConformance(o, contained, e))
<1> DEFINE n == [o EXCEPT !.contained = @ \/ contained]
           shut == Shut(n, e)
           m == [shut EXCEPT !.suspended = TRUE]
           frozen == AttemptPark(m, e)
           failed == FailReceipt(frozen, e)
<1>1. Kept(o, n) BY DEF Kept, Sound
<1> HIDE DEF n
<1>2. Kept(o, shut) BY <1>1, ShutKeeps, KeptTrans DEF Kept
<1> HIDE DEF shut
<1>3. Kept(o, m) BY <1>2 DEF Kept, Sound
<1> HIDE DEF m
<1>4. Kept(o, frozen) BY <1>3, AttemptParkKeeps, KeptTrans DEF Kept
<1> HIDE DEF frozen
<1>5. Kept(o, failed) BY <1>4, FailReceiptKeeps, KeptTrans DEF Kept
<1> HIDE DEF failed
<1>6. Kept(failed, OweSuspension(failed, OwesPark(o))) BY <1>5, OweSuspensionKeeps DEF Kept
<1>7. Kept(o, OweSuspension(failed, OwesPark(o))) BY <1>5, <1>6, KeptTrans
<1>8. Kept(frozen, QuarantineMechanic(frozen, o.pending, e))
  BY <1>4, QuarantineMechanicKeeps DEF Kept
<1>9. Kept(o, QuarantineMechanic(frozen, o.pending, e)) BY <1>4, <1>8, KeptTrans
<1>10. Kept(o, BeginCausedPark(frozen, <<"conformance">>, e))
  BY <1>4, BeginCausedParkKeeps, KeptTrans DEF Kept
<1>11. QED
  BY <1>1, <1>4, <1>7, <1>9, <1>10 DEF SuspendConformance, failed, frozen, m, shut, n

LEMMA WithdrawKeyAuthorityKeeps ==
  ASSUME NEW o, NEW e, Sound(o) PROVE Kept(o, WithdrawKeyAuthority(o, e))
<1> DEFINE a == Revoke(o, e)
           b == [a EXCEPT !.withdrawn = TRUE, !.blocked = TRUE, !.channel = "Revoked"]
           n == AttemptPark(b, e)
           m == [n EXCEPT !.conn = "Disconnected", !.trying = FALSE, !.wire = <<>>, !.acks = <<>>]
<1>1. Kept(o, a) BY RevokeKeeps
<1> HIDE DEF a
<1>2. Kept(o, b) BY <1>1 DEF Kept, Sound
<1> HIDE DEF b
<1>3. Kept(o, n) BY <1>2, AttemptParkKeeps, KeptTrans DEF Kept
<1> HIDE DEF n
<1>4. Kept(o, m) BY <1>3 DEF Kept, Sound
<1> HIDE DEF m
<1>5. Kept(o, QuarantineMechanic(m, NoOp, e)) BY <1>4, QuarantineMechanicKeeps, KeptTrans DEF Kept
<1>6. QED BY <1>4, <1>5 DEF WithdrawKeyAuthority, m, n, b, a

-----------------------------------------------------------------------------
(* What the owner knows, what is on the way, and what the broker stored *)

\* The inductive invariant, of an owner and the length of the durable chain:
\* whatever either side was told was stored, whatever is sent is signed.
Heads(o, s) ==
    /\ Sound(o)
    /\ \E S : o.receipts \in Seq(S)
    /\ s \in Nat /\ 1 <= s /\ s <= Tip(o)
    /\ o.brokerHead \in Nat /\ o.brokerHead <= s
    /\ o.offer \in Nat /\ o.offer <= s
    /\ o.acks \in Seq(1 .. s)
    /\ o.wire \in Seq(1 .. Tip(o))
    /\ \A i \in 1 .. s - 1 : ValidTransition(o.receipts[i].to, o.receipts[i + 1])

\* What no step may do to the owner's history, nor to a Session that ended or is
\* quarantined.
Extends(o, n) ==
    /\ Tip(o) <= Tip(n)
    /\ \A i \in 1 .. Tip(o) : n.receipts[i] = o.receipts[i]
    /\ o.state = "Terminal" => n.state = "Terminal"
    /\ o.quarantined => n.quarantined
\* Nor what any but a prepared Resume may do to its tree.
Grows(o, n) == Extends(o, n) /\ (n.tree = "running" => o.tree = "running")

Follows(o, s, n) == Heads(n, s) /\ Grows(o, n)

LEMMA TipInNat == ASSUME NEW o, NEW s, Heads(o, s) PROVE Tip(o) \in Nat /\ Sound(o)
  BY DEF Heads, Tip

LEMMA KeptFollows ==
  ASSUME NEW o, NEW n, NEW s, Heads(o, s), Kept(o, n) PROVE Follows(o, s, n)
<1>1. Tip(o) \in Nat BY TipInNat
<1>2. Tip(n) = Tip(o) BY DEF Kept, Tip
<1>3. Grows(o, n) BY <1>1, <1>2 DEF Kept, Grows, Extends
<1>4. n.acks \in Seq(1 .. s) BY EmptySeq DEF Kept, Heads
<1>5. n.wire \in Seq(1 .. Tip(n)) BY <1>2, EmptySeq DEF Kept, Heads
<1>6. \E S : n.receipts \in Seq(S) BY DEF Kept, Heads
<1>7. \A i \in 1 .. s - 1 : ValidTransition(n.receipts[i].to, n.receipts[i + 1])
  BY DEF Kept, Heads
<1>8. /\ Sound(n) /\ s \in Nat /\ 1 <= s /\ s <= Tip(n)
      /\ n.brokerHead \in Nat /\ n.brokerHead <= s /\ n.offer \in Nat /\ n.offer <= s
  BY <1>2 DEF Kept, Heads
<1>9. QED BY <1>3, <1>4, <1>5, <1>6, <1>7, <1>8 DEF Follows, Heads

LEMMA FollowsTrans ==
  ASSUME NEW a, NEW b, NEW c, NEW s, Heads(a, s), Follows(a, s, b), Follows(b, s, c)
  PROVE  Follows(a, s, c)
<1>1. Tip(a) \in Nat /\ Tip(b) \in Nat /\ Tip(c) \in Nat BY TipInNat DEF Follows
<1>2. QED BY <1>1 DEF Follows, Grows, Extends

\* A head learnt from an acknowledgement or a checkpoint was stored.
LEMMA HeadFollows ==
  ASSUME NEW o, NEW s, NEW i \in 1 .. s, Heads(o, s), NEW n, Sound(n), n.brokerHead = i,
         n.receipts = o.receipts, n.offer = o.offer, n.acks = o.acks, n.wire = o.wire,
         n.state = o.state, n.tree = o.tree, n.quarantined = o.quarantined
  PROVE  Follows(o, s, n)
<1>1. Tip(o) \in Nat BY TipInNat
<1>2. Tip(n) = Tip(o) BY DEF Tip
<1>3. Grows(o, n) BY <1>1, <1>2 DEF Grows, Extends
<1>4. Heads(n, s) BY <1>2 DEF Heads
<1>5. QED BY <1>3, <1>4 DEF Follows

\* A reconnect that begins leaves the history alone.
LEMMA SeekingFollows == ASSUME NEW o, NEW s, Heads(o, s) PROVE Follows(o, s, Seeking(o))
<1>1. /\ Sound(Seeking(o)) /\ Seeking(o).receipts = o.receipts
      /\ Seeking(o).brokerHead = o.brokerHead /\ Seeking(o).offer = o.offer
      /\ Seeking(o).acks = o.acks /\ Seeking(o).wire = o.wire /\ Seeking(o).state = o.state
      /\ Seeking(o).tree = o.tree /\ Seeking(o).quarantined = o.quarantined
  BY DEF Heads, Sound, Seeking, Detaching
<1>2. Tip(Seeking(o)) = Tip(o) /\ Tip(o) \in Nat BY <1>1, TipInNat DEF Tip
<1>3. Heads(Seeking(o), s) BY <1>1, <1>2 DEF Heads
<1>4. Grows(o, Seeking(o)) BY <1>1, <1>2 DEF Grows, Extends
<1>5. QED BY <1>3, <1>4 DEF Follows

\* Only signed receipts are sent.
LEMMA SendFollows ==
  ASSUME NEW o, NEW s, Heads(o, s), NEW i \in 1 .. Tip(o) PROVE Follows(o, s, Send(o, i))
<1> DEFINE n == Send(o, i)
<1>1. /\ Sound(n) /\ n.receipts = o.receipts /\ n.brokerHead = o.brokerHead /\ n.offer = o.offer
      /\ n.acks = o.acks /\ n.state = o.state /\ n.tree = o.tree /\ n.quarantined = o.quarantined
      /\ n.wire = Append(o.wire, i)
  BY DEF Send, Heads, Sound
<1> HIDE DEF n
<1>2. Tip(o) \in Nat BY TipInNat
<1>3. Tip(n) = Tip(o) BY <1>1 DEF Tip
<1>4. Grows(o, n) BY <1>1, <1>2, <1>3 DEF Grows, Extends
<1>5. n.wire \in Seq(1 .. Tip(n)) BY <1>1, <1>3, AppendProperties DEF Heads
<1>6. Heads(n, s) BY <1>1, <1>3, <1>5 DEF Heads
<1>7. QED BY <1>4, <1>6 DEF Follows, n

\* A receipt is signed after the others and sent.
LEMMA SignFollows ==
  ASSUME NEW o, NEW s, Heads(o, s), NEW n, NEW r, Sound(n),
         n.receipts = Append(o.receipts, r), n.wire = Append(o.wire, Tip(o) + 1),
         n.brokerHead = o.brokerHead, n.offer = o.offer, n.acks = o.acks, n.state = o.state,
         n.tree = o.tree, n.quarantined = o.quarantined
  PROVE  Follows(o, s, n)
<1>1. PICK S : o.receipts \in Seq(S) BY DEF Heads
<1>2. o.receipts \in Seq(S \union {r}) BY <1>1, SeqMonotonic
<1>3. /\ n.receipts \in Seq(S \union {r}) /\ Len(n.receipts) = Len(o.receipts) + 1
      /\ \A i \in 1 .. Len(o.receipts) : n.receipts[i] = o.receipts[i]
  BY <1>2, AppendProperties
<1>4. Tip(o) \in Nat /\ Tip(n) = Tip(o) + 1 BY <1>3, TipInNat DEF Tip
<1>5. Grows(o, n) BY <1>3, <1>4 DEF Grows, Extends, Tip
<1>6. o.wire \in Seq(1 .. Tip(n)) BY <1>4, SeqMonotonic DEF Heads
<1>7. n.wire \in Seq(1 .. Tip(n)) BY <1>4, <1>6, AppendProperties
<1>8. \A i \in 1 .. s - 1 : ValidTransition(n.receipts[i].to, n.receipts[i + 1])
  <2> SUFFICES ASSUME NEW i \in 1 .. s - 1
               PROVE  ValidTransition(n.receipts[i].to, n.receipts[i + 1])
    OBVIOUS
  <2>1. i \in 1 .. Len(o.receipts) /\ i + 1 \in 1 .. Len(o.receipts) BY <1>4 DEF Heads, Tip
  <2>2. n.receipts[i] = o.receipts[i] /\ n.receipts[i + 1] = o.receipts[i + 1] BY <1>3, <2>1
  <2>3. QED BY <2>2 DEF Heads
<1>9. /\ s \in Nat /\ 1 <= s /\ s <= Tip(n) /\ n.brokerHead \in Nat /\ n.brokerHead <= s
      /\ n.offer \in Nat /\ n.offer <= s /\ n.acks \in Seq(1 .. s)
  BY <1>4 DEF Heads
<1>10. \E T : n.receipts \in Seq(T) BY <1>3
<1>11. Heads(n, s) BY <1>7, <1>8, <1>9, <1>10 DEF Heads
<1>12. QED BY <1>5, <1>11 DEF Follows

\* The durable chain takes one more receipt that follows it.
LEMMA StoreFollows ==
  ASSUME NEW o, NEW s, Heads(o, s), NEW n, Sound(n), n.receipts = o.receipts,
         n.brokerHead = o.brokerHead, n.offer = o.offer, n.state = o.state, n.tree = o.tree,
         n.quarantined = o.quarantined,
         o.wire # <<>>, o.wire[1] = s + 1, n.wire = Tail(o.wire),
         n.acks \in {o.acks, Append(o.acks, s + 1)},
         ValidTransition(o.receipts[s].to, o.receipts[s + 1])
  PROVE  Follows(o, s + 1, n)
<1>1. Tip(o) \in Nat /\ Tip(n) = Tip(o) BY TipInNat DEF Tip
<1>2. Grows(o, n) BY <1>1 DEF Grows, Extends
<1>3. o.wire \in Seq(1 .. Tip(o)) /\ s \in Nat BY DEF Heads
<1>4. Len(o.wire) \in Nat \ {0} BY <1>3, EmptySeq
<1>5. s + 1 \in 1 .. Tip(o)
  <2>1. 1 \in 1 .. Len(o.wire) BY <1>4
  <2>2. o.wire[1] \in 1 .. Tip(o) BY <1>3, <2>1, ElementOfSeq
  <2>3. QED BY <2>2
<1>6. n.wire \in Seq(1 .. Tip(n)) BY <1>1, <1>3, HeadTailProperties
<1>7. o.acks \in Seq(1 .. s + 1) BY <1>3, SeqMonotonic DEF Heads
<1>8. n.acks \in Seq(1 .. s + 1)
  <2>1. s + 1 \in 1 .. s + 1 BY <1>3
  <2>2. \A S, a : a \in Seq(S) => \A x \in S : Append(a, x) \in Seq(S) BY AppendProperties
  <2>3. Append(o.acks, s + 1) \in Seq(1 .. s + 1) BY <1>7, <2>1, <2>2
  <2>4. QED BY <1>7, <2>3
<1>9. \A i \in 1 .. (s + 1) - 1 : ValidTransition(n.receipts[i].to, n.receipts[i + 1])
  <2> SUFFICES ASSUME NEW i \in 1 .. (s + 1) - 1
               PROVE  ValidTransition(n.receipts[i].to, n.receipts[i + 1])
    OBVIOUS
  <2>1. CASE i = s BY <2>1
  <2>2. CASE i # s
    <3>1. i \in 1 .. s - 1 BY <1>3, <2>2
    <3>2. QED BY <3>1 DEF Heads
  <2>3. QED BY <2>1, <2>2
<1>10. /\ s + 1 \in Nat /\ 1 <= s + 1 /\ s + 1 <= Tip(n)
       /\ n.brokerHead \in Nat /\ n.brokerHead <= s + 1
       /\ n.offer \in Nat /\ n.offer <= s + 1
  BY <1>1, <1>5 DEF Heads
<1>11. \E T : n.receipts \in Seq(T) BY DEF Heads
<1>12. Heads(n, s + 1) BY <1>6, <1>8, <1>9, <1>10, <1>11 DEF Heads
<1>13. QED BY <1>2, <1>12 DEF Follows

LEMMA FollowsKept ==
  ASSUME NEW a, NEW b, NEW c, NEW s, Heads(a, s), Follows(a, s, b), Kept(b, c)
  PROVE  Follows(a, s, c)
  BY KeptFollows, FollowsTrans DEF Follows

LEMMA FollowsSound ==
  ASSUME NEW a, NEW b, NEW s, Follows(a, s, b) PROVE Sound(b)
  BY DEF Follows, Heads

LEMMA FollowsSelf == ASSUME NEW o, NEW s, Heads(o, s) PROVE Follows(o, s, o)
  BY KeptFollows, KeptSelf, TipInNat

LEMMA LoseBrokerFollows ==
  ASSUME NEW o, NEW s, NEW e, Heads(o, s) PROVE Follows(o, s, LoseBroker(o, e))
<1>1. LoseBroker(o, e) = o \/ Kept(Seeking(o), LoseBroker(o, e)) BY LoseBrokerKeeps, TipInNat
<1>2. Follows(o, s, o) BY FollowsSelf
<1>3. QED BY <1>1, <1>2, SeekingFollows, FollowsKept

LEMMA AcknowledgedFollows ==
  ASSUME NEW o, NEW s, NEW e, Heads(o, s), NEW i \in 1 .. s
  PROVE  Follows(o, s, Acknowledged(o, i, e))
<1> DEFINE d == [o EXCEPT !.brokerHead = i, !.draining = NoOp]
           h == [o EXCEPT !.brokerHead = i]
           r == [h EXCEPT !.resending = i + 1]
<1>0. Sound(o) BY TipInNat
<1>1. Follows(o, s, d)
  <2>1. /\ Sound(d) /\ d.brokerHead = i /\ d.receipts = o.receipts /\ d.offer = o.offer
        /\ d.acks = o.acks /\ d.wire = o.wire /\ d.state = o.state
        /\ d.tree = o.tree /\ d.quarantined = o.quarantined
    BY <1>0 DEF Sound
  <2>2. QED BY <2>1, HeadFollows
<1>2. Follows(o, s, h)
  <2>1. /\ Sound(h) /\ h.brokerHead = i /\ h.receipts = o.receipts /\ h.offer = o.offer
        /\ h.acks = o.acks /\ h.wire = o.wire /\ h.state = o.state
        /\ h.tree = o.tree /\ h.quarantined = o.quarantined
    BY <1>0 DEF Sound
  <2>2. QED BY <2>1, HeadFollows
<1> HIDE DEF d, h
<1>3. Kept(h, r) BY <1>2, FollowsSound DEF Kept, Sound
<1>4. Follows(o, s, r) BY <1>2, <1>3, FollowsKept
<1> HIDE DEF r
<1>5. Follows(o, s, FailDraining(o)) BY <1>0, KeptFollows, FailDrainingKeeps
<1>6. Follows(o, s, FailReconciliation(o, e)) BY <1>0, KeptFollows, FailReconciliationKeeps
<1>7. Follows(o, s, FailReceipt(o, e)) BY <1>0, KeptFollows, FailReceiptKeeps
<1>8. Follows(o, s, FinishReconnect(d, e))
  BY <1>1, FollowsSound, FinishReconnectKeeps, FollowsKept
<1>9. Follows(o, s, StartDraining(d)) BY <1>1, FollowsSound, StartDrainingKeeps, FollowsKept
<1>10. Follows(o, s, FinishReconnect(h, e))
  BY <1>2, FollowsSound, FinishReconnectKeeps, FollowsKept
<1>11. Follows(o, s, Complete(h, TRUE, e))
  <2>1. Kept(h, Complete(h, TRUE, e)) BY <1>2, FollowsSound, CompleteKeeps
  <2>2. QED BY <1>2, <2>1, FollowsKept
<1>12. i < Tip(o) => Follows(o, s, Send(r, i + 1))
  <2> HAVE i < Tip(o)
  <2>1. Tip(o) <= Tip(r) /\ Heads(r, s) BY <1>4 DEF Follows, Grows, Extends
  <2>2. Tip(r) \in Nat /\ Tip(o) \in Nat /\ s \in Nat BY <2>1, TipInNat DEF Heads
  <2>3. i + 1 \in 1 .. Tip(r) BY <2>1, <2>2
  <2>4. Follows(r, s, Send(r, i + 1))
    <3>1. \A j \in 1 .. Tip(r) : Follows(r, s, Send(r, j)) BY <2>1, SendFollows
    <3>2. QED BY <2>3, <3>1
  <2>5. QED BY <1>4, <2>4, FollowsTrans
<1>13. Follows(o, s, o) BY FollowsSelf
<1>14. CASE o.draining # NoOp
  BY <1>5, <1>8, <1>9, <1>14 DEF Acknowledged, d
<1>15. CASE o.draining = NoOp /\ o.resending # 0
  BY <1>6, <1>10, <1>12, <1>15 DEF Acknowledged, h, r
<1>16. CASE o.draining = NoOp /\ o.resending = 0
  BY <1>7, <1>11, <1>13, <1>16 DEF Acknowledged, h
<1>17. QED BY <1>14, <1>15, <1>16

LEMMA CatchUpFollows ==
  ASSUME NEW o, NEW s, NEW e, Heads(o, s), NEW head \in 1 .. Tip(o), head # Tip(o)
  PROVE  Follows(o, s, CatchUp(o, head, e))
<1> DEFINE froze == FreezeOwing(o, e)
           r == [froze EXCEPT !.conn = "Reconciling", !.resending = head + 1]
           m == ParkForReconciliation(o, e)
<1>0. Sound(o) /\ Tip(o) \in Nat BY TipInNat
<1>1. Kept(o, froze) BY <1>0, FreezeOwingKeeps
<1> HIDE DEF froze
<1>2. Kept(o, r) BY <1>1 DEF Kept, Sound
<1> HIDE DEF r
<1>3. Follows(o, s, r) BY <1>2, KeptFollows
<1>4. head + 1 \in 1 .. Tip(r) BY <1>0, <1>2 DEF Kept, Tip
<1>5. \A i \in 1 .. Tip(r) : Follows(r, s, Send(r, i)) BY <1>3, SendFollows DEF Follows
<1>6. Follows(r, s, Send(r, head + 1)) BY <1>4, <1>5
<1>7. Follows(o, s, Send(r, head + 1)) BY <1>3, <1>6, FollowsTrans
<1>8. Kept(o, m) BY <1>0, ParkForReconciliationKeeps
<1> HIDE DEF m
<1>9. Kept(o, FailUnfrozen(m, e)) BY <1>8, FailUnfrozenKeeps, KeptTrans DEF Kept
<1>10. Follows(o, s, FailUnfrozen(m, e)) BY <1>9, KeptFollows
<1>11. QED BY <1>7, <1>10 DEF CatchUp, m, r, froze

LEMMA ReconnectedFollows ==
  ASSUME NEW o, NEW s, NEW e, Heads(o, s), NEW head \in 1 .. s
  PROVE  Follows(o, s, Reconnected(o, head, e))
<1> DEFINE n == [o EXCEPT !.brokerHead = head, !.trying = FALSE]
           failed == FailReceipt(n, e)
<1>1. Follows(o, s, n)
  <2>1. /\ Sound(n) /\ n.brokerHead = head /\ n.receipts = o.receipts /\ n.offer = o.offer
        /\ n.acks = o.acks /\ n.wire = o.wire /\ n.state = o.state
        /\ n.tree = o.tree /\ n.quarantined = o.quarantined
    BY DEF Heads, Sound
  <2>2. QED BY <2>1, HeadFollows
<1> HIDE DEF n
<1>2. Kept(n, failed) BY <1>1, FollowsSound, FailReceiptKeeps
<1> HIDE DEF failed
<1>3. Follows(o, s, failed) BY <1>1, <1>2, FollowsKept
<1>4. Follows(o, s, FinishReconnect(n, e)) BY <1>1, FollowsSound, FinishReconnectKeeps, FollowsKept
<1>5. head # Tip(n) => Follows(o, s, CatchUp(failed, head, e))
  <2> HAVE head # Tip(n)
  <2>1. Heads(failed, s) BY <1>3 DEF Follows
  <2>2. Tip(failed) = Tip(n) BY <1>2 DEF Kept, Tip
  <2>3. head \in 1 .. Tip(failed) /\ head # Tip(failed)
    <3>1. Tip(failed) \in Nat BY <2>1, TipInNat
    <3>2. s \in Nat /\ s <= Tip(failed) BY <2>1 DEF Heads
    <3>3. QED BY <2>2, <3>1, <3>2
  <2>4. Follows(failed, s, CatchUp(failed, head, e)) BY <2>1, <2>3, CatchUpFollows
  <2>5. QED BY <1>3, <2>4, FollowsTrans
<1>6. QED BY <1>4, <1>5 DEF Reconnected, failed, n

-----------------------------------------------------------------------------
(* Every step follows *)

\* A step of the owner alone, which signs, receives and thaws nothing.
Undisturbed == Kept(owner, owner') /\ UNCHANGED <<stored, link, catchup>>

LEMMA KeptStep ==
  ASSUME Heads(owner, stored), Undisturbed PROVE Follows(owner, stored', owner')
  BY KeptFollows DEF Undisturbed

LEMMA RequestedKeeps == ASSUME Sound(owner), NEW q, Requested(q) PROVE Undisturbed
<1>0. Sound(owner) OBVIOUS
<1>1. UNCHANGED <<stored, link, catchup>>
  BY DEF Requested, Repeat, RejectFull, Park, Interrupt, Dispose, Resume, Handle, Outside
<1>2. CASE Repeat(q)
  <2>1. Kept(owner, owner') BY <1>0, <1>2, ReplyKeeps DEF Repeat, Handle
  <2>2. QED BY <1>1, <2>1 DEF Undisturbed
<1>3. CASE RejectFull(q)
  <2>1. PICK e : owner' = [Narrowed(Revoke(owner, e)) EXCEPT !.blocked = TRUE]
    BY <1>3 DEF RejectFull, Handle
  <2> DEFINE n == Narrowed(Revoke(owner, e))
  <2>2. Kept(owner, n) BY <1>0, RevokeKeeps, NarrowedKeeps, KeptTrans DEF Kept
  <2> HIDE DEF n
  <2>3. Kept(owner, [n EXCEPT !.blocked = TRUE]) BY <2>2 DEF Kept, Sound
  <2>4. QED BY <1>1, <2>1, <2>3 DEF Undisturbed, n
<1>4. CASE Park(q)
  <2>1. Kept(owner, owner') BY <1>0, <1>4, BeginParkKeeps DEF Park, Handle
  <2>2. QED BY <1>1, <2>1 DEF Undisturbed
<1>5. CASE Interrupt(q)
  <2>1. Kept(owner, owner') BY <1>0, <1>5, BeginInterruptKeeps DEF Interrupt, Handle
  <2>2. QED BY <1>1, <2>1 DEF Undisturbed
<1>6. CASE Dispose(q)
  <2> DEFINE n == CancelWait(owner)
             m(e) == IF Preparing(n) THEN FailPreparation(n, e) ELSE n
  <2>1. PICK e : owner' = IF Preparing(n) /\ (m(e).state # "Parked" \/ m(e).unproven) THEN m(e)
                          ELSE BeginDisposal(m(e), q, e)
    BY <1>6 DEF Dispose, Handle
  <2>2. Kept(owner, n) BY <1>0, CancelWaitKeeps
  <2> HIDE DEF n
  <2>3. Kept(owner, m(e)) BY <2>2, FailPreparationKeeps, KeptTrans DEF Kept
  <2> HIDE DEF m
  <2>4. Kept(owner, BeginDisposal(m(e), q, e)) BY <2>3, BeginDisposalKeeps, KeptTrans DEF Kept
  <2>5. QED BY <1>1, <2>1, <2>3, <2>4 DEF Undisturbed
<1>7. CASE Resume(q)
  <2>1. Kept(owner, [owner EXCEPT !.wait = q]) BY <1>0 DEF Kept, Sound
  <2>2. Kept(owner, owner') BY <1>0, <1>7, <2>1, BeginResumeKeeps DEF Resume, Handle
  <2>3. QED BY <1>1, <2>2 DEF Undisturbed
<1>8. QED BY <1>2, <1>3, <1>4, <1>5, <1>6, <1>7 DEF Requested

\* What a handler may do to what is said on the connection: drop it.
Hushed(o, n) ==
    /\ n.offer = o.offer /\ n.offered = o.offered /\ (n.trying => o.trying)
    /\ n.acks \in {o.acks, <<>>} /\ n.wire \in {o.wire, <<>>}

\* A prepared Resume is the one step that may bring a frozen tree back.
LEMMA PreparedFollows ==
  ASSUME Heads(owner, stored), Prepared
  PROVE  /\ Heads(owner', stored') /\ Extends(owner, owner') /\ Hushed(owner, owner')
         /\ UNCHANGED <<stored, link, catchup>>
<1> DEFINE running == [owner EXCEPT !.state = "Running", !.tree = "running",
                                    !.pending.phase = "Signing"]
           unknown == [owner EXCEPT !.tree = "unknown"]
           f(e) == FailMechanic(owner, e)
           gone(e) == [f(e) EXCEPT !.tree = "gone"]
<1>0. Sound(owner) /\ Tip(owner) \in Nat BY TipInNat
<1>1. owner.state = "Parked" /\ UNCHANGED <<stored, link, catchup>>
  BY DEF Prepared, Preparing, Handle, Outside
<1>2. Kept(owner, unknown) BY <1>0, <1>1 DEF Kept, Sound
<1>3. /\ Sound(running) /\ running.receipts = owner.receipts
      /\ running.brokerHead = owner.brokerHead /\ running.offer = owner.offer
      /\ running.acks = owner.acks /\ running.wire = owner.wire
      /\ running.quarantined = owner.quarantined
      /\ running.trying = owner.trying /\ running.offered = owner.offered
  BY <1>0, <1>1 DEF Sound
<1>4. PICK e : owner' \in {FailPreparation(owner, e), BeginTerminalEvent(gone(e), "ok", e),
                           QuarantineMechanic(unknown, owner.pending, e), running}
  BY DEF Prepared, Handle
<1> HIDE DEF running, unknown
<1>5. Kept(owner, f(e)) BY <1>0, FailMechanicKeeps
<1> HIDE DEF f
<1>6. Kept(owner, gone(e)) BY <1>5 DEF Kept, Sound
<1> HIDE DEF gone
<1>7. Kept(owner, BeginTerminalEvent(gone(e), "ok", e))
  BY <1>6, BeginTerminalEventKeeps, KeptTrans DEF Kept
<1>8. Kept(owner, QuarantineMechanic(unknown, owner.pending, e))
  BY <1>2, QuarantineMechanicKeeps, KeptTrans DEF Kept
<1>9. Kept(owner, FailPreparation(owner, e)) BY <1>0, FailPreparationKeeps
<1>10. CASE owner' = running
  <2>1. Tip(running) = Tip(owner) BY <1>3 DEF Tip
  <2>2. Heads(running, stored) BY <1>3, <2>1 DEF Heads
  <2>3. Extends(owner, running) BY <1>0, <1>1, <1>3, <2>1 DEF Extends
  <2>4. Hushed(owner, running) BY <1>3 DEF Hushed
  <2>5. QED BY <1>1, <1>10, <2>2, <2>3, <2>4
<1>11. CASE Kept(owner, owner')
  <2>1. Hushed(owner, owner') BY <1>11 DEF Kept, Hushed
  <2>2. QED BY <1>1, <1>11, <2>1, KeptStep DEF Undisturbed, Follows, Grows
<1>12. QED BY <1>4, <1>7, <1>8, <1>9, <1>10, <1>11

LEMMA OperationKeeps ==
  ASSUME Sound(owner), OperationFails \/ Activated \/ DrainFails \/ BrokerGraceExpired
  PROVE  Undisturbed
<1>0. Sound(owner) OBVIOUS
<1>1. UNCHANGED <<stored, link, catchup>>
  BY DEF OperationFails, Activated, DrainFails, BrokerGraceExpired, Handle, Outside
<1>2. CASE OperationFails
  <2>1. Kept(owner, owner') BY <1>0, <1>2, FailReceiptKeeps DEF OperationFails, Handle
  <2>2. QED BY <1>1, <2>1 DEF Undisturbed
<1>3. CASE Activated
  <2> DEFINE n == [owner EXCEPT !.channel = "Enabled"]
  <2>1. PICK e : owner' \in {FailReceipt(owner, e), Complete(n, FALSE, e)}
    BY <1>3 DEF Activated, Handle
  <2>2. Kept(owner, n) BY <1>0 DEF Kept, Sound
  <2> HIDE DEF n
  <2>3. Kept(n, Complete(n, FALSE, e))
    <3>1. Sound(n) BY <2>2 DEF Kept
    <3>2. QED BY <3>1, CompleteKeeps
  <2>4. Kept(owner, Complete(n, FALSE, e)) BY <2>2, <2>3, KeptTrans
  <2>5. QED BY <1>0, <1>1, <2>1, <2>4, FailReceiptKeeps DEF Undisturbed
<1>4. CASE DrainFails
  <2>1. Kept(owner, owner') BY <1>0, <1>4, FailDrainingKeeps DEF DrainFails, Handle
  <2>2. QED BY <1>1, <2>1 DEF Undisturbed
<1>5. CASE BrokerGraceExpired
  <2>1. Kept(owner, owner') BY <1>0, <1>5, GraceExpiredKeeps DEF BrokerGraceExpired, Handle
  <2>2. QED BY <1>1, <2>1 DEF Undisturbed
<1>6. QED BY <1>2, <1>3, <1>4, <1>5

LEMMA ReceiptFollows ==
  ASSUME Heads(owner, stored), Signed \/ ReceiveAck \/ DrainSigned
  PROVE  Follows(owner, stored', owner')
<1>0. Sound(owner) BY TipInNat
<1>1. stored' = stored BY DEF Signed, ReceiveAck, DrainSigned, Handle, Outside
<1>2. CASE Signed
  <2> DEFINE r == Receipt(owner.pending.pay, owner.pending.seq)
             i == Tip(owner) + 1
             n == [owner EXCEPT !.receipts = Append(@, r),
                      !.pending.phase = "AwaitingDurableAck", !.pending.index = i]
  <2>1. owner' = Send(n, i) BY <1>2 DEF Signed, Handle
  <2> HIDE DEF r, i
  <2>2. /\ Sound(owner') /\ owner'.receipts = Append(owner.receipts, r)
        /\ owner'.wire = Append(owner.wire, i) /\ owner'.brokerHead = owner.brokerHead
        /\ owner'.offer = owner.offer /\ owner'.acks = owner.acks /\ owner'.state = owner.state
        /\ owner'.tree = owner.tree /\ owner'.quarantined = owner.quarantined
    BY <1>0, <2>1 DEF Send, Sound
  <2>3. QED BY <1>1, <2>2, SignFollows DEF i
<1>3. CASE ReceiveAck
  <2> DEFINE n == [owner EXCEPT !.acks = Tail(@)]
  <2>1. PICK e : owner' \in {n, Acknowledged(n, owner.acks[1], e)} /\ owner.acks # <<>>
    BY <1>3 DEF ReceiveAck, Handle
  <2>2. owner.acks \in Seq(1 .. stored) BY DEF Heads
  <2>3. /\ Sound(n) /\ n.receipts = owner.receipts /\ n.brokerHead = owner.brokerHead
        /\ n.offer = owner.offer /\ n.wire = owner.wire /\ n.state = owner.state
        /\ n.tree = owner.tree /\ n.quarantined = owner.quarantined
        /\ n.acks = Tail(owner.acks)
    BY <1>0 DEF Sound
  <2> HIDE DEF n
  <2>4. n.acks \in Seq(1 .. stored) BY <2>1, <2>2, <2>3, HeadTailProperties
  <2>5. Tip(n) = Tip(owner) /\ Tip(owner) \in Nat BY <2>3, TipInNat DEF Tip
  <2>6. Heads(n, stored) BY <2>3, <2>4, <2>5 DEF Heads
  <2>7. Follows(owner, stored, n) BY <2>3, <2>5, <2>6 DEF Follows, Grows, Extends
  <2>8. owner.acks[1] \in 1 .. stored
    <3>1. Len(owner.acks) \in Nat \ {0} BY <2>1, <2>2, EmptySeq
    <3>2. 1 \in 1 .. Len(owner.acks) BY <3>1
    <3>3. QED BY <2>2, <3>2, ElementOfSeq
  <2>9. Follows(owner, stored, Acknowledged(n, owner.acks[1], e))
    BY <2>6, <2>7, <2>8, AcknowledgedFollows, FollowsTrans
  <2>10. QED BY <1>1, <2>1, <2>7, <2>9
<1>4. CASE DrainSigned
  <2> DEFINE r == Receipt(owner.draining.pay, owner.draining.seq)
             i == Tip(owner) + 1
             n == [owner EXCEPT !.receipts = Append(@, r), !.deferred = Tail(@),
                      !.draining.phase = "AwaitingDurableAck", !.draining.index = i]
  <2>1. owner' = Send(n, i) BY <1>4 DEF DrainSigned, Handle
  <2> HIDE DEF r, i
  <2>2. /\ Sound(owner') /\ owner'.receipts = Append(owner.receipts, r)
        /\ owner'.wire = Append(owner.wire, i) /\ owner'.brokerHead = owner.brokerHead
        /\ owner'.offer = owner.offer /\ owner'.acks = owner.acks /\ owner'.state = owner.state
        /\ owner'.tree = owner.tree /\ owner'.quarantined = owner.quarantined
    BY <1>0, <2>1 DEF Send, Sound
  <2>3. QED BY <1>1, <2>2, SignFollows DEF i
<1>5. QED BY <1>2, <1>3, <1>4

LEMMA ConnectionFollows ==
  ASSUME Heads(owner, stored), BrokerLost \/ ResponseFails \/ BrokerReconnected
  PROVE  Follows(owner, stored', owner')
<1>0. Sound(owner) BY TipInNat
<1>1. stored' = stored BY DEF BrokerLost, ResponseFails, BrokerReconnected, Handle, Outside
<1>2. CASE BrokerLost
  <2>1. PICK e : owner' = LoseBroker(owner, e) BY <1>2 DEF BrokerLost
  <2>2. QED BY <1>1, <2>1, LoseBrokerFollows
<1>3. CASE ResponseFails
  <2> DEFINE n(r) == [owner EXCEPT !.replies = @ \ {r}]
  <2>1. PICK r, e : owner' \in {n(r), LoseBroker(n(r), e)} BY <1>3 DEF ResponseFails, Handle
  <2>2. Kept(owner, n(r)) BY <1>0 DEF Kept, Sound
  <2> HIDE DEF n
  <2>3. Follows(owner, stored, n(r)) BY <2>2, KeptFollows
  <2>4. Follows(owner, stored, LoseBroker(n(r), e))
    BY <2>3, LoseBrokerFollows, FollowsTrans DEF Follows
  <2>5. QED BY <1>1, <2>1, <2>3, <2>4
<1>4. CASE BrokerReconnected
  <2> DEFINE n == [owner EXCEPT !.offer = 0]
  <2>1. PICK e : owner' = Reconnected(n, owner.offer, e) /\ owner.offer # 0
    BY <1>4 DEF BrokerReconnected, Handle
  <2>2. /\ Sound(n) /\ n.receipts = owner.receipts /\ n.brokerHead = owner.brokerHead
        /\ n.offer = 0 /\ n.wire = owner.wire /\ n.state = owner.state /\ n.acks = owner.acks
        /\ n.tree = owner.tree /\ n.quarantined = owner.quarantined
    BY <1>0 DEF Sound
  <2> HIDE DEF n
  <2>3. Tip(n) = Tip(owner) /\ Tip(owner) \in Nat BY <2>2, TipInNat DEF Tip
  <2>4. Heads(n, stored) BY <2>2, <2>3 DEF Heads
  <2>5. Follows(owner, stored, n) BY <2>2, <2>3, <2>4 DEF Follows, Grows, Extends
  <2>6. owner.offer \in 1 .. stored BY <2>1 DEF Heads
  <2>7. Follows(n, stored, Reconnected(n, owner.offer, e)) BY <2>4, <2>6, ReconnectedFollows
  <2>8. QED BY <1>1, <2>1, <2>5, <2>7, FollowsTrans
<1>5. QED BY <1>2, <1>3, <1>4

LEMMA EndKeeps ==
  ASSUME Sound(owner),
         \/ ControllerDetached \/ ControllerLossSettled \/ ControllerLossUnsettled
         \/ RunningAgent \/ RelayQuiesced \/ ResponseSent
  PROVE  Undisturbed
<1>0. Sound(owner) OBVIOUS
<1>1. UNCHANGED <<stored, link, catchup>>
  BY DEF ControllerDetached, ControllerLossSettled, ControllerLossUnsettled, RunningAgent,
         RelayQuiesced, ResponseSent, Handle, Outside
<1>2. CASE ControllerDetached
  <2>1. Kept(owner, owner')
    BY <1>0, <1>2, BeginControllerLossKeeps DEF ControllerDetached, Handle
  <2>2. QED BY <1>1, <2>1 DEF Undisturbed
<1>3. CASE ControllerLossSettled
  <2> DEFINE n == [owner EXCEPT !.settling = FALSE]
  <2>1. PICK e : owner' = BeginControllerLossDisposal(n, e)
    BY <1>3 DEF ControllerLossSettled, Handle
  <2>2. Kept(owner, n) BY <1>0 DEF Kept, Sound
  <2> HIDE DEF n
  <2>3. Kept(owner, owner')
    BY <2>1, <2>2, BeginControllerLossDisposalKeeps, KeptTrans DEF Kept
  <2>4. QED BY <1>1, <2>3 DEF Undisturbed
<1>4. CASE ControllerLossUnsettled
  <2>1. Kept(owner, owner') BY <1>0, <1>4 DEF ControllerLossUnsettled, Handle, Kept, Sound
  <2>2. QED BY <1>1, <2>1 DEF Undisturbed
<1>5. CASE RunningAgent
  <2>1. Kept(owner, owner') BY <1>0, <1>5, BeginTerminalEventKeeps DEF RunningAgent, Handle
  <2>2. QED BY <1>1, <2>1 DEF Undisturbed
<1>6. CASE RelayQuiesced
  <2> DEFINE n(result) == [owner EXCEPT !.relay = result, !.finishQuiet = "none"]
  <2>1. PICK result : owner' = RequestFinish(n(result), owner.finishQuiet)
    BY <1>6 DEF RelayQuiesced, Handle
  <2>2. Kept(owner, n(result)) BY <1>0 DEF Kept, Sound
  <2> HIDE DEF n
  <2>3. Kept(owner, owner') BY <2>1, <2>2, RequestFinishKeeps, KeptTrans DEF Kept
  <2>4. QED BY <1>1, <2>3 DEF Undisturbed
<1>7. CASE ResponseSent
  <2> DEFINE n(r) == [owner EXCEPT !.replies = @ \ {r}]
  <2>1. PICK r : owner' \in {n(r), RequestFinish(n(r), r.finish), RequestFinish(n(r), "ok")}
    BY <1>7 DEF ResponseSent, Handle
  <2>2. Kept(owner, n(r)) BY <1>0 DEF Kept, Sound
  <2> HIDE DEF n
  <2>3. \A f : Kept(owner, RequestFinish(n(r), f)) BY <2>2, RequestFinishKeeps, KeptTrans DEF Kept
  <2>4. Kept(owner, owner') BY <2>1, <2>2, <2>3
  <2>5. QED BY <1>1, <2>4 DEF Undisturbed
<1>8. QED BY <1>2, <1>3, <1>4, <1>5, <1>6, <1>7

LEMMA AuthorityKeeps ==
  ASSUME Sound(owner),
         ConformanceLost \/ ConformanceConfirmed \/ KeyWithdrawn \/ WithdrawnEnds
  PROVE  Undisturbed
<1>0. Sound(owner) OBVIOUS
<1>1. UNCHANGED <<stored, link, catchup>>
  BY DEF ConformanceLost, ConformanceConfirmed, KeyWithdrawn, WithdrawnEnds, Handle, Outside
<1>2. CASE ConformanceLost
  <2>1. PICK e, c : owner' = CancelWait(SuspendConformance(owner, c, e))
    BY <1>2 DEF ConformanceLost, Handle
  <2>2. Kept(owner, SuspendConformance(owner, c, e)) BY <1>0, SuspendConformanceKeeps
  <2>3. Kept(owner, owner') BY <2>1, <2>2, CancelWaitKeeps, KeptTrans DEF Kept
  <2>4. QED BY <1>1, <2>3 DEF Undisturbed
<1>3. CASE ConformanceConfirmed
  <2> DEFINE n == [owner EXCEPT !.wait = NoOp, !.suspended = FALSE]
  <2>1. owner' \in {CancelWait(owner), BeginResume(n, owner.wait)}
    BY <1>3 DEF ConformanceConfirmed, Handle
  <2>2. Kept(owner, n) BY <1>0 DEF Kept, Sound
  <2> HIDE DEF n
  <2>3. Kept(owner, BeginResume(n, owner.wait)) BY <2>2, BeginResumeKeeps, KeptTrans DEF Kept
  <2>4. QED BY <1>0, <1>1, <2>1, <2>3, CancelWaitKeeps DEF Undisturbed
<1>4. CASE KeyWithdrawn
  <2>1. Kept(owner, owner') BY <1>0, <1>4, WithdrawKeyAuthorityKeeps DEF KeyWithdrawn, Handle
  <2>2. QED BY <1>1, <2>1 DEF Undisturbed
<1>5. CASE WithdrawnEnds
  <2>1. PICK e : owner' = [Terminate(owner, e) EXCEPT !.finished = "err"]
    BY <1>5 DEF WithdrawnEnds, Handle
  <2> DEFINE n == Terminate(owner, e)
  <2>2. Kept(owner, n) BY <1>0, TerminateKeeps
  <2> HIDE DEF n
  <2>3. Kept(owner, [n EXCEPT !.finished = "err"]) BY <2>2 DEF Kept, Sound
  <2>4. QED BY <1>1, <2>1, <2>3 DEF Undisturbed, n
<1>6. QED BY <1>2, <1>3, <1>4, <1>5

LEMMA BrokerFollows ==
  ASSUME Heads(owner, stored), BrokerStores \/ BrokerRefuses \/ ChannelBreaks \/ BrokerAnswers
  PROVE  Follows(owner, stored', owner')
<1>0. Sound(owner) BY TipInNat
<1>1. CASE BrokerStores
  <2>1. owner.wire[1] = stored + 1 BY <1>1 DEF BrokerStores, Acceptable
  <2>2. ValidTransition(owner.receipts[stored].to, owner.receipts[stored + 1])
    BY <1>1, <2>1 DEF BrokerStores, Acceptable
  <2>3. /\ Sound(owner') /\ owner'.receipts = owner.receipts
        /\ owner'.brokerHead = owner.brokerHead /\ owner'.offer = owner.offer
        /\ owner'.state = owner.state /\ owner'.wire = Tail(owner.wire)
        /\ owner'.tree = owner.tree /\ owner'.quarantined = owner.quarantined
        /\ owner'.acks \in {owner.acks, Append(owner.acks, owner.wire[1])}
    BY <1>0, <1>1 DEF BrokerStores, Sound
  <2>4. owner.wire # <<>> /\ stored' = stored + 1 BY <1>1 DEF BrokerStores
  <2>5. owner'.acks \in {owner.acks, Append(owner.acks, stored + 1)} BY <2>1, <2>3
  <2>6. QED BY <2>1, <2>2, <2>3, <2>4, <2>5, StoreFollows
<1>2. CASE BrokerRefuses
  <2>1. Kept(owner, owner') /\ stored' = stored BY <1>0, <1>2 DEF BrokerRefuses, Kept, Sound
  <2>2. QED BY <2>1, KeptFollows
<1>3. CASE ChannelBreaks
  <2>1. Kept(owner, owner') /\ stored' = stored BY <1>0, <1>3 DEF ChannelBreaks, Kept, Sound
  <2>2. QED BY <2>1, KeptFollows
<1>4. CASE BrokerAnswers
  <2>1. stored' = stored BY <1>4 DEF BrokerAnswers
  <2>2. CASE owner' = owner BY <2>1, <2>2, FollowsSelf
  <2>3. CASE owner' = [owner EXCEPT !.offer = stored, !.wire = <<>>, !.acks = <<>>]
    <3> DEFINE n == [owner EXCEPT !.wire = <<>>, !.acks = <<>>]
    <3>1. Kept(owner, n) BY <1>0 DEF Kept, Sound
    <3>2. Follows(owner, stored, n) BY <3>1, KeptFollows
    <3>3. /\ Sound(owner') /\ owner'.receipts = n.receipts /\ owner'.brokerHead = n.brokerHead
          /\ owner'.offer = stored /\ owner'.state = n.state /\ owner'.wire = n.wire
          /\ owner'.acks = n.acks /\ owner'.tree = n.tree /\ owner'.quarantined = n.quarantined
      BY <1>0, <2>3 DEF Sound
    <3> HIDE DEF n
    <3>4. Tip(owner') = Tip(n) BY <3>3 DEF Tip
    <3>5. Heads(owner', stored)
      <4>1. Heads(n, stored) BY <3>2 DEF Follows
      <4>2. \E S : owner'.receipts \in Seq(S) BY <3>3, <4>1 DEF Heads
      <4>3. /\ stored \in Nat /\ 1 <= stored /\ stored <= Tip(owner')
            /\ owner'.brokerHead \in Nat /\ owner'.brokerHead <= stored
            /\ owner'.offer \in Nat /\ owner'.offer <= stored
        BY <3>3, <3>4, <4>1 DEF Heads
      <4>4. owner'.acks \in Seq(1 .. stored) /\ owner'.wire \in Seq(1 .. Tip(owner'))
        BY <3>3, <3>4, <4>1 DEF Heads
      <4>5. \A i \in 1 .. stored - 1 :
               ValidTransition(owner'.receipts[i].to, owner'.receipts[i + 1])
        BY <3>3, <4>1 DEF Heads
      <4>6. QED BY <3>3, <4>2, <4>3, <4>4, <4>5 DEF Heads
    <3>6. Grows(owner, owner') BY <3>2, <3>3, <3>4 DEF Follows, Grows, Extends
    <3>7. QED BY <2>1, <3>5, <3>6 DEF Follows
  <2>4. QED BY <1>4, <2>2, <2>3 DEF BrokerAnswers
<1>5. QED BY <1>1, <1>2, <1>3, <1>4

LEMMA StepFollows ==
  ASSUME Heads(owner, stored), [Next]_vars
  PROVE  /\ Heads(owner', stored') /\ Extends(owner, owner')
         /\ Prepared \/ Grows(owner, owner')
<1>0. Sound(owner) BY TipInNat
<1>1. CASE Ask BY <1>1, FollowsSelf DEF Ask, Follows, Grows
<1>2. CASE \E q \in asked : Requested(q)
  BY <1>0, <1>2, RequestedKeeps, KeptStep DEF Follows, Grows
<1>3. CASE UNCHANGED vars BY <1>3, FollowsSelf DEF vars, Follows, Grows
<1>4. CASE Prepared BY <1>4, PreparedFollows
<1>5. CASE Undisturbed BY <1>5, KeptStep DEF Follows, Grows
<1>6. QED
  BY <1>0, <1>1, <1>2, <1>3, <1>4, <1>5, OperationKeeps, ReceiptFollows, ConnectionFollows,
     EndKeeps, AuthorityKeeps, BrokerFollows DEF Next, Follows, Grows

-----------------------------------------------------------------------------
(* Theorems *)

\* Heads is an invariant: of every acknowledgement, checkpoint and receipt in
\* flight, whatever was lost and reconnected.
THEOREM HeadsInvariant == Spec => []Heads(owner, stored)
<1>1. Init => Heads(owner, stored)
  <2> SUFFICES ASSUME Init PROVE Heads(owner, stored)
    OBVIOUS
  <2> DEFINE r == Receipt(Payload("Start", "Running", <<"start">>), 1)
  <2>1. /\ Sound(owner) /\ owner.receipts = <<r>> /\ owner.brokerHead = 1 /\ owner.offer = 0
        /\ owner.acks = <<>> /\ owner.wire = <<>> /\ stored = 1
    BY DEF Init, Sound
  <2> HIDE DEF r
  <2>2. owner.receipts \in Seq({r}) /\ Tip(owner) = 1 BY <2>1 DEF Tip
  <2>3. \E S : owner.receipts \in Seq(S) BY <2>2
  <2>4. owner.acks \in Seq(1 .. stored) /\ owner.wire \in Seq(1 .. Tip(owner))
    BY <2>1, EmptySeq
  <2>5. QED BY <2>1, <2>2, <2>3, <2>4 DEF Heads
<1>2. Heads(owner, stored) /\ [Next]_vars => Heads(owner, stored)'
  BY StepFollows
<1>3. QED BY <1>1, <1>2, PTL DEF Spec

\* The owner never takes for durable what the broker has not stored, however
\* many connections are lost (handle_receipt_acknowledgement,
\* handle_broker_reconnected).
THEOREM OwnerKnowsDurable == Spec => []KnownIsDurable
<1>1. Heads(owner, stored) => KnownIsDurable BY DEF Heads, KnownIsDurable
<1>2. QED BY <1>1, HeadsInvariant, PTL

\* What the broker stores is one legal chain from the Start, whatever it is
\* sent after whichever fault (append in broker/receipts.rs).
THEOREM BrokerStoresChain == Spec => []DurableChain
<1>1. Heads(owner, stored) => DurableChain BY DEF Heads, DurableChain
<1>2. QED BY <1>1, HeadsInvariant, PTL

\* Signed receipts are immutable under every handler.
THEOREM SignedHistoryStays == Spec => SignedStays
<1>1. Heads(owner, stored) /\ [Next]_vars =>
         [/\ Tip(owner) <= Tip(owner')
          /\ \A i \in 1 .. Tip(owner) : owner'.receipts[i] = owner.receipts[i]]_vars
  BY StepFollows DEF Extends
<1>2. QED BY <1>1, HeadsInvariant, PTL DEF Spec, SignedStays

\* No handler brings a Session back from Terminal or its tree to life.
THEOREM TerminalStays == Spec => TerminalIsFinal
<1>1. Heads(owner, stored) /\ [Next]_vars =>
         [owner.state = "Terminal" =>
             owner'.state = "Terminal" /\ owner'.tree # "running"]_vars
  BY StepFollows DEF Extends, Heads, Sound
<1>2. QED BY <1>1, HeadsInvariant, PTL DEF Spec, TerminalIsFinal
-----------------------------------------------------------------------------
(* What the owner does at a time, and what stands behind its gate: an     *)
(* operation is under way only when nothing else is owed, sent again or    *)
(* drained; only what is known to be stored is thawed on; and commands     *)
(* pass only once the broker has stored the Resume.                        *)

Finishes == {"none", "ok", "err"}
Sequence(s) == \E S : s \in Seq(S)

Fields ==
    {"state", "tree", "gate", "channel", "receipts", "brokerHead", "pending", "deferred",
     "conn", "resending", "draining", "trying", "offered", "offer", "wire", "acks", "lost",
     "lostPark", "settling", "unproven", "quarantined", "withdrawn", "blocked", "queued",
     "relay", "finishQuiet", "finishDrained", "finished", "suspended", "contained", "wait",
     "replies", "failed", "done"}

UnderWay(op) ==
    /\ {"phase", "pay", "seq", "index", "respond", "finish"} \subseteq DOMAIN op
    /\ op.phase \in {"Applying", "Signing", "AwaitingDurableAck", "Activating"}
    /\ op.finish \in Finishes

\* The types of the owner's fields, and what its flags say of one another.
Typed(o) ==
    /\ Fields \subseteq DOMAIN o
    /\ o.state \in {"Running", "Parked", "Terminal"}
    /\ o.tree \in {"running", "frozen", "unknown", "gone"}
    /\ o.channel \in {"Enabled", "Revoked", "Closed"}
    /\ o.conn \in {"Connected", "Grace", "Disconnected", "Reconciling"}
    /\ o.relay \in {"open", "closing", "closed", "broken"}
    /\ o.gate \in BOOLEAN /\ o.lost \in BOOLEAN /\ o.lostPark \in BOOLEAN
    /\ o.settling \in BOOLEAN /\ o.unproven \in BOOLEAN /\ o.quarantined \in BOOLEAN
    /\ o.withdrawn \in BOOLEAN /\ o.blocked \in BOOLEAN /\ o.trying \in BOOLEAN
    /\ o.suspended \in BOOLEAN /\ o.contained \in BOOLEAN
    /\ o.queued \in Finishes /\ o.finishQuiet \in Finishes
    /\ o.finishDrained \in Finishes /\ o.finished \in Finishes
    /\ \A r \in o.replies : "finish" \in DOMAIN r /\ r.finish \in Finishes
    /\ \A f \in o.failed : f.finish \in Finishes
    /\ o.pending = NoOp \/ UnderWay(o.pending)
    /\ Sequence(o.receipts) /\ Sequence(o.deferred)
    /\ o.brokerHead \in 1 .. Tip(o) /\ o.resending \in 0 .. Tip(o) /\ o.offered \in 0 .. Tip(o)
    /\ o.offer \in Nat
    /\ o.pending # NoOp => o.pending.index \in 0 .. Tip(o)
    /\ Gap(o) <= MaxPending
    /\ o.state = "Terminal" => o.tree = "gone"
    /\ o.state = "Parked" => o.tree # "running"
    /\ o.settling => o.lost
    /\ o.lost => o.blocked

\* A receipt is sent again only past the known head, and evidence is signed
\* only once everything before it is known to be stored.
Resends(o) ==
    o.resending # 0 => o.draining = NoOp /\ o.resending \in o.brokerHead + 1 .. Tip(o)
Drains(o) ==
    \/ o.draining = NoOp
    \/ /\ {"phase", "index"} \subseteq DOMAIN o.draining
       /\ o.draining.phase = "Signing" /\ o.draining.index = 0 /\ o.deferred # <<>>
       /\ o.brokerHead = Tip(o)
    \/ /\ o.draining.phase = "AwaitingDurableAck"
       /\ o.draining.index = Tip(o) /\ o.brokerHead + 1 = Tip(o)
\* A connection that is reconciled is attached; one that is offered is not.
Conns(o) ==
    ~o.withdrawn =>
        /\ o.draining # NoOp \/ o.resending # 0 => o.conn = "Reconciling"
        /\ o.offer # 0 => o.conn \in {"Grace", "Disconnected"} /\ o.offer >= o.brokerHead
\* A Resume waits for its check only while nothing else is going on.
Waits(o) ==
    o.wait # NoOp /\ o.state # "Terminal" =>
        o.state = "Parked" /\ ~Backlog(o) /\ ~o.lost /\ o.pending = NoOp

Fit(o) ==
    /\ Typed(o) /\ Resends(o) /\ Drains(o) /\ Conns(o) /\ Waits(o)
    /\ o.queued # "none" => o.state = "Terminal"

\* Nothing is owed, sent again or drained.
Quiet(o) == o.deferred = <<>> /\ o.resending = 0 /\ o.draining = NoOp

\* An operation is at the known head, and one that awaits its
\* acknowledgement is the only receipt past it.
Under(o) ==
    o.pending # NoOp =>
        /\ Quiet(o)
        /\ o.pending.phase = "Applying" => ~o.lost
        /\ o.pending.phase = "AwaitingDurableAck" =>
              o.pending.index = Tip(o) /\ o.brokerHead + 1 = Tip(o)
        /\ o.pending.phase # "AwaitingDurableAck" => o.brokerHead = Tip(o)

Orderly(o) == Fit(o) /\ Under(o)

\* No Resume waits, so that evidence may be owed.
May(o) == o.wait = NoOp \/ o.state = "Terminal"
Free(o) == Fit(o) /\ o.pending = NoOp

\* What stays while an operation ends or fails: the history, the connection
\* and what was said on it.
Still(o, n) ==
    /\ n.receipts = o.receipts /\ n.brokerHead = o.brokerHead
    /\ n.conn = o.conn /\ n.offer = o.offer /\ n.withdrawn = o.withdrawn
    /\ n.draining \in {o.draining, NoOp} /\ n.resending \in {o.resending, 0}
    /\ n.wait \in {o.wait, NoOp}
    /\ n.lost => o.lost
    /\ n.state \in {o.state, "Terminal"} \/ (o.state = "Running" /\ n.state = "Parked")

\* A handler that begins nothing and owes nothing more.
Eases(o, n) ==
    /\ Typed(n) /\ Still(o, n)
    /\ n.deferred = o.deferred /\ n.pending \in {o.pending, NoOp}
    /\ n.queued \in {o.queued, "none"}

LEMMA StillTrans == ASSUME NEW a, NEW b, NEW c, Still(a, b), Still(b, c) PROVE Still(a, c)
  BY DEF Still

LEMMA EasesTrans ==
  ASSUME NEW a, NEW b, NEW c, Eases(a, b), Eases(b, c) PROVE Eases(a, c)
  BY DEF Eases, Still

LEMMA EasesSelf == ASSUME NEW o, Typed(o) PROVE Eases(o, o)
  BY DEF Eases, Still

LEMMA EasesFits == ASSUME NEW o, NEW n, Fit(o), Eases(o, n) PROVE Fit(n)
<1>1. Tip(n) = Tip(o) BY DEF Eases, Still, Tip
<1>0. Backlog(n) <=> Backlog(o) BY <1>1 DEF Eases, Still, Backlog
<1>2. Resends(n) /\ Drains(n) /\ Conns(n)
  BY <1>1 DEF Fit, Eases, Still, Resends, Drains, Conns
<1>3. Waits(n) BY <1>0, <1>1 DEF Fit, Eases, Still, Waits
<1>4. QED BY <1>2, <1>3 DEF Fit, Eases, Still

LEMMA EasesOrderly == ASSUME NEW o, NEW n, Orderly(o), Eases(o, n) PROVE Orderly(n)
<1>1. Fit(n) BY EasesFits DEF Orderly
<1>2. Tip(n) = Tip(o) BY DEF Eases, Still, Tip
<1>3. Under(n) BY <1>2 DEF Orderly, Under, Quiet, Eases, Still
<1>4. QED BY <1>1, <1>3 DEF Orderly

LEMMA EasesFree == ASSUME NEW o, NEW n, Free(o), Eases(o, n) PROVE Free(n)
  BY EasesFits DEF Free, Eases, Still

LEMMA EasesMay == ASSUME NEW o, NEW n, May(o), Eases(o, n) PROVE May(n)
  BY DEF May, Eases, Still

LEMMA RevokeEases == ASSUME NEW o, NEW e, Typed(o) PROVE Eases(o, Revoke(o, e))
<1>1. Eases(o, [o EXCEPT !.gate = FALSE]) BY DEF Eases, Still, Typed, Fields, Tip, Gap
<1>2. QED BY <1>1, EasesSelf DEF Revoke

LEMMA NarrowedEases == ASSUME NEW o, Typed(o) PROVE Eases(o, Narrowed(o))
  BY DEF Eases, Still, Typed, Fields, Narrowed, Tip, Gap

LEMMA ChannelEases ==
  ASSUME NEW o, NEW c \in {"Enabled", "Revoked", "Closed"}, Typed(o)
  PROVE  Eases(o, [o EXCEPT !.channel = c])
  BY DEF Eases, Still, Typed, Fields, Tip, Gap

LEMMA ShutEases == ASSUME NEW o, NEW e, Typed(o) PROVE Eases(o, Shut(o, e))
<1>1. Eases(o, Revoke(o, e)) BY RevokeEases
<1>2. Eases(Revoke(o, e), Shut(o, e)) BY <1>1, ChannelEases DEF Shut, Eases, Still
<1>3. QED BY <1>1, <1>2, EasesTrans

LEMMA RevokeEnabledEases == ASSUME NEW o, NEW e, Typed(o) PROVE Eases(o, RevokeEnabled(o, e))
  BY ShutEases, EasesSelf DEF RevokeEnabled, Shut

LEMMA AttemptParkEases == ASSUME NEW o, NEW e, Typed(o) PROVE Eases(o, AttemptPark(o, e))
<1>1. CASE ParkResult(o, e) = "Parked"
  <2>1. o.tree # "gone" BY <1>1 DEF ParkResult
  <2>2. AttemptPark(o, e) = [o EXCEPT !.state = "Parked", !.tree = "frozen"]
    BY <1>1 DEF AttemptPark
  <2>3. QED BY <2>1, <2>2 DEF Eases, Still, Typed, Fields, Tip, Gap
<1>2. CASE ParkResult(o, e) = "Running"
  <2>1. o.tree = "running" BY <1>2 DEF ParkResult
  <2>2. AttemptPark(o, e) = [o EXCEPT !.state = "Running"] BY <1>2 DEF AttemptPark
  <2>3. QED BY <2>1, <2>2 DEF Eases, Still, Typed, Fields, Tip, Gap
<1>3. CASE ParkResult(o, e) = "Terminal"
  <2>1. AttemptPark(o, e) = [o EXCEPT !.tree = "gone"] BY <1>3 DEF AttemptPark
  <2>2. QED BY <2>1 DEF Eases, Still, Typed, Fields, Tip, Gap
<1>4. CASE ParkResult(o, e) = "Ambiguous"
  <2>1. AttemptPark(o, e) = [o EXCEPT !.tree = IF @ = "gone" THEN @ ELSE "unknown"]
    BY <1>4 DEF AttemptPark
  <2>2. QED BY <2>1 DEF Eases, Still, Typed, Fields, Tip, Gap
<1>5. QED BY <1>1, <1>2, <1>3, <1>4, ParkResults

LEMMA TerminateEases ==
  ASSUME NEW o, NEW e, Typed(o)
  PROVE  /\ Eases(o, Terminate(o, e))
         /\ "cleanup" \notin e => Terminate(o, e).tree = "gone"
  BY DEF Eases, Still, Typed, Fields, Terminate, Tip, Gap

LEMMA QuiesceEases == ASSUME NEW o, Typed(o) PROVE Eases(o, Quiesce(o))
  BY DEF Eases, Still, Typed, Fields, Quiesce, Tip, Gap

LEMMA RequestFinishEases ==
  ASSUME NEW o, NEW f \in Finishes, Typed(o) PROVE Eases(o, RequestFinish(o, f))
  BY DEF Eases, Still, Typed, Fields, RequestFinish, First, Finishes, Tip, Gap

LEMMA ReplyEases ==
  ASSUME NEW o, NEW f \in Finishes, NEW h, Typed(o) PROVE Eases(o, Reply(o, f, h))
  BY DEF Eases, Still, Typed, Fields, Reply, Tip, Gap

LEMMA FailedEases ==
  ASSUME NEW o, NEW by, NEW f \in Finishes, Typed(o) PROVE Eases(o, Failed(o, by, f))
<1> DEFINE n == [o EXCEPT !.failed = @ \union {[by |-> by, finish |-> f]}]
<1>1. Eases(o, n) BY DEF Eases, Still, Typed, Fields, Tip, Gap
<1> HIDE DEF n
<1>2. Eases(n, Reply(n, f, 0)) BY <1>1, ReplyEases DEF Eases, Still
<1>3. QED BY <1>1, <1>2, EasesTrans DEF Failed, n

LEMMA ForgetControllerEases == ASSUME NEW o, Typed(o) PROVE Eases(o, ForgetController(o))
  BY DEF Eases, Still, Typed, Fields, ForgetController, Tip, Gap

LEMMA PendingEases ==
  ASSUME NEW o, Typed(o) PROVE Eases(o, [o EXCEPT !.pending = NoOp, !.blocked = TRUE])
  BY DEF Eases, Still, Typed, Fields, Tip, Gap

LEMMA QuarantineMechanicEases ==
  ASSUME NEW o, NEW op, NEW e, Typed(o)
  PROVE  /\ Eases(o, QuarantineMechanic(o, op, e))
         /\ QuarantineMechanic(o, op, e).pending = NoOp
<1> DEFINE f == ForgetController(o)
           a == [f EXCEPT !.quarantined = TRUE, !.blocked = TRUE, !.queued = "none",
                          !.finishDrained = "none", !.pending = NoOp]
           n == Terminate(Quiesce(a), e)
           m == [n EXCEPT !.unproven = "cleanup" \in e, !.channel = "Closed",
                       !.state = IF "cleanup" \in e THEN @ ELSE "Terminal"]
<1>0. Eases(o, f) BY ForgetControllerEases
<1> HIDE DEF f
<1>1. Eases(f, a) /\ a.pending = NoOp
  BY <1>0 DEF Eases, Still, Typed, Fields, Tip, Gap, Finishes
<1> HIDE DEF a
<1>2. Eases(a, Quiesce(a)) BY <1>1, QuiesceEases DEF Eases
<1>3. Eases(Quiesce(a), n) /\ ("cleanup" \notin e => n.tree = "gone")
  BY <1>2, TerminateEases DEF Eases
<1>4. Eases(o, n) /\ n.pending = NoOp BY <1>0, <1>1, <1>2, <1>3, EasesTrans DEF Eases
<1> HIDE DEF n
<1>5. Eases(n, m) /\ m.pending = NoOp
  <2>1. CASE "cleanup" \in e BY <1>4, <2>1 DEF Eases, Still, Typed, Fields, Tip, Gap
  <2>2. CASE "cleanup" \notin e BY <1>3, <1>4, <2>2 DEF Eases, Still, Typed, Fields, Tip, Gap
  <2>3. QED BY <2>1, <2>2
<1>6. Eases(o, m) BY <1>4, <1>5, EasesTrans
<1> HIDE DEF m
<1>7. Eases(m, Failed(m, op.pay.by, "err")) /\ Eases(m, RequestFinish(m, "err"))
  BY <1>6, FailedEases, RequestFinishEases DEF Eases, Finishes
<1>8. QuarantineMechanic(o, op, e) \in {Failed(m, op.pay.by, "err"), RequestFinish(m, "err")}
  BY DEF QuarantineMechanic, m, n, a, f
<1>9. QED BY <1>5, <1>6, <1>7, <1>8, EasesTrans DEF Eases

LEMMA AbortedEases ==
  ASSUME NEW o, NEW e, Typed(o) PROVE Eases(o, Aborted(o, e)) /\ Aborted(o, e).pending = NoOp
<1> DEFINE n == RevokeEnabled(o, e)
<1>1. Eases(o, n) BY RevokeEnabledEases
<1> HIDE DEF n
<1>2. Eases(n, [n EXCEPT !.pending = NoOp, !.blocked = TRUE]) BY <1>1, PendingEases DEF Eases
<1>3. [n EXCEPT !.pending = NoOp, !.blocked = TRUE].pending = NoOp
  BY <1>1 DEF Eases, Typed, Fields
<1>4. QED BY <1>1, <1>2, <1>3, EasesTrans DEF Aborted, n

LEMMA FailMechanicEases ==
  ASSUME NEW o, NEW e, Typed(o)
  PROVE  Eases(o, FailMechanic(o, e)) /\ FailMechanic(o, e).pending = NoOp
<1> DEFINE n == Aborted(o, e)
<1>1. Eases(o, n) /\ n.pending = NoOp BY AbortedEases
<1>2. FailMechanic(o, e) = Failed(n, o.pending.pay.by, "none") BY DEF FailMechanic, Aborted
<1> HIDE DEF n
<1>3. Eases(n, Failed(n, o.pending.pay.by, "none"))
  BY <1>1, FailedEases DEF Eases, Finishes
<1>4. QED BY <1>1, <1>2, <1>3, EasesTrans DEF Eases

LEMMA FailPreparationEases ==
  ASSUME NEW o, NEW e, Typed(o)
  PROVE  Eases(o, FailPreparation(o, e)) /\ FailPreparation(o, e).pending = NoOp
<1> DEFINE n == RevokeEnabled(o, e)
           a == [n EXCEPT !.channel = "Revoked"]
           m == FailMechanic(a, e)
           c == [m EXCEPT !.blocked = m.lost \/ m.unproven \/ Backlog(m)]
<1>1. Eases(o, n) BY RevokeEnabledEases
<1> HIDE DEF n
<1>2. Eases(n, a) BY <1>1, ChannelEases DEF Eases
<1> HIDE DEF a
<1>3. Eases(a, m) /\ m.pending = NoOp BY <1>2, FailMechanicEases DEF Eases
<1> HIDE DEF m
<1>4. Eases(m, c) /\ c.pending = NoOp
  <2> DEFINE v == m.lost \/ m.unproven \/ Backlog(m)
  <2>1. v \in BOOLEAN /\ (m.lost => v) OBVIOUS
  <2>2. Typed(m) BY <1>3 DEF Eases
  <2>3. c = [m EXCEPT !.blocked = v] OBVIOUS
  <2> HIDE DEF v, c
  <2>4. QED BY <1>3, <2>1, <2>2, <2>3 DEF Eases, Still, Typed, Fields, Tip, Gap
<1> HIDE DEF c
<1>5. Eases(o, c) BY <1>1, <1>2, <1>3, <1>4, EasesTrans
<1>6. /\ Eases(o, QuarantineMechanic(n, o.pending, e))
      /\ QuarantineMechanic(n, o.pending, e).pending = NoOp
  <2>1. Typed(n) BY <1>1 DEF Eases
  <2>2. QED BY <1>1, <2>1, QuarantineMechanicEases, EasesTrans
<1>7. FailPreparation(o, e) \in {QuarantineMechanic(n, o.pending, e), c}
  BY DEF FailPreparation, c, m, a, n
<1>8. QED BY <1>4, <1>5, <1>6, <1>7

LEMMA ToldEases ==
  ASSUME NEW o, NEW op, op.finish \in Finishes, Typed(o) PROVE Eases(o, Told(o, op))
  BY FailedEases, RequestFinishEases DEF Told

LEMMA AwaitingEases ==
  ASSUME NEW o, NEW op, NEW owed, Typed(o) PROVE Eases(o, Awaiting(o, op, owed))
  BY DEF Eases, Still, Typed, Fields, Awaiting, Tip, Gap

LEMMA CancelWaitEases ==
  ASSUME NEW o, Typed(o) PROVE Eases(o, CancelWait(o)) /\ CancelWait(o).wait = NoOp
<1> DEFINE n == [o EXCEPT !.wait = NoOp]
<1>1. Eases(o, n) /\ n.wait = NoOp BY DEF Eases, Still, Typed, Fields, Tip, Gap
<1> HIDE DEF n
<1>2. Eases(n, Failed(n, o.wait.id, "none")) BY <1>1, FailedEases DEF Eases, Finishes
<1>3. Eases(o, Failed(n, o.wait.id, "none")) /\ Failed(n, o.wait.id, "none").wait = NoOp
  BY <1>1, <1>2, EasesTrans DEF Eases, Still
<1>4. QED BY <1>3, EasesSelf DEF CancelWait, n

LEMMA MaybeSettleEases == ASSUME NEW o, Typed(o) PROVE Eases(o, MaybeSettle(o))
<1>1. o.lost => Eases(o, [o EXCEPT !.settling = TRUE])
  BY DEF Eases, Still, Typed, Fields, Tip, Gap
<1>2. QED BY <1>1, EasesSelf DEF MaybeSettle
-----------------------------------------------------------------------------
(* Evidence that is owed *)

LEMMA AppendSequence ==
  ASSUME NEW s, Sequence(s), NEW x
  PROVE  /\ Sequence(Append(s, x)) /\ Append(s, x) # <<>>
         /\ Len(s) \in Nat /\ Len(Append(s, x)) = Len(s) + 1
<1>1. PICK S : s \in Seq(S) BY DEF Sequence
<1>2. s \in Seq(S \union {x}) BY <1>1, SeqMonotonic
<1>3. Append(s, x) \in Seq(S \union {x}) /\ Len(Append(s, x)) = Len(s) + 1
  BY <1>2, AppendProperties
<1>4. Len(s) \in Nat BY <1>1
<1>5. Append(s, x) # <<>> BY <1>3, <1>4, EmptySeq
<1>6. QED BY <1>3, <1>4, <1>5 DEF Sequence

LEMMA TailSequence ==
  ASSUME NEW s, Sequence(s), s # <<>>
  PROVE  Sequence(Tail(s)) /\ Len(s) \in Nat /\ Len(Tail(s)) = Len(s) - 1
<1>1. PICK S : s \in Seq(S) BY DEF Sequence
<1>2. Tail(s) \in Seq(S) /\ Len(Tail(s)) = Len(s) - 1 BY <1>1, HeadTailProperties
<1>3. QED BY <1>1, <1>2 DEF Sequence

LEMMA Counts ==
  ASSUME NEW o, Typed(o)
  PROVE  Tip(o) \in Nat /\ Len(o.deferred) \in Nat /\ (o.deferred = <<>> <=> Len(o.deferred) = 0)
<1>1. PICK S : o.deferred \in Seq(S) BY DEF Typed, Sequence
<1>2. o.deferred = <<>> <=> Len(o.deferred) = 0 BY <1>1, EmptySeq
<1>3. QED BY <1>1, <1>2 DEF Typed, Sequence, Tip

\* Evidence is owed by an owner that does nothing else, and keeps it so.
LEMMA DeferOwes ==
  ASSUME NEW o, NEW pay, Free(o), May(o)
  PROVE  /\ Free(Defer(o, pay)) /\ May(Defer(o, pay)) /\ Still(o, Defer(o, pay))
         /\ Defer(o, pay).queued = o.queued /\ Defer(o, pay).state = o.state
<1> DEFINE n == [o EXCEPT !.deferred = Append(@, pay)]
<1>1. Free(o) /\ May(o) /\ Still(o, o) BY DEF Still
<1>2. ASSUME Gap(o) < MaxPending PROVE Free(n) /\ May(n) /\ Still(o, n) /\ n.queued = o.queued /\ n.state = o.state
  <2>1. Typed(o) BY DEF Free, Fit
  <2>2. /\ Sequence(n.deferred) /\ n.deferred # <<>> /\ n.deferred = Append(o.deferred, pay)
        /\ Len(n.deferred) = Len(o.deferred) + 1 /\ Len(o.deferred) \in Nat
    BY <2>1, AppendSequence DEF Typed, Fields
  <2>3. Tip(n) = Tip(o) /\ Tip(o) \in Nat BY <2>1, Counts DEF Tip, Typed, Fields
  <2>4. Gap(n) <= MaxPending
    BY <1>2, <2>1, <2>2, <2>3, OwnerAssumption DEF Gap, Typed, Fields
  <2>5. Typed(n) BY <2>1, <2>2, <2>3, <2>4 DEF Typed, Fields
  <2>6. Still(o, n) /\ n.queued = o.queued /\ n.pending = NoOp /\ n.state = o.state
    BY <2>1 DEF Still, Free, Typed, Fields
  <2>7. May(n) /\ Waits(n) BY <2>1 DEF May, Waits, Typed, Fields
  <2>8. Resends(n) /\ Drains(n) /\ Conns(n)
    BY <2>1, <2>2, <2>3 DEF Free, Fit, Resends, Drains, Conns, Typed, Fields
  <2>9. Fit(n) BY <2>5, <2>6, <2>7, <2>8 DEF Fit, Free
  <2>10. QED BY <2>6, <2>7, <2>9 DEF Free
<1>3. Defer(o, pay) = IF Gap(o) < MaxPending THEN n ELSE o BY DEF Defer
<1>4. QED BY <1>1, <1>2, <1>3

LEMMA OwingOwes ==
  ASSUME NEW o, NEW op, Free(o), May(o)
  PROVE  /\ Free(Owing(o, op)) /\ May(Owing(o, op)) /\ Still(o, Owing(o, op))
         /\ Owing(o, op).queued = o.queued /\ Owing(o, op).state = o.state
<1>1. Still(o, o) BY DEF Still
<1>2. QED BY <1>1, DeferOwes DEF Owing

\* An operation that ended leaves none behind but the record of the end.
Settled(n) == n.pending = NoOp \/ (n.pending.phase = "Signing" /\ n.state = "Terminal")
Ends(o, n) == Orderly(n) /\ Settled(n) /\ Still(o, n)

LEMMA FreeEnds == ASSUME NEW o, NEW n, Free(n), Still(o, n) PROVE Ends(o, n)
  BY DEF Free, Ends, Orderly, Under, Settled

LEMMA StillEnds == ASSUME NEW a, NEW b, NEW c, Still(a, b), Ends(b, c) PROVE Ends(a, c)
  BY StillTrans DEF Ends

LEMMA EasesStill == ASSUME NEW o, NEW n, Eases(o, n) PROVE Still(o, n) /\ Typed(n)
  BY DEF Eases

\* Nothing is behind when the broker has all the receipts and nothing is owed.
LEMMA NoBacklog ==
  ASSUME NEW o, Fit(o), ~Backlog(o) PROVE Quiet(o) /\ o.brokerHead = Tip(o)
<1>1. Tip(o) = o.brokerHead /\ o.deferred = <<>> BY DEF Backlog
<1>2. Tip(o) \in Nat BY Counts DEF Fit
<1>3. o.resending = 0 BY <1>1, <1>2 DEF Fit, Resends
<1>4. o.draining = NoOp BY <1>1, <1>2 DEF Fit, Drains
<1>5. QED BY <1>1, <1>3, <1>4 DEF Quiet

\* An operation that was just begun.
Begun(op) == UnderWay(op) /\ op.phase \in {"Applying", "Signing"} /\ op.index = 0

LEMMA OperationBegun ==
  ASSUME NEW o, NEW pay, NEW phase \in {"Applying", "Signing"}, NEW respond,
         NEW finish \in Finishes
  PROVE  /\ Begun(Operation(o, pay, phase, respond, finish))
         /\ Operation(o, pay, phase, respond, finish).phase = phase
  BY DEF Begun, UnderWay, Operation

\* An operation is begun by an owner that owes nothing.
LEMMA BeginOrders ==
  ASSUME NEW o, NEW op, Begun(op), Fit(o), May(o), NEW n, n = [o EXCEPT !.pending = op]
  PROVE  /\ Fit(n) /\ n.pending = op /\ n.pending # NoOp
         /\ Still(o, n) /\ n.deferred = o.deferred /\ n.queued = o.queued /\ n.state = o.state
         /\ n.tree = o.tree /\ n.lost = o.lost /\ n.settling = o.settling
         /\ ~Backlog(o) /\ (op.phase = "Applying" => ~o.lost) => Orderly(n)
<1>1. Typed(o) BY DEF Fit
<1>2. UnderWay(op) /\ op.index = 0 /\ op # NoOp BY DEF Begun, UnderWay, NoOp
<1>4. /\ Tip(n) = Tip(o) /\ Still(o, n) /\ n.deferred = o.deferred /\ n.queued = o.queued
      /\ n.state = o.state /\ n.pending = op /\ n.tree = o.tree /\ n.lost = o.lost
      /\ n.wait = o.wait /\ n.draining = o.draining /\ n.resending = o.resending
      /\ n.settling = o.settling
  BY <1>1 DEF Typed, Fields, Still, Tip
<1>5. Tip(o) \in Nat BY <1>1, Counts
<1>6. Typed(n)
  <2>1. Gap(n) = Gap(o) BY <1>1, <1>4 DEF Gap, Typed, Fields
  <2>2. n.pending = NoOp \/ UnderWay(n.pending) BY <1>2, <1>4
  <2>3. n.pending.index \in 0 .. Tip(n) BY <1>2, <1>4, <1>5
  <2>4. QED BY <1>1, <1>4, <2>1, <2>2, <2>3 DEF Typed, Fields
<1>7. Resends(n) /\ Drains(n) /\ Conns(n) BY <1>4 DEF Still, Fit, Resends, Drains, Conns
<1>8. Waits(n) BY <1>4 DEF Waits, May
<1>9. Fit(n) BY <1>4, <1>6, <1>7, <1>8 DEF Fit
<1>10. ASSUME ~Backlog(o), op.phase = "Applying" => ~o.lost PROVE Under(n)
  <2>1. Quiet(o) /\ o.brokerHead = Tip(o) BY <1>10, NoBacklog
  <2>2. QED BY <1>4, <1>10, <2>1 DEF Under, Quiet, Still, Begun
<1>11. QED BY <1>2, <1>4, <1>9, <1>10 DEF Orderly

LEMMA BeginTerminalReceiptEnds ==
  ASSUME NEW o, NEW f \in Finishes, Free(o), o.state = "Terminal"
  PROVE  Ends(o, BeginTerminalReceipt(o, f))
<1> DEFINE pay == Payload("Disposal", "Terminal", <<"event">>)
           a == [o EXCEPT !.blocked = TRUE]
           b == Defer(a, pay)
           op == Operation(o, pay, "Signing", FALSE, f)
           n == [o EXCEPT !.pending = op]
<1>0. Begun(op) /\ op.phase = "Signing" BY OperationBegun
<1> HIDE DEF pay, op
<1>1. Eases(o, a) BY DEF Free, Fit, Eases, Still, Typed, Fields, Tip, Gap
<1> HIDE DEF a
<1>2. Free(a) /\ May(a) BY <1>1, EasesFree, EasesMay DEF May
<1>3. Free(b) /\ Still(a, b) BY <1>2, DeferOwes
<1> HIDE DEF b
<1>4. Eases(b, RequestFinish(b, f)) BY <1>3, RequestFinishEases DEF Free, Fit
<1>5. Free(RequestFinish(b, f)) BY <1>3, <1>4, EasesFree
<1>6. Still(o, RequestFinish(b, f)) BY <1>1, <1>3, <1>4, EasesStill, StillTrans
<1>7. Ends(o, RequestFinish(b, f)) BY <1>5, <1>6, FreeEnds
<1>8. ASSUME ~Backlog(o) PROVE Ends(o, n)
  <2>1. Fit(o) /\ May(o) BY DEF Free, May
  <2>2. n = [o EXCEPT !.pending = op] OBVIOUS
  <2> HIDE DEF n
  <2>3. n.pending = op /\ Still(o, n) /\ n.state = "Terminal" /\ Orderly(n)
    BY <1>0, <1>8, <2>1, <2>2, BeginOrders
  <2>4. Settled(n) BY <1>0, <2>3 DEF Settled
  <2>5. QED BY <2>3, <2>4 DEF Ends
<1>9. QED BY <1>7, <1>8 DEF BeginTerminalReceipt, pay, a, b, n, op

LEMMA TakeQueuedEnds ==
  ASSUME NEW o, Free(o)
  PROVE  Ends(o, TakeQueued(o)) /\ (o.queued = "none" => TakeQueued(o) = o)
<1> DEFINE a == [o EXCEPT !.queued = "none"]
<1>1. Eases(o, a) /\ a.state = o.state
  BY DEF Free, Fit, Eases, Still, Typed, Fields, Tip, Gap, Finishes
<1> HIDE DEF a
<1>2. Free(a) /\ Still(o, a) BY <1>1, EasesFree, EasesStill
<1>3. ASSUME o.queued # "none" PROVE Ends(o, BeginTerminalReceipt(a, o.queued))
  <2>1. a.state = "Terminal" /\ o.queued \in Finishes BY <1>1, <1>3 DEF Free, Fit, Typed
  <2>2. QED BY <1>2, <2>1, BeginTerminalReceiptEnds, StillEnds
<1>4. Ends(o, o) BY FreeEnds DEF Still
<1>5. QED BY <1>3, <1>4 DEF TakeQueued, a
-----------------------------------------------------------------------------
(* The end of the Session, and operations that fail *)

LEMMA EasesChain ==
  ASSUME NEW a, NEW b, NEW c, Eases(a, b), Typed(b) => Eases(b, c) PROVE Eases(a, c)
  BY EasesTrans DEF Eases

LEMMA FreeOrders == ASSUME NEW o, Free(o) PROVE Orderly(o) /\ Fit(o) /\ Typed(o)
  BY DEF Free, Orderly, Under, Fit

LEMMA BeginTerminalEventOrders ==
  ASSUME NEW o, NEW f \in Finishes, NEW e, Orderly(o)
  PROVE  /\ Orderly(BeginTerminalEvent(o, f, e)) /\ Still(o, BeginTerminalEvent(o, f, e))
         /\ o.pending = NoOp => Settled(BeginTerminalEvent(o, f, e))
<1> DEFINE a == ForgetController(o)
           n == Terminate(Quiesce(a), e)
           m == [n EXCEPT !.unproven = FALSE, !.state = "Terminal", !.channel = "Closed"]
           u == [n EXCEPT !.unproven = TRUE, !.blocked = TRUE, !.channel = "Revoked"]
           q == [m EXCEPT !.queued = f]
<1>1. Eases(o, a) BY ForgetControllerEases DEF Orderly, Fit
<1> HIDE DEF a
<1>2. Eases(a, Quiesce(a)) BY <1>1, QuiesceEases DEF Eases
<1>3. Eases(Quiesce(a), n) /\ ("cleanup" \notin e => n.tree = "gone")
  BY <1>2, TerminateEases DEF Eases
<1>4. Eases(o, n) BY <1>1, <1>2, <1>3, EasesTrans
<1> HIDE DEF n
<1>5. Eases(n, u) BY <1>4 DEF Eases, Still, Typed, Fields, Tip, Gap
<1> HIDE DEF u
<1>6. Eases(u, RequestFinish(u, "err")) BY <1>5, RequestFinishEases DEF Eases, Finishes
<1>7. Eases(o, RequestFinish(u, "err")) BY <1>4, <1>5, <1>6, EasesTrans
<1>8. ASSUME "cleanup" \notin e PROVE Eases(o, m) /\ m.state = "Terminal"
  <2>1. Eases(n, m) /\ m.state = "Terminal"
    BY <1>3, <1>4, <1>8 DEF Eases, Still, Typed, Fields, Tip, Gap
  <2>2. QED BY <1>4, <2>1, EasesTrans
<1> HIDE DEF m
<1>9. ASSUME "cleanup" \notin e, o.pending = NoOp PROVE Ends(o, BeginTerminalReceipt(m, f))
  <2>1. Free(o) BY <1>9 DEF Free, Orderly
  <2>2. Free(m) /\ Still(o, m) /\ m.state = "Terminal" BY <1>8, <1>9, <2>1, EasesFree, EasesStill
  <2>3. QED BY <2>2, BeginTerminalReceiptEnds, StillEnds
<1>10. ASSUME "cleanup" \notin e PROVE Orderly(q) /\ Still(o, q)
  <2>1. Orderly(m) /\ Still(o, m) /\ m.state = "Terminal"
    BY <1>8, <1>10, EasesOrderly, EasesStill
  <2>2. /\ Typed(q) /\ Tip(q) = Tip(m) /\ Still(m, q) /\ q.state = "Terminal"
        /\ q.pending = m.pending /\ q.deferred = m.deferred /\ q.draining = m.draining
        /\ q.resending = m.resending /\ q.lost = m.lost
    BY <2>1 DEF Orderly, Fit, Typed, Fields, Still, Tip, Gap
  <2> HIDE DEF q
  <2>3. Resends(q) /\ Drains(q) /\ Conns(q) /\ Waits(q)
    BY <2>1, <2>2 DEF Orderly, Fit, Resends, Drains, Conns, Waits, Still
  <2>4. Under(q) BY <2>1, <2>2 DEF Orderly, Under, Quiet, Still
  <2>5. QED BY <2>1, <2>2, <2>3, <2>4, StillTrans DEF Orderly, Fit
<1>11. /\ Orderly(RequestFinish(u, "err")) /\ Still(o, RequestFinish(u, "err"))
       /\ o.pending = NoOp => Settled(RequestFinish(u, "err"))
  BY <1>7, EasesOrderly, EasesStill DEF Settled, Eases
<1>12. Still(o, o) BY DEF Still
<1>13. CASE o.state = "Terminal"
  <2>1. BeginTerminalEvent(o, f, e) = o BY <1>13 DEF BeginTerminalEvent
  <2>2. QED BY <1>12, <2>1 DEF Settled
<1>14. CASE o.state # "Terminal" /\ "cleanup" \in e
  <2>1. BeginTerminalEvent(o, f, e) = RequestFinish(u, "err")
    BY <1>14 DEF BeginTerminalEvent, u, n, a
  <2>2. QED BY <1>11, <2>1
<1>15. CASE o.state # "Terminal" /\ "cleanup" \notin e
  <2>1. BeginTerminalEvent(o, f, e) = IF o.pending # NoOp THEN q ELSE BeginTerminalReceipt(m, f)
    BY <1>15 DEF BeginTerminalEvent, m, n, a
  <2>2. QED BY <1>9, <1>10, <1>15, <2>1 DEF Ends
<1>16. QED BY <1>13, <1>14, <1>15

LEMMA BeginTerminalEventEnds ==
  ASSUME NEW o, NEW f \in Finishes, NEW e, Free(o) PROVE Ends(o, BeginTerminalEvent(o, f, e))
  BY BeginTerminalEventOrders, FreeOrders DEF Ends, Free

LEMMA QuarantineMechanicEnds ==
  ASSUME NEW o, NEW op, NEW e, Fit(o) PROVE Ends(o, QuarantineMechanic(o, op, e))
<1>1. Eases(o, QuarantineMechanic(o, op, e)) /\ QuarantineMechanic(o, op, e).pending = NoOp
  BY QuarantineMechanicEases DEF Fit
<1>2. QED BY <1>1, EasesFits, EasesStill, FreeEnds DEF Free

LEMMA ReparkedEnds ==
  ASSUME NEW o, NEW op, NEW e, op.finish \in Finishes, Free(o), May(o),
         NEW result \in {"Ambiguous", "Terminal", "Running", "Parked"}
  PROVE  Ends(o, Reparked(o, op, result, e))
<1> DEFINE why == Causal(IF op.phase = "Activating" THEN <<"inactive", op.pay.by[2]>>
                                                    ELSE <<"unacknowledged", op.pay.by[2]>>)
           d == Defer(o, why)
           parked == Told(d, op)
           told == Told(o, op)
           quiet == [told EXCEPT !.queued = "none"]
<1>1. Ends(o, TakeQueued(parked))
  <2>1. Free(d) /\ Still(o, d) BY DeferOwes
  <2> HIDE DEF d
  <2>2. Eases(d, parked) BY <2>1, ToldEases, FreeOrders
  <2>3. Free(parked) /\ Still(o, parked) BY <2>1, <2>2, EasesFree, EasesStill, StillTrans
  <2> HIDE DEF parked
  <2>4. QED BY <2>3, TakeQueuedEnds, StillEnds
<1>2. Eases(o, told) BY ToldEases, FreeOrders
<1> HIDE DEF told
<1>3. Ends(o, TakeQueued(told))
  <2>1. Free(told) /\ Still(o, told) BY <1>2, EasesFree, EasesStill
  <2>2. QED BY <2>1, TakeQueuedEnds, StillEnds
<1>4. Ends(o, BeginTerminalEvent(quiet, "ok", e))
  <2>1. Eases(told, quiet) BY <1>2 DEF Eases, Still, Typed, Fields, Tip, Gap, Finishes
  <2> HIDE DEF quiet
  <2>2. Eases(o, quiet) BY <1>2, <2>1, EasesTrans
  <2>3. Free(quiet) /\ Still(o, quiet) BY <2>2, EasesFree, EasesStill
  <2>4. Ends(quiet, BeginTerminalEvent(quiet, "ok", e))
    BY <2>3, BeginTerminalEventEnds DEF Finishes
  <2>5. QED BY <2>3, <2>4, StillEnds
<1>5. Ends(o, QuarantineMechanic(o, op, e)) BY QuarantineMechanicEnds, FreeOrders
<1>6. QED BY <1>1, <1>3, <1>4, <1>5 DEF Reparked, parked, quiet, told, d, why

LEMMA FailResumeEnds ==
  ASSUME NEW o, NEW e, Fit(o), o.pending # NoOp PROVE Ends(o, FailResume(o, e))
<1> DEFINE a == Aborted(o, e)
           r == Revoke(a, e)
           frozen == AttemptPark(Narrowed(r), e)
           owing == Owing(frozen, o.pending)
           result == IF "revoke" \in e THEN "Ambiguous" ELSE ParkResult(o, e)
<1>1. Eases(o, a) /\ a.pending = NoOp BY AbortedEases DEF Fit
<1> HIDE DEF a
<1>2. Eases(a, r) BY <1>1, RevokeEases DEF Eases
<1> HIDE DEF r
<1>3. Eases(r, Narrowed(r)) BY <1>2, NarrowedEases DEF Eases
<1>4. Eases(Narrowed(r), frozen) BY <1>3, AttemptParkEases DEF Eases
<1> HIDE DEF frozen
<1>5. Eases(a, frozen) BY <1>2, <1>3, <1>4, EasesTrans
<1>6. Eases(o, frozen) /\ frozen.pending = NoOp BY <1>1, <1>5, EasesTrans DEF Eases
<1>7. May(o) BY DEF Fit, Waits, May
<1>8. Free(frozen) /\ May(frozen) /\ Still(o, frozen)
  BY <1>6, <1>7, EasesFits, EasesMay, EasesStill DEF Free
<1>9. Free(owing) /\ May(owing) /\ Still(o, owing) BY <1>8, OwingOwes, StillTrans
<1> HIDE DEF owing
<1>10. result \in {"Ambiguous", "Terminal", "Running", "Parked"} BY ParkResults
<1> HIDE DEF result
<1>11. o.pending.finish \in Finishes BY DEF Fit, Typed, UnderWay
<1>12. Ends(owing, Reparked(owing, o.pending, result, e)) BY <1>9, <1>10, <1>11, ReparkedEnds
<1>13. Ends(o, Reparked(owing, o.pending, result, e)) BY <1>9, <1>12, StillEnds
<1>14. QED BY <1>13 DEF FailResume, result, owing, frozen, r, a

LEMMA FailReceiptEnds ==
  ASSUME NEW o, NEW e, Fit(o)
  PROVE  /\ Ends(o, FailReceipt(o, e))
         /\ o.queued = "none" /\ ~Doing(o, "Resume") => FailReceipt(o, e).pending = NoOp
<1> DEFINE op == o.pending
           a == Aborted(o, e)
           owing == Owing(a, op)
           awaiting == Awaiting(owing, op, o.deferred)
           told == Told(awaiting, op)
<1>1. ASSUME o.pending # NoOp
      PROVE  Ends(o, TakeQueued(told)) /\ (o.queued = "none" => TakeQueued(told).pending = NoOp)
  <2>1. Eases(o, a) /\ a.pending = NoOp BY AbortedEases DEF Fit
  <2>2. May(o) BY <1>1 DEF Fit, Waits, May
  <2>3. op.finish \in Finishes BY <1>1 DEF Fit, Typed, UnderWay
  <2> HIDE DEF a, op
  <2>4. Free(a) /\ May(a) /\ Still(o, a) BY <2>1, <2>2, EasesFits, EasesMay, EasesStill DEF Free
  <2>5. Free(owing) /\ Still(o, owing) /\ owing.queued = a.queued
    BY <2>4, OwingOwes, StillTrans
  <2> HIDE DEF owing
  <2>6. Eases(owing, awaiting) BY <2>5, AwaitingEases, FreeOrders
  <2> HIDE DEF awaiting
  <2>7. Eases(awaiting, told) BY <2>3, <2>6, ToldEases DEF Eases
  <2> HIDE DEF told
  <2>8. Eases(owing, told) BY <2>6, <2>7, EasesTrans
  <2>9. Free(told) /\ Still(o, told) BY <2>5, <2>8, EasesFree, EasesStill, StillTrans
  <2>10. Ends(o, TakeQueued(told)) BY <2>9, TakeQueuedEnds, StillEnds
  <2>11. ASSUME o.queued = "none" PROVE TakeQueued(told).pending = NoOp
    <3>1. told.queued = "none" BY <2>1, <2>5, <2>8, <2>11 DEF Eases
    <3>2. QED BY <2>9, <3>1, TakeQueuedEnds DEF Free
  <2>12. QED BY <2>10, <2>11
<1>2. Ends(o, FailPreparation(o, e))
  <2>1. Eases(o, FailPreparation(o, e)) /\ FailPreparation(o, e).pending = NoOp
    BY FailPreparationEases DEF Fit
  <2>2. QED BY <2>1, EasesFits, EasesStill, FreeEnds DEF Free
<1>3. CASE o.pending = NoOp
  <2>1. Ends(o, o) BY <1>3, FreeEnds DEF Free, Still
  <2>2. QED BY <1>3, <2>1 DEF FailReceipt
<1>4. CASE o.pending # NoOp
  <2>1. FailReceipt(o, e) =
          IF Preparing(o) THEN FailPreparation(o, e)
          ELSE IF Doing(o, "Resume") /\ o.state # "Terminal" THEN FailResume(o, e)
          ELSE TakeQueued(told)
    BY <1>4 DEF FailReceipt, told, awaiting, owing, a, op
  <2>2. Preparing(o) => Doing(o, "Resume") BY DEF Preparing
  <2>3. QED BY <1>1, <1>2, <1>4, <2>1, <2>2, FailResumeEnds
<1>5. QED BY <1>3, <1>4
-----------------------------------------------------------------------------
(* Operations that begin *)

LEMMA SameBacklog ==
  ASSUME NEW o, NEW n, Still(o, n), n.deferred = o.deferred PROVE Backlog(n) <=> Backlog(o)
  BY DEF Still, Backlog, Tip

\* The mechanics of a handler leave its operation under way.
LEMMA MechanicsKeepPending ==
  ASSUME NEW o, NEW e, Typed(o)
  PROVE  /\ Shut(o, e).pending = o.pending /\ Quiesce(o).pending = o.pending
         /\ Terminate(o, e).pending = o.pending /\ AttemptPark(o, e).pending = o.pending
         /\ Quiesce(o).settling = o.settling /\ Terminate(o, e).settling = o.settling
<1>1. Shut(o, e).pending = o.pending BY DEF Typed, Fields, Shut, Revoke
<1>2. Quiesce(o).pending = o.pending /\ Quiesce(o).settling = o.settling
  BY DEF Typed, Fields, Quiesce
<1>3. Terminate(o, e).pending = o.pending /\ Terminate(o, e).settling = o.settling
  BY DEF Typed, Fields, Terminate
<1>4. AttemptPark(o, e).pending = o.pending
  BY ParkResults DEF Typed, Fields, AttemptPark
<1>5. QED BY <1>1, <1>2, <1>3, <1>4

LEMMA BeginCausedParkOrders ==
  ASSUME NEW o, NEW cause, NEW e, Fit(o), May(o)
  PROVE  Orderly(BeginCausedPark(o, cause, e)) /\ Still(o, BeginCausedPark(o, cause, e))
<1> DEFINE op == Operation(o, Causal(cause), "Signing", FALSE, "none")
           n == [o EXCEPT !.pending = op]
<1>1. Begun(op) /\ op.phase = "Signing" BY OperationBegun DEF Finishes
<1>2. BeginCausedPark(o, cause, e) = IF Backlog(o) THEN FailReceipt(n, e) ELSE n
  BY DEF BeginCausedPark
<1> HIDE DEF op
<1>3. n = [o EXCEPT !.pending = op] OBVIOUS
<1> HIDE DEF n
<1>4. Fit(n) /\ Still(o, n) /\ (~Backlog(o) => Orderly(n)) BY <1>1, <1>3, BeginOrders
<1>5. Orderly(FailReceipt(n, e)) /\ Still(o, FailReceipt(n, e))
  BY <1>4, FailReceiptEnds, StillEnds DEF Ends
<1>6. QED BY <1>2, <1>4, <1>5

LEMMA ApplyingFits ==
  ASSUME NEW o, NEW q, Fit(o), May(o)
  PROVE  /\ Fit(Applying(o, q)) /\ Applying(o, q).pending # NoOp /\ Still(o, Applying(o, q))
         /\ Applying(o, q).deferred = o.deferred /\ Applying(o, q).queued = o.queued
         /\ ~Backlog(o) /\ ~o.lost => Orderly(Applying(o, q))
<1> DEFINE finish == IF q.act = "Disposal" THEN "ok" ELSE "none"
           op == Operation(o, Payload(q.act, Transition(o.state, q.act), q.id),
                           "Applying", TRUE, finish)
           n == [o EXCEPT !.pending = op]
<1>1. finish \in Finishes BY DEF Finishes
<1>2. Applying(o, q) = n BY DEF Applying
<1> HIDE DEF finish
<1>3. Begun(op) /\ op.phase = "Applying" BY <1>1, OperationBegun
<1> HIDE DEF op
<1>4. n = [o EXCEPT !.pending = op] OBVIOUS
<1> HIDE DEF n
<1>5. QED BY <1>2, <1>3, <1>4, BeginOrders

\* What was applied is signed at the head, or is owed.
LEMMA StartSigningOrders ==
  ASSUME NEW o, NEW owed, NEW e, Fit(o), o.pending # NoOp, ~owed => ~Backlog(o)
  PROVE  Orderly(StartSigning(o, owed, e)) /\ Still(o, StartSigning(o, owed, e))
<1> DEFINE n == [o EXCEPT !.pending.phase = "Signing"]
<1>1. Orderly(FailReceipt(o, e)) /\ Still(o, FailReceipt(o, e)) BY FailReceiptEnds DEF Ends
<1>2. ASSUME ~Backlog(o) PROVE Orderly(n) /\ Still(o, n)
  <2>1. Typed(o) BY DEF Fit
  <2>2. UnderWay(o.pending) BY <2>1 DEF Typed
  <2>3. /\ UnderWay(n.pending) /\ n.pending.phase = "Signing"
        /\ n.pending.index = o.pending.index
    BY <2>1, <2>2 DEF UnderWay, Typed, Fields
  <2>4. /\ Tip(n) = Tip(o) /\ Still(o, n) /\ n.deferred = o.deferred /\ n.queued = o.queued
        /\ n.state = o.state /\ n.wait = o.wait /\ n.lost = o.lost
        /\ n.draining = o.draining /\ n.resending = o.resending
    BY <2>1 DEF Typed, Fields, Still, Tip
  <2>5. Gap(n) = Gap(o) BY <2>4 DEF Gap, Still
  <2>6. Typed(n) BY <2>1, <2>3, <2>4, <2>5 DEF Typed, Fields
  <2> HIDE DEF n
  <2>7. Resends(n) /\ Drains(n) /\ Conns(n) BY <2>4 DEF Still, Fit, Resends, Drains, Conns
  <2>8. Waits(n) BY <2>4 DEF Fit, Waits
  <2>9. Quiet(o) /\ o.brokerHead = Tip(o) BY <1>2, NoBacklog
  <2>10. Under(n) BY <2>3, <2>4, <2>9 DEF Under, Quiet, Still
  <2>11. QED BY <2>4, <2>6, <2>7, <2>8, <2>10 DEF Orderly, Fit
<1>3. QED BY <1>1, <1>2 DEF StartSigning

LEMMA FailMechanicEnds ==
  ASSUME NEW o, NEW e, Fit(o)
  PROVE  Free(FailMechanic(o, e)) /\ Ends(o, FailMechanic(o, e))
<1>1. Eases(o, FailMechanic(o, e)) /\ FailMechanic(o, e).pending = NoOp
  BY FailMechanicEases DEF Fit
<1>2. QED BY <1>1, EasesFits, EasesStill, FreeEnds DEF Free

LEMMA GoneEases == ASSUME NEW o, Typed(o) PROVE Eases(o, [o EXCEPT !.tree = "gone"])
  BY DEF Eases, Still, Typed, Fields, Tip, Gap

LEMMA BeginParkOrders ==
  ASSUME NEW o, NEW q, NEW e, Fit(o), May(o)
  PROVE  Orderly(BeginPark(o, q, e)) /\ Still(o, BeginPark(o, q, e))
<1> DEFINE a == Applying(o, q)
           n == Shut(a, e)
           m == AttemptPark(n, e)
           f == FailMechanic(m, e)
<1>1. Fit(a) /\ Still(o, a) /\ a.deferred = o.deferred /\ a.pending # NoOp BY ApplyingFits
<1> HIDE DEF a
<1>2. Eases(a, n) /\ n.pending # NoOp BY <1>1, ShutEases, MechanicsKeepPending DEF Fit
<1> HIDE DEF n
<1>3. Eases(n, m) /\ m.pending # NoOp BY <1>2, AttemptParkEases, MechanicsKeepPending DEF Eases
<1> HIDE DEF m
<1>4. Eases(a, m) BY <1>2, <1>3, EasesTrans
<1>5. Fit(m) /\ Still(o, m) /\ m.deferred = o.deferred
  BY <1>1, <1>4, EasesFits, EasesStill, StillTrans DEF Eases
<1>6. Free(f) /\ Ends(m, f) BY <1>5, FailMechanicEnds
<1> HIDE DEF f
<1>7. Ends(o, f) /\ Still(o, f) BY <1>5, <1>6, StillEnds DEF Ends
<1>8. Ends(o, BeginTerminalEvent(f, "ok", e))
  BY <1>6, <1>7, BeginTerminalEventEnds, StillEnds DEF Finishes
<1>9. Ends(o, QuarantineMechanic(m, m.pending, e)) BY <1>5, QuarantineMechanicEnds, StillEnds
<1>10. ~Backlog(o) => ~Backlog(m) BY <1>5, SameBacklog
<1>11. /\ Orderly(StartSigning(m, Backlog(o), e)) /\ Still(o, StartSigning(m, Backlog(o), e))
  BY <1>3, <1>5, <1>10, StartSigningOrders, StillTrans
<1>12. BeginPark(o, q, e) \in {f, BeginTerminalEvent(f, "ok", e),
                               QuarantineMechanic(m, m.pending, e), StartSigning(m, Backlog(o), e)}
  BY ParkResults DEF BeginPark, f, m, n, a
<1>13. QED BY <1>7, <1>8, <1>9, <1>11, <1>12 DEF Ends

LEMMA BeginInterruptOrders ==
  ASSUME NEW o, NEW q, NEW e, Fit(o), May(o)
  PROVE  Orderly(BeginInterrupt(o, q, e)) /\ Still(o, BeginInterrupt(o, q, e))
<1> DEFINE n == Applying(o, q)
           f == FailMechanic(n, e)
           g == [f EXCEPT !.tree = "gone"]
<1>1. Fit(n) /\ Still(o, n) /\ n.deferred = o.deferred /\ n.pending # NoOp BY ApplyingFits
<1> HIDE DEF n
<1>2. Free(f) /\ Ends(n, f) BY <1>1, FailMechanicEnds
<1>3. Ends(o, f) /\ Still(o, f) BY <1>1, <1>2, StillEnds DEF Ends
<1> HIDE DEF f
<1>4. Eases(f, g) BY <1>2, GoneEases, FreeOrders
<1>5. Free(g) /\ Still(o, g) BY <1>2, <1>3, <1>4, EasesFree, EasesStill, StillTrans
<1> HIDE DEF g
<1>6. Ends(o, BeginTerminalEvent(g, "ok", e))
  BY <1>5, BeginTerminalEventEnds, StillEnds DEF Finishes
<1>7. Ends(o, QuarantineMechanic(n, n.pending, e)) BY <1>1, QuarantineMechanicEnds, StillEnds
<1>8. ~Backlog(o) => ~Backlog(n) BY <1>1, SameBacklog
<1>9. Orderly(StartSigning(n, Backlog(o), e)) /\ Still(o, StartSigning(n, Backlog(o), e))
  BY <1>1, <1>8, StartSigningOrders, StillTrans
<1>10. BeginInterrupt(o, q, e) \in {f, BeginTerminalEvent(g, "ok", e),
                                    QuarantineMechanic(n, n.pending, e),
                                    StartSigning(n, Backlog(o), e)}
  BY DEF BeginInterrupt, g, f, n
<1>11. QED BY <1>3, <1>6, <1>7, <1>9, <1>10 DEF Ends

LEMMA BeginDisposalOrders ==
  ASSUME NEW o, NEW q, NEW e, Fit(o), May(o) PROVE Orderly(BeginDisposal(o, q, e))
<1> DEFINE a == ForgetController(o)
           b == Applying(a, q)
           c == Quiesce(b)
           n == Terminate(c, e)
           m == [n EXCEPT !.unproven = FALSE, !.state = "Terminal", !.channel = "Closed"]
           u == [n EXCEPT !.unproven = TRUE, !.blocked = TRUE, !.channel = "Revoked",
                          !.pending = NoOp]
<1>1. Eases(o, a) BY ForgetControllerEases DEF Fit
<1>2. Fit(a) /\ May(a) BY <1>1, EasesFits, EasesMay
<1>3. a.deferred = o.deferred /\ Still(o, a) BY <1>1 DEF Eases
<1> HIDE DEF a
<1>4. Fit(b) /\ b.pending # NoOp /\ Still(a, b) /\ b.deferred = a.deferred BY <1>2, ApplyingFits
<1> HIDE DEF b
<1>5. Eases(b, c) /\ c.pending # NoOp BY <1>4, QuiesceEases, MechanicsKeepPending DEF Fit
<1> HIDE DEF c
<1>6. /\ Eases(c, n) /\ n.pending # NoOp
      /\ "cleanup" \notin e => n.tree = "gone"
  BY <1>5, TerminateEases, MechanicsKeepPending DEF Eases
<1> HIDE DEF n
<1>7. Eases(b, n) BY <1>5, <1>6, EasesTrans
<1>8. Orderly(Failed(u, q.id, "err"))
  <2>1. Eases(n, u) /\ u.pending = NoOp
    BY <1>7 DEF Eases, Still, Typed, Fields, Tip, Gap
  <2> HIDE DEF u
  <2>2. Eases(u, Failed(u, q.id, "err")) BY <2>1, FailedEases DEF Eases, Finishes
  <2>3. Free(u) BY <1>4, <1>7, <2>1, EasesFits DEF Free
  <2>4. QED BY <2>2, <2>3, EasesFree, FreeOrders
<1>9. ASSUME "cleanup" \notin e PROVE Orderly(StartSigning(m, Backlog(o), e))
  <2>1. Eases(n, m) /\ m.pending # NoOp
    BY <1>6, <1>7, <1>9 DEF Eases, Still, Typed, Fields, Tip, Gap
  <2> HIDE DEF m
  <2>2. Fit(m) /\ Still(o, m) /\ m.deferred = o.deferred
    <3>1. Eases(b, m) BY <1>7, <2>1, EasesTrans
    <3>2. QED BY <1>3, <1>4, <3>1, EasesFits, StillTrans DEF Eases
  <2>3. ~Backlog(o) => ~Backlog(m) BY <2>2, SameBacklog
  <2>4. QED BY <2>1, <2>2, <2>3, StartSigningOrders
<1>10. QED BY <1>8, <1>9 DEF BeginDisposal, m, u, n, c, b, a

LEMMA BeginControllerLossDisposalOrders ==
  ASSUME NEW o, NEW e, Fit(o), May(o), ~o.settling
  PROVE  Orderly(BeginControllerLossDisposal(o, e))
<1> DEFINE op == Operation(o, Payload("Disposal", "Terminal", <<"settled">>),
                           "Applying", FALSE, "ok")
           b == [o EXCEPT !.pending = op]
           n == Quiesce(b)
           m == Terminate(n, e)
           u == [m EXCEPT !.unproven = TRUE, !.blocked = TRUE, !.pending = NoOp]
           k == [m EXCEPT !.unproven = FALSE, !.lost = FALSE, !.state = "Terminal",
                          !.channel = "Closed"]
<1>1. Begun(op) BY OperationBegun DEF Finishes
<1>2. BeginControllerLossDisposal(o, e) =
        IF "cleanup" \in e THEN u ELSE StartSigning(k, Backlog(o), e)
  BY DEF BeginControllerLossDisposal
<1> HIDE DEF op
<1>3. b = [o EXCEPT !.pending = op] OBVIOUS
<1> HIDE DEF b
<1>4. /\ Fit(b) /\ b.pending # NoOp /\ Still(o, b) /\ b.deferred = o.deferred
      /\ b.settling = o.settling
  BY <1>1, <1>3, BeginOrders
<1>5. Eases(b, n) /\ n.pending # NoOp /\ ~n.settling
  BY <1>4, QuiesceEases, MechanicsKeepPending DEF Fit
<1> HIDE DEF n
<1>6. /\ Eases(n, m) /\ m.pending # NoOp /\ ~m.settling
      /\ "cleanup" \notin e => m.tree = "gone"
  BY <1>5, TerminateEases, MechanicsKeepPending DEF Eases
<1> HIDE DEF m
<1>7. Eases(b, m) BY <1>5, <1>6, EasesTrans
<1>8. Orderly(u)
  <2>1. Eases(m, u) /\ u.pending = NoOp
    BY <1>7 DEF Eases, Still, Typed, Fields, Tip, Gap
  <2>2. QED BY <1>4, <1>7, <2>1, EasesFits, FreeOrders DEF Free
<1>9. ASSUME "cleanup" \notin e PROVE Orderly(StartSigning(k, Backlog(o), e))
  <2>1. Eases(m, k) /\ k.pending # NoOp
    BY <1>6, <1>7, <1>9 DEF Eases, Still, Typed, Fields, Tip, Gap
  <2> HIDE DEF k
  <2>2. Eases(b, k) BY <1>7, <2>1, EasesTrans
  <2>3. Fit(k) /\ Still(o, k) /\ k.deferred = o.deferred
    BY <1>4, <2>2, EasesFits, EasesStill, StillTrans DEF Eases
  <2>4. ~Backlog(o) => ~Backlog(k) BY <2>3, SameBacklog
  <2>5. QED BY <2>1, <2>3, <2>4, StartSigningOrders
<1>10. QED BY <1>2, <1>8, <1>9

LEMMA OrderlyTyped == ASSUME NEW o, Orderly(o) PROVE Fit(o) /\ Typed(o)
  BY DEF Orderly, Fit

LEMMA QuarantineMechanicOrders ==
  ASSUME NEW o, NEW op, NEW e, Fit(o)
  PROVE  Orderly(QuarantineMechanic(o, op, e)) /\ Still(o, QuarantineMechanic(o, op, e))
  BY QuarantineMechanicEnds DEF Ends

LEMMA ControllerGoneOrders ==
  ASSUME NEW o, NEW was, NEW e, Orderly(o), o.wait = NoOp PROVE Orderly(ControllerGone(o, was, e))
<1> DEFINE m == IF o.state = "Parked" THEN o ELSE AttemptPark(o, e)
           p == [m EXCEPT !.lostPark = TRUE]
<1>1. Eases(o, m) BY AttemptParkEases, EasesSelf, OrderlyTyped
<1>2. ControllerGone(o, was, e) \in
        {BeginTerminalEvent(m, "ok", e), QuarantineMechanic(m, NoOp, e), m, MaybeSettle(m),
         BeginCausedPark(p, <<"controller">>, e)}
  BY DEF ControllerGone
<1> HIDE DEF m
<1>3. Orderly(m) /\ May(m) BY <1>1, EasesOrderly, EasesMay DEF May
<1>4. Orderly(BeginTerminalEvent(m, "ok", e)) BY <1>3, BeginTerminalEventOrders DEF Finishes
<1>5. Orderly(QuarantineMechanic(m, NoOp, e)) BY <1>3, QuarantineMechanicOrders, OrderlyTyped
<1>6. Orderly(MaybeSettle(m)) BY <1>3, MaybeSettleEases, EasesOrderly, OrderlyTyped
<1>7. Eases(m, p) BY <1>3 DEF Orderly, Fit, Eases, Still, Typed, Fields, Tip, Gap
<1> HIDE DEF p
<1>8. Orderly(BeginCausedPark(p, <<"controller">>, e))
  BY <1>3, <1>7, EasesOrderly, EasesMay, OrderlyTyped, BeginCausedParkOrders
<1>9. QED BY <1>2, <1>3, <1>4, <1>5, <1>6, <1>8

LEMMA BeginControllerLossOrders ==
  ASSUME NEW o, NEW e, Orderly(o) PROVE Orderly(BeginControllerLoss(o, e))
<1> DEFINE n == CancelWait(o)
           a == [n EXCEPT !.lost = TRUE, !.blocked = TRUE]
           f == FailReceipt(a, e)
           s == Shut(f, e)
<1>1. Orderly(n) /\ n.wait = NoOp BY CancelWaitEases, EasesOrderly, OrderlyTyped
<1> HIDE DEF n
<1>2. /\ Typed(a) /\ Tip(a) = Tip(n) /\ a.wait = NoOp /\ a.state = n.state
      /\ a.brokerHead = n.brokerHead /\ a.deferred = n.deferred /\ a.draining = n.draining
      /\ a.resending = n.resending /\ a.conn = n.conn /\ a.offer = n.offer
      /\ a.withdrawn = n.withdrawn /\ a.queued = n.queued
  BY <1>1 DEF Orderly, Fit, Typed, Fields, Tip, Gap
<1> HIDE DEF a
<1>3. Fit(a) BY <1>1, <1>2 DEF Orderly, Fit, Resends, Drains, Conns, Waits
<1>4. Orderly(f) /\ f.wait = NoOp BY <1>2, <1>3, FailReceiptEnds DEF Ends, Still
<1> HIDE DEF f
<1>5. Eases(f, s) BY <1>4, ShutEases, OrderlyTyped
<1>6. Orderly(s) /\ s.wait = NoOp BY <1>4, <1>5, EasesOrderly DEF Eases, Still
<1> HIDE DEF s
<1>7. Orderly(ControllerGone(s, n.state, e)) BY <1>6, ControllerGoneOrders
<1>8. QED BY <1>1, <1>7 DEF BeginControllerLoss, s, f, a, n

\* The operation's receipt is stored, and nothing is past the known head.
Caught(o) ==
    /\ Fit(o)
    /\ o.pending # NoOp =>
          /\ Quiet(o) /\ o.brokerHead = Tip(o)
          /\ o.pending.phase = "Applying" => ~o.lost
          /\ o.pending.phase = "AwaitingDurableAck" => o.pending.index = Tip(o)

LEMMA CompleteOrders ==
  ASSUME NEW o, NEW enable, NEW e, Caught(o), o.pending # NoOp
  PROVE  Orderly(Complete(o, enable, e)) /\ Still(o, Complete(o, enable, e))
<1> DEFINE op == o.pending
           settles == o.lostPark /\ op.pay.by = <<"controller">>
           n == [o EXCEPT !.pending = NoOp,
                   !.done = IF op.respond THEN @ \union {op.pay.by} ELSE @]
           m == IF op.pay.kind = "Park" /\ ~n.lost /\ ~n.unproven /\ ~Backlog(n)
                THEN [n EXCEPT !.blocked = FALSE] ELSE n
           told == IF op.respond
                   THEN Reply(m, op.finish, IF op.pay.to = "Terminal" THEN op.index ELSE 0)
                   ELSE RequestFinish(m, op.finish)
           last == [told EXCEPT !.lostPark = @ /\ ~settles]
           a == [o EXCEPT !.pending.phase = "Activating"]
           g == [a EXCEPT !.gate = TRUE]
<1>1. Fit(o) /\ Typed(o) BY DEF Caught, Fit
<1>2. op.finish \in Finishes BY <1>1 DEF Typed, UnderWay
<1>3. Eases(o, n) /\ n.pending = NoOp BY <1>1 DEF Eases, Still, Typed, Fields, Tip, Gap
<1> HIDE DEF n
<1>4. Eases(n, m)
  <2>1. ~n.lost => Eases(n, [n EXCEPT !.blocked = FALSE])
    BY <1>3 DEF Eases, Still, Typed, Fields, Tip, Gap
  <2>2. QED BY <1>3, <2>1, EasesSelf DEF Eases
<1> HIDE DEF m
<1>5. Eases(m, told) BY <1>2, <1>4, ReplyEases, RequestFinishEases DEF Eases
<1> HIDE DEF told
<1>6. Eases(told, last)
  BY <1>5 DEF Eases, Still, Typed, Fields, Tip, Gap
<1> HIDE DEF last
<1>7. Eases(o, last) BY <1>3, <1>4, <1>5, <1>6, EasesTrans
<1>8. Free(last) /\ Still(o, last)
  <2>1. Eases(n, last) BY <1>4, <1>5, <1>6, EasesTrans
  <2>2. last.pending = NoOp BY <1>3, <2>1 DEF Eases
  <2>3. QED BY <1>1, <1>7, <2>2, EasesFits, EasesStill DEF Free
<1>9. Orderly(TakeQueued(last)) /\ Still(o, TakeQueued(last))
  BY <1>8, TakeQueuedEnds, StillEnds DEF Ends
<1>10. Orderly(MaybeSettle(last)) /\ Still(o, MaybeSettle(last))
  <2>1. Eases(last, MaybeSettle(last)) BY <1>8, MaybeSettleEases, FreeOrders
  <2>2. QED BY <1>8, <2>1, EasesOrderly, EasesStill, FreeOrders, StillTrans
<1>11. Orderly(a) /\ Still(o, a)
  <2>1. UnderWay(o.pending) BY <1>1 DEF Typed
  <2>2. /\ UnderWay(a.pending) /\ a.pending.phase = "Activating"
        /\ a.pending.index = o.pending.index
    BY <1>1, <2>1 DEF UnderWay, Typed, Fields
  <2>3. /\ Tip(a) = Tip(o) /\ Still(o, a) /\ a.deferred = o.deferred /\ a.queued = o.queued
        /\ a.state = o.state /\ a.wait = o.wait /\ a.lost = o.lost
        /\ a.draining = o.draining /\ a.resending = o.resending
    BY <1>1 DEF Typed, Fields, Still, Tip
  <2>4. Gap(a) = Gap(o) BY <2>3 DEF Gap, Still
  <2>5. Typed(a) BY <1>1, <2>2, <2>3, <2>4 DEF Typed, Fields
  <2> HIDE DEF a
  <2>6. Resends(a) /\ Drains(a) /\ Conns(a)
    BY <1>1, <2>3 DEF Still, Fit, Resends, Drains, Conns
  <2>7. Waits(a) BY <1>1, <2>3 DEF Fit, Waits
  <2>8. Under(a) BY <2>2, <2>3 DEF Under, Quiet, Still, Caught
  <2>9. QED BY <1>1, <2>3, <2>5, <2>6, <2>7, <2>8 DEF Orderly, Fit
<1> HIDE DEF a
<1>12. Orderly(FailReceipt(a, e)) /\ Still(o, FailReceipt(a, e))
  BY <1>11, FailReceiptEnds, OrderlyTyped, StillTrans DEF Ends
<1>13. Orderly(g) /\ Still(o, g)
  <2>1. Eases(a, g) BY <1>11, OrderlyTyped DEF Eases, Still, Typed, Fields, Tip, Gap
  <2>2. QED BY <1>11, <2>1, EasesOrderly, EasesStill, StillTrans
<1> HIDE DEF g
<1>14. Still(o, last) /\ Orderly(last) BY <1>8, FreeOrders
<1>15. Complete(o, enable, e) \in
         {FailReceipt(a, e), g, TakeQueued(last), MaybeSettle(last), last}
  BY DEF Complete, last, told, m, n, a, g
<1>16. QED BY <1>9, <1>10, <1>12, <1>13, <1>14, <1>15
-----------------------------------------------------------------------------
(* Reconciling with the broker *)

\* No checkpoint is at hand, and nothing is sent again or drained.
Alone(o) == o.resending = 0 /\ o.draining = NoOp /\ o.offer = 0

LEMMA AloneStays == ASSUME NEW o, NEW n, Alone(o), Still(o, n) PROVE Alone(n)
  BY DEF Alone, Still

LEMMA RunningMay == ASSUME NEW o, Fit(o), o.state = "Running" PROVE May(o)
  BY DEF Fit, Waits, May

LEMMA MayStays == ASSUME NEW o, NEW n, May(o), Still(o, n) PROVE May(n)
  BY DEF May, Still

\* The connection is all that changes.
LEMMA ConnOrders ==
  ASSUME NEW o, NEW n, Orderly(o), Typed(n), Conns(n), n.receipts = o.receipts,
         n.brokerHead = o.brokerHead, n.pending = o.pending, n.deferred = o.deferred,
         n.resending = o.resending, n.draining = o.draining, n.wait = o.wait,
         n.state = o.state, n.queued = o.queued, n.lost = o.lost
  PROVE  Orderly(n)
<1>1. Tip(n) = Tip(o) BY DEF Tip
<1>2. Resends(n) /\ Drains(n) BY <1>1 DEF Orderly, Fit, Resends, Drains
<1>3. Backlog(n) <=> Backlog(o) BY <1>1 DEF Backlog
<1>4. Waits(n) BY <1>3 DEF Orderly, Fit, Waits
<1>5. Under(n) BY <1>1 DEF Orderly, Under, Quiet
<1>6. QED BY <1>2, <1>4, <1>5 DEF Orderly, Fit

LEMMA DeferBrokerLossParkOwes ==
  ASSUME NEW o, Free(o), May(o)
  PROVE  Free(DeferBrokerLossPark(o)) /\ Still(o, DeferBrokerLossPark(o))
<1> DEFINE d == Defer(o, Causal(<<"reconcile">>))
           n == [d EXCEPT !.blocked = TRUE]
<1>1. Free(d) /\ Still(o, d) BY DeferOwes
<1> HIDE DEF d
<1>2. Eases(d, n) BY <1>1 DEF Free, Fit, Eases, Still, Typed, Fields, Tip, Gap
<1>3. Free(n) /\ Still(o, n) BY <1>1, <1>2, EasesFree, EasesStill, StillTrans
<1>4. QED BY <1>3 DEF DeferBrokerLossPark, d

LEMMA ParkForReconciliationOrders ==
  ASSUME NEW o, NEW e, Orderly(o)
  PROVE  /\ Orderly(ParkForReconciliation(o, e)) /\ Still(o, ParkForReconciliation(o, e))
         /\ o.pending = NoOp => Settled(ParkForReconciliation(o, e))
<1> DEFINE m == AttemptPark(o, e)
<1>1. ParkForReconciliation(o, e) \in
        {o, m, BeginTerminalEvent(m, "ok", e), QuarantineMechanic(m, NoOp, e)}
  BY DEF ParkForReconciliation
<1>2. Eases(o, m) BY AttemptParkEases, OrderlyTyped
<1> HIDE DEF m
<1>3. Orderly(m) /\ Still(o, m) /\ (o.pending = NoOp => m.pending = NoOp)
  BY <1>2, EasesOrderly, EasesStill DEF Eases
<1>4. /\ Orderly(BeginTerminalEvent(m, "ok", e)) /\ Still(o, BeginTerminalEvent(m, "ok", e))
      /\ o.pending = NoOp => Settled(BeginTerminalEvent(m, "ok", e))
  BY <1>3, BeginTerminalEventOrders, StillTrans DEF Finishes
<1>5. Ends(o, QuarantineMechanic(m, NoOp, e))
  BY <1>3, QuarantineMechanicEnds, StillEnds, OrderlyTyped
<1>6. Still(o, o) BY DEF Still
<1>7. QED BY <1>1, <1>3, <1>4, <1>5, <1>6 DEF Settled, Ends

LEMMA FreezeOwingOwes ==
  ASSUME NEW o, NEW e, Free(o), FrozeNow(o, e)
  PROVE  Free(FreezeOwing(o, e)) /\ Still(o, FreezeOwing(o, e))
<1>1. CASE o.state = "Running"
  <2> DEFINE m == AttemptPark(o, e)
  <2>1. ParkForReconciliation(o, e) = m BY <1>1 DEF FrozeNow, ParkForReconciliation
  <2>2. Eases(o, m) BY AttemptParkEases, FreeOrders
  <2> HIDE DEF m
  <2>3. Free(m) /\ Still(o, m) /\ May(m)
    BY <1>1, <2>2, EasesFree, EasesStill, EasesMay, RunningMay, FreeOrders
  <2>4. Free(DeferBrokerLossPark(m)) /\ Still(o, DeferBrokerLossPark(m))
    BY <2>3, DeferBrokerLossParkOwes, StillTrans
  <2>5. QED BY <1>1, <2>1, <2>4 DEF FreezeOwing
<1>2. CASE o.state # "Running" BY <1>2 DEF FreezeOwing, Still
<1>3. QED BY <1>1, <1>2

LEMMA StartDrainingOrders ==
  ASSUME NEW o, Free(o), o.conn = "Reconciling", o.resending = 0, o.brokerHead = Tip(o)
  PROVE  Orderly(StartDraining(o))
<1> DEFINE d == [phase |-> "Signing", pay |-> o.deferred[1], seq |-> Tip(o) + 1, index |-> 0]
           n == [o EXCEPT !.draining = d]
<1>1. {"phase", "index"} \subseteq DOMAIN d /\ d.phase = "Signing" /\ d.index = 0 OBVIOUS
<1> HIDE DEF d
<1>2. ASSUME o.deferred # <<>> PROVE Orderly(n)
  <2>1. /\ Typed(n) /\ Tip(n) = Tip(o) /\ n.draining = d /\ n.deferred = o.deferred
        /\ n.conn = o.conn /\ n.offer = o.offer /\ n.withdrawn = o.withdrawn
        /\ n.brokerHead = o.brokerHead /\ n.resending = o.resending /\ n.wait = o.wait
        /\ n.state = o.state /\ n.pending = NoOp /\ n.queued = o.queued /\ n.lost = o.lost
    BY FreeOrders DEF Free, Typed, Fields, Tip, Gap
  <2> HIDE DEF n
  <2>2. Resends(n) /\ Drains(n) /\ Conns(n)
    BY <1>1, <1>2, <2>1 DEF Free, Fit, Resends, Drains, Conns
  <2>3. Backlog(n) <=> Backlog(o) BY <2>1 DEF Backlog
  <2>4. Waits(n) BY <2>1, <2>3 DEF Free, Fit, Waits
  <2>5. QED BY <2>1, <2>2, <2>4 DEF Free, Fit, Orderly, Under
<1>3. Orderly(o) BY FreeOrders
<1>4. QED BY <1>2, <1>3 DEF StartDraining, d

LEMMA CompleteDurableOrders ==
  ASSUME NEW o, NEW e, Caught(o)
  PROVE  Orderly(CompleteDurable(o, e)) /\ Still(o, CompleteDurable(o, e))
<1>1. ASSUME o.pending.phase = "AwaitingDurableAck" PROVE o.pending # NoOp
  BY <1>1 DEF NoOp
<1>2. CASE o.pending.phase = "AwaitingDurableAck" /\ o.pending.index = o.brokerHead
  <2>1. CompleteDurable(o, e) = Complete(o, FALSE, e) BY <1>2 DEF CompleteDurable
  <2> DEFINE enable == FALSE
  <2>2. CompleteDurable(o, e) = Complete(o, enable, e) BY <2>1
  <2> HIDE DEF enable
  <2>3. QED BY <1>1, <1>2, <2>2, CompleteOrders
<1>3. CASE ~(o.pending.phase = "AwaitingDurableAck" /\ o.pending.index = o.brokerHead)
  <2>1. CompleteDurable(o, e) = o BY <1>3 DEF CompleteDurable
  <2>2. Under(o) BY <1>3 DEF Caught, Under
  <2>3. QED BY <2>1, <2>2 DEF Caught, Orderly, Still
<1>4. QED BY <1>2, <1>3

LEMMA ReattachedOrders == ASSUME NEW o, Orderly(o), Alone(o) PROVE Orderly(Reattached(o))
<1> DEFINE kept == o.lostPark /\ ~\E i \in 1 .. o.brokerHead :
                                       o.receipts[i].by = <<"controller">>
           n == [o EXCEPT !.conn = "Connected", !.lostPark = kept]
<1>1. kept \in BOOLEAN OBVIOUS
<1>2. Reattached(o) = MaybeSettle(n) BY OrderlyTyped DEF Reattached, Typed, Fields
<1> HIDE DEF kept
<1>3. /\ Typed(n) /\ n.receipts = o.receipts /\ n.brokerHead = o.brokerHead
      /\ n.pending = o.pending /\ n.deferred = o.deferred /\ n.resending = o.resending
      /\ n.draining = o.draining /\ n.wait = o.wait /\ n.state = o.state
      /\ n.queued = o.queued /\ n.lost = o.lost /\ n.offer = o.offer
  BY <1>1, OrderlyTyped DEF Typed, Fields, Tip, Gap
<1> HIDE DEF n
<1>4. Conns(n) BY <1>3 DEF Conns, Alone
<1>5. Orderly(n) BY <1>3, <1>4, ConnOrders
<1>6. QED BY <1>2, <1>5, OrderlyTyped, MaybeSettleEases, EasesOrderly

LEMMA UnblockEases == ASSUME NEW o, Typed(o) PROVE Eases(o, Unblock(o))
<1>1. ~o.lost => Eases(o, [o EXCEPT !.blocked = FALSE])
  BY DEF Eases, Still, Typed, Fields, Tip, Gap
<1>2. QED BY <1>1, EasesSelf DEF Unblock

LEMMA FinishDrainedEases == ASSUME NEW o, Typed(o) PROVE Eases(o, FinishDrained(o))
<1> DEFINE n == [o EXCEPT !.finishDrained = "none"]
<1>1. Eases(o, n) BY DEF Eases, Still, Typed, Fields, Tip, Gap, Finishes
<1>2. o.finishDrained \in Finishes BY DEF Typed
<1> HIDE DEF n
<1>3. Eases(n, RequestFinish(n, o.finishDrained)) BY <1>1, <1>2, RequestFinishEases DEF Eases
<1>4. QED BY <1>1, <1>3, EasesTrans DEF FinishDrained, n

LEMMA UnfrozenOrders == ASSUME NEW o, Orderly(o), Alone(o) PROVE Orderly(Unfrozen(o))
<1> DEFINE n == [o EXCEPT !.blocked = TRUE, !.conn = "Connected", !.channel = "Revoked"]
<1>1. /\ Typed(n) /\ n.receipts = o.receipts /\ n.brokerHead = o.brokerHead
      /\ n.pending = o.pending /\ n.deferred = o.deferred /\ n.resending = o.resending
      /\ n.draining = o.draining /\ n.wait = o.wait /\ n.state = o.state
      /\ n.queued = o.queued /\ n.lost = o.lost /\ n.offer = o.offer
  BY OrderlyTyped DEF Typed, Fields, Tip, Gap
<1> HIDE DEF n
<1>2. Conns(n) BY <1>1 DEF Conns, Alone
<1>3. Orderly(n) BY <1>1, <1>2, ConnOrders
<1>4. QED BY <1>3 DEF Unfrozen, n

LEMMA ReconciledOrders ==
  ASSUME NEW o, NEW e, Orderly(o), Alone(o), o.brokerHead = Tip(o)
  PROVE  Orderly(Reconciled(o, e))
<1> DEFINE f == FreezeOwing(o, e)
           r == [f EXCEPT !.conn = "Reconciling"]
           p == ParkForReconciliation(o, e)
<1>1. CASE o.deferred = <<>>
  <2> DEFINE a == Reattached(o)
             b == Unblock(a)
  <2>1. Orderly(a) BY ReattachedOrders
  <2> HIDE DEF a
  <2>2. Orderly(b) BY <2>1, UnblockEases, EasesOrderly, OrderlyTyped
  <2> HIDE DEF b
  <2>3. Orderly(FinishDrained(b)) BY <2>2, FinishDrainedEases, EasesOrderly, OrderlyTyped
  <2>4. QED BY <1>1, <2>3 DEF Reconciled, b, a
<1>2. CASE o.deferred # <<>> /\ FrozeNow(o, e)
  <2>1. Free(o) BY <1>2 DEF Orderly, Under, Quiet, Free
  <2>2. Free(f) /\ Alone(f) /\ f.brokerHead = Tip(f)
    BY <1>2, <2>1, FreezeOwingOwes, AloneStays DEF Still, Tip
  <2> HIDE DEF f
  <2>3. /\ Typed(r) /\ r.receipts = f.receipts /\ r.brokerHead = f.brokerHead
        /\ r.pending = f.pending /\ r.deferred = f.deferred /\ r.resending = f.resending
        /\ r.draining = f.draining /\ r.wait = f.wait /\ r.state = f.state
        /\ r.queued = f.queued /\ r.lost = f.lost /\ r.offer = f.offer
        /\ r.conn = "Reconciling"
    BY <2>2, FreeOrders DEF Typed, Fields, Tip, Gap
  <2> HIDE DEF r
  <2>4. Conns(r) /\ r.resending = 0 /\ r.pending = NoOp BY <2>2, <2>3 DEF Conns, Alone, Free
  <2>5. Orderly(r) BY <2>2, <2>3, <2>4, ConnOrders, FreeOrders
  <2>6. r.brokerHead = Tip(r) BY <2>2, <2>3 DEF Tip
  <2>7. Orderly(StartDraining(r)) BY <2>3, <2>4, <2>5, <2>6, StartDrainingOrders DEF Free, Orderly
  <2>8. QED BY <1>2, <2>7 DEF Reconciled, r, f
<1>3. CASE o.deferred # <<>> /\ ~FrozeNow(o, e)
  <2>1. Orderly(p) /\ Alone(p) BY ParkForReconciliationOrders, AloneStays
  <2> HIDE DEF p
  <2>2. Orderly(Unfrozen(p)) BY <2>1, UnfrozenOrders
  <2>3. QED BY <1>3, <2>2 DEF Reconciled, p
<1>4. QED BY <1>1, <1>2, <1>3

LEMMA FinishReconnectOrders ==
  ASSUME NEW o, NEW e, Typed(o), Caught([o EXCEPT !.resending = 0]), o.draining = NoOp, o.offer = 0,
         o.brokerHead = Tip(o)
  PROVE  Orderly(FinishReconnect(o, e))
<1> DEFINE n == [o EXCEPT !.resending = 0]
           c == CompleteDurable(n, e)
<1>1. Alone(n) /\ n.brokerHead = Tip(n) BY DEF Alone, Typed, Fields, Tip
<1>2. Caught(n) OBVIOUS
<1> HIDE DEF n
<1>3. Orderly(c) /\ Alone(c) /\ c.brokerHead = Tip(c)
  BY <1>1, <1>2, CompleteDurableOrders, AloneStays DEF Still, Tip
<1> HIDE DEF c
<1>4. Orderly(Reconciled(c, e)) BY <1>3, ReconciledOrders
<1>5. QED BY <1>4 DEF FinishReconnect, c, n

LEMMA UnreconciledOrders ==
  ASSUME NEW o, NEW was, Orderly(o), Settled(o), Alone(o), was = "Running" => May(o)
  PROVE  Orderly(Unreconciled(o, was))
<1> DEFINE owing == IF was = "Running" /\ o.state = "Parked" THEN DeferBrokerLossPark(o) ELSE o
           r == Narrowed(owing)
           n == [r EXCEPT !.conn = "Connected"]
<1>1. ASSUME ~Over(o) PROVE Orderly(n)
  <2>1. Free(o) BY <1>1 DEF Over, Settled, Orderly, Free
  <2>2. Free(owing) /\ Still(o, owing) BY <2>1, DeferBrokerLossParkOwes DEF Still
  <2> HIDE DEF owing
  <2>3. Eases(owing, r) BY <2>2, NarrowedEases, FreeOrders
  <2> HIDE DEF r
  <2>4. Free(r) /\ Still(o, r) BY <2>2, <2>3, EasesFree, EasesStill, StillTrans
  <2>5. Alone(r) BY <2>4, AloneStays
  <2>6. /\ Typed(n) /\ n.receipts = r.receipts /\ n.brokerHead = r.brokerHead
        /\ n.pending = r.pending /\ n.deferred = r.deferred /\ n.resending = r.resending
        /\ n.draining = r.draining /\ n.wait = r.wait /\ n.state = r.state
        /\ n.queued = r.queued /\ n.lost = r.lost /\ n.offer = r.offer
    BY <2>4, FreeOrders DEF Typed, Fields, Tip, Gap
  <2> HIDE DEF n
  <2>7. Conns(n) BY <2>5, <2>6 DEF Conns, Alone
  <2>8. QED BY <2>4, <2>6, <2>7, ConnOrders, FreeOrders
<1>2. QED BY <1>1 DEF Unreconciled, n, r, owing

LEMMA FailReconciliationOrders ==
  ASSUME NEW o, NEW e, Free(o), o.draining = NoOp, o.offer = 0
  PROVE  Orderly(FailReconciliation(o, e))
<1> DEFINE a == [o EXCEPT !.resending = 0, !.blocked = TRUE]
           p == ParkForReconciliation(a, e)
<1>1. Eases(o, a) /\ Alone(a)
  BY FreeOrders DEF Alone, Eases, Still, Typed, Fields, Tip, Gap
<1> HIDE DEF a
<1>2. Free(a) /\ (o.state = "Running" => May(a))
  BY <1>1, EasesFree, EasesMay, RunningMay, FreeOrders
<1>3. Orderly(p) /\ Settled(p) /\ Still(a, p)
  BY <1>2, ParkForReconciliationOrders, FreeOrders DEF Free
<1>4. Alone(p) /\ (o.state = "Running" => May(p)) BY <1>1, <1>2, <1>3, AloneStays, MayStays
<1> HIDE DEF p
<1>5. Orderly(Unreconciled(p, o.state)) BY <1>3, <1>4, UnreconciledOrders
<1>6. QED BY <1>5 DEF FailReconciliation, p, a

LEMMA FailUnfrozenOrders ==
  ASSUME NEW o, NEW e, Orderly(o), Settled(o), Alone(o) PROVE Orderly(FailUnfrozen(o, e))
<1>1. ~Over(o) => Free(o) BY DEF Over, Settled, Orderly, Free
<1>2. QED BY <1>1, FailReconciliationOrders DEF FailUnfrozen, Alone

LEMMA WireEases ==
  ASSUME NEW o, NEW i, Typed(o) PROVE Eases(o, Send(o, i))
  BY DEF Send, Eases, Still, Typed, Fields, Tip, Gap

LEMMA CatchUpOrders ==
  ASSUME NEW o, NEW head, NEW e, Free(o), Alone(o), head = o.brokerHead, head # Tip(o)
  PROVE  Orderly(CatchUp(o, head, e))
<1> DEFINE f == FreezeOwing(o, e)
           n == [f EXCEPT !.conn = "Reconciling", !.resending = head + 1]
           p == ParkForReconciliation(o, e)
<1>1. ASSUME FrozeNow(o, e) PROVE Orderly(Send(n, head + 1))
  <2>1. Free(f) /\ Still(o, f) /\ Alone(f) BY <1>1, FreezeOwingOwes, AloneStays
  <2> HIDE DEF f
  <2>2. Tip(f) = Tip(o) /\ f.brokerHead = head BY <2>1 DEF Still, Tip
  <2>3. head \in 1 .. Tip(f) /\ head + 1 \in f.brokerHead + 1 .. Tip(f) /\ Tip(f) \in Nat
        /\ head + 1 \in 0 .. Tip(f)
    BY <2>1, <2>2, Counts, FreeOrders DEF Typed
  <2>4. /\ Typed(n) /\ n.receipts = f.receipts /\ n.brokerHead = f.brokerHead
        /\ n.pending = NoOp /\ n.deferred = f.deferred /\ n.resending = head + 1
        /\ n.draining = f.draining /\ n.wait = f.wait /\ n.state = f.state
        /\ n.queued = f.queued /\ n.lost = f.lost /\ n.offer = f.offer
        /\ n.conn = "Reconciling" /\ Tip(n) = Tip(f)
    <3>1. Typed(f) /\ f.pending = NoOp BY <2>1, FreeOrders DEF Free
    <3> DEFINE k == head + 1
    <3>2. k \in 0 .. Tip(f) BY <2>3
    <3> HIDE DEF k
    <3>3. /\ n.receipts = f.receipts /\ n.brokerHead = f.brokerHead
          /\ n.pending = NoOp /\ n.deferred = f.deferred /\ n.resending = k
          /\ n.draining = f.draining /\ n.wait = f.wait /\ n.state = f.state
          /\ n.queued = f.queued /\ n.lost = f.lost /\ n.offer = f.offer
          /\ n.conn = "Reconciling" /\ Tip(n) = Tip(f)
      BY <3>1 DEF Typed, Fields, Tip, k
    <3>4. Gap(n) = Gap(f) BY <3>3 DEF Gap
    <3>5. Typed(n) BY <3>1, <3>2, <3>3, <3>4 DEF Typed, Fields, k
    <3>6. QED BY <3>3, <3>5 DEF k
  <2> HIDE DEF n
  <2>5. Resends(n) /\ Conns(n) /\ Drains(n)
    BY <2>1, <2>3, <2>4 DEF Resends, Conns, Drains, Alone
  <2>6. Backlog(n) <=> Backlog(f) BY <2>4 DEF Backlog
  <2>7. Waits(n) BY <2>1, <2>4, <2>6 DEF Free, Fit, Waits
  <2>8. Orderly(n) BY <2>1, <2>4, <2>5, <2>7 DEF Free, Fit, Orderly, Under
  <2>9. QED BY <2>8, WireEases, EasesOrderly, OrderlyTyped
<1>2. Orderly(FailUnfrozen(p, e))
  <2>1. Orderly(p) /\ Settled(p) /\ Alone(p)
    BY ParkForReconciliationOrders, FreeOrders, AloneStays DEF Free
  <2> HIDE DEF p
  <2>2. QED BY <2>1, FailUnfrozenOrders
<1>3. QED BY <1>1, <1>2 DEF CatchUp, n, f, p

\* The known head moves on, up to the last receipt.
LEMMA AdvanceFits ==
  ASSUME NEW o, NEW n, Fit(o), Typed(n), n.receipts = o.receipts, n.deferred = o.deferred,
         o.brokerHead <= n.brokerHead, Resends(n), Drains(n), n.offer = 0, n.conn = o.conn,
         n.withdrawn = o.withdrawn,
         n.draining # NoOp \/ n.resending # 0 => n.conn = "Reconciling",
         n.wait = o.wait, n.state = o.state, n.lost = o.lost, n.pending = o.pending,
         n.queued = o.queued
  PROVE  Fit(n)
<1>1. Tip(n) = Tip(o) BY DEF Tip
<1>2. Conns(n) BY DEF Conns
<1>3. ASSUME ~Backlog(o) PROVE ~Backlog(n)
  <2>1. o.deferred = <<>> /\ Tip(o) = o.brokerHead BY <1>3 DEF Backlog
  <2>2. n.brokerHead \in 1 .. Tip(n) /\ Tip(n) \in Nat BY Counts DEF Typed
  <2>3. n.brokerHead = Tip(n) BY <1>1, <2>1, <2>2
  <2>4. QED BY <2>1, <2>3 DEF Backlog
<1>4. Waits(n) BY <1>3 DEF Fit, Waits
<1>5. QED BY <1>2, <1>4 DEF Fit

LEMMA CaughtStops == ASSUME NEW o, Caught(o) PROVE Caught([o EXCEPT !.resending = 0])
<1> DEFINE n == [o EXCEPT !.resending = 0]
<1>1. Eases(o, n) /\ n.pending = o.pending /\ n.resending = 0 /\ n.draining = o.draining
  BY DEF Caught, Fit, Eases, Still, Typed, Fields, Tip, Gap
<1> HIDE DEF n
<1>2. Fit(n) /\ Tip(n) = Tip(o) BY <1>1, EasesFits DEF Caught, Eases, Still, Tip
<1>3. Caught(n) BY <1>1, <1>2 DEF Caught, Quiet, Eases, Still
<1>4. QED BY <1>3 DEF n

\* The owner that takes over a checkpoint of its own chain.
LEMMA CheckpointFits ==
  ASSUME NEW o, NEW head, NEW n, Orderly(o), Alone(o), head \in o.brokerHead .. Tip(o),
         n = [o EXCEPT !.brokerHead = head, !.trying = FALSE]
  PROVE  /\ Fit(n) /\ Alone(n) /\ n.brokerHead = head /\ Tip(n) = Tip(o)
         /\ head = Tip(n) => Caught([n EXCEPT !.resending = 0])
<1>1. Typed(o) /\ Fit(o) /\ Tip(o) \in Nat /\ Len(o.deferred) \in Nat /\ o.brokerHead \in 1 .. Tip(o)
  BY OrderlyTyped, Counts DEF Typed
<1>2. /\ n.receipts = o.receipts /\ n.brokerHead = head /\ n.pending = o.pending
      /\ n.deferred = o.deferred /\ n.resending = o.resending /\ n.draining = o.draining
      /\ n.wait = o.wait /\ n.state = o.state /\ n.queued = o.queued /\ n.lost = o.lost
      /\ n.offer = o.offer /\ n.conn = o.conn /\ n.withdrawn = o.withdrawn
      /\ Tip(n) = Tip(o)
  BY <1>1 DEF Typed, Fields, Tip
<1>3. Gap(n) <= MaxPending BY <1>1, <1>2, OwnerAssumption DEF Gap, Typed
<1>4. Typed(n) BY <1>1, <1>2, <1>3 DEF Typed, Fields
<1>5. Alone(n) BY <1>2 DEF Alone
<1>6. Fit(n)
  <2>1. Resends(n) /\ Drains(n) /\ n.offer = 0 /\ n.draining = NoOp /\ n.resending = 0
    BY <1>5 DEF Resends, Drains, Alone
  <2>2. o.brokerHead <= n.brokerHead BY <1>1, <1>2
  <2>3. QED BY <1>1, <1>2, <1>4, <2>1, <2>2, AdvanceFits
<1>7. ASSUME head = Tip(n) PROVE Caught([n EXCEPT !.resending = 0])
  <2>1. Under(o) BY DEF Orderly
  <2>2. Caught(n) BY <1>2, <1>6, <1>7, <2>1 DEF Caught, Under, Quiet
  <2>3. QED BY <2>2, CaughtStops
<1>8. QED BY <1>2, <1>5, <1>6, <1>7

LEMMA ReconnectedOrders ==
  ASSUME NEW o, NEW head, NEW e, Orderly(o), Alone(o), head \in o.brokerHead .. Tip(o)
  PROVE  Orderly(Reconnected(o, head, e))
<1> DEFINE n == [o EXCEPT !.brokerHead = head, !.trying = FALSE]
           f == FailReceipt(n, e)
<1>1. n = [o EXCEPT !.brokerHead = head, !.trying = FALSE] OBVIOUS
<1> HIDE DEF n
<1>2. /\ Fit(n) /\ Alone(n) /\ n.brokerHead = head /\ Tip(n) = Tip(o)
      /\ head = Tip(n) => Caught([n EXCEPT !.resending = 0])
  BY <1>1, CheckpointFits
<1>3. ASSUME head = Tip(n) PROVE Orderly(FinishReconnect(n, e))
  BY <1>2, <1>3, FinishReconnectOrders DEF Alone, Fit
<1>4. ASSUME head # Tip(n) PROVE Orderly(CatchUp(f, head, e))
  <2>1. Ends(n, f) BY <1>2, FailReceiptEnds
  <2> HIDE DEF f
  <2>2. f.brokerHead = head /\ Tip(f) = Tip(n) BY <1>2, <2>1 DEF Ends, Still, Tip
  <2>3. Free(f) BY <1>4, <2>1, <2>2 DEF Ends, Settled, Orderly, Under, Free
  <2>4. Alone(f) BY <1>2, <2>1, AloneStays DEF Ends
  <2>5. QED BY <1>4, <2>2, <2>3, <2>4, CatchUpOrders
<1>5. QED BY <1>3, <1>4 DEF Reconnected, n, f

LEMMA FailDrainingOrders ==
  ASSUME NEW o, Orderly(o), o.draining # NoOp, ~o.withdrawn PROVE Orderly(FailDraining(o))
<1> DEFINE c == IF o.state = "Terminal" THEN "Closed" ELSE "Revoked"
           a == [o EXCEPT !.draining = NoOp, !.blocked = TRUE, !.channel = c]
           n == [o EXCEPT !.draining = NoOp, !.blocked = TRUE, !.conn = "Connected", !.channel = c]
<1>1. Tip(o) \in Nat BY Counts, OrderlyTyped
<1>2. Alone(a)
  BY <1>1, OrderlyTyped DEF Orderly, Fit, Resends, Conns, Alone, Typed, Fields
<1>3. c \in {"Revoked", "Closed"} OBVIOUS
<1> HIDE DEF c
<1>4. Eases(o, a) BY <1>3, OrderlyTyped DEF Eases, Still, Typed, Fields, Tip, Gap
<1>5. /\ Typed(n) /\ n.receipts = a.receipts /\ n.brokerHead = a.brokerHead
      /\ n.pending = a.pending /\ n.deferred = a.deferred /\ n.resending = a.resending
      /\ n.draining = a.draining /\ n.wait = a.wait /\ n.state = a.state
      /\ n.queued = a.queued /\ n.lost = a.lost /\ n.offer = a.offer
  BY <1>3, OrderlyTyped DEF Typed, Fields, Tip, Gap
<1> HIDE DEF a, n
<1>6. Conns(n) BY <1>2, <1>5 DEF Conns, Alone
<1>7. Orderly(n) BY <1>4, <1>5, <1>6, EasesOrderly, ConnOrders
<1>8. QED BY <1>7 DEF FailDraining, n, c

LEMMA HeadShrinksGap ==
  ASSUME NEW o, NEW n, Typed(o), n.receipts = o.receipts, n.deferred = o.deferred,
         n.brokerHead \in o.brokerHead .. Tip(o)
  PROVE  Gap(n) <= MaxPending
<1>1. Tip(o) \in Nat /\ Len(o.deferred) \in Nat /\ o.brokerHead \in Nat
  BY Counts DEF Typed
<1>2. Gap(o) <= MaxPending BY DEF Typed
<1> DEFINE t == Tip(o)
           l == Len(o.deferred)
           h == o.brokerHead
           i == n.brokerHead
<1>3. Gap(o) = (t - h) + l /\ Gap(n) = (t - i) + l BY DEF Gap, Tip
<1>4. t \in Nat /\ l \in Nat /\ h \in Nat /\ i \in h .. t BY <1>1
<1> HIDE DEF t, l, h, i
<1>5. QED BY <1>2, <1>3, <1>4, OwnerAssumption

\* The owner that is told of the evidence it drained, and of a receipt it sent
\* again.
LEMMA DrainedFrees ==
  ASSUME NEW o, NEW i, NEW n, Orderly(o), ~o.withdrawn, o.offer = 0,
         o.draining # NoOp, o.draining.index = i, i \in Nat \ {0},
         n = [o EXCEPT !.brokerHead = i, !.draining = NoOp]
  PROVE  Free(n) /\ Alone(n) /\ n.conn = "Reconciling" /\ n.brokerHead = Tip(n)
<1>0. Typed(o) /\ Fit(o) /\ Tip(o) \in Nat /\ Len(o.deferred) \in Nat /\ o.brokerHead \in 1 .. Tip(o)
  BY OrderlyTyped, Counts DEF Typed
<1>1. i \in o.brokerHead + 1 .. Tip(o) /\ i = Tip(o) BY <1>0 DEF Fit, Drains
<1>2. o.pending = NoOp /\ o.resending = 0 /\ o.conn = "Reconciling"
  BY <1>0 DEF Orderly, Under, Quiet, Fit, Resends, Conns
<1>3. /\ n.receipts = o.receipts /\ n.brokerHead = i /\ n.pending = NoOp
      /\ n.deferred = o.deferred /\ n.resending = 0 /\ n.draining = NoOp
      /\ n.wait = o.wait /\ n.state = o.state /\ n.queued = o.queued /\ n.lost = o.lost
      /\ n.offer = 0 /\ n.conn = o.conn /\ n.withdrawn = o.withdrawn /\ Tip(n) = Tip(o)
  BY <1>0, <1>2 DEF Typed, Fields, Tip
<1>4. Gap(n) <= MaxPending
  <2>1. n.brokerHead \in o.brokerHead .. Tip(o) BY <1>0, <1>1, <1>3
  <2>2. QED BY <1>0, <1>3, <2>1, HeadShrinksGap
<1>5. Typed(n) BY <1>0, <1>1, <1>3, <1>4 DEF Typed, Fields
<1>6. Resends(n) /\ Drains(n) BY <1>3 DEF Resends, Drains
<1>7. o.brokerHead <= n.brokerHead BY <1>0, <1>1, <1>3
<1>8. Fit(n) BY <1>0, <1>2, <1>3, <1>5, <1>6, <1>7, AdvanceFits
<1>9. QED BY <1>1, <1>2, <1>3, <1>8 DEF Free, Alone

LEMMA ResentFrees ==
  ASSUME NEW o, NEW i, NEW n, Orderly(o), ~o.withdrawn, o.offer = 0,
         o.draining = NoOp, o.resending # 0, i = o.resending, n = [o EXCEPT !.brokerHead = i]
  PROVE  /\ Typed(n) /\ n.draining = NoOp /\ n.offer = 0 /\ Free([n EXCEPT !.resending = 0])
         /\ i < Tip(o) => Orderly([n EXCEPT !.resending = i + 1])
<1> DEFINE s == [n EXCEPT !.resending = i + 1]
           z == [n EXCEPT !.resending = 0]
<1>0. Typed(o) /\ Fit(o) /\ Tip(o) \in Nat /\ Len(o.deferred) \in Nat /\ o.brokerHead \in 1 .. Tip(o)
  BY OrderlyTyped, Counts DEF Typed
<1>1. i \in o.brokerHead + 1 .. Tip(o) BY <1>0 DEF Fit, Resends
<1>2. o.pending = NoOp /\ o.conn = "Reconciling"
  BY <1>0 DEF Orderly, Under, Quiet, Fit, Conns
<1>3. /\ n.receipts = o.receipts /\ n.brokerHead = i /\ n.pending = NoOp
      /\ n.deferred = o.deferred /\ n.draining = NoOp
      /\ n.wait = o.wait /\ n.state = o.state /\ n.queued = o.queued /\ n.lost = o.lost
      /\ n.offer = 0 /\ n.conn = o.conn /\ n.withdrawn = o.withdrawn /\ Tip(n) = Tip(o)
  BY <1>0, <1>2 DEF Typed, Fields, Tip
<1>4. Gap(n) <= MaxPending
  <2>1. n.brokerHead \in o.brokerHead .. Tip(o) BY <1>0, <1>1, <1>3
  <2>2. QED BY <1>0, <1>3, <2>1, HeadShrinksGap
<1>5. Typed(n) BY <1>0, <1>1, <1>3, <1>4 DEF Typed, Fields
<1>6. ASSUME NEW m, Typed(m), m.resending = 0 \/ m.resending \in i + 1 .. Tip(o),
             m.receipts = n.receipts, m.brokerHead = i, m.pending = NoOp,
             m.deferred = n.deferred, m.draining = NoOp, m.wait = n.wait,
             m.state = n.state, m.queued = n.queued, m.lost = n.lost, m.offer = 0,
             m.conn = n.conn, m.withdrawn = n.withdrawn
      PROVE  Free(m)
  <2>1. Tip(m) = Tip(o) BY <1>3, <1>6 DEF Tip
  <2>2. Resends(m) /\ Drains(m) BY <1>6, <2>1 DEF Resends, Drains
  <2>3. o.brokerHead <= m.brokerHead BY <1>0, <1>1, <1>6
  <2>4. Fit(m) BY <1>0, <1>2, <1>3, <1>6, <2>2, <2>3, AdvanceFits
  <2>5. QED BY <1>6, <2>4 DEF Free
<1>7. Free(z)
  <2>1. Typed(z) /\ z.resending = 0 /\ z.receipts = n.receipts /\ z.brokerHead = n.brokerHead
        /\ z.pending = n.pending /\ z.deferred = n.deferred /\ z.draining = n.draining
        /\ z.wait = n.wait /\ z.state = n.state /\ z.queued = n.queued /\ z.lost = n.lost
        /\ z.offer = n.offer /\ z.conn = n.conn /\ z.withdrawn = n.withdrawn
    BY <1>0, <1>3, <1>5 DEF Typed, Fields, Tip, Gap
  <2> HIDE DEF z
  <2>2. QED BY <1>3, <1>6, <2>1
<1>8. ASSUME i < Tip(o) PROVE Orderly(s)
  <2>1. i + 1 \in i + 1 .. Tip(o) /\ i + 1 \in 0 .. Tip(o) BY <1>0, <1>1, <1>8
  <2>2. Typed(s) /\ s.resending = i + 1 /\ s.receipts = n.receipts
        /\ s.brokerHead = n.brokerHead /\ s.pending = n.pending
        /\ s.deferred = n.deferred /\ s.draining = n.draining
        /\ s.wait = n.wait /\ s.state = n.state /\ s.queued = n.queued /\ s.lost = n.lost
        /\ s.offer = n.offer /\ s.conn = n.conn /\ s.withdrawn = n.withdrawn
    BY <1>0, <1>3, <1>5, <2>1 DEF Typed, Fields, Tip, Gap
  <2> HIDE DEF s
  <2>3. Free(s) BY <1>3, <1>6, <2>1, <2>2
  <2>4. QED BY <2>3, FreeOrders
<1>9. QED BY <1>3, <1>5, <1>7, <1>8

LEMMA AcknowledgedOrders ==
  ASSUME NEW o, NEW i \in Nat \ {0}, NEW e, Orderly(o), ~o.withdrawn, o.offer = 0
  PROVE  Orderly(Acknowledged(o, i, e))
<1>1. Typed(o) /\ Fit(o) /\ Tip(o) \in Nat /\ Len(o.deferred) \in Nat /\ o.brokerHead \in 1 .. Tip(o)
  BY OrderlyTyped, Counts DEF Typed
<1>2. CASE o.draining # NoOp
  <2> DEFINE n == [o EXCEPT !.brokerHead = i, !.draining = NoOp]
  <2>1. o.pending = NoOp /\ o.resending = 0 /\ o.conn = "Reconciling"
    BY <1>1, <1>2 DEF Orderly, Under, Quiet, Fit, Resends, Conns
  <2>2. ASSUME o.draining.index = i
        PROVE  Free(n) /\ Alone(n) /\ n.conn = "Reconciling" /\ n.brokerHead = Tip(n)
    <3>1. n = [o EXCEPT !.brokerHead = i, !.draining = NoOp] OBVIOUS
    <3> HIDE DEF n
    <3>2. QED BY <1>2, <2>2, <3>1, DrainedFrees
  <2> HIDE DEF n
  <2>3. ASSUME Free(n), Alone(n), n.brokerHead = Tip(n) PROVE Orderly(FinishReconnect(n, e))
    <3>1. Caught(n) BY <2>3 DEF Free, Caught
    <3>2. QED BY <2>3, <3>1, CaughtStops, FinishReconnectOrders, FreeOrders DEF Alone
  <2>4. ASSUME Free(n), Alone(n), n.conn = "Reconciling", n.brokerHead = Tip(n)
        PROVE  Orderly(StartDraining(n))
    BY <2>4, StartDrainingOrders DEF Alone
  <2>5. Acknowledged(o, i, e) =
          IF o.draining.index # i THEN FailDraining(o)
          ELSE IF n.deferred = <<>> THEN FinishReconnect(n, e) ELSE StartDraining(n)
    BY <1>2 DEF Acknowledged, n
  <2>6. Orderly(FailDraining(o)) BY <1>2, FailDrainingOrders
  <2>7. QED BY <2>2, <2>3, <2>4, <2>5, <2>6
<1>3. CASE o.draining = NoOp /\ o.resending # 0
  <2> DEFINE n == [o EXCEPT !.brokerHead = i]
             s == [n EXCEPT !.resending = i + 1]
             z == [n EXCEPT !.resending = 0]
  <2>1. o.pending = NoOp /\ o.conn = "Reconciling"
    BY <1>1, <1>3 DEF Orderly, Under, Quiet, Fit, Conns
  <2>2. Free(o) BY <1>1, <2>1 DEF Free
  <2>3. Orderly(FailReconciliation(o, e)) BY <1>3, <2>2, FailReconciliationOrders
  <2>4. o.resending \in o.brokerHead + 1 .. Tip(o) BY <1>1, <1>3 DEF Fit, Resends
  <2>5. ASSUME i = o.resending
        PROVE  /\ Typed(n) /\ n.draining = NoOp /\ n.offer = 0 /\ Free(z)
               /\ i < Tip(o) => Orderly(s)
    <3>1. n = [o EXCEPT !.brokerHead = i] OBVIOUS
    <3> HIDE DEF n
    <3>2. QED BY <1>3, <2>5, <3>1, ResentFrees, ZenonT(60)
  <2>6. ASSUME i = o.resending, ~(i < Tip(o)) PROVE Orderly(FinishReconnect(n, e))
    <3>1. Caught(z) BY <2>5, <2>6 DEF Free, Caught
    <3>2. n.brokerHead = i /\ Tip(n) = Tip(o) BY <1>1 DEF Typed, Fields, Tip
    <3> HIDE DEF n
    <3>3. n.brokerHead = Tip(n) BY <1>1, <2>4, <2>6, <3>2
    <3>4. QED BY <2>5, <2>6, <3>1, <3>3, FinishReconnectOrders
  <2>7. ASSUME i = o.resending, i < Tip(o) PROVE Orderly(Send(s, i + 1))
    <3>1. Orderly(s) BY <2>5, <2>7
    <3> HIDE DEF s
    <3>2. QED BY <3>1, WireEases, EasesOrderly, OrderlyTyped
  <2>8. Acknowledged(o, i, e) =
          IF i # o.resending THEN FailReconciliation(o, e)
          ELSE IF i < Tip(o) THEN Send(s, i + 1) ELSE FinishReconnect(n, e)
    BY <1>3 DEF Acknowledged
  <2> HIDE DEF n, s, z
  <2>9. QED BY <2>3, <2>6, <2>7, <2>8
<1>4. CASE o.draining = NoOp /\ o.resending = 0
  <2> DEFINE n == [o EXCEPT !.brokerHead = i]
             c == Complete(n, TRUE, e)
  <2>1. ASSUME o.pending.phase = "AwaitingDurableAck", o.pending.index = i
        PROVE  Caught(n) /\ n.pending # NoOp
    <3>1. o.pending # NoOp BY <2>1 DEF NoOp
    <3>2. i = Tip(o) /\ o.brokerHead + 1 = Tip(o) /\ Quiet(o)
      BY <2>1, <3>1 DEF Orderly, Under
    <3>3. /\ n.receipts = o.receipts /\ n.brokerHead = i /\ n.pending = o.pending
          /\ n.deferred = o.deferred /\ n.resending = 0 /\ n.draining = NoOp
          /\ n.wait = o.wait /\ n.state = o.state /\ n.queued = o.queued /\ n.lost = o.lost
          /\ n.offer = 0 /\ n.conn = o.conn /\ n.withdrawn = o.withdrawn /\ Tip(n) = Tip(o)
      BY <1>1, <1>4 DEF Typed, Fields, Tip
    <3>4. Gap(n) <= MaxPending
      <4>1. n.brokerHead \in o.brokerHead .. Tip(o) BY <1>1, <3>2, <3>3
      <4>2. QED BY <1>1, <3>3, <4>1, HeadShrinksGap
    <3>5. Typed(n) BY <1>1, <3>2, <3>3, <3>4 DEF Typed, Fields
    <3> HIDE DEF n
    <3>6. Resends(n) /\ Drains(n) BY <3>3 DEF Resends, Drains
    <3>7. o.brokerHead <= n.brokerHead BY <1>1, <3>2, <3>3
    <3>8. Fit(n) BY <1>1, <3>3, <3>5, <3>6, <3>7, AdvanceFits
    <3>9. Under(o) BY DEF Orderly
    <3>10. QED BY <2>1, <3>1, <3>2, <3>3, <3>8, <3>9 DEF Caught, Quiet, Under
  <2>2. ASSUME o.pending.phase = "AwaitingDurableAck", o.pending.index = i PROVE Orderly(c)
    <3> DEFINE enable == TRUE
    <3>1. c = Complete(n, enable, e) OBVIOUS
    <3> HIDE DEF n, c, enable
    <3>2. QED BY <2>1, <2>2, <3>1, CompleteOrders
  <2>3. Orderly(FailReceipt(o, e)) BY <1>1, FailReceiptEnds DEF Ends
  <2>4. Acknowledged(o, i, e) =
          IF o.pending.phase \in {"None", "Activating"} THEN o
          ELSE IF o.pending.phase = "AwaitingDurableAck" /\ o.pending.index = i THEN c
          ELSE FailReceipt(o, e)
    BY <1>4 DEF Acknowledged
  <2> HIDE DEF c
  <2>5. QED BY <2>2, <2>3, <2>4
<1>5. QED BY <1>2, <1>3, <1>4
-----------------------------------------------------------------------------
(* Losing the broker, the conformance of the host and the key *)

LEMMA DetachedOrders ==
  ASSUME NEW o, NEW e, Orderly(o), ~o.withdrawn, o.conn \in {"Connected", "Reconciling"}
  PROVE  Orderly(Detached(o, e))
<1> DEFINE a == Narrowed(Revoke(o, e))
           mute == {[r EXCEPT !.live = FALSE] : r \in a.replies}
           b == [a EXCEPT !.resending = 0, !.draining = NoOp, !.settling = FALSE,
                          !.acks = <<>>, !.trying = TRUE, !.replies = mute]
           n == [a EXCEPT !.resending = 0, !.draining = NoOp, !.settling = FALSE,
                          !.conn = "Grace", !.acks = <<>>, !.trying = TRUE, !.replies = mute]
<1>1. Eases(o, a)
  <2>1. Eases(o, Revoke(o, e)) BY RevokeEases, OrderlyTyped
  <2>2. Eases(Revoke(o, e), a) BY <2>1, NarrowedEases DEF Eases
  <2>3. QED BY <2>1, <2>2, EasesTrans
<1>2. Detached(o, e) = n BY <1>1 DEF Detached, Eases, Typed, Fields
<1> HIDE DEF a
<1>3. \A r \in mute : "finish" \in DOMAIN r /\ r.finish \in Finishes BY <1>1 DEF Eases, Typed
<1> HIDE DEF mute
<1>4. Eases(a, b) BY <1>1, <1>3 DEF Eases, Still, Typed, Fields, Tip, Gap
<1>5. Alone(b)
  <2>1. o.offer = 0 BY DEF Orderly, Fit, Conns
  <2>2. b.resending = 0 /\ b.draining = NoOp /\ b.offer = o.offer
    BY <1>1 DEF Eases, Still, Typed, Fields
  <2>3. QED BY <2>1, <2>2 DEF Alone
<1>6. Orderly(b) BY <1>1, <1>4, EasesOrderly
<1>7. /\ Typed(n) /\ n.receipts = b.receipts /\ n.brokerHead = b.brokerHead
      /\ n.pending = b.pending /\ n.deferred = b.deferred /\ n.resending = b.resending
      /\ n.draining = b.draining /\ n.wait = b.wait /\ n.state = b.state
      /\ n.queued = b.queued /\ n.lost = b.lost /\ n.offer = b.offer
  BY <1>1, <1>3 DEF Eases, Typed, Fields, Tip, Gap
<1> HIDE DEF b, n
<1>8. Conns(n) BY <1>5, <1>7 DEF Conns, Alone
<1>9. QED BY <1>2, <1>6, <1>7, <1>8, ConnOrders

LEMMA LoseBrokerOrders ==
  ASSUME NEW o, NEW e, Orderly(o), ~o.withdrawn PROVE Orderly(LoseBroker(o, e))
<1> DEFINE d == Detached(o, e)
           g == FailGuarded(d, e)
           n == [g EXCEPT !.offered = Tip(g)]
<1>1. ASSUME o.conn \in {"Connected", "Reconciling"} PROVE Orderly(n)
  <2>1. Orderly(d) BY <1>1, DetachedOrders
  <2> HIDE DEF d
  <2>2. Orderly(g) BY <2>1, FailReceiptEnds, OrderlyTyped DEF FailGuarded, Ends
  <2> HIDE DEF g
  <2>3. Tip(g) \in Nat BY <2>2, Counts, OrderlyTyped
  <2>4. Eases(g, n) BY <2>2, <2>3, OrderlyTyped DEF Eases, Still, Typed, Fields, Tip, Gap
  <2>5. QED BY <2>2, <2>4, EasesOrderly
<1>2. QED BY <1>1 DEF LoseBroker, Offering, Offered, d, g, n

LEMMA DisconnectedOrders ==
  ASSUME NEW o, Orderly(o), o.resending = 0, o.draining = NoOp, o.conn = "Grace"
  PROVE  Orderly([o EXCEPT !.conn = "Disconnected"])
<1> DEFINE n == [o EXCEPT !.conn = "Disconnected"]
<1>1. /\ Typed(n) /\ n.receipts = o.receipts /\ n.brokerHead = o.brokerHead
      /\ n.pending = o.pending /\ n.deferred = o.deferred /\ n.resending = o.resending
      /\ n.draining = o.draining /\ n.wait = o.wait /\ n.state = o.state
      /\ n.queued = o.queued /\ n.lost = o.lost /\ n.offer = o.offer
      /\ n.withdrawn = o.withdrawn /\ n.conn = "Disconnected"
  BY OrderlyTyped DEF Typed, Fields, Tip, Gap
<1> HIDE DEF n
<1>2. Conns(n) BY <1>1 DEF Orderly, Fit, Conns
<1>3. Orderly(n) BY <1>1, <1>2, ConnOrders
<1>4. QED BY <1>3 DEF n

LEMMA GraceExpiredOrders ==
  ASSUME NEW o, NEW e, Orderly(o), ~o.withdrawn, o.conn = "Grace" PROVE Orderly(GraceExpired(o, e))
<1> DEFINE f == FailReceipt(o, e)
           m == ParkForReconciliation(f, e)
           gone == [m EXCEPT !.conn = "Disconnected"]
<1>1. Ends(o, f) BY FailReceiptEnds, OrderlyTyped
<1>2. f.resending = 0 /\ f.draining = NoOp /\ f.conn = "Grace"
  BY <1>1 DEF Ends, Still, Orderly, Fit, Conns
<1>3. Orderly([f EXCEPT !.conn = "Disconnected"]) BY <1>1, <1>2, DisconnectedOrders DEF Ends
<1> HIDE DEF f
<1>4. ASSUME f.state = "Running" PROVE Orderly(ParkUnreachable(f, e))
  <2>1. May(f) /\ Orderly(f) BY <1>1, <1>4, RunningMay, OrderlyTyped DEF Ends
  <2>2. Orderly(m) /\ Still(f, m) BY <2>1, ParkForReconciliationOrders
  <2>3. May(m) BY <2>1, <2>2, MayStays
  <2>4. m.resending = 0 /\ m.draining = NoOp /\ m.conn = "Grace" BY <1>2, <2>2 DEF Still
  <2> HIDE DEF m
  <2>5. Orderly(gone) BY <2>2, <2>4, DisconnectedOrders
  <2>6. May(gone) BY <2>2, <2>3, OrderlyTyped DEF May, Typed, Fields
  <2> HIDE DEF gone
  <2>7. Orderly(BeginCausedPark(gone, <<"broker">>, e))
    BY <2>5, <2>6, BeginCausedParkOrders, OrderlyTyped
  <2>8. QED BY <2>2, <2>5, <2>7 DEF ParkUnreachable, gone, m
<1>5. QED BY <1>3, <1>4 DEF GraceExpired, Unreachable, f

LEMMA SuspendConformanceOrders ==
  ASSUME NEW o, NEW contained \in BOOLEAN, NEW e, Orderly(o)
  PROVE  Orderly(SuspendConformance(o, contained, e))
<1> DEFINE n == [o EXCEPT !.contained = @ \/ contained]
           shut == Shut(n, e)
           m == [shut EXCEPT !.suspended = TRUE]
           frozen == AttemptPark(m, e)
           failed == FailReceipt(frozen, e)
           owing == OweSuspension(failed, OwesPark(o))
<1>1. Eases(o, n) /\ n.pending = o.pending
  BY OrderlyTyped DEF Eases, Still, Typed, Fields, Tip, Gap
<1> HIDE DEF n
<1>2. Eases(n, shut) /\ shut.pending = o.pending
  BY <1>1, ShutEases, MechanicsKeepPending DEF Eases
<1> HIDE DEF shut
<1>3. Eases(shut, m) /\ m.pending = o.pending
  BY <1>2 DEF Eases, Still, Typed, Fields, Tip, Gap
<1> HIDE DEF m
<1>4. Eases(m, frozen) /\ frozen.pending = o.pending
  BY <1>3, AttemptParkEases, MechanicsKeepPending DEF Eases
<1>5. Eases(o, frozen) BY <1>1, <1>2, <1>3, <1>4, EasesTrans
<1>6. ParkResult(m, e) = "Parked" => frozen.state = "Parked"
  BY <1>3 DEF AttemptPark, Eases, Typed, Fields
<1>7. Orderly(n) /\ Orderly(frozen) BY <1>1, <1>5, EasesOrderly
<1> HIDE DEF frozen
<1>8. Orderly(QuarantineMechanic(frozen, o.pending, e))
  BY <1>7, QuarantineMechanicOrders, OrderlyTyped
<1>9. ASSUME o.state = "Running", frozen.state = "Parked"
      PROVE  Orderly(owing) /\ Orderly(BeginCausedPark(frozen, <<"conformance">>, e))
  <2>1. May(frozen) BY <1>5, <1>9, RunningMay, EasesMay, OrderlyTyped
  <2>2. Orderly(BeginCausedPark(frozen, <<"conformance">>, e))
    BY <1>7, <2>1, BeginCausedParkOrders, OrderlyTyped
  <2>3. Ends(frozen, failed) /\ May(failed)
    BY <1>7, <2>1, FailReceiptEnds, MayStays, OrderlyTyped DEF Ends
  <2>4. ASSUME OwesPark(o) PROVE Free(failed)
    <3>1. ~Doing(frozen, "Resume") BY <1>4, <2>4 DEF OwesPark, Doing
    <3>2. frozen.queued = "none" BY <1>7, <1>9 DEF Orderly, Fit
    <3>3. failed.pending = NoOp BY <1>7, <3>1, <3>2, FailReceiptEnds, OrderlyTyped
    <3>4. QED BY <2>3, <3>3 DEF Ends, Orderly, Free
  <2> HIDE DEF failed
  <2>5. Orderly(owing) BY <2>3, <2>4, DeferOwes, FreeOrders DEF OweSuspension, Ends
  <2>6. QED BY <2>2, <2>5
<1>10. SuspendConformance(o, contained, e) \in
         {n, frozen, QuarantineMechanic(frozen, o.pending, e)}
       \/ /\ o.state = "Running" /\ ParkResult(m, e) = "Parked"
          /\ SuspendConformance(o, contained, e) \in
               {BeginCausedPark(frozen, <<"conformance">>, e), owing}
  BY DEF SuspendConformance, owing, failed, frozen, m, shut, n
<1>11. QED BY <1>6, <1>7, <1>8, <1>9, <1>10

LEMMA WithdrawKeyAuthorityOrders ==
  ASSUME NEW o, NEW e, Orderly(o) PROVE Orderly(WithdrawKeyAuthority(o, e))
<1> DEFINE a == Revoke(o, e)
           b == [a EXCEPT !.withdrawn = TRUE, !.blocked = TRUE, !.channel = "Revoked"]
           n == AttemptPark(b, e)
           m == [n EXCEPT !.conn = "Disconnected", !.trying = FALSE, !.wire = <<>>, !.acks = <<>>]
<1>1. Orderly(a) BY RevokeEases, EasesOrderly, OrderlyTyped
<1> HIDE DEF a
<1>2. /\ Typed(b) /\ b.receipts = a.receipts /\ b.brokerHead = a.brokerHead
      /\ b.pending = a.pending /\ b.deferred = a.deferred /\ b.resending = a.resending
      /\ b.draining = a.draining /\ b.wait = a.wait /\ b.state = a.state
      /\ b.queued = a.queued /\ b.lost = a.lost /\ b.withdrawn
  BY <1>1, OrderlyTyped DEF Typed, Fields, Tip, Gap
<1> HIDE DEF b
<1>3. Orderly(b) BY <1>1, <1>2, ConnOrders DEF Conns
<1>4. Eases(b, n) BY <1>3, AttemptParkEases, OrderlyTyped
<1>5. Orderly(n) /\ n.withdrawn BY <1>2, <1>3, <1>4, EasesOrderly DEF Eases, Still
<1> HIDE DEF n
<1>6. /\ Typed(m) /\ m.receipts = n.receipts /\ m.brokerHead = n.brokerHead
      /\ m.pending = n.pending /\ m.deferred = n.deferred /\ m.resending = n.resending
      /\ m.draining = n.draining /\ m.wait = n.wait /\ m.state = n.state
      /\ m.queued = n.queued /\ m.lost = n.lost /\ m.withdrawn
  BY <1>5, OrderlyTyped DEF Typed, Fields, Tip, Gap
<1> HIDE DEF m
<1>7. Orderly(m) BY <1>5, <1>6, ConnOrders DEF Conns
<1>8. Orderly(QuarantineMechanic(m, NoOp, e)) BY <1>7, QuarantineMechanicOrders, OrderlyTyped
<1>9. QED BY <1>7, <1>8 DEF WithdrawKeyAuthority, m, n, b, a
-----------------------------------------------------------------------------
(* Every step is orderly *)

LEMMA BlockedEases == ASSUME NEW o, Typed(o) PROVE Eases(o, [o EXCEPT !.blocked = TRUE])
  BY DEF Eases, Still, Typed, Fields, Tip, Gap

LEMMA RequestedOrders ==
  ASSUME Orderly(owner), NEW q, Requested(q) PROVE Orderly(owner')
<1>0. Fit(owner) /\ Typed(owner) BY OrderlyTyped
<1>1. CASE Repeat(q)
  <2>1. PICK f \in Finishes : \E h : owner' = Reply(owner, f, h)
    BY <1>0, <1>1 DEF Repeat, Handle, Typed, Finishes
  <2>2. QED BY <1>0, <2>1, ReplyEases, EasesOrderly
<1>2. CASE RejectFull(q)
  <2>1. PICK e : owner' = [Narrowed(Revoke(owner, e)) EXCEPT !.blocked = TRUE]
    BY <1>2 DEF RejectFull, Handle
  <2> DEFINE a == Revoke(owner, e)
             n == Narrowed(a)
  <2>2. Eases(owner, a) BY <1>0, RevokeEases
  <2> HIDE DEF a
  <2>3. Eases(a, n) BY <2>2, NarrowedEases DEF Eases
  <2> HIDE DEF n
  <2>4. Eases(n, [n EXCEPT !.blocked = TRUE]) BY <2>3, BlockedEases DEF Eases
  <2>5. Eases(owner, [n EXCEPT !.blocked = TRUE]) BY <2>2, <2>3, <2>4, EasesTrans
  <2>6. QED BY <2>1, <2>5, EasesOrderly DEF n, a
<1>3. CASE Park(q)
  <2>1. May(owner) BY <1>3 DEF Park, Admitted, Cancels, May
  <2>2. QED BY <1>0, <1>3, <2>1, BeginParkOrders DEF Park, Handle
<1>4. CASE Interrupt(q)
  <2>1. May(owner) BY <1>4 DEF Interrupt, Admitted, Cancels, May
  <2>2. QED BY <1>0, <1>4, <2>1, BeginInterruptOrders DEF Interrupt, Handle
<1>5. CASE Dispose(q)
  <2> DEFINE n == CancelWait(owner)
             m(e) == IF Preparing(n) THEN FailPreparation(n, e) ELSE n
  <2>1. PICK e : owner' = IF Preparing(n) /\ (m(e).state # "Parked" \/ m(e).unproven) THEN m(e)
                          ELSE BeginDisposal(m(e), q, e)
    BY <1>5 DEF Dispose, Handle
  <2>2. Orderly(n) /\ n.wait = NoOp BY <1>0, CancelWaitEases, EasesOrderly
  <2> HIDE DEF n
  <2>3. Eases(n, m(e)) BY <2>2, FailPreparationEases, EasesSelf, OrderlyTyped
  <2> HIDE DEF m
  <2>4. Orderly(m(e)) /\ May(m(e)) BY <2>2, <2>3, EasesOrderly DEF May, Eases, Still
  <2>5. Orderly(BeginDisposal(m(e), q, e)) BY <2>4, BeginDisposalOrders, OrderlyTyped
  <2>6. QED BY <2>1, <2>4, <2>5
<1>6. CASE Resume(q)
  <2>1. /\ owner.state = "Parked" /\ ~Backlog(owner) /\ ~owner.lost
        /\ owner.pending = NoOp /\ owner.wait = NoOp
    BY <1>0, <1>6 DEF Resume, Admitted, Cancels, MayWiden, Transition, Typed
  <2> DEFINE n == [owner EXCEPT !.wait = q]
  <2>2. Orderly(n)
    <3>1. /\ Typed(n) /\ n.receipts = owner.receipts /\ n.brokerHead = owner.brokerHead
          /\ n.pending = owner.pending /\ n.deferred = owner.deferred
          /\ n.resending = owner.resending /\ n.draining = owner.draining
          /\ n.conn = owner.conn /\ n.offer = owner.offer /\ n.withdrawn = owner.withdrawn
          /\ n.state = owner.state /\ n.queued = owner.queued /\ n.lost = owner.lost
      BY <1>0 DEF Typed, Fields, Tip, Gap
    <3> HIDE DEF n
    <3>2. Tip(n) = Tip(owner) BY <3>1 DEF Tip
    <3>3. Resends(n) /\ Drains(n) /\ Conns(n)
      BY <1>0, <3>1, <3>2 DEF Fit, Resends, Drains, Conns
    <3>4. Waits(n) BY <2>1, <3>1, <3>2 DEF Waits, Backlog
    <3>5. Under(n) BY <2>1, <3>1 DEF Under
    <3>6. QED BY <1>0, <3>1, <3>3, <3>4, <3>5 DEF Orderly, Fit
  <2>3. Orderly(BeginResume(owner, q)) BY <1>0, <2>1, ApplyingFits DEF BeginResume, May
  <2>4. QED BY <1>6, <2>2, <2>3 DEF Resume, Handle
<1>7. QED BY <1>1, <1>2, <1>3, <1>4, <1>5, <1>6 DEF Requested

LEMMA PreparedOrders ==
  ASSUME Orderly(owner), Prepared PROVE Orderly(owner')
<1> DEFINE running == [owner EXCEPT !.state = "Running", !.tree = "running",
                                    !.pending.phase = "Signing"]
           unknown == [owner EXCEPT !.tree = "unknown"]
           f(e) == FailMechanic(owner, e)
           gone(e) == [f(e) EXCEPT !.tree = "gone"]
<1>0. Fit(owner) /\ Typed(owner) /\ Under(owner) BY OrderlyTyped DEF Orderly
<1>1. /\ owner.state = "Parked" /\ owner.pending # NoOp /\ owner.pending.phase = "Applying"
      /\ owner.queued = "none" /\ owner.wait = NoOp /\ UnderWay(owner.pending)
  BY <1>0 DEF Prepared, Preparing, Doing, Fit, Waits, Typed
<1>2. PICK e : owner' \in {FailPreparation(owner, e), BeginTerminalEvent(gone(e), "ok", e),
                           QuarantineMechanic(unknown, owner.pending, e), running}
  BY DEF Prepared, Handle
<1>3. Orderly(running)
  <2>1. /\ UnderWay(running.pending) /\ running.pending.phase = "Signing"
        /\ running.pending.index = owner.pending.index
    BY <1>0, <1>1 DEF UnderWay, Typed, Fields
  <2>2. /\ running.receipts = owner.receipts /\ running.brokerHead = owner.brokerHead
        /\ running.deferred = owner.deferred /\ running.resending = owner.resending
        /\ running.draining = owner.draining /\ running.conn = owner.conn
        /\ running.offer = owner.offer /\ running.withdrawn = owner.withdrawn
        /\ running.wait = owner.wait /\ running.queued = owner.queued
        /\ Tip(running) = Tip(owner)
    BY <1>0 DEF Typed, Fields, Tip
  <2>3. Gap(running) = Gap(owner) BY <2>2 DEF Gap
  <2>4. Typed(running) BY <1>0, <1>1, <2>1, <2>2, <2>3 DEF Typed, Fields
  <2> HIDE DEF running
  <2>5. Resends(running) /\ Drains(running) /\ Conns(running)
    BY <1>0, <2>2 DEF Fit, Resends, Drains, Conns
  <2>6. Waits(running) BY <1>1, <2>2 DEF Waits
  <2>7. Under(running) BY <1>0, <1>1, <2>1, <2>2 DEF Under, Quiet
  <2>8. QED BY <1>1, <2>2, <2>4, <2>5, <2>6, <2>7 DEF Orderly, Fit
<1>4. Eases(owner, unknown)
  BY <1>0, <1>1 DEF Eases, Still, Typed, Fields, Tip, Gap
<1> HIDE DEF running, unknown
<1>5. Free(f(e)) BY <1>0, FailMechanicEnds
<1> HIDE DEF f
<1>6. Eases(f(e), gone(e)) BY <1>5, GoneEases, FreeOrders
<1>7. Orderly(gone(e)) BY <1>5, <1>6, EasesOrderly, FreeOrders
<1> HIDE DEF gone
<1>8. Orderly(BeginTerminalEvent(gone(e), "ok", e))
  BY <1>7, BeginTerminalEventOrders DEF Finishes
<1>9. Orderly(QuarantineMechanic(unknown, owner.pending, e))
  BY <1>4, EasesOrderly, OrderlyTyped, QuarantineMechanicOrders
<1>10. Orderly(FailPreparation(owner, e)) BY <1>0, FailPreparationEases, EasesOrderly
<1>11. QED BY <1>2, <1>3, <1>8, <1>9, <1>10

LEMMA SignedOrders ==
  ASSUME Orderly(owner), Signed PROVE Orderly(owner')
<1> DEFINE r == Receipt(owner.pending.pay, owner.pending.seq)
           i == Tip(owner) + 1
           n == [owner EXCEPT !.receipts = Append(@, r),
                    !.pending.phase = "AwaitingDurableAck", !.pending.index = i]
<1>0. Fit(owner) /\ Typed(owner) /\ Under(owner) /\ Tip(owner) \in Nat
  BY OrderlyTyped, Counts DEF Orderly
<1>1. owner' = Send(n, i) /\ owner.pending.phase = "Signing" BY DEF Signed, Handle
<1>2. owner.pending # NoOp /\ UnderWay(owner.pending) BY <1>0, <1>1 DEF Typed, NoOp
<1>3. Quiet(owner) /\ owner.brokerHead = Tip(owner) BY <1>0, <1>1, <1>2 DEF Under
<1> HIDE DEF r
<1>4. Sequence(Append(owner.receipts, r)) /\ Len(Append(owner.receipts, r)) = Tip(owner) + 1
  BY <1>0, AppendSequence DEF Typed, Tip
<1>5. /\ n.receipts = Append(owner.receipts, r) /\ n.brokerHead = owner.brokerHead
      /\ n.deferred = <<>> /\ n.resending = 0 /\ n.draining = NoOp
      /\ n.conn = owner.conn /\ n.offer = owner.offer /\ n.withdrawn = owner.withdrawn
      /\ n.state = owner.state /\ n.wait = owner.wait /\ n.queued = owner.queued
  BY <1>0, <1>3 DEF Typed, Fields, Quiet
<1>6. Tip(n) = i BY <1>4, <1>5 DEF Tip
<1>7. /\ UnderWay(n.pending) /\ n.pending.phase = "AwaitingDurableAck" /\ n.pending.index = i
  BY <1>0, <1>2 DEF UnderWay, Typed, Fields
<1>8. Gap(n) <= MaxPending
  <2>1. Gap(n) = 1 + Len(<<>>) BY <1>0, <1>3, <1>5, <1>6 DEF Gap
  <2>2. QED BY <2>1, OwnerAssumption
<1>9. Typed(n)
  <2>1. /\ Sequence(n.receipts) /\ n.brokerHead \in 1 .. Tip(n) /\ n.resending \in 0 .. Tip(n)
        /\ n.offered \in 0 .. Tip(n) /\ n.pending.index \in 0 .. Tip(n)
    BY <1>0, <1>4, <1>5, <1>6, <1>7 DEF Typed, Fields
  <2>2. QED BY <1>0, <1>5, <1>7, <1>8, <2>1 DEF Typed, Fields
<1> HIDE DEF n
<1>10. Resends(n) /\ Drains(n) /\ Conns(n)
  BY <1>0, <1>5 DEF Fit, Resends, Drains, Conns
<1>11. Waits(n) BY <1>0, <1>2, <1>5 DEF Fit, Waits
<1>12. Under(n) BY <1>0, <1>3, <1>5, <1>6, <1>7 DEF Under, Quiet
<1>13. Orderly(n) BY <1>0, <1>5, <1>9, <1>10, <1>11, <1>12 DEF Orderly, Fit
<1>14. QED BY <1>1, <1>13, WireEases, EasesOrderly, OrderlyTyped

LEMMA DrainSignedOrders ==
  ASSUME Orderly(owner), DrainSigned PROVE Orderly(owner')
<1> DEFINE r == Receipt(owner.draining.pay, owner.draining.seq)
           i == Tip(owner) + 1
           n == [owner EXCEPT !.receipts = Append(@, r), !.deferred = Tail(@),
                    !.draining.phase = "AwaitingDurableAck", !.draining.index = i]
<1>0. Fit(owner) /\ Typed(owner) /\ Under(owner) /\ Tip(owner) \in Nat
  BY OrderlyTyped, Counts DEF Orderly
<1>1. owner' = Send(n, i) /\ owner.draining.phase = "Signing" BY DEF DrainSigned, Handle
<1>2. /\ owner.draining # NoOp /\ owner.deferred # <<>> /\ owner.resending = 0
      /\ {"phase", "index"} \subseteq DOMAIN owner.draining
      /\ owner.pending = NoOp /\ owner.brokerHead = Tip(owner)
  BY <1>0, <1>1 DEF Fit, Drains, Resends, NoOp, Under, Quiet
<1> HIDE DEF r
<1>4. Sequence(Append(owner.receipts, r)) /\ Len(Append(owner.receipts, r)) = Tip(owner) + 1
  BY <1>0, AppendSequence DEF Typed, Tip
<1>5. /\ n.receipts = Append(owner.receipts, r) /\ n.brokerHead = owner.brokerHead
      /\ n.deferred = Tail(owner.deferred) /\ n.resending = 0 /\ n.pending = NoOp
      /\ n.conn = owner.conn /\ n.offer = owner.offer /\ n.withdrawn = owner.withdrawn
      /\ n.state = owner.state /\ n.wait = owner.wait /\ n.queued = owner.queued
      /\ n.lost = owner.lost
  BY <1>0, <1>2 DEF Typed, Fields
<1>6. Tip(n) = i BY <1>4, <1>5 DEF Tip
<1>7. n.draining.phase = "AwaitingDurableAck" /\ n.draining.index = i
  BY <1>0, <1>2 DEF Typed, Fields
<1>8. /\ Sequence(n.deferred) /\ Len(owner.deferred) \in Nat
      /\ Len(n.deferred) = Len(owner.deferred) - 1
  BY <1>0, <1>2, <1>5, TailSequence DEF Typed
<1>9. Gap(n) <= MaxPending
  <2> HIDE DEF n
  <2>1. owner.brokerHead \in Nat /\ Gap(owner) <= MaxPending BY <1>0 DEF Typed
  <2>2. Gap(n) = Gap(owner) BY <1>0, <1>5, <1>6, <1>8, <2>1 DEF Gap
  <2>3. QED BY <2>1, <2>2
<1>10. Typed(n)
  <2>1. /\ Sequence(n.receipts) /\ n.brokerHead \in 1 .. Tip(n) /\ n.resending \in 0 .. Tip(n)
        /\ n.offered \in 0 .. Tip(n)
    BY <1>0, <1>4, <1>5, <1>6 DEF Typed, Fields
  <2>2. QED BY <1>0, <1>5, <1>8, <1>9, <2>1 DEF Typed, Fields
<1> HIDE DEF n
<1>11. Resends(n) BY <1>5 DEF Resends
<1>12. Drains(n)
  <2>1. n.brokerHead + 1 = Tip(n) BY <1>0, <1>2, <1>5, <1>6
  <2>2. QED BY <1>6, <1>7, <2>1 DEF Drains
<1>13. Conns(n) BY <1>0, <1>2, <1>5 DEF Fit, Conns
<1>14. Waits(n) BY <1>0, <1>2, <1>5 DEF Fit, Waits, Backlog
<1>15. Under(n) BY <1>5 DEF Under
<1>16. Orderly(n) BY <1>0, <1>5, <1>10, <1>11, <1>12, <1>13, <1>14, <1>15 DEF Orderly, Fit
<1>17. QED BY <1>1, <1>16, WireEases, EasesOrderly, OrderlyTyped

LEMMA OperationOrders ==
  ASSUME Orderly(owner), Heads(owner, stored),
         OperationFails \/ Activated \/ ReceiveAck \/ DrainFails
  PROVE  Orderly(owner')
<1>0. Fit(owner) /\ Typed(owner) /\ Under(owner) BY OrderlyTyped DEF Orderly
<1>1. CASE OperationFails
  BY <1>0, <1>1, FailReceiptEnds DEF OperationFails, Handle, Ends
<1>2. CASE Activated
  <2> DEFINE n == [owner EXCEPT !.channel = "Enabled"]
             enable == FALSE
  <2>1. PICK e : owner' \in {FailReceipt(owner, e), Complete(n, enable, e)}
    BY <1>2 DEF Activated, Handle
  <2>2. owner.pending # NoOp /\ owner.pending.phase = "Activating"
    BY <1>2 DEF Activated, NoOp
  <2>3. Eases(owner, n) /\ n.pending = owner.pending
    BY <1>0, ChannelEases DEF Typed, Fields
  <2> HIDE DEF n, enable
  <2>4. Orderly(n) BY <2>3, EasesOrderly
  <2>5. Caught(n) BY <2>2, <2>3, <2>4 DEF Caught, Orderly, Under
  <2>6. Orderly(Complete(n, enable, e)) BY <2>2, <2>3, <2>5, CompleteOrders
  <2>7. Orderly(FailReceipt(owner, e)) BY <1>0, FailReceiptEnds DEF Ends
  <2>8. QED BY <2>1, <2>6, <2>7
<1>3. CASE ReceiveAck
  <2> DEFINE n == [owner EXCEPT !.acks = Tail(@)]
  <2>1. PICK e : owner' \in {n, Acknowledged(n, owner.acks[1], e)}
    BY <1>3 DEF ReceiveAck, Handle
  <2>2. Eases(owner, n) BY <1>0 DEF Eases, Still, Typed, Fields, Tip, Gap
  <2> HIDE DEF n
  <2>3. Orderly(n) /\ ~n.withdrawn /\ n.offer = 0
    BY <1>3, <2>2, EasesOrderly DEF ReceiveAck, Live, Eases, Still
  <2>4. owner.acks[1] \in Nat \ {0}
    <3>1. owner.acks \in Seq(1 .. stored) /\ owner.acks # <<>> BY <1>3 DEF ReceiveAck, Heads
    <3>2. Len(owner.acks) \in Nat \ {0} BY <3>1, EmptySeq
    <3>3. 1 \in 1 .. Len(owner.acks) BY <3>2
    <3>4. owner.acks[1] \in 1 .. stored BY <3>1, <3>3, ElementOfSeq
    <3>5. QED BY <3>4 DEF Heads
  <2>5. Orderly(Acknowledged(n, owner.acks[1], e)) BY <2>3, <2>4, AcknowledgedOrders
  <2>6. QED BY <2>1, <2>3, <2>5
<1>4. CASE DrainFails
  BY <1>4, FailDrainingOrders DEF DrainFails, Live, Handle
<1>5. QED BY <1>1, <1>2, <1>3, <1>4

LEMMA ConnectionOrders ==
  ASSUME Orderly(owner), Heads(owner, stored),
         BrokerLost \/ BrokerGraceExpired \/ BrokerReconnected
  PROVE  Orderly(owner')
<1>0. Fit(owner) /\ Typed(owner) BY OrderlyTyped
<1>1. CASE BrokerLost BY <1>1, LoseBrokerOrders DEF BrokerLost, Live
<1>2. CASE BrokerGraceExpired
  BY <1>2, GraceExpiredOrders DEF BrokerGraceExpired, Live, Handle
<1>3. CASE BrokerReconnected
  <2> DEFINE n == [owner EXCEPT !.offer = 0]
  <2>1. PICK e : owner' = Reconnected(n, owner.offer, e) /\ owner.offer # 0
    BY <1>3 DEF BrokerReconnected, Handle
  <2>2. /\ owner.conn \in {"Grace", "Disconnected"} /\ owner.offer >= owner.brokerHead
        /\ owner.resending = 0 /\ owner.draining = NoOp
    BY <1>0, <1>3, <2>1 DEF BrokerReconnected, Live, Fit, Conns
  <2>3. /\ Typed(n) /\ n.receipts = owner.receipts /\ n.brokerHead = owner.brokerHead
        /\ n.pending = owner.pending /\ n.deferred = owner.deferred
        /\ n.resending = owner.resending /\ n.draining = owner.draining
        /\ n.wait = owner.wait /\ n.state = owner.state /\ n.queued = owner.queued
        /\ n.lost = owner.lost /\ n.offer = 0 /\ Tip(n) = Tip(owner)
    BY <1>0 DEF Typed, Fields, Tip, Gap
  <2> HIDE DEF n
  <2>4. Conns(n) BY <2>2, <2>3 DEF Conns
  <2>5. Orderly(n) /\ Alone(n) BY <2>2, <2>3, <2>4, ConnOrders DEF Alone
  <2>6. owner.offer \in n.brokerHead .. Tip(n)
    <3>1. owner.brokerHead \in Nat /\ owner.offer \in Nat BY <1>0 DEF Typed
    <3>2. owner.offer <= stored /\ stored <= Tip(owner) /\ stored \in Nat BY DEF Heads
    <3>3. Tip(owner) \in Nat BY <1>0, Counts
    <3>4. QED BY <2>2, <2>3, <3>1, <3>2, <3>3
  <2>7. QED BY <2>1, <2>5, <2>6, ReconnectedOrders
<1>4. QED BY <1>1, <1>2, <1>3

LEMMA EndOrders ==
  ASSUME Orderly(owner),
         \/ ControllerDetached \/ ControllerLossSettled \/ ControllerLossUnsettled
         \/ RunningAgent \/ RelayQuiesced \/ ResponseSent \/ ResponseFails
  PROVE  Orderly(owner')
<1>0. Fit(owner) /\ Typed(owner) BY OrderlyTyped
<1>1. CASE ControllerDetached
  BY <1>1, BeginControllerLossOrders DEF ControllerDetached, Handle
<1>2. CASE ControllerLossSettled
  <2> DEFINE n == [owner EXCEPT !.settling = FALSE]
  <2>1. PICK e : owner' = BeginControllerLossDisposal(n, e)
    BY <1>2 DEF ControllerLossSettled, Handle
  <2>2. Eases(owner, n) /\ ~n.settling
    BY <1>0 DEF Eases, Still, Typed, Fields, Tip, Gap
  <2> HIDE DEF n
  <2>3. May(owner) BY <1>0, <1>2 DEF ControllerLossSettled, Fit, Typed, Waits, May
  <2>4. Fit(n) /\ May(n) BY <1>0, <2>2, <2>3, EasesFits, EasesMay
  <2>5. QED BY <2>1, <2>2, <2>4, BeginControllerLossDisposalOrders
<1>3. CASE ControllerLossUnsettled
  <2> DEFINE n == [owner EXCEPT !.settling = FALSE, !.blocked = TRUE]
  <2>1. Eases(owner, n) BY <1>0 DEF Eases, Still, Typed, Fields, Tip, Gap
  <2>2. owner' = n BY <1>3 DEF ControllerLossUnsettled, Handle
  <2> HIDE DEF n
  <2>3. QED BY <2>1, <2>2, EasesOrderly
<1>4. CASE RunningAgent
  BY <1>4, BeginTerminalEventOrders DEF RunningAgent, Handle, Finishes
<1>5. CASE RelayQuiesced
  <2>1. PICK result \in {"closed", "broken"} :
          owner' = RequestFinish([owner EXCEPT !.relay = result, !.finishQuiet = "none"],
                                 owner.finishQuiet)
    BY <1>5 DEF RelayQuiesced, Handle
  <2> DEFINE n == [owner EXCEPT !.relay = result, !.finishQuiet = "none"]
  <2>2. Eases(owner, n) BY <1>0 DEF Eases, Still, Typed, Fields, Tip, Gap, Finishes
  <2>3. owner.finishQuiet \in Finishes BY <1>0 DEF Typed
  <2>4. owner' = RequestFinish(n, owner.finishQuiet) BY <2>1
  <2> HIDE DEF n
  <2>5. Eases(n, owner') BY <2>2, <2>3, <2>4, RequestFinishEases DEF Eases
  <2>6. QED BY <2>2, <2>5, EasesTrans, EasesOrderly
<1>6. CASE ResponseSent
  <2> DEFINE n(r) == [owner EXCEPT !.replies = @ \ {r}]
  <2>1. PICK r \in owner.replies :
          owner' \in {n(r), RequestFinish(n(r), r.finish), RequestFinish(n(r), "ok")}
    BY <1>6 DEF ResponseSent, Handle
  <2>2. Eases(owner, n(r)) BY <1>0 DEF Eases, Still, Typed, Fields, Tip, Gap
  <2>3. r.finish \in Finishes /\ "ok" \in Finishes BY <1>0 DEF Typed, Finishes
  <2> HIDE DEF n
  <2>4. \A f \in Finishes : Eases(n(r), RequestFinish(n(r), f))
    BY <2>2, RequestFinishEases DEF Eases
  <2>5. Eases(owner, owner') BY <2>1, <2>2, <2>3, <2>4, EasesTrans
  <2>6. QED BY <2>5, EasesOrderly
<1>7. CASE ResponseFails
  <2> DEFINE n(r) == [owner EXCEPT !.replies = @ \ {r}]
  <2>1. PICK r \in owner.replies, e \in Luck : owner' \in {n(r), LoseBroker(n(r), e)}
    BY <1>7 DEF ResponseFails, Handle
  <2>2. Eases(owner, n(r)) BY <1>0 DEF Eases, Still, Typed, Fields, Tip, Gap
  <2> HIDE DEF n
  <2>3. Orderly(n(r)) /\ ~n(r).withdrawn
    BY <1>7, <2>2, EasesOrderly DEF ResponseFails, Live, Eases, Still
  <2>4. QED BY <2>1, <2>3, LoseBrokerOrders
<1>8. QED BY <1>1, <1>2, <1>3, <1>4, <1>5, <1>6, <1>7

LEMMA AuthorityOrders ==
  ASSUME Orderly(owner), ConformanceLost \/ ConformanceConfirmed \/ KeyWithdrawn \/ WithdrawnEnds
  PROVE  Orderly(owner')
<1>0. Fit(owner) /\ Typed(owner) BY OrderlyTyped
<1>1. CASE ConformanceLost
  <2>1. PICK e \in Luck, c \in BOOLEAN : owner' = CancelWait(SuspendConformance(owner, c, e))
    BY <1>1 DEF ConformanceLost, Handle
  <2>2. Orderly(SuspendConformance(owner, c, e)) BY SuspendConformanceOrders
  <2>3. QED BY <2>1, <2>2, CancelWaitEases, EasesOrderly, OrderlyTyped
<1>2. CASE ConformanceConfirmed
  <2> DEFINE n == [owner EXCEPT !.wait = NoOp, !.suspended = FALSE]
  <2>1. owner' \in {CancelWait(owner), BeginResume(n, owner.wait)}
    BY <1>2 DEF ConformanceConfirmed, Handle
  <2>2. ~Backlog(owner) /\ ~owner.lost
    BY <1>0, <1>2 DEF ConformanceConfirmed, Watched, Fit, Waits
  <2>3. Eases(owner, n) /\ n.wait = NoOp
    BY <1>0 DEF Eases, Still, Typed, Fields, Tip, Gap
  <2> HIDE DEF n
  <2>4. Fit(n) /\ May(n) /\ ~n.lost BY <1>0, <2>2, <2>3, EasesFits DEF May, Eases, Still
  <2>5. ~Backlog(n) BY <2>2, <2>3, SameBacklog DEF Eases
  <2>6. Orderly(BeginResume(n, owner.wait)) BY <2>4, <2>5, ApplyingFits DEF BeginResume
  <2>7. QED BY <1>0, <2>1, <2>6, CancelWaitEases, EasesOrderly
<1>3. CASE KeyWithdrawn BY <1>3, WithdrawKeyAuthorityOrders DEF KeyWithdrawn, Handle
<1>4. CASE WithdrawnEnds
  <2> DEFINE n(e) == Terminate(owner, e)
  <2>1. PICK e : owner' = [n(e) EXCEPT !.finished = "err"] BY <1>4 DEF WithdrawnEnds, Handle
  <2>2. Eases(owner, n(e)) BY <1>0, TerminateEases
  <2> HIDE DEF n
  <2>3. Eases(n(e), owner')
    BY <2>1, <2>2 DEF Eases, Still, Typed, Fields, Tip, Gap, Finishes
  <2>4. QED BY <2>2, <2>3, EasesTrans, EasesOrderly
<1>5. QED BY <1>1, <1>2, <1>3, <1>4

LEMMA BrokerOrders ==
  ASSUME Orderly(owner), Heads(owner, stored),
         BrokerStores \/ BrokerRefuses \/ ChannelBreaks \/ BrokerAnswers
  PROVE  Orderly(owner')
<1>0. Fit(owner) /\ Typed(owner) BY OrderlyTyped
<1>1. ASSUME NEW w, NEW a, owner' = [owner EXCEPT !.wire = w, !.acks = a] PROVE Orderly(owner')
  <2>1. Eases(owner, owner') BY <1>0, <1>1 DEF Eases, Still, Typed, Fields, Tip, Gap
  <2>2. QED BY <2>1, EasesOrderly
<1>2. ASSUME NEW w, owner' = [owner EXCEPT !.wire = w] PROVE Orderly(owner')
  <2>1. Eases(owner, owner') BY <1>0, <1>2 DEF Eases, Still, Typed, Fields, Tip, Gap
  <2>2. QED BY <2>1, EasesOrderly
<1>3. CASE BrokerStores
  <2>1. PICK a : owner' = [owner EXCEPT !.wire = Tail(owner.wire), !.acks = a]
    BY <1>0, <1>3 DEF BrokerStores, Typed, Fields
  <2>2. QED BY <1>1, <2>1
<1>4. CASE BrokerRefuses BY <1>2, <1>4 DEF BrokerRefuses
<1>5. CASE ChannelBreaks BY <1>2, <1>5 DEF ChannelBreaks
<1>6. CASE BrokerAnswers
  <2> DEFINE n == [owner EXCEPT !.offer = stored, !.wire = <<>>, !.acks = <<>>]
  <2>1. owner' \in {owner, n} /\ owner.conn \in {"Grace", "Disconnected"}
    BY <1>6 DEF BrokerAnswers
  <2>2. stored \in Nat /\ owner.brokerHead \in Nat /\ owner.brokerHead <= stored BY DEF Heads
  <2>3. /\ Typed(n) /\ n.receipts = owner.receipts /\ n.brokerHead = owner.brokerHead
        /\ n.pending = owner.pending /\ n.deferred = owner.deferred
        /\ n.resending = owner.resending /\ n.draining = owner.draining
        /\ n.wait = owner.wait /\ n.state = owner.state /\ n.queued = owner.queued
        /\ n.lost = owner.lost /\ n.offer = stored /\ n.conn = owner.conn
        /\ n.withdrawn = owner.withdrawn
    BY <1>0, <2>2 DEF Typed, Fields, Tip, Gap
  <2> HIDE DEF n
  <2>4. Conns(n) BY <1>0, <2>1, <2>2, <2>3 DEF Fit, Conns
  <2>5. Orderly(n) BY <2>3, <2>4, ConnOrders
  <2>6. QED BY <2>1, <2>5
<1>7. QED BY <1>3, <1>4, <1>5, <1>6

LEMMA StepOrders ==
  ASSUME Orderly(owner), Heads(owner, stored), [Next]_vars PROVE Orderly(owner')
<1>1. CASE owner' = owner BY <1>1
<1>2. CASE \E q \in asked : Requested(q) BY <1>2, RequestedOrders
<1>3. QED
  BY <1>1, <1>2, PreparedOrders, SignedOrders, DrainSignedOrders, OperationOrders,
     ConnectionOrders, EndOrders, AuthorityOrders, BrokerOrders
  DEF Next, Ask, vars
-----------------------------------------------------------------------------
(* What the invariant says of every behaviour *)

LEMMA InitOrders == ASSUME Init PROVE Orderly(owner) /\ Heads(owner, stored)
<1> DEFINE r == Receipt(Payload("Start", "Running", <<"start">>), 1)
<1>1. /\ Sound(owner) /\ owner.receipts = <<r>> /\ owner.brokerHead = 1 /\ owner.offer = 0
      /\ owner.acks = <<>> /\ owner.wire = <<>> /\ stored = 1 /\ owner.deferred = <<>>
  BY DEF Init, Sound
<1> HIDE DEF r
<1>2. owner.receipts \in Seq({r}) /\ Tip(owner) = 1 BY <1>1 DEF Tip
<1>3. owner.acks \in Seq(1 .. stored) /\ owner.wire \in Seq(1 .. Tip(owner))
      /\ owner.deferred \in Seq({r}) /\ Len(owner.deferred) = 0
  BY <1>1, EmptySeq
<1>4. Heads(owner, stored)
  <2>1. \E S : owner.receipts \in Seq(S) BY <1>2
  <2>2. QED BY <1>1, <1>2, <1>3, <2>1 DEF Heads
<1>5. Sequence(owner.receipts) /\ Sequence(owner.deferred) BY <1>2, <1>3 DEF Sequence
<1>6. Gap(owner) <= MaxPending BY <1>1, <1>2, <1>3, OwnerAssumption DEF Gap
<1>7. owner.pending = NoOp /\ owner.draining = NoOp /\ owner.wait = NoOp
      /\ owner.resending = 0 /\ owner.queued = "none"
  BY DEF Init
<1>8. Typed(owner) BY <1>1, <1>2, <1>5, <1>6 DEF Init, Typed, Fields, Finishes
<1>9. Resends(owner) /\ Drains(owner) /\ Conns(owner) /\ Waits(owner) /\ Under(owner)
  BY <1>1, <1>7 DEF Resends, Drains, Conns, Waits, Under
<1>10. QED BY <1>4, <1>7, <1>8, <1>9 DEF Orderly, Fit

\* The broker's side of the channel.
Channelled ==
    /\ link \in {"open", "closed", "quarantined"} /\ losses \in 0 .. MaxLosses
    /\ catchup \in 1 .. Tip(owner)

LEMMA StepChannels ==
  ASSUME Channelled, Orderly(owner), Heads(owner, stored), [Next]_vars PROVE Channelled'
<1>1. Tip(owner) \in Nat /\ Tip(owner)' \in Nat /\ Tip(owner) <= Tip(owner)'
  BY StepFollows, TipInNat DEF Extends
<1>2. catchup' \in {catchup, owner.offered}
  BY DEF Next, Ask, Requested, Repeat, RejectFull, Park, Interrupt, Dispose, Resume, Prepared,
         Signed, OperationFails, Activated, ReceiveAck, DrainSigned, DrainFails, BrokerLost,
         BrokerGraceExpired, BrokerReconnected, ControllerDetached, ControllerLossSettled,
         ControllerLossUnsettled, RunningAgent, RelayQuiesced, ResponseSent, ResponseFails,
         ConformanceLost, ConformanceConfirmed, KeyWithdrawn, WithdrawnEnds, BrokerStores,
         BrokerRefuses, ChannelBreaks, BrokerAnswers, Handle, Outside, vars
<1>3. catchup' = owner.offered => stored <= owner.offered \/ catchup' = catchup
  BY DEF Next, Ask, Requested, Repeat, RejectFull, Park, Interrupt, Dispose, Resume, Prepared,
         Signed, OperationFails, Activated, ReceiveAck, DrainSigned, DrainFails, BrokerLost,
         BrokerGraceExpired, BrokerReconnected, ControllerDetached, ControllerLossSettled,
         ControllerLossUnsettled, RunningAgent, RelayQuiesced, ResponseSent, ResponseFails,
         ConformanceLost, ConformanceConfirmed, KeyWithdrawn, WithdrawnEnds, BrokerStores,
         BrokerRefuses, ChannelBreaks, BrokerAnswers, Handle, Outside, vars
<1>4. /\ link' \in {link, "open", "closed", "quarantined"} /\ losses' \in {losses, losses + 1}
      /\ losses' # losses => losses < MaxLosses
  BY DEF Next, Ask, Requested, Repeat, RejectFull, Park, Interrupt, Dispose, Resume, Prepared,
         Signed, OperationFails, Activated, ReceiveAck, DrainSigned, DrainFails, BrokerLost,
         BrokerGraceExpired, BrokerReconnected, ControllerDetached, ControllerLossSettled,
         ControllerLossUnsettled, RunningAgent, RelayQuiesced, ResponseSent, ResponseFails,
         ConformanceLost, ConformanceConfirmed, KeyWithdrawn, WithdrawnEnds, BrokerStores,
         BrokerRefuses, ChannelBreaks, BrokerAnswers, Handle, Outside, vars
<1>5. owner.offered \in 0 .. Tip(owner) /\ stored \in Nat \ {0}
  BY OrderlyTyped DEF Typed, Heads
<1>6. catchup' \in 1 .. Tip(owner)' BY <1>1, <1>2, <1>3, <1>5 DEF Channelled
<1>7. losses' \in 0 .. MaxLosses BY <1>4, OwnerAssumption DEF Channelled
<1>8. QED BY <1>4, <1>6, <1>7 DEF Channelled
\* The whole inductive invariant: history, order, and the broker's side.
OwnerInvariant == Heads(owner, stored) /\ Orderly(owner) /\ Channelled

LEMMA OwnerStarts == ASSUME Init PROVE OwnerInvariant
<1>1. Orderly(owner) /\ Heads(owner, stored) BY InitOrders
<1>2. Tip(owner) \in Nat \ {0} BY <1>1, TipInNat DEF Heads
<1>3. Channelled BY <1>2, OwnerAssumption DEF Init, Channelled
<1>4. QED BY <1>1, <1>3 DEF OwnerInvariant

LEMMA OwnerContinues == ASSUME OwnerInvariant, [Next]_vars PROVE OwnerInvariant'
  BY StepFollows, StepOrders, StepChannels DEF OwnerInvariant

\* Whatever is lost, refused or late, an operation is under way only when nothing
\* else is owed, sent again or drained, a receipt is sent again or evidence
\* drained only past the head known to be stored, and a Resume waits for its
\* check only while nothing else is going on (begin_park, begin_resume,
\* finish_broker_reconnect, start_deferred_receipt_reconciliation).
THEOREM OneThingAtATime == Spec => []OwnerInvariant
<1>1. Init => OwnerInvariant BY OwnerStarts
<1>2. OwnerInvariant /\ [Next]_vars => OwnerInvariant' BY OwnerContinues
<1>3. QED BY <1>1, <1>2, PTL DEF Spec

\* The fields of SessionOwner, the counts and the bound of the evidence kept
\* included, stay in their types whatever is asked, lost or refused.
THEOREM OwnerTypeCorrect == Spec => []TypeOK
<1>1. OwnerInvariant => TypeOK
  <2> SUFFICES ASSUME OwnerInvariant PROVE TypeOK
    OBVIOUS
  <2>1. Typed(owner) /\ Fit(owner) /\ Heads(owner, stored) /\ Channelled
    BY OrderlyTyped DEF OwnerInvariant
  <2>2. owner.pending.phase \in Phases BY <2>1 DEF Typed, UnderWay, Phases, NoOp
  <2>3. owner.draining.phase \in Phases BY <2>1 DEF Fit, Drains, Phases, NoOp
  <2>4. stored \in 1 .. Tip(owner) BY <2>1, TipInNat DEF Heads
  <2>5. QED BY <2>1, <2>2, <2>3, <2>4 DEF TypeOK, Typed, Channelled, Finishes
<1>2. QED BY <1>1, OneThingAtATime, PTL

\* The tree of a Parked Session is thawed only when the broker has stored all
\* the evidence there is and no controller loss is unsettled, for any number of
\* requests, losses and faults (guard_resume_prepared).
THEOREM ThawIsDurable == Spec => ThawNeedsDurability
<1>1. OwnerInvariant /\ [Next]_vars =>
        [owner.tree = "frozen" /\ owner'.tree = "running" =>
            stored = Tip(owner) /\ owner.deferred = <<>> /\ ~owner.lost]_vars
  <2> SUFFICES ASSUME OwnerInvariant, [Next]_vars,
                      owner.tree = "frozen", owner'.tree = "running"
               PROVE  stored = Tip(owner) /\ owner.deferred = <<>> /\ ~owner.lost
    OBVIOUS
  <2>1. Heads(owner, stored) /\ Under(owner) BY DEF OwnerInvariant, Orderly
  <2>2. Prepared BY <2>1, StepFollows DEF Grows
  <2>3. owner.pending # NoOp /\ owner.pending.phase = "Applying"
    BY <2>2 DEF Prepared, Preparing, Doing
  <2>4. Quiet(owner) /\ ~owner.lost /\ owner.brokerHead = Tip(owner)
    BY <2>1, <2>3 DEF Under
  <2>5. stored = Tip(owner)
    <3>1. Tip(owner) \in Nat BY <2>1, TipInNat
    <3>2. stored \in Nat /\ owner.brokerHead <= stored /\ stored <= Tip(owner)
      BY <2>1 DEF Heads
    <3>3. QED BY <2>4, <3>1, <3>2
  <2>6. QED BY <2>4, <2>5 DEF Quiet
<1>2. QED BY <1>1, OneThingAtATime, PTL DEF Spec, ThawNeedsDurability
-----------------------------------------------------------------------------
(* The gate: no handler opens it but the one that is told of a durable      *)
(* Resume, as long as it can be shut.                                       *)

Whole(o) ==
    /\ Fields \subseteq DOMAIN o
    /\ o.state = "Terminal" => o.tree = "gone"

\* History, connection and what was said on it stay, and an end is an end.
Holds(o, n) ==
    /\ Whole(n)
    /\ n.receipts = o.receipts /\ n.brokerHead = o.brokerHead
    /\ n.conn = o.conn /\ n.offer = o.offer /\ n.withdrawn = o.withdrawn
    /\ n.draining = o.draining /\ n.resending = o.resending
    /\ n.acks \in {o.acks, <<>>}
    /\ Over(o) => Over(n)

\* A handler that leaves the gate open leaves what is behind it.
Bars(o, n) ==
    /\ Holds(o, n)
    /\ n.gate => /\ o.gate /\ n.state = o.state /\ n.suspended = o.suspended
                 /\ Doing(n, "Resume") => n.pending = o.pending

LEMMA BarsSelf == ASSUME NEW o, Whole(o) PROVE Bars(o, o)
  BY DEF Bars, Holds

LEMMA HoldsTrans == ASSUME NEW a, NEW b, NEW c, Holds(a, b), Holds(b, c) PROVE Holds(a, c)
  BY DEF Holds

LEMMA BarsTrans == ASSUME NEW a, NEW b, NEW c, Bars(a, b), Bars(b, c) PROVE Bars(a, c)
<1>1. Holds(a, c) BY HoldsTrans DEF Bars
<1>2. QED BY <1>1 DEF Bars, Doing

\* Behind a gate that is shut anything may happen.
LEMMA ShutBarsAll == ASSUME NEW o, NEW n, Holds(o, n), ~n.gate PROVE Bars(o, n)
  BY DEF Bars

LEMMA BarsShut == ASSUME NEW o, NEW n, Bars(o, n), ~o.gate PROVE ~n.gate
  BY DEF Bars

LEMMA RevokeBars ==
  ASSUME NEW o, NEW e, "revoke" \notin e, Whole(o)
  PROVE  Bars(o, Revoke(o, e)) /\ ~Revoke(o, e).gate
  BY DEF Bars, Holds, Whole, Fields, Over, Revoke

LEMMA NarrowedBars == ASSUME NEW o, Whole(o) PROVE Bars(o, Narrowed(o))
  BY DEF Bars, Holds, Whole, Fields, Over, Doing, Narrowed

LEMMA ShutBars ==
  ASSUME NEW o, NEW e, "revoke" \notin e, Whole(o)
  PROVE  Bars(o, Shut(o, e)) /\ ~Shut(o, e).gate
  BY DEF Bars, Holds, Whole, Fields, Over, Shut, Revoke

LEMMA RevokeEnabledBars ==
  ASSUME NEW o, NEW e, "revoke" \notin e, Whole(o) PROVE Bars(o, RevokeEnabled(o, e))
  BY ShutBars, BarsSelf DEF RevokeEnabled, Shut

LEMMA AttemptParkHolds ==
  ASSUME NEW o, NEW e, Whole(o)
  PROVE  Holds(o, AttemptPark(o, e)) /\ AttemptPark(o, e).gate = o.gate
<1>1. /\ ParkResult(o, e) \in {"Ambiguous", "Terminal", "Running", "Parked"}
      /\ ParkResult(o, e) # "Ambiguous" => o.tree # "gone"
  BY ParkResults, ParkedIsAlive
<1>2. QED BY <1>1 DEF Holds, Whole, Fields, Over, AttemptPark

LEMMA AttemptParkBars ==
  ASSUME NEW o, NEW e, Whole(o), ~o.gate PROVE Bars(o, AttemptPark(o, e))
  BY AttemptParkHolds, ShutBarsAll

LEMMA TerminateBars ==
  ASSUME NEW o, NEW e, Whole(o)
  PROVE  /\ Bars(o, Terminate(o, e)) /\ ~Terminate(o, e).gate
         /\ "cleanup" \notin e => Terminate(o, e).tree = "gone"
  BY DEF Bars, Holds, Whole, Fields, Over, Terminate

LEMMA QuiesceBars == ASSUME NEW o, Whole(o) PROVE Bars(o, Quiesce(o))
  BY DEF Bars, Holds, Whole, Fields, Over, Doing, Quiesce

LEMMA RequestFinishBars ==
  ASSUME NEW o, NEW f, Whole(o) PROVE Bars(o, RequestFinish(o, f))
  BY DEF Bars, Holds, Whole, Fields, Over, Doing, RequestFinish

LEMMA ReplyBars == ASSUME NEW o, NEW f, NEW h, Whole(o) PROVE Bars(o, Reply(o, f, h))
  BY DEF Bars, Holds, Whole, Fields, Over, Doing, Reply

LEMMA FailedBars == ASSUME NEW o, NEW by, NEW f, Whole(o) PROVE Bars(o, Failed(o, by, f))
  BY DEF Bars, Holds, Whole, Fields, Over, Doing, Failed, Reply

LEMMA DeferBars == ASSUME NEW o, NEW pay, Whole(o) PROVE Bars(o, Defer(o, pay))
  BY DEF Bars, Holds, Whole, Fields, Over, Doing, Defer

LEMMA ForgetControllerBars == ASSUME NEW o, Whole(o) PROVE Bars(o, ForgetController(o))
  BY DEF Bars, Holds, Whole, Fields, Over, Doing, ForgetController

LEMMA QuarantineMechanicBars ==
  ASSUME NEW o, NEW op, NEW e, Whole(o)
  PROVE  Bars(o, QuarantineMechanic(o, op, e)) /\ ~QuarantineMechanic(o, op, e).gate
<1> DEFINE a == [ForgetController(o) EXCEPT
                 !.quarantined = TRUE, !.blocked = TRUE, !.queued = "none",
                 !.finishDrained = "none", !.pending = NoOp]
           n == Terminate(Quiesce(a), e)
           m == [n EXCEPT !.unproven = "cleanup" \in e, !.channel = "Closed",
                       !.state = IF "cleanup" \in e THEN @ ELSE "Terminal"]
<1>1. Holds(o, a)
  BY ForgetControllerBars DEF Bars, Holds, Whole, Fields, Over
<1> HIDE DEF a
<1>2. Holds(a, Quiesce(a)) BY <1>1, QuiesceBars DEF Bars, Holds
<1>3. Holds(Quiesce(a), n) /\ ~n.gate /\ ("cleanup" \notin e => n.tree = "gone")
  BY <1>2, TerminateBars DEF Bars, Holds
<1>4. Holds(o, n) BY <1>1, <1>2, <1>3, HoldsTrans
<1> HIDE DEF n
<1>5. Holds(n, m) /\ ~m.gate BY <1>3, <1>4 DEF Holds, Whole, Fields, Over
<1>6. Holds(o, m) BY <1>4, <1>5, HoldsTrans
<1> HIDE DEF m
<1>7. Bars(o, m) BY <1>5, <1>6, ShutBarsAll
<1>8. Bars(m, Failed(m, op.pay.by, "err")) /\ Bars(m, RequestFinish(m, "err"))
  BY <1>6, FailedBars, RequestFinishBars DEF Holds
<1>9. QED BY <1>5, <1>7, <1>8, BarsTrans, BarsShut DEF m, n, a, QuarantineMechanic

LEMMA FailMechanicBars ==
  ASSUME NEW o, NEW e, "revoke" \notin e, Whole(o) PROVE Bars(o, FailMechanic(o, e))
<1> DEFINE a == RevokeEnabled(o, e)
           n == [a EXCEPT !.pending = NoOp, !.blocked = TRUE]
<1>1. Bars(o, a) BY RevokeEnabledBars
<1> HIDE DEF a
<1>2. Bars(o, n) BY <1>1 DEF Bars, Holds, Whole, Fields, Over, Doing
<1> HIDE DEF n
<1>3. Bars(n, Failed(n, o.pending.pay.by, "none")) BY <1>2, FailedBars DEF Bars, Holds
<1>4. QED BY <1>2, <1>3, BarsTrans DEF FailMechanic, n, a

LEMMA FailPreparationBars ==
  ASSUME NEW o, NEW e, "revoke" \notin e, Whole(o) PROVE Bars(o, FailPreparation(o, e))
<1> DEFINE n == RevokeEnabled(o, e)
           a == [n EXCEPT !.channel = "Revoked"]
           m == FailMechanic(a, e)
<1>1. Bars(o, n) BY RevokeEnabledBars
<1> HIDE DEF n
<1>2. Bars(o, a) BY <1>1 DEF Bars, Holds, Whole, Fields, Over, Doing
<1> HIDE DEF a
<1>3. Bars(o, m) BY <1>2, FailMechanicBars, BarsTrans DEF Bars, Holds
<1> HIDE DEF m
<1>4. Bars(o, [m EXCEPT !.blocked = m.lost \/ m.unproven \/ Backlog(m)])
  BY <1>3 DEF Bars, Holds, Whole, Fields, Over, Doing
<1>5. Bars(o, QuarantineMechanic(n, o.pending, e))
  BY <1>1, QuarantineMechanicBars, BarsTrans DEF Bars, Holds
<1>6. QED BY <1>4, <1>5 DEF FailPreparation, m, a, n

LEMMA BeginTerminalReceiptBars ==
  ASSUME NEW o, NEW f, Whole(o) PROVE Bars(o, BeginTerminalReceipt(o, f))
<1> DEFINE a == [o EXCEPT !.blocked = TRUE]
           pay == Payload("Disposal", "Terminal", <<"event">>)
           b == Defer(a, pay)
<1>1. Bars(o, a) BY DEF Bars, Holds, Whole, Fields, Over, Doing
<1> HIDE DEF a
<1>2. Bars(o, b) BY <1>1, DeferBars, BarsTrans DEF Bars, Holds
<1> HIDE DEF b
<1>3. Bars(o, RequestFinish(b, f)) BY <1>2, RequestFinishBars, BarsTrans DEF Bars, Holds
<1>4. Bars(o, [o EXCEPT !.pending = Operation(o, pay, "Signing", FALSE, f)])
  BY DEF Bars, Holds, Whole, Fields, Over, Doing, Operation, Payload
<1>5. QED BY <1>3, <1>4 DEF BeginTerminalReceipt, a, b, pay

LEMMA BeginTerminalEventBars ==
  ASSUME NEW o, NEW f, NEW e, Whole(o)
  PROVE  /\ Bars(o, BeginTerminalEvent(o, f, e))
         /\ o.state # "Terminal" \/ ~o.gate => ~BeginTerminalEvent(o, f, e).gate
<1> DEFINE a == ForgetController(o)
           b == Quiesce(a)
           n == Terminate(b, e)
           m == [n EXCEPT !.unproven = FALSE, !.state = "Terminal", !.channel = "Closed"]
           u == [n EXCEPT !.unproven = TRUE, !.blocked = TRUE, !.channel = "Revoked"]
           w == [m EXCEPT !.queued = f]
<1>1. Bars(o, a) BY ForgetControllerBars
<1> HIDE DEF a
<1>2. Bars(o, b) BY <1>1, QuiesceBars, BarsTrans DEF Bars, Holds
<1> HIDE DEF b
<1>3. Holds(o, n) /\ ~n.gate /\ ("cleanup" \notin e => n.tree = "gone")
  <2>1. Bars(b, n) /\ ~n.gate /\ ("cleanup" \notin e => n.tree = "gone")
    BY <1>2, TerminateBars DEF Bars, Holds
  <2>2. QED BY <1>2, <2>1, BarsTrans DEF Bars
<1> HIDE DEF n
<1>4. Holds(n, u) /\ ~u.gate BY <1>3 DEF Holds, Whole, Fields, Over
<1>5. "cleanup" \notin e => Holds(n, m) /\ ~m.gate BY <1>3 DEF Holds, Whole, Fields, Over
<1> HIDE DEF u, m
<1>6. Bars(o, u) BY <1>3, <1>4, HoldsTrans, ShutBarsAll
<1>7. "cleanup" \notin e => Bars(o, m) BY <1>3, <1>5, HoldsTrans, ShutBarsAll
<1>8. Bars(u, RequestFinish(u, "err")) BY <1>6, RequestFinishBars DEF Bars, Holds
<1>9. "cleanup" \notin e => Bars(m, BeginTerminalReceipt(m, f))
  BY <1>7, BeginTerminalReceiptBars DEF Bars, Holds
<1>10. "cleanup" \notin e => Bars(m, w)
  BY <1>7 DEF Bars, Holds, Whole, Fields, Over, Doing
<1>11. CASE o.state = "Terminal"
  <2>1. BeginTerminalEvent(o, f, e) = o BY <1>11 DEF BeginTerminalEvent
  <2>2. QED BY <2>1, <1>11, BarsSelf
<1>12. CASE o.state # "Terminal"
  <2>1. BeginTerminalEvent(o, f, e) = IF "cleanup" \in e THEN RequestFinish(u, "err")
              ELSE IF o.pending # NoOp THEN w ELSE BeginTerminalReceipt(m, f)
    BY <1>12 DEF BeginTerminalEvent, w, m, u, n, b, a
  <2> HIDE DEF w
  <2>2. QED BY <2>1, <1>4, <1>5, <1>6, <1>7, <1>8, <1>9, <1>10, BarsTrans, BarsShut
<1>13. QED BY <1>11, <1>12

LEMMA TakeQueuedBars == ASSUME NEW o, Whole(o) PROVE Bars(o, TakeQueued(o))
<1> DEFINE a == [o EXCEPT !.queued = "none"]
<1>1. Bars(o, a) BY DEF Bars, Holds, Whole, Fields, Over, Doing
<1> HIDE DEF a
<1>2. Bars(o, BeginTerminalReceipt(a, o.queued))
  BY <1>1, BeginTerminalReceiptBars, BarsTrans DEF Bars, Holds
<1>3. QED BY <1>2, BarsSelf DEF TakeQueued, a

LEMMA AbortedBars ==
  ASSUME NEW o, NEW e, "revoke" \notin e, Whole(o) PROVE Bars(o, Aborted(o, e))
<1> DEFINE a == RevokeEnabled(o, e)
<1>1. Bars(o, a) BY RevokeEnabledBars
<1> HIDE DEF a
<1>2. Bars(o, [a EXCEPT !.pending = NoOp, !.blocked = TRUE])
  BY <1>1 DEF Bars, Holds, Whole, Fields, Over, Doing
<1>3. QED BY <1>2 DEF Aborted, a

LEMMA ToldBars == ASSUME NEW o, NEW op, Whole(o) PROVE Bars(o, Told(o, op))
  BY FailedBars, RequestFinishBars DEF Told

LEMMA OwingBars == ASSUME NEW o, NEW op, Whole(o) PROVE Bars(o, Owing(o, op))
  BY DeferBars, BarsSelf DEF Owing

LEMMA AwaitingBars ==
  ASSUME NEW o, NEW op, NEW owed, Whole(o) PROVE Bars(o, Awaiting(o, op, owed))
  BY DEF Bars, Holds, Whole, Fields, Over, Doing, Awaiting

LEMMA ReparkedBars ==
  ASSUME NEW o, NEW op, NEW e,
         NEW result \in {"Ambiguous", "Terminal", "Running", "Parked"}, Whole(o)
  PROVE  Bars(o, Reparked(o, op, result, e))
<1> DEFINE why == Causal(IF op.phase = "Activating" THEN <<"inactive", op.pay.by[2]>>
                                                    ELSE <<"unacknowledged", op.pay.by[2]>>)
           parked == Told(Defer(o, why), op)
           told == Told(o, op)
           quiet == [told EXCEPT !.queued = "none"]
<1>1. Bars(o, parked)
  <2>1. Bars(o, Defer(o, why)) BY DeferBars
  <2>2. QED BY <2>1, ToldBars, BarsTrans DEF Bars, Holds
<1>2. Bars(o, told) BY ToldBars
<1> HIDE DEF parked, told
<1>3. Bars(o, quiet) BY <1>2 DEF Bars, Holds, Whole, Fields, Over, Doing
<1> HIDE DEF quiet
<1>4. Bars(o, TakeQueued(parked)) /\ Bars(o, TakeQueued(told))
  BY <1>1, <1>2, TakeQueuedBars, BarsTrans DEF Bars, Holds
<1>5. Bars(o, BeginTerminalEvent(quiet, "ok", e))
  BY <1>3, BeginTerminalEventBars, BarsTrans DEF Bars, Holds
<1>6. Bars(o, QuarantineMechanic(o, op, e)) BY QuarantineMechanicBars
<1>7. QED BY <1>4, <1>5, <1>6 DEF Reparked, parked, quiet, told, why

\* A Resume that fails leaves the gate shut.
LEMMA FailResumeBars ==
  ASSUME NEW o, NEW e, "revoke" \notin e, Whole(o)
  PROVE  Bars(o, FailResume(o, e)) /\ ~FailResume(o, e).gate
<1> DEFINE a == Aborted(o, e)
           r == Revoke(a, e)
           narrow == Narrowed(r)
           frozen == AttemptPark(narrow, e)
           owing == Owing(frozen, o.pending)
           result == IF "revoke" \in e THEN "Ambiguous" ELSE ParkResult(o, e)
<1>1. Bars(o, a) BY AbortedBars
<1> HIDE DEF a
<1>2. Bars(a, r) /\ ~r.gate BY <1>1, RevokeBars DEF Bars, Holds
<1> HIDE DEF r
<1>3. Bars(r, narrow) BY <1>2, NarrowedBars DEF Bars, Holds
<1> HIDE DEF narrow
<1>4. Bars(narrow, frozen) BY <1>2, <1>3, BarsShut, AttemptParkBars DEF Bars, Holds
<1> HIDE DEF frozen
<1>5. Bars(frozen, owing) BY <1>4, OwingBars DEF Bars, Holds
<1> HIDE DEF owing
<1>6. Bars(o, owing) /\ ~owing.gate
  BY <1>1, <1>2, <1>3, <1>4, <1>5, BarsTrans, BarsShut
<1>7. result \in {"Ambiguous", "Terminal", "Running", "Parked"} BY ParkResults
<1> HIDE DEF result
<1>8. Bars(owing, Reparked(owing, o.pending, result, e))
  BY <1>6, <1>7, ReparkedBars DEF Bars, Holds
<1>9. FailResume(o, e) = Reparked(owing, o.pending, result, e)
  BY DEF FailResume, result, owing, frozen, narrow, r, a
<1>10. QED BY <1>6, <1>8, <1>9, BarsTrans, BarsShut

LEMMA FailReceiptBars ==
  ASSUME NEW o, NEW e, "revoke" \notin e, Whole(o) PROVE Bars(o, FailReceipt(o, e))
<1> DEFINE op == o.pending
           a == Aborted(o, e)
           owing == Owing(a, op)
           awaiting == Awaiting(owing, op, o.deferred)
           told == Told(awaiting, op)
<1>1. Bars(o, a) BY AbortedBars
<1> HIDE DEF a, op
<1>2. Bars(o, owing) BY <1>1, OwingBars, BarsTrans DEF Bars, Holds
<1> HIDE DEF owing
<1>3. Bars(o, awaiting)
  <2>1. Bars(owing, awaiting) BY <1>2, AwaitingBars DEF Bars, Holds
  <2>2. QED BY <1>2, <2>1, BarsTrans
<1> HIDE DEF awaiting
<1>4. Bars(o, told) BY <1>3, ToldBars, BarsTrans DEF Bars, Holds
<1> HIDE DEF told
<1>5. Bars(o, TakeQueued(told)) BY <1>4, TakeQueuedBars, BarsTrans DEF Bars, Holds
<1>6. QED
  BY <1>5, BarsSelf, FailPreparationBars, FailResumeBars
  DEF FailReceipt, told, awaiting, owing, a, op

LEMMA MaybeSettleBars == ASSUME NEW o, Whole(o) PROVE Bars(o, MaybeSettle(o))
  BY DEF Bars, Holds, Whole, Fields, Over, Doing, MaybeSettle

LEMMA BeginCausedParkBars ==
  ASSUME NEW o, NEW cause, NEW e, "revoke" \notin e, Whole(o)
  PROVE  Bars(o, BeginCausedPark(o, cause, e))
<1> DEFINE n == [o EXCEPT !.pending = Operation(o, Causal(cause), "Signing", FALSE, "none")]
<1>1. Bars(o, n) BY DEF Bars, Holds, Whole, Fields, Over, Doing, Operation, Causal, Payload
<1> HIDE DEF n
<1>2. Bars(o, FailReceipt(n, e)) BY <1>1, FailReceiptBars, BarsTrans DEF Bars, Holds
<1>3. QED BY <1>1, <1>2 DEF BeginCausedPark, n

LEMMA ApplyingHolds ==
  ASSUME NEW o, NEW q, Whole(o)
  PROVE  /\ Holds(o, Applying(o, q)) /\ Applying(o, q).gate = o.gate
         /\ q.act # "Resume" => Bars(o, Applying(o, q))
         /\ "pay" \in DOMAIN Applying(o, q).pending
         /\ Applying(o, q).pending.pay.kind = q.act
  BY DEF Bars, Holds, Whole, Fields, Over, Doing, Applying, Operation, Payload

LEMMA StartSigningBars ==
  ASSUME NEW o, NEW owed, NEW e, "revoke" \notin e, Whole(o),
         o.gate => "pay" \in DOMAIN o.pending /\ o.pending.pay.kind # "Resume"
  PROVE  Bars(o, StartSigning(o, owed, e))
<1>1. Bars(o, FailReceipt(o, e)) BY FailReceiptBars
<1>2. Bars(o, [o EXCEPT !.pending.phase = "Signing"])
  BY DEF Bars, Holds, Whole, Fields, Over, Doing
<1>3. QED BY <1>1, <1>2 DEF StartSigning

LEMMA BeginParkBars ==
  ASSUME NEW o, NEW q, NEW e, "revoke" \notin e, Whole(o) PROVE Bars(o, BeginPark(o, q, e))
<1> DEFINE a == Applying(o, q)
           n == Shut(a, e)
           m == AttemptPark(n, e)
           f == FailMechanic(m, e)
<1>1. Holds(o, a) BY ApplyingHolds
<1> HIDE DEF a
<1>2. Holds(a, n) /\ ~n.gate BY <1>1, ShutBars DEF Bars, Holds
<1> HIDE DEF n
<1>3. Holds(n, m) /\ ~m.gate BY <1>2, AttemptParkHolds DEF Holds
<1> HIDE DEF m
<1>4. Holds(o, m) BY <1>1, <1>2, <1>3, HoldsTrans
<1>5. Bars(o, m) BY <1>3, <1>4, ShutBarsAll
<1>6. Bars(o, f) BY <1>5, FailMechanicBars, BarsTrans DEF Bars, Holds
<1> HIDE DEF f
<1>7. Bars(o, BeginTerminalEvent(f, "ok", e))
  BY <1>6, BeginTerminalEventBars, BarsTrans DEF Bars, Holds
<1>8. Bars(o, QuarantineMechanic(m, m.pending, e))
  BY <1>5, QuarantineMechanicBars, BarsTrans DEF Bars, Holds
<1>9. Bars(o, StartSigning(m, Backlog(o), e))
  BY <1>3, <1>5, StartSigningBars, BarsTrans DEF Bars, Holds
<1>10. BeginPark(o, q, e) \in {f, BeginTerminalEvent(f, "ok", e),
                              QuarantineMechanic(m, m.pending, e), StartSigning(m, Backlog(o), e)}
  BY ParkResults DEF BeginPark, f, m, n, a
<1>11. QED BY <1>6, <1>7, <1>8, <1>9, <1>10

LEMMA BeginInterruptBars ==
  ASSUME NEW o, NEW q, NEW e, "revoke" \notin e, Whole(o), q.act = "Interrupt"
  PROVE  Bars(o, BeginInterrupt(o, q, e))
<1> DEFINE n == Applying(o, q)
           f == FailMechanic(n, e)
           g == [f EXCEPT !.tree = "gone"]
<1>1. Bars(o, n) /\ "pay" \in DOMAIN n.pending /\ n.pending.pay.kind # "Resume"
  BY ApplyingHolds
<1> HIDE DEF n
<1>2. Bars(o, f) BY <1>1, FailMechanicBars, BarsTrans DEF Bars, Holds
<1> HIDE DEF f
<1>3. Bars(o, g) BY <1>2 DEF Bars, Holds, Whole, Fields, Over, Doing
<1> HIDE DEF g
<1>4. Bars(o, BeginTerminalEvent(g, "ok", e))
  BY <1>3, BeginTerminalEventBars, BarsTrans DEF Bars, Holds
<1>5. Bars(o, QuarantineMechanic(n, n.pending, e))
  BY <1>1, QuarantineMechanicBars, BarsTrans DEF Bars, Holds
<1>6. Bars(o, StartSigning(n, Backlog(o), e))
  BY <1>1, StartSigningBars, BarsTrans DEF Bars, Holds
<1>7. BeginInterrupt(o, q, e) \in {f, BeginTerminalEvent(g, "ok", e),
                                   QuarantineMechanic(n, n.pending, e),
                                   StartSigning(n, Backlog(o), e)}
  BY DEF BeginInterrupt, g, f, n
<1>8. QED BY <1>2, <1>4, <1>5, <1>6, <1>7

LEMMA BeginDisposalBars ==
  ASSUME NEW o, NEW q, NEW e, "revoke" \notin e, Whole(o) PROVE Bars(o, BeginDisposal(o, q, e))
<1> DEFINE a == ForgetController(o)
           b == Applying(a, q)
           c == Quiesce(b)
           n == Terminate(c, e)
           m == [n EXCEPT !.unproven = FALSE, !.state = "Terminal", !.channel = "Closed"]
           u == [n EXCEPT !.unproven = TRUE, !.blocked = TRUE, !.channel = "Revoked",
                          !.pending = NoOp]
<1>1. Holds(o, a) BY ForgetControllerBars DEF Bars
<1> HIDE DEF a
<1>2. Holds(a, b) BY <1>1, ApplyingHolds DEF Holds
<1> HIDE DEF b
<1>3. Holds(b, c) BY <1>2, QuiesceBars DEF Bars, Holds
<1> HIDE DEF c
<1>4. Holds(c, n) /\ ~n.gate /\ ("cleanup" \notin e => n.tree = "gone")
  BY <1>3, TerminateBars DEF Bars, Holds
<1> HIDE DEF n
<1>5. Holds(o, n) BY <1>1, <1>2, <1>3, <1>4, HoldsTrans
<1>6. Holds(n, u) /\ ~u.gate BY <1>4 DEF Holds, Whole, Fields, Over
<1>7. "cleanup" \notin e => Holds(n, m) /\ ~m.gate BY <1>4 DEF Holds, Whole, Fields, Over
<1> HIDE DEF u, m
<1>8. Bars(o, u) BY <1>5, <1>6, HoldsTrans, ShutBarsAll
<1>9. "cleanup" \notin e => Bars(o, m) /\ ~m.gate BY <1>5, <1>7, HoldsTrans, ShutBarsAll
<1>10. Bars(o, Failed(u, q.id, "err")) BY <1>8, FailedBars, BarsTrans DEF Bars, Holds
<1>11. "cleanup" \notin e => Bars(o, StartSigning(m, Backlog(o), e))
  BY <1>9, StartSigningBars, BarsTrans DEF Bars, Holds
<1>12. BeginDisposal(o, q, e) = IF "cleanup" \in e THEN Failed(u, q.id, "err")
                                                  ELSE StartSigning(m, Backlog(o), e)
  BY DEF BeginDisposal, m, u, n, c, b, a
<1>13. QED BY <1>10, <1>11, <1>12

LEMMA BeginControllerLossDisposalBars ==
  ASSUME NEW o, NEW e, "revoke" \notin e, Whole(o)
  PROVE  Bars(o, BeginControllerLossDisposal(o, e))
<1> DEFINE a == [o EXCEPT !.pending = Operation(o,
                     Payload("Disposal", "Terminal", <<"settled">>),
                     "Applying", FALSE, "ok")]
           n == Quiesce(a)
           m == Terminate(n, e)
           u == [m EXCEPT !.unproven = TRUE, !.blocked = TRUE, !.pending = NoOp]
           w == [m EXCEPT !.unproven = FALSE, !.lost = FALSE,
                          !.state = "Terminal", !.channel = "Closed"]
<1>1. Holds(o, a) BY DEF Holds, Whole, Fields, Over
<1> HIDE DEF a
<1>2. Holds(a, n) BY <1>1, QuiesceBars DEF Bars, Holds
<1> HIDE DEF n
<1>3. Holds(n, m) /\ ~m.gate /\ ("cleanup" \notin e => m.tree = "gone")
  BY <1>2, TerminateBars DEF Bars, Holds
<1> HIDE DEF m
<1>4. Holds(o, m) BY <1>1, <1>2, <1>3, HoldsTrans
<1>5. Holds(m, u) /\ ~u.gate BY <1>3 DEF Holds, Whole, Fields, Over
<1>6. "cleanup" \notin e => Holds(m, w) /\ ~w.gate BY <1>3 DEF Holds, Whole, Fields, Over
<1> HIDE DEF u, w
<1>7. Bars(o, u) BY <1>4, <1>5, HoldsTrans, ShutBarsAll
<1>8. "cleanup" \notin e => Bars(o, w) /\ ~w.gate BY <1>4, <1>6, HoldsTrans, ShutBarsAll
<1>9. "cleanup" \notin e => Bars(o, StartSigning(w, Backlog(o), e))
  BY <1>8, StartSigningBars, BarsTrans DEF Bars, Holds
<1>10. BeginControllerLossDisposal(o, e) = IF "cleanup" \in e THEN u
                                                             ELSE StartSigning(w, Backlog(o), e)
  BY DEF BeginControllerLossDisposal, u, w, m, n, a
<1>11. QED BY <1>7, <1>9, <1>10

LEMMA CancelWaitBars == ASSUME NEW o, Whole(o) PROVE Bars(o, CancelWait(o))
<1> DEFINE a == [o EXCEPT !.wait = NoOp]
<1>1. Bars(o, a) BY DEF Bars, Holds, Whole, Fields, Over, Doing
<1> HIDE DEF a
<1>2. Bars(o, Failed(a, o.wait.id, "none")) BY <1>1, FailedBars, BarsTrans DEF Bars, Holds
<1>3. QED BY <1>2, BarsSelf DEF CancelWait, a

LEMMA ControllerGoneBars ==
  ASSUME NEW o, NEW was, NEW e, "revoke" \notin e, Whole(o), ~o.gate
  PROVE  Bars(o, ControllerGone(o, was, e))
<1> DEFINE m == IF o.state = "Parked" THEN o ELSE AttemptPark(o, e)
           owing == [m EXCEPT !.lostPark = TRUE]
<1>1. Bars(o, m) BY BarsSelf, AttemptParkBars
<1> HIDE DEF m
<1>2. Bars(o, owing) BY <1>1 DEF Bars, Holds, Whole, Fields, Over, Doing
<1> HIDE DEF owing
<1>3. Bars(o, BeginTerminalEvent(m, "ok", e))
  BY <1>1, BeginTerminalEventBars, BarsTrans DEF Bars, Holds
<1>4. Bars(o, QuarantineMechanic(m, NoOp, e))
  BY <1>1, QuarantineMechanicBars, BarsTrans DEF Bars, Holds
<1>5. Bars(o, MaybeSettle(m)) BY <1>1, MaybeSettleBars, BarsTrans DEF Bars, Holds
<1>6. Bars(o, BeginCausedPark(owing, <<"controller">>, e))
  BY <1>2, BeginCausedParkBars, BarsTrans DEF Bars, Holds
<1>7. ControllerGone(o, was, e) \in {m, BeginTerminalEvent(m, "ok", e),
                                     QuarantineMechanic(m, NoOp, e), MaybeSettle(m),
                                     BeginCausedPark(owing, <<"controller">>, e)}
  BY DEF ControllerGone, owing, m
<1>8. QED BY <1>1, <1>3, <1>4, <1>5, <1>6, <1>7

LEMMA BeginControllerLossBars ==
  ASSUME NEW o, NEW e, "revoke" \notin e, Whole(o) PROVE Bars(o, BeginControllerLoss(o, e))
<1> DEFINE n == CancelWait(o)
           a == [n EXCEPT !.lost = TRUE, !.blocked = TRUE]
           failed == FailReceipt(a, e)
           shut == Shut(failed, e)
<1>1. Bars(o, n) BY CancelWaitBars
<1> HIDE DEF n
<1>2. Bars(o, a) BY <1>1 DEF Bars, Holds, Whole, Fields, Over, Doing
<1> HIDE DEF a
<1>3. Bars(o, failed) BY <1>2, FailReceiptBars, BarsTrans DEF Bars, Holds
<1> HIDE DEF failed
<1>4. Bars(failed, shut) /\ ~shut.gate BY <1>3, ShutBars DEF Bars, Holds
<1> HIDE DEF shut
<1>5. Bars(shut, ControllerGone(shut, n.state, e)) BY <1>4, ControllerGoneBars DEF Bars, Holds
<1>6. QED BY <1>1, <1>3, <1>4, <1>5, BarsTrans DEF BeginControllerLoss, shut, failed, a, n

\* An operation that completes without enabling opens nothing.
LEMMA CompleteBars ==
  ASSUME NEW o, NEW enable, NEW e, "revoke" \notin e, Whole(o), ~enable \/ ~Activates(o)
  PROVE  Bars(o, Complete(o, enable, e))
<1> DEFINE op == o.pending
           settles == o.lostPark /\ op.pay.by = <<"controller">>
           n == [o EXCEPT !.pending = NoOp,
                   !.done = IF op.respond THEN @ \union {op.pay.by} ELSE @]
           m == IF op.pay.kind = "Park" /\ ~n.lost /\ ~n.unproven /\ ~Backlog(n)
                THEN [n EXCEPT !.blocked = FALSE] ELSE n
           head == IF op.pay.to = "Terminal" THEN op.index ELSE 0
           told == IF op.respond THEN Reply(m, op.finish, head) ELSE RequestFinish(m, op.finish)
           last == [told EXCEPT !.lostPark = @ /\ ~settles]
<1>1. Bars(o, n) BY DEF Bars, Holds, Whole, Fields, Over, Doing
<1> HIDE DEF n
<1>2. Bars(o, m) BY <1>1 DEF Bars, Holds, Whole, Fields, Over, Doing
<1> HIDE DEF m, head
<1>3. Bars(o, told) BY <1>2, ReplyBars, RequestFinishBars, BarsTrans DEF Bars, Holds
<1> HIDE DEF told, settles
<1>4. Bars(o, last) BY <1>3 DEF Bars, Holds, Whole, Fields, Over, Doing
<1> HIDE DEF last
<1>5. Bars(o, TakeQueued(last)) BY <1>4, TakeQueuedBars, BarsTrans DEF Bars, Holds
<1>6. Bars(o, MaybeSettle(last)) BY <1>4, MaybeSettleBars, BarsTrans DEF Bars, Holds
<1>7. Complete(o, enable, e) \in {TakeQueued(last), MaybeSettle(last), last}
  BY DEF Complete, last, told, head, m, n, settles
<1>8. QED BY <1>4, <1>5, <1>6, <1>7

LEMMA DeferBrokerLossParkBars == ASSUME NEW o, Whole(o) PROVE Bars(o, DeferBrokerLossPark(o))
<1> DEFINE why == Causal(<<"reconcile">>)
           n == Defer(o, why)
<1>1. Bars(o, n) BY DeferBars
<1> HIDE DEF n
<1>2. Bars(o, [n EXCEPT !.blocked = TRUE]) BY <1>1 DEF Bars, Holds, Whole, Fields, Over, Doing
<1>3. QED BY <1>2 DEF DeferBrokerLossPark, n

LEMMA ParkForReconciliationBars ==
  ASSUME NEW o, NEW e, "revoke" \notin e, Whole(o), ~o.gate
  PROVE  Bars(o, ParkForReconciliation(o, e))
<1> DEFINE n == AttemptPark(o, e)
<1>1. Bars(o, n) BY AttemptParkBars
<1> HIDE DEF n
<1>2. Bars(o, BeginTerminalEvent(n, "ok", e))
  BY <1>1, BeginTerminalEventBars, BarsTrans DEF Bars, Holds
<1>3. Bars(o, QuarantineMechanic(n, NoOp, e))
  BY <1>1, QuarantineMechanicBars, BarsTrans DEF Bars, Holds
<1>4. Bars(o, o) BY BarsSelf
<1>5. ParkForReconciliation(o, e) \in {o, n, BeginTerminalEvent(n, "ok", e),
                                       QuarantineMechanic(n, NoOp, e)}
  BY DEF ParkForReconciliation, n
<1>6. QED BY <1>1, <1>2, <1>3, <1>4, <1>5

LEMMA FreezeOwingBars ==
  ASSUME NEW o, NEW e, "revoke" \notin e, Whole(o), ~o.gate PROVE Bars(o, FreezeOwing(o, e))
<1> DEFINE n == ParkForReconciliation(o, e)
<1>1. Bars(o, n) BY ParkForReconciliationBars
<1> HIDE DEF n
<1>2. Bars(o, DeferBrokerLossPark(n))
  BY <1>1, DeferBrokerLossParkBars, BarsTrans DEF Bars, Holds
<1>3. QED BY <1>2, BarsSelf DEF FreezeOwing, n

LEMMA TypedWhole == ASSUME NEW o, Typed(o) PROVE Whole(o)
  BY DEF Typed, Whole

LEMMA UnblockBars == ASSUME NEW o, Whole(o) PROVE Bars(o, Unblock(o))
  BY DEF Bars, Holds, Whole, Fields, Over, Doing, Unblock

LEMMA FinishDrainedBars == ASSUME NEW o, Whole(o) PROVE Bars(o, FinishDrained(o))
<1> DEFINE n == [o EXCEPT !.finishDrained = "none"]
<1>1. Bars(o, n) BY DEF Bars, Holds, Whole, Fields, Over, Doing
<1> HIDE DEF n
<1>2. Bars(o, RequestFinish(n, o.finishDrained))
  BY <1>1, RequestFinishBars, BarsTrans DEF Bars, Holds
<1>3. QED BY <1>2 DEF FinishDrained, n

\* What a reconnect leaves, whatever became of it: the gate shut, and the
\* connection used again or something under way on it.
Rejoined(n) ==
    /\ Whole(n) /\ ~n.gate
    /\ \/ Over(n) \/ n.conn = "Connected"
       \/ n.conn = "Reconciling" /\ (n.draining # NoOp \/ n.resending # 0)

LEMMA BarsRejoined == ASSUME NEW o, NEW n, Rejoined(o), Bars(o, n) PROVE Rejoined(n)
  BY DEF Rejoined, Bars, Holds

LEMMA ReattachedRejoins ==
  ASSUME NEW o, Whole(o), ~o.gate PROVE Rejoined(Reattached(o))
<1> DEFINE n == [o EXCEPT !.conn = "Connected",
                    !.lostPark = @ /\ ~\E i \in 1 .. o.brokerHead :
                                          o.receipts[i].by = <<"controller">>]
<1>1. Rejoined(n) BY DEF Rejoined, Whole, Fields
<1> HIDE DEF n
<1>2. Rejoined(MaybeSettle(n)) BY <1>1, MaybeSettleBars, BarsRejoined DEF Rejoined
<1>3. QED BY <1>2 DEF Reattached, n

LEMMA UnfrozenRejoins ==
  ASSUME NEW o, Whole(o), ~o.gate PROVE Rejoined(Unfrozen(o))
  BY DEF Unfrozen, Rejoined, Whole, Fields, Over

LEMMA StartDrainingRejoins ==
  ASSUME NEW o, Whole(o), ~o.gate, o.conn = "Reconciling", o.deferred # <<>>
  PROVE  Rejoined(StartDraining(o))
<1> DEFINE d == [phase |-> "Signing", pay |-> o.deferred[1], seq |-> Tip(o) + 1, index |-> 0]
<1>1. d # NoOp
  <2>1. d.phase = "Signing" /\ NoOp.phase = "None" BY DEF NoOp
  <2>2. QED BY <2>1
<1>2. StartDraining(o) = IF o.draining # NoOp THEN o ELSE [o EXCEPT !.draining = d]
  BY DEF StartDraining
<1> HIDE DEF d
<1>3. QED BY <1>1, <1>2 DEF Rejoined, Whole, Fields

\* What is owed is still owed once the tree is frozen.
LEMMA FreezeOwingOwesStill ==
  ASSUME NEW o, NEW e, Whole(o), Sequence(o.deferred), o.deferred # <<>>, FrozeNow(o, e)
  PROVE  FreezeOwing(o, e).deferred # <<>>
<1>1. ASSUME o.state = "Running" PROVE FreezeOwing(o, e).deferred # <<>>
  <2> DEFINE m == AttemptPark(o, e)
             why == Causal(<<"reconcile">>)
             d == Defer(m, why)
  <2>1. FreezeOwing(o, e) = [d EXCEPT !.blocked = TRUE]
    BY <1>1 DEF FrozeNow, FreezeOwing, ParkForReconciliation, DeferBrokerLossPark
  <2>2. Fields \subseteq DOMAIN m /\ m.deferred = o.deferred
    <3>1. ParkResult(o, e) \in {"Ambiguous", "Terminal", "Running", "Parked"} BY ParkResults
    <3>2. QED BY <3>1, AttemptParkHolds DEF AttemptPark, Holds, Whole, Fields
  <2> HIDE DEF m, why
  <2>3. Append(o.deferred, why) # <<>> BY AppendSequence
  <2>4. Fields \subseteq DOMAIN d /\ d.deferred # <<>> BY <2>2, <2>3 DEF Defer, Fields
  <2> HIDE DEF d
  <2>5. QED BY <2>1, <2>4 DEF Fields
<1>2. QED BY <1>1 DEF FreezeOwing

LEMMA ReconciledRejoins ==
  ASSUME NEW o, NEW e, "revoke" \notin e, Whole(o), ~o.gate, Sequence(o.deferred)
  PROVE  Rejoined(Reconciled(o, e))
<1> DEFINE back == Reattached(o)
           free == Unblock(back)
           froze == FreezeOwing(o, e)
           drain == [froze EXCEPT !.conn = "Reconciling"]
           m == ParkForReconciliation(o, e)
<1>1. Rejoined(back) BY ReattachedRejoins
<1> HIDE DEF back
<1>2. Rejoined(free) BY <1>1, UnblockBars, BarsRejoined DEF Rejoined
<1> HIDE DEF free
<1>3. Rejoined(FinishDrained(free)) BY <1>2, FinishDrainedBars, BarsRejoined DEF Rejoined
<1>4. ASSUME o.deferred # <<>>, FrozeNow(o, e) PROVE Rejoined(StartDraining(drain))
  <2>1. froze.deferred # <<>> BY <1>4, FreezeOwingOwesStill
  <2>2. Whole(froze) /\ ~froze.gate BY FreezeOwingBars DEF Bars, Holds
  <2> HIDE DEF froze
  <2>3. Whole(drain) /\ ~drain.gate /\ drain.conn = "Reconciling" /\ drain.deferred # <<>>
    BY <2>1, <2>2 DEF Whole, Fields
  <2>4. QED BY <2>3, StartDrainingRejoins
<1>5. Whole(m) /\ ~m.gate BY ParkForReconciliationBars DEF Bars, Holds
<1> HIDE DEF m
<1>6. Rejoined(Unfrozen(m)) BY <1>5, UnfrozenRejoins
<1>7. QED BY <1>3, <1>4, <1>6 DEF Reconciled, m, drain, froze, free, back

LEMMA FinishReconnectRejoins ==
  ASSUME NEW o, NEW e, "revoke" \notin e, Whole(o), ~o.gate, Caught([o EXCEPT !.resending = 0])
  PROVE  Rejoined(FinishReconnect(o, e))
<1> DEFINE n == [o EXCEPT !.resending = 0]
           c == CompleteDurable(n, e)
<1>1. Caught(n) /\ Whole(n) /\ ~n.gate BY DEF Whole, Fields
<1> HIDE DEF n
<1>2. Orderly(c) BY <1>1, CompleteDurableOrders
<1>3. Whole(c) /\ ~c.gate
  <2> DEFINE enable == FALSE
  <2>1. c \in {n, Complete(n, enable, e)} BY DEF CompleteDurable
  <2>2. ~enable OBVIOUS
  <2> HIDE DEF enable
  <2>3. Bars(n, Complete(n, enable, e)) BY <1>1, <2>2, CompleteBars
  <2>4. QED BY <1>1, <2>1, <2>3 DEF Bars, Holds
<1>4. Sequence(c.deferred) BY <1>2, OrderlyTyped DEF Typed
<1> HIDE DEF c
<1>5. Rejoined(Reconciled(c, e)) BY <1>3, <1>4, ReconciledRejoins
<1>6. QED BY <1>5 DEF FinishReconnect, c, n

LEMMA UnreconciledRejoins ==
  ASSUME NEW o, NEW was, Whole(o), ~o.gate PROVE Rejoined(Unreconciled(o, was))
<1> DEFINE owing == IF was = "Running" /\ o.state = "Parked" THEN DeferBrokerLossPark(o) ELSE o
           narrow == Narrowed(owing)
<1>1. Whole(owing) /\ ~owing.gate BY DeferBrokerLossParkBars DEF Bars, Holds
<1> HIDE DEF owing
<1>2. Whole(narrow) /\ ~narrow.gate BY <1>1, NarrowedBars DEF Bars, Holds
<1> HIDE DEF narrow
<1>3. Rejoined([narrow EXCEPT !.conn = "Connected"]) BY <1>2 DEF Rejoined, Whole, Fields
<1>4. Over(o) => Rejoined(o) BY DEF Rejoined
<1>5. QED BY <1>3, <1>4 DEF Unreconciled, narrow, owing

LEMMA FailReconciliationRejoins ==
  ASSUME NEW o, NEW e, "revoke" \notin e, Whole(o), ~o.gate
  PROVE  Rejoined(FailReconciliation(o, e))
<1> DEFINE n == [o EXCEPT !.resending = 0, !.blocked = TRUE]
           m == ParkForReconciliation(n, e)
<1>1. Whole(n) /\ ~n.gate BY DEF Whole, Fields
<1> HIDE DEF n
<1>2. Whole(m) /\ ~m.gate BY <1>1, ParkForReconciliationBars DEF Bars, Holds
<1> HIDE DEF m
<1>3. Rejoined(Unreconciled(m, o.state)) BY <1>2, UnreconciledRejoins
<1>4. QED BY <1>3 DEF FailReconciliation, m, n

LEMMA FailUnfrozenRejoins ==
  ASSUME NEW o, NEW e, "revoke" \notin e, Whole(o), ~o.gate
  PROVE  Rejoined(FailUnfrozen(o, e))
<1>1. Over(o) => Rejoined(o) BY DEF Rejoined
<1>2. QED BY <1>1, FailReconciliationRejoins DEF FailUnfrozen

LEMMA SendBars == ASSUME NEW o, NEW i, Whole(o) PROVE Bars(o, Send(o, i))
  BY DEF Send, Bars, Holds, Whole, Fields, Over, Doing

LEMMA CatchUpRejoins ==
  ASSUME NEW o, NEW head \in Nat, NEW e, "revoke" \notin e, Whole(o), ~o.gate
  PROVE  Rejoined(CatchUp(o, head, e))
<1> DEFINE f == FreezeOwing(o, e)
           n == [f EXCEPT !.conn = "Reconciling", !.resending = head + 1]
           p == ParkForReconciliation(o, e)
<1>1. Whole(f) /\ ~f.gate BY FreezeOwingBars DEF Bars, Holds
<1> HIDE DEF f
<1>2. Rejoined(n)
  <2>1. head + 1 # 0 OBVIOUS
  <2>2. Whole(n) /\ ~n.gate /\ n.conn = "Reconciling" /\ n.resending = head + 1
    BY <1>1 DEF Whole, Fields
  <2> HIDE DEF n
  <2>3. QED BY <2>1, <2>2 DEF Rejoined
<1> HIDE DEF n
<1>3. Rejoined(Send(n, head + 1)) BY <1>2, SendBars, BarsRejoined DEF Rejoined
<1>4. Whole(p) /\ ~p.gate BY ParkForReconciliationBars DEF Bars, Holds
<1> HIDE DEF p
<1>5. Rejoined(FailUnfrozen(p, e)) BY <1>4, FailUnfrozenRejoins
<1>6. QED BY <1>3, <1>5 DEF CatchUp, n, f, p

LEMMA FailDrainingRejoins ==
  ASSUME NEW o, Whole(o), ~o.gate PROVE Rejoined(FailDraining(o))
  BY DEF FailDraining, Rejoined, Whole, Fields
-----------------------------------------------------------------------------
(* What stands behind an open gate, and what a connection owes *)

\* A connection that is reconciled has something to wait for, and one that is
\* lost, with no checkpoint at hand, has no acknowledgement to read.
Linked(o) ==
    ~Over(o) /\ ~o.withdrawn =>
        /\ o.conn = "Reconciling" => o.draining # NoOp \/ o.resending # 0
        /\ o.conn \in {"Grace", "Disconnected"} /\ o.offer = 0 => o.acks = <<>>
\* Commands pass in a running, connected Session all of whose Resumes are known
\* to be stored; no other Resume is under way.
GateOK(o) ==
    o.gate =>
        /\ o.state = "Running" /\ ~o.suspended /\ o.conn = "Connected" /\ ~o.withdrawn
        /\ Doing(o, "Resume") => o.pending.phase = "Activating"
        /\ \A i \in 1 .. Tip(o) : o.receipts[i].kind = "Resume" => i <= o.brokerHead
Guarding(o) == Linked(o) /\ GateOK(o)

LEMMA BarsGuards == ASSUME NEW o, NEW n, Guarding(o), Bars(o, n) PROVE Guarding(n)
<1>1. Linked(n) BY DEF Guarding, Linked, Bars, Holds
<1>2. GateOK(n)
  <2>1. Tip(n) = Tip(o) BY DEF Bars, Holds, Tip
  <2>2. QED BY <2>1 DEF Guarding, GateOK, Bars, Holds, Doing
<1>3. QED BY <1>1, <1>2 DEF Guarding

LEMMA RejoinedGuards == ASSUME NEW n, Rejoined(n) PROVE Guarding(n)
  BY DEF Rejoined, Guarding, Linked, GateOK

LEMMA UnconnectedIsShut == ASSUME NEW o, Guarding(o), o.conn # "Connected" PROVE ~o.gate
  BY DEF Guarding, GateOK

LEMMA LoseBrokerGuards ==
  ASSUME NEW o, NEW e, "revoke" \notin e, Whole(o), Guarding(o)
  PROVE  Guarding(LoseBroker(o, e))
<1> DEFINE a == Revoke(o, e)
           b == Narrowed(a)
           mute == {[r EXCEPT !.live = FALSE] : r \in b.replies}
           d == [b EXCEPT !.resending = 0, !.draining = NoOp, !.settling = FALSE,
                          !.conn = "Grace", !.acks = <<>>, !.trying = TRUE, !.replies = mute]
           g == FailGuarded(d, e)
           n == [g EXCEPT !.offered = Tip(g)]
<1>1. Whole(a) /\ ~a.gate BY RevokeBars DEF Bars, Holds
<1> HIDE DEF a
<1>2. Whole(b) /\ ~b.gate BY <1>1, NarrowedBars DEF Bars, Holds
<1>3. Detached(o, e) = d BY <1>2 DEF Detached, Whole, Fields, a
<1> HIDE DEF b, mute
<1>4. Whole(d) /\ ~d.gate /\ d.conn = "Grace" /\ d.acks = <<>> BY <1>2 DEF Whole, Fields
<1> HIDE DEF d
<1>5. Guarding(d) BY <1>4 DEF Guarding, Linked, GateOK
<1>6. Bars(d, g) BY <1>4, FailReceiptBars, BarsSelf DEF FailGuarded
<1> HIDE DEF g
<1>7. Bars(g, n) BY <1>6 DEF Bars, Holds, Whole, Fields, Over, Doing
<1>8. Guarding(n) BY <1>5, <1>6, <1>7, BarsGuards
<1>9. QED BY <1>3, <1>8 DEF LoseBroker, Offering, Offered, n, g

LEMMA DisconnectedGuards ==
  ASSUME NEW o, Whole(o), Guarding(o), o.conn = "Grace"
  PROVE  /\ Guarding([o EXCEPT !.conn = "Disconnected"])
         /\ Whole([o EXCEPT !.conn = "Disconnected"])
<1> DEFINE n == [o EXCEPT !.conn = "Disconnected"]
<1>1. ~o.gate BY UnconnectedIsShut
<1>2. /\ Whole(n) /\ ~n.gate /\ n.conn = "Disconnected" /\ n.offer = o.offer
      /\ n.acks = o.acks /\ n.withdrawn = o.withdrawn /\ (Over(n) <=> Over(o))
  BY <1>1 DEF Whole, Fields, Over
<1> HIDE DEF n
<1>3. Guarding(n) BY <1>2 DEF Guarding, Linked, GateOK
<1>4. QED BY <1>2, <1>3 DEF n

LEMMA GraceExpiredGuards ==
  ASSUME NEW o, NEW e, "revoke" \notin e, Whole(o), Guarding(o), o.conn = "Grace"
  PROVE  Guarding(GraceExpired(o, e))
<1> DEFINE f == FailReceipt(o, e)
           m == ParkForReconciliation(f, e)
           gone == [m EXCEPT !.conn = "Disconnected"]
<1>1. Bars(o, f) BY FailReceiptBars
<1>2. Whole(f) /\ Guarding(f) /\ f.conn = "Grace" /\ ~f.gate
  BY <1>1, BarsGuards, UnconnectedIsShut DEF Bars, Holds
<1> HIDE DEF f
<1>3. Guarding([f EXCEPT !.conn = "Disconnected"]) BY <1>2, DisconnectedGuards
<1>4. Bars(f, m) BY <1>2, ParkForReconciliationBars
<1>5. Whole(m) /\ Guarding(m) /\ m.conn = "Grace" BY <1>2, <1>4, BarsGuards DEF Bars, Holds
<1> HIDE DEF m
<1>6. Guarding(gone) /\ Whole(gone) BY <1>5, DisconnectedGuards
<1> HIDE DEF gone
<1>7. Guarding(BeginCausedPark(gone, <<"broker">>, e))
  BY <1>6, BeginCausedParkBars, BarsGuards
<1>8. QED BY <1>3, <1>5, <1>6, <1>7
  DEF GraceExpired, Unreachable, ParkUnreachable, f, m, gone

LEMMA SuspendConformanceBars ==
  ASSUME NEW o, NEW contained, NEW e, "revoke" \notin e, Whole(o)
  PROVE  Bars(o, SuspendConformance(o, contained, e))
<1> DEFINE n == [o EXCEPT !.contained = @ \/ contained]
           shut == Shut(n, e)
           m == [shut EXCEPT !.suspended = TRUE]
           frozen == AttemptPark(m, e)
           failed == FailReceipt(frozen, e)
           owing == OweSuspension(failed, OwesPark(o))
<1>1. Bars(o, n) BY DEF Bars, Holds, Whole, Fields, Over, Doing
<1> HIDE DEF n
<1>2. Bars(n, shut) /\ ~shut.gate BY <1>1, ShutBars DEF Bars, Holds
<1> HIDE DEF shut
<1>3. Bars(shut, m) /\ ~m.gate BY <1>2 DEF Bars, Holds, Whole, Fields, Over
<1> HIDE DEF m
<1>4. Bars(m, frozen) BY <1>3, AttemptParkBars DEF Bars, Holds
<1>5. Bars(o, frozen) BY <1>1, <1>2, <1>3, <1>4, BarsTrans
<1> HIDE DEF frozen
<1>6. Bars(o, failed) BY <1>5, FailReceiptBars, BarsTrans DEF Bars, Holds
<1> HIDE DEF failed
<1>7. Bars(failed, owing) BY <1>6, DeferBars, BarsSelf DEF OweSuspension, Bars, Holds
<1>8. Bars(o, owing) BY <1>6, <1>7, BarsTrans
<1> HIDE DEF owing
<1>9. Bars(o, QuarantineMechanic(frozen, o.pending, e))
  BY <1>5, QuarantineMechanicBars, BarsTrans DEF Bars, Holds
<1>10. Bars(o, BeginCausedPark(frozen, <<"conformance">>, e))
  BY <1>5, BeginCausedParkBars, BarsTrans DEF Bars, Holds
<1>11. SuspendConformance(o, contained, e) \in
         {n, frozen, QuarantineMechanic(frozen, o.pending, e),
          BeginCausedPark(frozen, <<"conformance">>, e), owing}
  BY DEF SuspendConformance, owing, failed, frozen, m, shut, n
<1>12. QED BY <1>1, <1>5, <1>8, <1>9, <1>10, <1>11

LEMMA WithdrawKeyAuthorityGuards ==
  ASSUME NEW o, NEW e, "revoke" \notin e, Whole(o) PROVE Guarding(WithdrawKeyAuthority(o, e))
<1> DEFINE a == Revoke(o, e)
           b == [a EXCEPT !.withdrawn = TRUE, !.blocked = TRUE, !.channel = "Revoked"]
           n == AttemptPark(b, e)
           m == [n EXCEPT !.conn = "Disconnected", !.trying = FALSE, !.wire = <<>>, !.acks = <<>>]
<1>1. Whole(a) /\ ~a.gate BY RevokeBars DEF Bars, Holds
<1> HIDE DEF a
<1>2. Whole(b) /\ ~b.gate /\ b.withdrawn BY <1>1 DEF Whole, Fields
<1> HIDE DEF b
<1>3. Whole(n) /\ ~n.gate /\ n.withdrawn BY <1>2, AttemptParkHolds DEF Holds
<1> HIDE DEF n
<1>4. Whole(m) /\ ~m.gate /\ m.withdrawn BY <1>3 DEF Whole, Fields
<1> HIDE DEF m
<1>5. Guarding(m) BY <1>4 DEF Guarding, Linked, GateOK
<1>6. Guarding(QuarantineMechanic(m, NoOp, e)) BY <1>4, <1>5, QuarantineMechanicBars, BarsGuards
<1>7. QED BY <1>5, <1>6 DEF WithdrawKeyAuthority, m, n, b, a

LEMMA ReconnectedRejoins ==
  ASSUME NEW o, NEW head, NEW e, "revoke" \notin e, Orderly(o), Alone(o), ~o.gate,
         head \in o.brokerHead .. Tip(o)
  PROVE  Rejoined(Reconnected(o, head, e))
<1> DEFINE n == [o EXCEPT !.brokerHead = head, !.trying = FALSE]
           f == FailReceipt(n, e)
<1>1. n = [o EXCEPT !.brokerHead = head, !.trying = FALSE] OBVIOUS
<1>2. Whole(n) /\ ~n.gate BY OrderlyTyped, TypedWhole DEF Whole, Fields
<1> HIDE DEF n
<1>3. head = Tip(n) => Caught([n EXCEPT !.resending = 0]) BY <1>1, CheckpointFits
<1>4. ASSUME head = Tip(n) PROVE Rejoined(FinishReconnect(n, e))
  BY <1>2, <1>3, <1>4, FinishReconnectRejoins
<1>5. Whole(f) /\ ~f.gate BY <1>2, FailReceiptBars DEF Bars, Holds
<1> HIDE DEF f
<1>6. head \in Nat
  <2>1. o.brokerHead \in 1 .. Tip(o) /\ Tip(o) \in Nat BY OrderlyTyped, Counts DEF Typed
  <2>2. QED BY <2>1
<1>7. Rejoined(CatchUp(f, head, e)) BY <1>5, <1>6, CatchUpRejoins
<1>8. QED BY <1>4, <1>7 DEF Reconnected, n, f

\* The one place that opens the gate: the broker has just stored the Resume,
\* and it is the last receipt there is.
LEMMA OpenedGuards ==
  ASSUME NEW o, NEW i \in Nat, NEW e, "revoke" \notin e, Orderly(o), Guarding(o), ~o.withdrawn,
         ~o.quarantined, o.draining = NoOp, o.resending = 0,
         Over(o) \/ o.conn \notin {"Grace", "Disconnected"},
         o.pending.phase = "AwaitingDurableAck", o.pending.index = i
  PROVE  Guarding(Complete([o EXCEPT !.brokerHead = i], TRUE, e))
<1> DEFINE n == [o EXCEPT !.brokerHead = i]
           a == [n EXCEPT !.pending.phase = "Activating"]
           g == [a EXCEPT !.gate = TRUE]
           enable == TRUE
<1>0. Typed(o) /\ Under(o) /\ Tip(o) \in Nat /\ o.brokerHead \in 1 .. Tip(o)
  BY OrderlyTyped, Counts DEF Orderly, Typed
<1>1. o.pending # NoOp /\ UnderWay(o.pending) BY <1>0 DEF NoOp, Typed
<1>2. i = Tip(o) /\ o.brokerHead <= i BY <1>0, <1>1 DEF Under
<1>3. /\ Whole(n) /\ n.pending = o.pending /\ n.state = o.state /\ n.gate = o.gate
      /\ n.suspended = o.suspended /\ n.conn = o.conn /\ n.withdrawn = o.withdrawn
      /\ n.receipts = o.receipts /\ n.brokerHead = i /\ n.draining = o.draining
      /\ n.resending = o.resending /\ n.acks = o.acks /\ n.offer = o.offer
      /\ n.quarantined = o.quarantined
  BY <1>0, TypedWhole DEF Whole, Fields
<1>4. ASSUME Activates(n), Complete(n, enable, e) = g PROVE Guarding(g)
  <2>1. /\ o.state = "Running" /\ ~o.suspended BY <1>3, <1>4 DEF Activates
  <2>2. o.conn = "Connected"
    BY <1>0, <2>1 DEF Typed, Over, Guarding, Linked
  <2>3. /\ g.state = "Running" /\ ~g.suspended /\ g.conn = "Connected" /\ ~g.withdrawn
        /\ g.pending.phase = "Activating" /\ g.receipts = o.receipts /\ g.brokerHead = i
    BY <1>1, <1>3, <2>1, <2>2 DEF Whole, Fields, UnderWay
  <2> HIDE DEF g
  <2>4. Tip(g) = i BY <1>2, <2>3 DEF Tip
  <2>5. \A j \in 1 .. Tip(g) : j <= g.brokerHead BY <2>3, <2>4
  <2>6. GateOK(g) BY <2>3, <2>5 DEF GateOK
  <2>7. QED BY <2>3, <2>6 DEF Guarding, Linked
<1>5. ASSUME ~Activates(n) PROVE Guarding(Complete(n, enable, e))
  <2>1. Guarding(n)
    <3>1. Linked(n) BY <1>3 DEF Guarding, Linked, Over
    <3>2. Tip(n) = Tip(o) BY <1>3 DEF Tip
    <3>3. \A j \in 1 .. Tip(n) : j <= n.brokerHead BY <1>2, <1>3, <3>2
    <3>4. GateOK(n) BY <1>3, <3>3 DEF Guarding, GateOK, Doing
    <3>5. QED BY <3>1, <3>4 DEF Guarding
  <2> HIDE DEF n, enable
  <2>2. Bars(n, Complete(n, enable, e)) BY <1>3, <1>5, CompleteBars
  <2>3. QED BY <2>1, <2>2, BarsGuards
<1>6. Activates(n) => Complete(n, enable, e) = g BY DEF Complete
<1> HIDE DEF g
<1>7. Guarding(Complete(n, enable, e)) BY <1>4, <1>5, <1>6
<1>8. QED BY <1>7

LEMMA AcknowledgedGuards ==
  ASSUME NEW o, NEW i \in Nat \ {0}, NEW e, "revoke" \notin e, Orderly(o), Guarding(o),
         ~o.withdrawn, ~o.quarantined, o.offer = 0,
         Over(o) \/ o.conn \notin {"Grace", "Disconnected"}
  PROVE  Guarding(Acknowledged(o, i, e))
<1>1. Typed(o) /\ Fit(o) /\ Whole(o) BY OrderlyTyped, TypedWhole
<1>2. CASE o.draining # NoOp
  <2> DEFINE n == [o EXCEPT !.brokerHead = i, !.draining = NoOp]
  <2>1. ~o.gate /\ o.conn = "Reconciling"
    BY <1>1, <1>2, UnconnectedIsShut DEF Fit, Conns
  <2>2. Whole(n) /\ ~n.gate BY <1>1, <2>1 DEF Whole, Fields
  <2>3. o.draining.index = i => Free(n) /\ n.conn = "Reconciling"
    <3>1. n = [o EXCEPT !.brokerHead = i, !.draining = NoOp] OBVIOUS
    <3> HIDE DEF n
    <3>2. QED BY <1>2, <3>1, DrainedFrees
  <2> HIDE DEF n
  <2>4. ASSUME Free(n) PROVE Rejoined(FinishReconnect(n, e))
    <3>1. Caught(n) BY <2>4 DEF Free, Caught
    <3>2. QED BY <2>2, <3>1, CaughtStops, FinishReconnectRejoins
  <2>5. ASSUME n.conn = "Reconciling", n.deferred # <<>> PROVE Rejoined(StartDraining(n))
    BY <2>2, <2>5, StartDrainingRejoins
  <2>6. Acknowledged(o, i, e) =
          IF o.draining.index # i THEN FailDraining(o)
          ELSE IF n.deferred = <<>> THEN FinishReconnect(n, e) ELSE StartDraining(n)
    BY <1>2 DEF Acknowledged, n
  <2>7. Rejoined(FailDraining(o)) BY <1>1, <2>1, FailDrainingRejoins
  <2>8. Rejoined(Acknowledged(o, i, e)) BY <2>3, <2>4, <2>5, <2>6, <2>7
  <2>9. QED BY <2>8, RejoinedGuards
<1>3. CASE o.draining = NoOp /\ o.resending # 0
  <2> DEFINE n == [o EXCEPT !.brokerHead = i]
             s == [n EXCEPT !.resending = i + 1]
  <2>1. ~o.gate /\ o.conn = "Reconciling"
    BY <1>1, <1>3, UnconnectedIsShut DEF Fit, Conns
  <2>2. Whole(n) /\ ~n.gate /\ n.conn = "Reconciling" BY <1>1, <2>1 DEF Whole, Fields
  <2>3. ASSUME i = o.resending PROVE Free([n EXCEPT !.resending = 0])
    <3>1. n = [o EXCEPT !.brokerHead = i] OBVIOUS
    <3> HIDE DEF n
    <3>2. QED BY <1>3, <2>3, <3>1, ResentFrees, ZenonT(60)
  <2> HIDE DEF n
  <2>4. ASSUME i = o.resending PROVE Rejoined(FinishReconnect(n, e))
    <3>1. Caught([n EXCEPT !.resending = 0]) BY <2>3, <2>4 DEF Free, Caught
    <3>2. QED BY <2>2, <3>1, FinishReconnectRejoins
  <2>5. Rejoined(Send(s, i + 1))
    <3>1. i + 1 # 0 OBVIOUS
    <3>2. Rejoined(s) BY <2>2, <3>1 DEF Rejoined, Whole, Fields
    <3> HIDE DEF s
    <3>3. QED BY <3>2, SendBars, BarsRejoined DEF Rejoined
  <2>6. Acknowledged(o, i, e) =
          IF i # o.resending THEN FailReconciliation(o, e)
          ELSE IF i < Tip(o) THEN Send(s, i + 1) ELSE FinishReconnect(n, e)
    BY <1>3 DEF Acknowledged, n
  <2> HIDE DEF s
  <2>7. Rejoined(FailReconciliation(o, e)) BY <1>1, <2>1, FailReconciliationRejoins
  <2>8. Rejoined(Acknowledged(o, i, e)) BY <2>4, <2>5, <2>6, <2>7
  <2>9. QED BY <2>8, RejoinedGuards
<1>4. CASE o.draining = NoOp /\ o.resending = 0
  <2> DEFINE c == Complete([o EXCEPT !.brokerHead = i], TRUE, e)
  <2>1. ASSUME o.pending.phase = "AwaitingDurableAck", o.pending.index = i PROVE Guarding(c)
    BY <1>4, <2>1, OpenedGuards
  <2>2. Guarding(FailReceipt(o, e)) BY <1>1, FailReceiptBars, BarsGuards
  <2>3. Acknowledged(o, i, e) =
          IF o.pending.phase \in {"None", "Activating"} THEN o
          ELSE IF o.pending.phase = "AwaitingDurableAck" /\ o.pending.index = i THEN c
          ELSE FailReceipt(o, e)
    BY <1>4 DEF Acknowledged
  <2> HIDE DEF c
  <2>4. QED BY <2>1, <2>2, <2>3
<1>5. QED BY <1>2, <1>3, <1>4

LEMMA LuckRevokes == ASSUME "revoke" \notin Faults PROVE \A e \in Luck : "revoke" \notin e
  BY DEF Luck

LEMMA RequestedGuards ==
  ASSUME Orderly(owner), Guarding(owner), "revoke" \notin Faults, NEW q, Requested(q)
  PROVE  Guarding(owner')
<1>0. Fit(owner) /\ Typed(owner) /\ Whole(owner) BY OrderlyTyped, TypedWhole
<1>1. CASE Repeat(q)
  <2>1. PICK f : \E h : owner' = Reply(owner, f, h) BY <1>1 DEF Repeat, Handle
  <2>2. QED BY <1>0, <2>1, ReplyBars, BarsGuards
<1>2. CASE RejectFull(q)
  <2>1. PICK e \in Luck : owner' = [Narrowed(Revoke(owner, e)) EXCEPT !.blocked = TRUE]
    BY <1>2 DEF RejectFull, Handle
  <2> DEFINE a == Revoke(owner, e)
             n == Narrowed(a)
  <2>2. Bars(owner, a) BY <1>0, RevokeBars, LuckRevokes
  <2> HIDE DEF a
  <2>3. Bars(a, n) BY <2>2, NarrowedBars DEF Bars, Holds
  <2> HIDE DEF n
  <2>4. Bars(n, [n EXCEPT !.blocked = TRUE])
    BY <2>3 DEF Bars, Holds, Whole, Fields, Over, Doing
  <2>5. Bars(owner, [n EXCEPT !.blocked = TRUE]) BY <2>2, <2>3, <2>4, BarsTrans
  <2>6. QED BY <2>1, <2>5, BarsGuards DEF n, a
<1>3. CASE Park(q)
  BY <1>0, <1>3, LuckRevokes, BeginParkBars, BarsGuards DEF Park, Handle
<1>4. CASE Interrupt(q)
  BY <1>0, <1>4, LuckRevokes, BeginInterruptBars, BarsGuards DEF Interrupt, Handle
<1>5. CASE Dispose(q)
  <2> DEFINE n == CancelWait(owner)
             m(e) == IF Preparing(n) THEN FailPreparation(n, e) ELSE n
  <2>1. PICK e \in Luck :
          owner' = IF Preparing(n) /\ (m(e).state # "Parked" \/ m(e).unproven) THEN m(e)
                   ELSE BeginDisposal(m(e), q, e)
    BY <1>5 DEF Dispose, Handle
  <2>0. "revoke" \notin e BY LuckRevokes
  <2>2. Bars(owner, n) BY <1>0, CancelWaitBars
  <2> HIDE DEF n
  <2>3. Bars(n, m(e)) BY <2>0, <2>2, FailPreparationBars, BarsSelf DEF Bars, Holds
  <2> HIDE DEF m
  <2>4. Bars(owner, m(e)) BY <2>2, <2>3, BarsTrans
  <2>5. Bars(owner, BeginDisposal(m(e), q, e))
    BY <2>0, <2>4, BeginDisposalBars, BarsTrans DEF Bars, Holds
  <2>6. Bars(owner, owner') BY <2>1, <2>4, <2>5
  <2>7. QED BY <2>6, BarsGuards
<1>6. CASE Resume(q)
  <2>1. owner.state = "Parked" /\ owner' \in {[owner EXCEPT !.wait = q], Applying(owner, q)}
    BY <1>6 DEF Resume, Admitted, Cancels, Transition, BeginResume, Handle
  <2>2. ~owner.gate BY <2>1 DEF Guarding, GateOK
  <2>3. Bars(owner, [owner EXCEPT !.wait = q])
    BY <1>0 DEF Bars, Holds, Whole, Fields, Over, Doing
  <2>4. Bars(owner, Applying(owner, q)) BY <1>0, <2>2, ApplyingHolds, ShutBarsAll
  <2>5. Bars(owner, owner') BY <2>1, <2>3, <2>4
  <2>6. QED BY <2>5, BarsGuards
<1>7. QED BY <1>1, <1>2, <1>3, <1>4, <1>5, <1>6 DEF Requested

LEMMA PreparedGuards ==
  ASSUME Orderly(owner), Guarding(owner), "revoke" \notin Faults, Prepared
  PROVE  Guarding(owner')
<1> DEFINE running == [owner EXCEPT !.state = "Running", !.tree = "running",
                                    !.pending.phase = "Signing"]
           unknown == [owner EXCEPT !.tree = "unknown"]
           f(e) == FailMechanic(owner, e)
           gone(e) == [f(e) EXCEPT !.tree = "gone"]
<1>0. Whole(owner) /\ owner.state = "Parked" /\ ~owner.gate
  BY OrderlyTyped, TypedWhole DEF Prepared, Preparing, Guarding, GateOK
<1>1. PICK e \in Luck :
        owner' \in {FailPreparation(owner, e), BeginTerminalEvent(gone(e), "ok", e),
                    QuarantineMechanic(unknown, owner.pending, e), running}
  BY DEF Prepared, Handle
<1>2. "revoke" \notin e BY LuckRevokes
<1>3. Bars(owner, running) BY <1>0 DEF Bars, Holds, Whole, Fields, Over
<1>4. Bars(owner, unknown) BY <1>0 DEF Bars, Holds, Whole, Fields, Over, Doing
<1> HIDE DEF running, unknown
<1>5. Bars(owner, f(e)) BY <1>0, <1>2, FailMechanicBars
<1> HIDE DEF f
<1>6. Bars(f(e), gone(e)) BY <1>5 DEF Bars, Holds, Whole, Fields, Over, Doing
<1> HIDE DEF gone
<1>7. Bars(owner, BeginTerminalEvent(gone(e), "ok", e))
  BY <1>5, <1>6, BeginTerminalEventBars, BarsTrans DEF Bars, Holds
<1>8. Bars(owner, QuarantineMechanic(unknown, owner.pending, e))
  BY <1>4, QuarantineMechanicBars, BarsTrans DEF Bars, Holds
<1>9. Bars(owner, FailPreparation(owner, e)) BY <1>0, <1>2, FailPreparationBars
<1>10. Bars(owner, owner') BY <1>1, <1>3, <1>7, <1>8, <1>9
<1>11. QED BY <1>10, BarsGuards

\* The receipt signed behind an open gate is no Resume.
LEMMA SignedGuards ==
  ASSUME Orderly(owner), Guarding(owner), Signed PROVE Guarding(owner')
<1> DEFINE r == Receipt(owner.pending.pay, owner.pending.seq)
           i == Tip(owner) + 1
           n == [owner EXCEPT !.receipts = Append(@, r),
                    !.pending.phase = "AwaitingDurableAck", !.pending.index = i]
<1>0. Typed(owner) /\ Whole(owner) /\ Tip(owner) \in Nat
  BY OrderlyTyped, TypedWhole, Counts
<1>1. owner' = Send(n, i) /\ owner.pending.phase = "Signing" BY DEF Signed, Handle
<1>2. owner.pending # NoOp /\ UnderWay(owner.pending) BY <1>0, <1>1 DEF Typed, NoOp
<1>3. r.kind = owner.pending.pay.kind BY DEF Receipt
<1> HIDE DEF r
<1>4. PICK S : owner.receipts \in Seq(S) BY <1>0 DEF Typed, Sequence
<1>5. /\ Whole(n) /\ n.receipts = Append(owner.receipts, r) /\ n.gate = owner.gate
      /\ n.state = owner.state /\ n.suspended = owner.suspended /\ n.conn = owner.conn
      /\ n.withdrawn = owner.withdrawn /\ n.brokerHead = owner.brokerHead
      /\ n.draining = owner.draining /\ n.resending = owner.resending
      /\ n.offer = owner.offer /\ n.acks = owner.acks /\ n.quarantined = owner.quarantined
      /\ n.pending.pay = owner.pending.pay
  BY <1>0, <1>2 DEF Whole, Fields, UnderWay
<1> HIDE DEF n
<1>6. Linked(n) BY <1>5 DEF Guarding, Linked, Over
<1>7. ASSUME n.gate PROVE owner.pending.pay.kind # "Resume"
  BY <1>1, <1>2, <1>5, <1>7 DEF Guarding, GateOK, Doing
<1>8. \A j \in 1 .. Tip(n) :
        \/ j \in 1 .. Tip(owner) /\ n.receipts[j] = owner.receipts[j]
        \/ n.receipts[j] = r
  BY <1>0, <1>4, <1>5 DEF Tip
<1>9. GateOK(n)
  BY <1>3, <1>5, <1>7, <1>8 DEF Guarding, GateOK, Doing
<1>10. QED BY <1>1, <1>5, <1>6, <1>9, SendBars, BarsGuards DEF Guarding

LEMMA DrainSignedGuards ==
  ASSUME Orderly(owner), Guarding(owner), DrainSigned PROVE Guarding(owner')
<1> DEFINE r == Receipt(owner.draining.pay, owner.draining.seq)
           i == Tip(owner) + 1
           n == [owner EXCEPT !.receipts = Append(@, r), !.deferred = Tail(@),
                    !.draining.phase = "AwaitingDurableAck", !.draining.index = i]
<1>0. Whole(owner) /\ Fit(owner) BY OrderlyTyped, TypedWhole
<1>1. owner' = Send(n, i) /\ owner.draining.phase = "Signing" BY DEF DrainSigned, Handle
<1>2. /\ owner.draining # NoOp /\ {"phase", "index"} \subseteq DOMAIN owner.draining
      /\ owner.conn = "Reconciling"
  BY <1>0, <1>1 DEF Fit, Drains, Conns, NoOp, DrainSigned, Live
<1>3. ~owner.gate BY <1>2, UnconnectedIsShut
<1> HIDE DEF r
<1>4. Whole(n) /\ ~n.gate /\ n.conn = "Reconciling" /\ n.draining.phase = "AwaitingDurableAck"
  BY <1>0, <1>2, <1>3 DEF Whole, Fields
<1> HIDE DEF n
<1>5. Guarding(n) BY <1>4 DEF Guarding, Linked, GateOK, NoOp
<1>6. QED BY <1>1, <1>4, <1>5, SendBars, BarsGuards

LEMMA OperationGuards ==
  ASSUME Orderly(owner), Heads(owner, stored), Guarding(owner), "revoke" \notin Faults,
         OperationFails \/ Activated \/ ReceiveAck \/ DrainFails
  PROVE  Guarding(owner')
<1>0. Whole(owner) /\ Typed(owner) BY OrderlyTyped, TypedWhole
<1>1. CASE OperationFails
  BY <1>0, <1>1, LuckRevokes, FailReceiptBars, BarsGuards DEF OperationFails, Handle
<1>2. CASE Activated
  <2> DEFINE n == [owner EXCEPT !.channel = "Enabled"]
             enable == FALSE
  <2>1. PICK e \in Luck : owner' \in {FailReceipt(owner, e), Complete(n, enable, e)}
    BY <1>2 DEF Activated, Handle
  <2>2. ~enable /\ "revoke" \notin e BY LuckRevokes
  <2>3. Bars(owner, n) BY <1>0 DEF Bars, Holds, Whole, Fields, Over, Doing
  <2> HIDE DEF n, enable
  <2>4. Bars(owner, Complete(n, enable, e))
    BY <2>2, <2>3, CompleteBars, BarsTrans DEF Bars, Holds
  <2>5. Bars(owner, FailReceipt(owner, e)) BY <1>0, <2>2, FailReceiptBars
  <2>6. QED BY <2>1, <2>4, <2>5, BarsGuards
<1>3. CASE ReceiveAck
  <2> DEFINE n == [owner EXCEPT !.acks = Tail(@)]
             i == owner.acks[1]
  <2>1. PICK e \in Luck : owner' \in {n, Acknowledged(n, i, e)}
                          /\ (owner' # n => ~owner.quarantined)
    BY <1>3 DEF ReceiveAck, Handle
  <2>2. owner.acks # <<>> /\ owner.offer = 0 /\ ~owner.withdrawn
    BY <1>3 DEF ReceiveAck, Live
  <2>3. Over(owner) \/ owner.conn \notin {"Grace", "Disconnected"}
    BY <2>2 DEF Guarding, Linked
  <2>4. Eases(owner, n) BY <1>0 DEF Eases, Still, Typed, Fields, Tip, Gap
  <2>5. /\ Whole(n) /\ n.receipts = owner.receipts /\ n.brokerHead = owner.brokerHead
        /\ n.gate = owner.gate /\ n.state = owner.state /\ n.suspended = owner.suspended
        /\ n.conn = owner.conn /\ n.offer = owner.offer /\ n.withdrawn = owner.withdrawn
        /\ n.draining = owner.draining /\ n.resending = owner.resending
        /\ n.pending = owner.pending /\ n.quarantined = owner.quarantined
        /\ Tip(n) = Tip(owner)
    BY <1>0 DEF Whole, Fields, Tip
  <2> HIDE DEF n
  <2>6. Orderly(n) BY <2>4, EasesOrderly
  <2>7. Guarding(n)
    <3>1. Linked(n) BY <2>3, <2>5 DEF Guarding, Linked, Over
    <3>2. GateOK(n) BY <2>5 DEF Guarding, GateOK, Doing
    <3>3. QED BY <3>1, <3>2 DEF Guarding
  <2>8. i \in Nat \ {0}
    <3>1. owner.acks \in Seq(1 .. stored) BY DEF Heads
    <3>2. Len(owner.acks) \in Nat \ {0} BY <2>2, <3>1, EmptySeq
    <3>3. 1 \in 1 .. Len(owner.acks) BY <3>2
    <3>4. owner.acks[1] \in 1 .. stored BY <3>1, <3>3, ElementOfSeq
    <3>5. QED BY <3>4 DEF Heads
  <2> HIDE DEF i
  <2>9. ASSUME ~n.quarantined PROVE Guarding(Acknowledged(n, i, e))
    <3>1. /\ "revoke" \notin e /\ n.offer = 0 /\ ~n.withdrawn
          /\ Over(n) \/ n.conn \notin {"Grace", "Disconnected"}
      BY <2>2, <2>3, <2>5, LuckRevokes DEF Over
    <3>2. QED BY <2>6, <2>7, <2>8, <2>9, <3>1, AcknowledgedGuards
  <2>10. QED BY <2>1, <2>5, <2>7, <2>9
<1>4. CASE DrainFails
  <2>1. owner.draining # NoOp /\ ~owner.withdrawn /\ owner' = FailDraining(owner)
    BY <1>4 DEF DrainFails, Live, Handle
  <2>2. owner.conn = "Reconciling" BY <2>1, OrderlyTyped DEF Fit, Conns
  <2>3. ~owner.gate BY <2>2, UnconnectedIsShut
  <2>4. QED BY <1>0, <2>1, <2>3, FailDrainingRejoins, RejoinedGuards
<1>5. QED BY <1>1, <1>2, <1>3, <1>4

LEMMA ConnectionGuards ==
  ASSUME Orderly(owner), Heads(owner, stored), Guarding(owner), "revoke" \notin Faults,
         BrokerLost \/ BrokerGraceExpired \/ BrokerReconnected
  PROVE  Guarding(owner')
<1>0. Fit(owner) /\ Typed(owner) /\ Whole(owner) BY OrderlyTyped, TypedWhole
<1>1. CASE BrokerLost BY <1>0, <1>1, LuckRevokes, LoseBrokerGuards DEF BrokerLost
<1>2. CASE BrokerGraceExpired
  BY <1>0, <1>2, LuckRevokes, GraceExpiredGuards DEF BrokerGraceExpired, Handle
<1>3. CASE BrokerReconnected
  <2> DEFINE n == [owner EXCEPT !.offer = 0]
  <2>1. PICK e \in Luck : owner' = Reconnected(n, owner.offer, e) /\ owner.offer # 0
    BY <1>3 DEF BrokerReconnected, Handle
  <2>2. /\ owner.conn \in {"Grace", "Disconnected"} /\ owner.offer >= owner.brokerHead
        /\ owner.resending = 0 /\ owner.draining = NoOp
    BY <1>0, <1>3, <2>1 DEF BrokerReconnected, Live, Fit, Conns
  <2>3. ~owner.gate BY <2>2, UnconnectedIsShut
  <2>4. /\ Typed(n) /\ n.receipts = owner.receipts /\ n.brokerHead = owner.brokerHead
        /\ n.pending = owner.pending /\ n.deferred = owner.deferred
        /\ n.resending = owner.resending /\ n.draining = owner.draining
        /\ n.wait = owner.wait /\ n.state = owner.state /\ n.queued = owner.queued
        /\ n.lost = owner.lost /\ n.offer = 0 /\ Tip(n) = Tip(owner) /\ n.gate = owner.gate
    BY <1>0 DEF Typed, Fields, Tip, Gap
  <2> HIDE DEF n
  <2>5. Conns(n) BY <2>2, <2>4 DEF Conns
  <2>6. Orderly(n) /\ Alone(n) /\ ~n.gate BY <2>2, <2>3, <2>4, <2>5, ConnOrders DEF Alone
  <2>7. owner.offer \in n.brokerHead .. Tip(n)
    <3>1. owner.brokerHead \in Nat /\ owner.offer \in Nat BY <1>0 DEF Typed
    <3>2. owner.offer <= stored /\ stored <= Tip(owner) /\ stored \in Nat BY DEF Heads
    <3>3. Tip(owner) \in Nat BY <1>0, Counts
    <3>4. QED BY <2>2, <2>4, <3>1, <3>2, <3>3
  <2>8. QED BY <2>1, <2>6, <2>7, LuckRevokes, ReconnectedRejoins, RejoinedGuards
<1>4. QED BY <1>1, <1>2, <1>3

LEMMA EndGuards ==
  ASSUME Orderly(owner), Guarding(owner), "revoke" \notin Faults,
         \/ ControllerDetached \/ ControllerLossSettled \/ ControllerLossUnsettled
         \/ RunningAgent \/ RelayQuiesced \/ ResponseSent \/ ResponseFails
  PROVE  Guarding(owner')
<1>0. Whole(owner) BY OrderlyTyped, TypedWhole
<1>1. CASE ControllerDetached
  BY <1>0, <1>1, LuckRevokes, BeginControllerLossBars, BarsGuards
  DEF ControllerDetached, Handle
<1>2. CASE ControllerLossSettled
  <2> DEFINE n == [owner EXCEPT !.settling = FALSE]
  <2>1. PICK e \in Luck : owner' = BeginControllerLossDisposal(n, e)
    BY <1>2 DEF ControllerLossSettled, Handle
  <2>2. Bars(owner, n) BY <1>0 DEF Bars, Holds, Whole, Fields, Over, Doing
  <2> HIDE DEF n
  <2>3. Bars(owner, owner')
    BY <2>1, <2>2, LuckRevokes, BeginControllerLossDisposalBars, BarsTrans DEF Bars, Holds
  <2>4. QED BY <2>3, BarsGuards
<1>3. CASE ControllerLossUnsettled
  <2>1. owner' = [owner EXCEPT !.settling = FALSE, !.blocked = TRUE]
    BY <1>3 DEF ControllerLossUnsettled, Handle
  <2>2. Bars(owner, owner') BY <1>0, <2>1 DEF Bars, Holds, Whole, Fields, Over, Doing
  <2>3. QED BY <2>2, BarsGuards
<1>4. CASE RunningAgent
  BY <1>0, <1>4, BeginTerminalEventBars, BarsGuards DEF RunningAgent, Handle
<1>5. CASE RelayQuiesced
  <2> DEFINE n(result) == [owner EXCEPT !.relay = result, !.finishQuiet = "none"]
  <2>1. PICK result : owner' = RequestFinish(n(result), owner.finishQuiet)
    BY <1>5 DEF RelayQuiesced, Handle
  <2>2. Bars(owner, n(result)) BY <1>0 DEF Bars, Holds, Whole, Fields, Over, Doing
  <2> HIDE DEF n
  <2>3. Bars(owner, owner') BY <2>1, <2>2, RequestFinishBars, BarsTrans DEF Bars, Holds
  <2>4. QED BY <2>3, BarsGuards
<1>6. CASE ResponseSent
  <2> DEFINE n(r) == [owner EXCEPT !.replies = @ \ {r}]
  <2>1. PICK r \in owner.replies :
          owner' \in {n(r), RequestFinish(n(r), r.finish), RequestFinish(n(r), "ok")}
    BY <1>6 DEF ResponseSent, Handle
  <2>2. Bars(owner, n(r)) BY <1>0 DEF Bars, Holds, Whole, Fields, Over, Doing
  <2> HIDE DEF n
  <2>3. \A f : Bars(owner, RequestFinish(n(r), f))
    BY <2>2, RequestFinishBars, BarsTrans DEF Bars, Holds
  <2>4. QED BY <2>1, <2>2, <2>3, BarsGuards
<1>7. CASE ResponseFails
  <2> DEFINE n(r) == [owner EXCEPT !.replies = @ \ {r}]
  <2>1. PICK r \in owner.replies, e \in Luck : owner' \in {n(r), LoseBroker(n(r), e)}
    BY <1>7 DEF ResponseFails, Handle
  <2>2. Bars(owner, n(r)) BY <1>0 DEF Bars, Holds, Whole, Fields, Over, Doing
  <2> HIDE DEF n
  <2>3. Guarding(n(r)) /\ Whole(n(r)) BY <2>2, BarsGuards DEF Bars, Holds
  <2>4. QED BY <2>1, <2>3, LuckRevokes, LoseBrokerGuards
<1>8. QED BY <1>1, <1>2, <1>3, <1>4, <1>5, <1>6, <1>7

LEMMA AuthorityGuards ==
  ASSUME Orderly(owner), Guarding(owner), "revoke" \notin Faults,
         ConformanceLost \/ ConformanceConfirmed \/ KeyWithdrawn \/ WithdrawnEnds
  PROVE  Guarding(owner')
<1>0. Fit(owner) /\ Typed(owner) /\ Whole(owner) BY OrderlyTyped, TypedWhole
<1>1. CASE ConformanceLost
  <2>1. PICK e \in Luck, c \in BOOLEAN : owner' = CancelWait(SuspendConformance(owner, c, e))
    BY <1>1 DEF ConformanceLost, Handle
  <2> DEFINE n == SuspendConformance(owner, c, e)
  <2>2. Bars(owner, n) BY <1>0, LuckRevokes, SuspendConformanceBars
  <2> HIDE DEF n
  <2>3. Bars(owner, CancelWait(n)) BY <2>2, CancelWaitBars, BarsTrans DEF Bars, Holds
  <2>4. QED BY <2>1, <2>3, BarsGuards DEF n
<1>2. CASE ConformanceConfirmed
  <2> DEFINE n == [owner EXCEPT !.wait = NoOp, !.suspended = FALSE]
  <2>1. owner' \in {CancelWait(owner), Applying(n, owner.wait)}
    BY <1>2 DEF ConformanceConfirmed, BeginResume, Handle
  <2>2. owner.state = "Parked" BY <1>0, <1>2 DEF ConformanceConfirmed, Watched, Fit, Waits
  <2>3. ~owner.gate BY <2>2 DEF Guarding, GateOK
  <2>4. Bars(owner, n) /\ ~n.gate BY <1>0, <2>3 DEF Bars, Holds, Whole, Fields, Over
  <2> HIDE DEF n
  <2>5. Bars(n, Applying(n, owner.wait))
    BY <2>4, ApplyingHolds, ShutBarsAll DEF Bars, Holds
  <2>6. Bars(owner, owner') BY <1>0, <2>1, <2>4, <2>5, CancelWaitBars, BarsTrans
  <2>7. QED BY <2>6, BarsGuards
<1>3. CASE KeyWithdrawn
  BY <1>0, <1>3, LuckRevokes, WithdrawKeyAuthorityGuards DEF KeyWithdrawn, Handle
<1>4. CASE WithdrawnEnds
  <2> DEFINE n(e) == Terminate(owner, e)
  <2>1. PICK e : owner' = [n(e) EXCEPT !.finished = "err"] BY <1>4 DEF WithdrawnEnds, Handle
  <2>2. Bars(owner, n(e)) BY <1>0, TerminateBars
  <2> HIDE DEF n
  <2>3. Bars(n(e), owner') BY <2>1, <2>2 DEF Bars, Holds, Whole, Fields, Over, Doing
  <2>4. Bars(owner, owner') BY <2>2, <2>3, BarsTrans
  <2>5. QED BY <2>4, BarsGuards
<1>5. QED BY <1>1, <1>2, <1>3, <1>4

LEMMA BrokerGuards ==
  ASSUME Orderly(owner), Heads(owner, stored), Guarding(owner),
         BrokerStores \/ BrokerRefuses \/ ChannelBreaks \/ BrokerAnswers
  PROVE  Guarding(owner')
<1>0. Whole(owner) BY OrderlyTyped, TypedWhole
<1>1. ASSUME NEW w, owner' = [owner EXCEPT !.wire = w] PROVE Guarding(owner')
  <2>1. Bars(owner, owner') BY <1>0, <1>1 DEF Bars, Holds, Whole, Fields, Over, Doing
  <2>2. QED BY <2>1, BarsGuards
<1>2. CASE BrokerStores
  <2>1. PICK a : /\ owner' = [owner EXCEPT !.wire = Tail(owner.wire), !.acks = a]
                 /\ a # owner.acks => Attached \/ owner.offer # 0
    BY <1>0, <1>2 DEF BrokerStores, Whole, Fields
  <2>2. /\ owner'.receipts = owner.receipts /\ owner'.brokerHead = owner.brokerHead
        /\ owner'.gate = owner.gate /\ owner'.state = owner.state
        /\ owner'.suspended = owner.suspended /\ owner'.conn = owner.conn
        /\ owner'.offer = owner.offer /\ owner'.withdrawn = owner.withdrawn
        /\ owner'.draining = owner.draining /\ owner'.resending = owner.resending
        /\ owner'.pending = owner.pending /\ owner'.quarantined = owner.quarantined
        /\ owner'.acks = a /\ Tip(owner)' = Tip(owner)
    BY <1>0, <2>1 DEF Whole, Fields, Tip
  <2>3. Linked(owner') BY <2>1, <2>2 DEF Guarding, Linked, Over, Attached
  <2>4. Tip(owner') = Tip(owner) BY <2>2 DEF Tip
  <2>5. GateOK(owner') BY <2>2, <2>4 DEF Guarding, GateOK, Doing
  <2>6. QED BY <2>3, <2>5 DEF Guarding
<1>3. CASE BrokerRefuses BY <1>1, <1>3 DEF BrokerRefuses
<1>4. CASE ChannelBreaks BY <1>1, <1>4 DEF ChannelBreaks
<1>5. CASE BrokerAnswers
  <2> DEFINE n == [owner EXCEPT !.offer = stored, !.wire = <<>>, !.acks = <<>>]
  <2>1. owner' \in {owner, n} /\ owner.conn \in {"Grace", "Disconnected"}
    BY <1>5 DEF BrokerAnswers
  <2>2. ~owner.gate BY <2>1, UnconnectedIsShut
  <2>3. ~n.gate /\ n.acks = <<>> /\ n.conn = owner.conn BY <1>0, <2>2 DEF Whole, Fields
  <2> HIDE DEF n
  <2>4. Guarding(n) BY <2>1, <2>3 DEF Guarding, Linked, GateOK
  <2>5. QED BY <2>1, <2>4
<1>6. QED BY <1>2, <1>3, <1>4, <1>5

LEMMA StepGuards ==
  ASSUME Orderly(owner), Heads(owner, stored), Guarding(owner), "revoke" \notin Faults,
         [Next]_vars
  PROVE  Guarding(owner')
<1>1. CASE owner' = owner BY <1>1
<1>2. CASE \E q \in asked : Requested(q) BY <1>2, RequestedGuards
<1>3. QED
  BY <1>1, <1>2, PreparedGuards, SignedGuards, DrainSignedGuards, OperationGuards,
     ConnectionGuards, EndGuards, AuthorityGuards, BrokerGuards
  DEF Next, Ask, vars

\* As long as the gate can be shut, commands pass only in a running Session
\* whose conformance stands and whose Resumes the broker has all stored,
\* whatever is lost, repeated or late on the way (complete_pending_receipt,
\* begin_park).  A gate that cannot be shut stays open: without the
\* hypothesis the property fails.
THEOREM GateIsEarned == ASSUME "revoke" \notin Faults PROVE Spec => []GateNeedsDurability
<1> DEFINE Inv == OwnerInvariant /\ Guarding(owner)
<1>1. Init => Inv
  <2> SUFFICES ASSUME Init PROVE Inv
    OBVIOUS
  <2> DEFINE r == Receipt(Payload("Start", "Running", <<"start">>), 1)
  <2>1. /\ owner.receipts = <<r>> /\ owner.state = "Running" /\ ~owner.suspended
        /\ owner.conn = "Connected" /\ ~owner.withdrawn /\ owner.pending = NoOp
    BY DEF Init
  <2>2. r.kind = "Start" BY DEF Receipt, Payload
  <2> HIDE DEF r
  <2>3. Tip(owner) = 1 /\ owner.receipts[1] = r BY <2>1 DEF Tip
  <2>4. GateOK(owner) BY <2>1, <2>2, <2>3 DEF GateOK, Doing
  <2>5. Linked(owner) BY <2>1 DEF Linked
  <2>6. QED BY <2>4, <2>5, OwnerStarts DEF Guarding
<1>2. Inv /\ [Next]_vars => Inv'
  <2> SUFFICES ASSUME Inv, [Next]_vars PROVE Inv'
    OBVIOUS
  <2>1. OwnerInvariant' BY OwnerContinues
  <2>2. Guarding(owner') BY StepGuards DEF OwnerInvariant
  <2>3. QED BY <2>1, <2>2
<1>3. Inv => GateNeedsDurability
  <2> SUFFICES ASSUME Inv, owner.gate
               PROVE  /\ owner.state = "Running" /\ ~owner.suspended
                      /\ \A i \in 1 .. Tip(owner) :
                            owner.receipts[i].kind = "Resume" => i <= stored
    BY DEF GateNeedsDurability
  <2>1. Heads(owner, stored) BY DEF OwnerInvariant
  <2>2. owner.brokerHead \in Nat /\ stored \in Nat /\ owner.brokerHead <= stored
    BY <2>1 DEF Heads
  <2>3. QED BY <2>2 DEF Guarding, GateOK
<1>4. QED BY <1>1, <1>2, <1>3, PTL DEF Spec
-----------------------------------------------------------------------------
(* What is on the way while the broker catches up *)

\* Of an owner, the length s of the durable chain, the broker's side l of the
\* channel and the head c its reconnect must reach: a reconnect is attempted
\* only on a lost channel and offers a head that is not behind the durable one,
\* and until the broker has caught up the one thing on the way is its checkpoint,
\* its acknowledgement, or the receipt after its head.
Flying(o, s, l, c) ==
    /\ o.trying /\ o.offer = 0 => l # "open" /\ s <= o.offered
    /\ l = "open" /\ s < c =>
          /\ o.wire \in {<<>>, <<s + 1>>}
          /\ o.offer # 0 => o.offer = s /\ o.wire = <<>> /\ o.acks = <<>>
          /\ o.acks # <<>> => o.acks = <<s>> /\ o.wire = <<>>
InFlight == Flying(owner, stored, link, catchup)

\* What a handler that is told of head i may do besides: send receipt i.
Says(o, n, i) ==
    /\ n.offer = o.offer /\ n.offered = o.offered /\ (n.trying => o.trying)
    /\ n.acks \in {o.acks, <<>>} /\ n.wire \in {o.wire, <<>>, Append(o.wire, i), <<i>>}

LEMMA HushedFlies ==
  ASSUME NEW o, NEW n, NEW s, NEW l, NEW c, Flying(o, s, l, c), Hushed(o, n)
  PROVE  Flying(n, s, l, c)
  BY DEF Flying, Hushed

LEMMA KeptHushes == ASSUME NEW o, NEW n, Kept(o, n) PROVE Hushed(o, n)
  BY DEF Kept, Hushed

LEMMA HushedSays == ASSUME NEW o, NEW n, NEW i, Hushed(o, n) PROVE Says(o, n, i)
  BY DEF Hushed, Says

LEMMA HushedTrans ==
  ASSUME NEW a, NEW b, NEW c, Hushed(a, b), Kept(b, c) PROVE Hushed(a, c)
  BY DEF Kept, Hushed

LEMMA SendSays ==
  ASSUME NEW o, NEW n, NEW i, Hushed(o, n), Sound(n) PROVE Says(o, Send(n, i), i)
<1>1. Append(<<>>, i) = <<i>> OBVIOUS
<1> DEFINE m == Send(n, i)
<1>2. /\ m.offer = n.offer /\ m.offered = n.offered /\ m.trying = n.trying
      /\ m.acks = n.acks /\ m.wire = Append(n.wire, i)
  BY DEF Send, Sound
<1> HIDE DEF m
<1>3. m.wire \in {Append(o.wire, i), <<i>>} BY <1>1, <1>2 DEF Hushed
<1>4. QED BY <1>2, <1>3 DEF Hushed, Says, m

LEMMA AcknowledgedSays ==
  ASSUME NEW o, NEW i, NEW e, Sound(o) PROVE Says(o, Acknowledged(o, i, e), i + 1)
<1> DEFINE d == [o EXCEPT !.brokerHead = i, !.draining = NoOp]
           h == [o EXCEPT !.brokerHead = i]
           r == [h EXCEPT !.resending = i + 1]
           n == Acknowledged(o, i, e)
<1>1. Sound(d) /\ Sound(h) /\ Sound(r) BY DEF Sound
<1>2. Hushed(o, d) /\ Hushed(o, h) /\ Hushed(o, r) BY DEF Sound, Hushed
<1>3. CASE o.draining # NoOp
  <2>1. n \in {FailDraining(o), FinishReconnect(d, e), StartDraining(d)}
    BY <1>3 DEF Acknowledged
  <2> HIDE DEF d, n
  <2>2. Kept(o, FailDraining(o)) BY FailDrainingKeeps
  <2>3. Kept(d, FinishReconnect(d, e)) BY <1>1, FinishReconnectKeeps
  <2>4. Kept(d, StartDraining(d)) BY <1>1, StartDrainingKeeps
  <2>5. Hushed(o, n) BY <1>2, <2>1, <2>2, <2>3, <2>4, KeptHushes, HushedTrans
  <2>6. QED BY <2>5, HushedSays DEF n
<1>4. CASE o.draining = NoOp /\ o.resending # 0
  <2>1. n \in {FailReconciliation(o, e), Send(r, i + 1), FinishReconnect(h, e)}
    BY <1>4 DEF Acknowledged
  <2> HIDE DEF h, r, n
  <2>2. Kept(o, FailReconciliation(o, e)) BY FailReconciliationKeeps
  <2>3. Kept(h, FinishReconnect(h, e)) BY <1>1, FinishReconnectKeeps
  <2>4. Says(o, Send(r, i + 1), i + 1) BY <1>1, <1>2, SendSays
  <2>5. Hushed(o, n) \/ Says(o, n, i + 1)
    BY <1>2, <2>1, <2>2, <2>3, <2>4, KeptHushes, HushedTrans
  <2>6. QED BY <2>5, HushedSays DEF n
<1>5. CASE o.draining = NoOp /\ o.resending = 0
  <2>1. n \in {o, Complete(h, TRUE, e), FailReceipt(o, e)} BY <1>5 DEF Acknowledged
  <2> HIDE DEF h, n
  <2>2. Kept(o, FailReceipt(o, e)) /\ Kept(o, o) BY FailReceiptKeeps, KeptSelf
  <2>3. Kept(h, Complete(h, TRUE, e)) BY <1>1, CompleteKeeps
  <2>4. Hushed(o, n) BY <1>2, <2>1, <2>2, <2>3, KeptHushes, HushedTrans
  <2>5. QED BY <2>4, HushedSays DEF n
<1>6. QED BY <1>3, <1>4, <1>5

LEMMA ReconnectedSays ==
  ASSUME NEW o, NEW head, NEW e, Sound(o)
  PROVE  /\ Says(o, Reconnected(o, head, e), head + 1)
         /\ ~Reconnected(o, head, e).trying
<1> DEFINE a == [o EXCEPT !.brokerHead = head, !.trying = FALSE]
           f == FailReceipt(a, e)
           z == FreezeOwing(f, e)
           r == [z EXCEPT !.conn = "Reconciling", !.resending = head + 1]
           m == ParkForReconciliation(f, e)
           n == Reconnected(o, head, e)
<1>1. Sound(a) /\ Hushed(o, a) /\ ~a.trying BY DEF Sound, Hushed
<1>2. n \in {FinishReconnect(a, e), Send(r, head + 1), FailUnfrozen(m, e)}
  BY DEF Reconnected, CatchUp
<1> HIDE DEF a, n
<1>3. Kept(a, FinishReconnect(a, e)) BY <1>1, FinishReconnectKeeps
<1>4. Kept(a, f) BY <1>1, FailReceiptKeeps
<1> HIDE DEF f
<1>5. Kept(a, z) BY <1>4, FreezeOwingKeeps, KeptTrans DEF Kept
<1> HIDE DEF z
<1>6. Kept(a, r) BY <1>5 DEF Kept, Sound
<1> HIDE DEF r
<1>7. Kept(a, m) BY <1>4, ParkForReconciliationKeeps, KeptTrans DEF Kept
<1> HIDE DEF m
<1>8. Kept(a, FailUnfrozen(m, e)) BY <1>7, FailUnfrozenKeeps, KeptTrans DEF Kept
<1>9. Says(o, Send(r, head + 1), head + 1)
  BY <1>1, <1>6, HushedTrans, SendSays DEF Kept
<1>10. Hushed(o, n) \/ Says(o, n, head + 1) BY <1>1, <1>2, <1>3, <1>8, <1>9, HushedTrans
<1>11. Says(o, n, head + 1) BY <1>10, HushedSays
<1>12. ~Send(r, head + 1).trying BY <1>1, <1>6 DEF Kept, Sound, Send
<1>13. ~n.trying BY <1>1, <1>2, <1>3, <1>8, <1>12 DEF Kept
<1>14. QED BY <1>11, <1>13 DEF n

\* A channel lost at the broker is offered the last signed receipt.
LEMMA LosesFlies ==
  ASSUME NEW o, NEW s, NEW l, NEW c, NEW e, Heads(o, s), l # "open", Flying(o, s, l, c)
  PROVE  Flying(LoseBroker(o, e), s, l, c)
<1> DEFINE n == LoseBroker(o, e)
<1>1. n = o \/ Kept(Seeking(o), n) BY LoseBrokerKeeps, TipInNat
<1>2. Seeking(o).offered = Tip(o) BY TipInNat DEF Seeking, Detaching, Sound
<1>3. s <= Tip(o) BY DEF Heads
<1> HIDE DEF n
<1>4. Kept(Seeking(o), n) => s <= n.offered BY <1>2, <1>3 DEF Kept
<1>5. QED BY <1>1, <1>4 DEF Flying, n

\* A step of the owner that neither signs, nor reconnects, nor is told anything.
LEMMA HushedStepFlies ==
  ASSUME InFlight, Hushed(owner, owner'), UNCHANGED <<stored, link, catchup>>
  PROVE  InFlight'
  BY HushedFlies DEF InFlight

\* Nothing is signed while the broker catches up.
LEMMA SigningFlies ==
  ASSUME OwnerInvariant, InFlight, Signed \/ DrainSigned PROVE InFlight'
<1>1. Under(owner) /\ Drains(owner) /\ Sound(owner) /\ Tip(owner) \in Nat
  BY TipInNat DEF OwnerInvariant, Orderly, Fit
<1>2. owner.brokerHead = Tip(owner)
  <2>1. CASE Signed
    <3>1. owner.pending.phase = "Signing" BY <2>1 DEF Signed
    <3>2. owner.pending # NoOp BY <3>1 DEF NoOp
    <3>3. QED BY <1>1, <3>1, <3>2 DEF Under
  <2>2. CASE DrainSigned
    <3>1. owner.draining.phase = "Signing" BY <2>2 DEF DrainSigned
    <3>2. owner.draining # NoOp BY <3>1 DEF NoOp
    <3>3. QED BY <1>1, <3>1, <3>2 DEF Drains
  <2>3. QED BY <2>1, <2>2
<1>3. stored = Tip(owner) /\ catchup <= stored
  <2>1. stored \in Nat /\ owner.brokerHead <= stored /\ stored <= Tip(owner)
    BY DEF OwnerInvariant, Heads
  <2>2. catchup <= Tip(owner) BY <1>1 DEF OwnerInvariant, Channelled
  <2>3. QED BY <1>1, <1>2, <2>1, <2>2
<1>4. UNCHANGED <<stored, link, catchup>> BY DEF Signed, DrainSigned, Handle, Outside
<1>5. owner'.trying = owner.trying /\ owner'.offer = owner.offer /\ owner'.offered = owner.offered
  BY <1>1 DEF Signed, DrainSigned, Handle, Send, Sound
<1>6. ~(stored < catchup) BY <1>1, <1>3 DEF OwnerInvariant, Channelled
<1>7. QED BY <1>4, <1>5, <1>6 DEF InFlight, Flying

\* An acknowledgement is answered with the receipt after it.
LEMMA ReceiveAckFlies ==
  ASSUME OwnerInvariant, InFlight, ReceiveAck PROVE InFlight'
<1> DEFINE n == [owner EXCEPT !.acks = Tail(@)]
           i == owner.acks[1]
<1>1. Sound(owner) /\ owner.offer = 0 /\ owner.acks # <<>> /\ UNCHANGED <<stored, link, catchup>>
  BY TipInNat DEF OwnerInvariant, ReceiveAck, Handle, Outside
<1>2. PICK e : owner' \in {n, Acknowledged(n, i, e)} BY DEF ReceiveAck, Handle
<1>3. /\ Sound(n) /\ n.offer = 0 /\ n.offered = owner.offered /\ n.trying = owner.trying
      /\ n.wire = owner.wire /\ n.acks = Tail(owner.acks)
  BY <1>1 DEF Sound
<1> HIDE DEF n, i
<1>4. Says(n, owner', i + 1)
  BY <1>2, <1>3, AcknowledgedSays, KeptSelf, KeptHushes, HushedSays
<1>5. owner'.offer = 0 /\ owner'.offered = owner.offered /\ (owner'.trying => owner.trying)
  BY <1>3, <1>4 DEF Says
<1>6. ASSUME link = "open", stored < catchup
      PROVE  owner'.wire \in {<<>>, <<stored + 1>>} /\ owner'.acks = <<>>
  <2>1. owner.acks = <<stored>> /\ owner.wire = <<>> BY <1>1, <1>6 DEF InFlight, Flying
  <2>2. i = stored /\ Tail(owner.acks) = <<>> BY <2>1 DEF i
  <2>3. Append(<<>>, stored + 1) = <<stored + 1>> OBVIOUS
  <2>4. QED BY <1>3, <1>4, <2>1, <2>2, <2>3 DEF Says
<1>7. QED BY <1>1, <1>5, <1>6 DEF InFlight, Flying

\* A reconnect begins with the receipt after the broker's checkpoint.
LEMMA BrokerReconnectedFlies ==
  ASSUME OwnerInvariant, InFlight, BrokerReconnected PROVE InFlight'
<1> DEFINE n == [owner EXCEPT !.offer = 0]
<1>1. Sound(owner) /\ owner.offer # 0 /\ UNCHANGED <<stored, link, catchup>>
  BY TipInNat DEF OwnerInvariant, BrokerReconnected, Handle, Outside
<1>2. PICK e : owner' = Reconnected(n, owner.offer, e) BY DEF BrokerReconnected, Handle
<1>3. Sound(n) /\ n.offer = 0 /\ n.wire = owner.wire /\ n.acks = owner.acks
  BY <1>1 DEF Sound
<1> HIDE DEF n
<1>4. Says(n, owner', owner.offer + 1) /\ ~owner'.trying BY <1>2, <1>3, ReconnectedSays
<1>5. owner'.offer = 0 BY <1>3, <1>4 DEF Says
<1>6. ASSUME link = "open", stored < catchup
      PROVE  owner'.wire \in {<<>>, <<stored + 1>>} /\ owner'.acks = <<>>
  <2>1. owner.offer = stored /\ owner.acks = <<>> /\ owner.wire = <<>>
    BY <1>1, <1>6 DEF InFlight, Flying
  <2>2. Append(<<>>, stored + 1) = <<stored + 1>> OBVIOUS
  <2>3. QED BY <1>3, <1>4, <2>1, <2>2 DEF Says
<1>7. QED BY <1>1, <1>4, <1>5, <1>6 DEF InFlight, Flying

\* A channel is given up only when the broker has lost it too.
LEMMA LossFlies ==
  ASSUME OwnerInvariant, InFlight, "halfopen" \notin Events, BrokerLost \/ ResponseFails
  PROVE  InFlight'
<1>1. Heads(owner, stored) /\ Sound(owner) BY TipInNat DEF OwnerInvariant
<1>2. link # "open" /\ UNCHANGED <<stored, link, catchup>>
  BY DEF BrokerLost, ResponseFails, Handle, Outside
<1>3. CASE BrokerLost
  <2>1. PICK e : owner' = LoseBroker(owner, e) BY <1>3 DEF BrokerLost
  <2>2. QED BY <1>1, <1>2, <2>1, LosesFlies DEF InFlight
<1>4. CASE ResponseFails
  <2> DEFINE n(r) == [owner EXCEPT !.replies = @ \ {r}]
  <2>1. PICK r, e : owner' \in {n(r), LoseBroker(n(r), e)} BY <1>4 DEF ResponseFails, Handle
  <2>2. Kept(owner, n(r)) BY <1>1 DEF Kept, Sound
  <2> HIDE DEF n
  <2>3. Heads(n(r), stored) /\ Flying(n(r), stored, link, catchup)
    BY <1>1, <2>2, KeptFollows, KeptHushes, HushedFlies DEF Follows, InFlight
  <2>4. Flying(LoseBroker(n(r), e), stored, link, catchup) BY <1>2, <2>3, LosesFlies
  <2>5. QED BY <1>2, <2>1, <2>3, <2>4 DEF InFlight
<1>5. QED BY <1>3, <1>4

\* The broker stores the receipt it is told, refuses it, or answers a reconnect.
LEMMA BrokerFlies ==
  ASSUME OwnerInvariant, InFlight,
         BrokerStores \/ BrokerRefuses \/ ChannelBreaks \/ BrokerAnswers
  PROVE  InFlight'
<1>1. Sound(owner) /\ stored \in Nat /\ 1 <= stored BY TipInNat DEF OwnerInvariant, Heads
<1>2. CASE BrokerStores
  <2>1. /\ link = "open" /\ owner.wire # <<>> /\ owner.wire[1] = stored + 1
        /\ stored' = stored + 1 /\ link' = link /\ catchup' = catchup
    BY <1>2 DEF BrokerStores, Acceptable
  <2>2. /\ owner'.trying = owner.trying /\ owner'.offer = owner.offer
        /\ owner'.wire = Tail(owner.wire)
        /\ owner'.acks \in {owner.acks, Append(owner.acks, stored + 1)}
    BY <1>1, <1>2, <2>1 DEF BrokerStores, Sound
  <2>3. ~(owner.trying /\ owner.offer = 0) BY <2>1 DEF InFlight, Flying
  <2>4. ASSUME stored' < catchup'
        PROVE  owner'.wire = <<>> /\ owner.offer = 0 /\ owner'.acks \in {<<>>, <<stored'>>}
    <3>1. stored < catchup BY <1>1, <2>1, <2>4 DEF OwnerInvariant, Channelled
    <3>2. owner.wire = <<stored + 1>> /\ owner.offer = 0 /\ owner.acks = <<>>
      BY <2>1, <3>1 DEF InFlight, Flying
    <3>3. Tail(<<stored + 1>>) = <<>> /\ Append(<<>>, stored + 1) = <<stored + 1>> OBVIOUS
    <3>4. QED BY <2>1, <2>2, <3>2, <3>3
  <2>5. QED BY <2>1, <2>2, <2>3, <2>4 DEF InFlight, Flying
<1>3. CASE BrokerRefuses \/ ChannelBreaks
  <2>1. /\ link = "open" /\ link' # "open" /\ stored' = stored /\ catchup' = catchup
        /\ owner'.trying = owner.trying /\ owner'.offer = owner.offer
    BY <1>1, <1>3 DEF BrokerRefuses, ChannelBreaks, Sound
  <2>2. QED BY <2>1 DEF InFlight, Flying
<1>4. CASE BrokerAnswers
  <2>1. stored' = stored /\ stored <= owner.offered BY <1>4 DEF BrokerAnswers, InFlight, Flying
  <2>2. owner' = [owner EXCEPT !.offer = stored, !.wire = <<>>, !.acks = <<>>]
    BY <1>1, <1>4, <2>1, OrderlyTyped DEF BrokerAnswers, OwnerInvariant, Typed
  <2>3. owner'.offer = stored /\ owner'.wire = <<>> /\ owner'.acks = <<>>
    BY <1>1, <2>2 DEF Sound
  <2>4. QED BY <1>1, <2>1, <2>3 DEF InFlight, Flying
<1>5. QED BY <1>2, <1>3, <1>4

LEMMA StepFlies ==
  ASSUME OwnerInvariant, InFlight, "halfopen" \notin Events, [Next]_vars PROVE InFlight'
<1>1. Heads(owner, stored) /\ Sound(owner) BY TipInNat DEF OwnerInvariant
<1>2. CASE Undisturbed BY <1>2, KeptHushes, HushedStepFlies DEF Undisturbed
<1>3. CASE Ask \/ UNCHANGED vars
  <2>1. UNCHANGED <<owner, stored, link, catchup>> BY <1>3 DEF Ask, vars
  <2>2. QED BY <2>1 DEF InFlight
<1>4. CASE \E q \in asked : Requested(q) BY <1>1, <1>2, <1>4, RequestedKeeps
<1>5. CASE Prepared BY <1>1, <1>5, PreparedFollows, HushedStepFlies
<1>6. QED
  BY <1>1, <1>2, <1>3, <1>4, <1>5, OperationKeeps, EndKeeps, AuthorityKeeps, SigningFlies,
     ReceiveAckFlies, BrokerReconnectedFlies, LossFlies, BrokerFlies DEF Next

\* As long as a lost channel is lost on both sides, a reconnect offers a head
\* that is not behind the durable one, and catches up receipt by receipt
\* (handle_broker_reconnected, handle_receipt_acknowledgement).
THEOREM OneReceiptOnTheWay ==
  ASSUME "halfopen" \notin Events PROVE Spec => [](OwnerInvariant /\ InFlight)
<1>1. Init => OwnerInvariant /\ InFlight
  BY OwnerStarts DEF Init, InFlight, Flying
<1>2. OwnerInvariant /\ InFlight /\ [Next]_vars => (OwnerInvariant /\ InFlight)'
  <2> SUFFICES ASSUME OwnerInvariant, InFlight, [Next]_vars
               PROVE  (OwnerInvariant /\ InFlight)'
    OBVIOUS
  <2>1. QED BY OwnerContinues, StepFlies
<1>3. QED BY <1>1, <1>2, PTL DEF Spec
=============================================================================
