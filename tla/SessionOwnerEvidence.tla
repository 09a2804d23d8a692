------------------------ MODULE SessionOwnerEvidence ------------------------
(* What the evidence of a Session says of it: the receipts, the payload    *)
(* being signed and the evidence owed end in the state the Session is in,  *)
(* nothing recorded is lost but by a quarantine, the whole is a chain the  *)
(* broker may store and does not refuse, the owner ends with success only  *)
(* when the broker has the Disposal, and a request is recorded once.       *)
EXTENDS SessionOwnerProofs, FiniteSetTheorems

\* A gate that may fail to close leaves a frozen tree without a record of it.
Lax == "revoke" \in Faults

\* The state the last of the evidence reaches.
LastTo(o) ==
    IF o.queued # "none" THEN "Terminal"
    ELSE IF o.deferred # <<>> THEN o.deferred[Len(o.deferred)].to
    ELSE IF o.pending.phase = "Signing" THEN o.pending.pay.to
    ELSE o.receipts[Tip(o)].to

\* A state reached fits the one the Session is in.
Reaches(o, to) ==
    \/ to = o.state
    \/ o.state = "Parked" /\ to = "Running" /\ (Lax \/ o.withdrawn)

\* There is room for what may still have to be owed.
Spare(o) == IF o.state = "Running" THEN 2 ELSE IF o.state = "Parked" THEN 1 ELSE 0
Room(o) == Gap(o) + Spare(o) <= MaxPending

IsPay(p) == p = Payload(p.kind, p.to, p.by)
End == Payload("Disposal", "Terminal", <<"event">>)

\* An operation has its place in the chain once it is signed; what is prepared
\* or activated is a Resume, and a Resume ends nothing.
Deed(op) ==
    /\ IsPay(op.pay)
    /\ op.phase \in {"Applying", "Signing"} <=> op.index = 0
    /\ op.phase = "Activating" => op.pay.kind = "Resume"
    /\ op.pay.kind = "Resume" => op.pay.to = "Running" /\ op.finish = "none"

\* What is prepared is a Resume: it is prepared while Parked and signed once Running.
Placed(o) ==
    /\ o.pending # NoOp /\ o.pending.phase = "Applying" => o.pending.pay.kind = "Resume"
    /\ Doing(o, "Resume") =>
        /\ "Resume" \in Actions
        /\ o.state = "Terminal" => o.queued # "none"
        /\ o.state # "Terminal" /\ ~o.withdrawn =>
              (o.pending.phase = "Applying" <=> o.state = "Parked")

\* The owner means to end, or ended, with success.
OkIn(o) ==
    \/ "ok" \in {o.finishQuiet, o.finishDrained, o.finished}
    \/ \E r \in o.replies : r.finish = "ok"
    \/ \E f \in o.failed : f.finish = "ok"

\* The Session is over and its end is signed or owed.
Closed(o) == o.state = "Terminal" /\ o.pending = NoOp /\ o.queued = "none"

\* Success is for a Session whose end is recorded.
Oks(o) ==
    /\ OkIn(o) => Closed(o)
    /\ o.pending # NoOp /\ o.pending.finish = "ok" => o.state = "Terminal" /\ o.queued = "none"
    /\ o.finished = "ok" => ~Backlog(o)

\* What is owed are payloads, and the first of them is the one being drained;
\* what is signed, or is to be signed, bears its place in the chain.
Forms(o) ==
    /\ \A i \in 1 .. Len(o.deferred) : IsPay(o.deferred[i])
    /\ o.draining.phase = "Signing" =>
          o.deferred # <<>> /\ o.draining.pay = o.deferred[1]
          /\ o.draining.seq = Len(o.receipts) + 1
    /\ \A i \in 1 .. Len(o.receipts) : o.receipts[i].seq = i
    /\ o.pending # NoOp /\ o.pending.index = 0 => o.pending.seq = Len(o.receipts) + 1

\* A lost controller is settled while nothing else is going on.
Settles(o) == o.settling => o.pending = NoOp /\ o.state = "Parked"

Filed(o) == /\ o.pending # NoOp => Deed(o.pending)
            /\ Oks(o) /\ Forms(o)

\* No freeze goes without its record, and a controller is lost only where
\* nothing is resumed.
Steady == "controller" \notin Events \/ "Resume" \notin Actions
Strict == ~Lax /\ Steady

\* The state the receipts and the evidence owed reach, and their links.
Latest(o) == IF o.deferred # <<>> THEN o.deferred[Len(o.deferred)].to
             ELSE o.receipts[Tip(o)].to
Line(o) ==
    /\ \A i \in 1 .. Tip(o) - 1 : ValidTransition(o.receipts[i].to, o.receipts[i + 1])
    /\ o.deferred # <<>> => ValidTransition(o.receipts[Tip(o)].to, o.deferred[1])
    /\ \A i \in 1 .. Len(o.deferred) - 1 :
          ValidTransition(o.deferred[i].to, o.deferred[i + 1])
Led(o, to) == Strict => Line(o) /\ Latest(o) \in to

\* What is under way, and the end that is queued, can follow; nothing is owed
\* while an operation is under way.
Apt(o) == o.pending # NoOp /\ o.pending.index = 0 => ValidTransition(Latest(o), o.pending.pay)
Closing(o) ==
    o.queued # "none" =>
        /\ Latest(o) \in {"Running", "Parked"}
        /\ o.pending # NoOp /\ o.pending.index = 0 => o.pending.pay.to # "Terminal"
Sole(o) == o.pending # NoOp => o.deferred = <<>>
Lawful(o) == Strict => Line(o) /\ Apt(o) /\ Closing(o)
Legal(o) == Strict => Line(o) /\ Apt(o) /\ Closing(o) /\ Sole(o)

Records(o) ==
    /\ Filed(o) /\ Reaches(o, LastTo(o)) /\ Room(o) /\ Placed(o) /\ Settles(o)
    /\ Legal(o)

\* A request has an identity of its own.
Requests ==
    /\ IsFiniteSet(asked)
    /\ \A q \in asked : \E k \in 0 .. Cardinality(asked) - 1 : q.id = <<"request", k>>
    /\ \A q, p \in asked : q.id = p.id => q = p
    /\ \A q \in asked : q.act \in Actions

\* What answers a request is the operation it asked for, and a Disposal that
\* was answered is the last of the evidence.
Answers(o) ==
    /\ o.pending # NoOp /\ o.pending.respond =>
          \E q \in asked : q.id = o.pending.pay.by
                           /\ (q.act = "Disposal" => o.pending.finish = "ok")
    /\ o.wait # NoOp => o.wait \in asked /\ o.wait.act = "Resume"
    /\ \A q \in asked : q.id \in o.done /\ q.act = "Disposal" => Closed(o)
    /\ \A by \in o.done : \E q \in asked : q.id = by

Recorded == (owner.quarantined \/ (Records(owner) /\ Answers(owner))) /\ Requests

-----------------------------------------------------------------------------
(* What a handler leaves of the evidence *)

\* A payload is signed, being signed or owed.
Due(o, p) ==
    \/ \E i \in 1 .. Tip(o) : p = Outcome(o.receipts[i])
    \/ o.pending.phase = "Signing" /\ p = o.pending.pay
    \/ \E i \in 1 .. Len(o.deferred) : p = o.deferred[i]
    \/ o.queued # "none" /\ p = End
Owes(o, n) == \A p : Due(o, p) => Due(n, p)

\* A handler begins no operation that answers a request; what it answers is the
\* one under way, and what is closed stays so.
Heeds(o, n) ==
    /\ n.wait \in {o.wait, NoOp}
    /\ n.pending # NoOp /\ n.pending.respond =>
          /\ o.pending # NoOp /\ o.pending.respond
          /\ n.pending.pay = o.pending.pay /\ n.pending.finish = o.pending.finish
    /\ Closed(o) => Closed(n)
    /\ \A by \in n.done :
          \/ by \in o.done
          \/ /\ o.pending # NoOp /\ o.pending.respond /\ by = o.pending.pay.by
             /\ o.pending.finish = "ok" => Closed(n)

\* The handler loses no evidence but by a quarantine.
Tells(o, n) == n.quarantined \/ (Records(n) /\ Owes(o, n) /\ Heeds(o, n))

\* A handler that leaves the evidence as it is, but for a tree it freezes.
Entry(o, n) ==
    /\ Fields \subseteq DOMAIN n
    /\ n.receipts = o.receipts /\ n.brokerHead = o.brokerHead
    /\ n.pending = o.pending /\ n.deferred = o.deferred /\ n.queued = o.queued
    /\ n.quarantined = o.quarantined /\ n.withdrawn = o.withdrawn
    /\ n.done = o.done /\ n.wait \in {o.wait, NoOp}
    /\ n.state = o.state \/ (o.state = "Running" /\ n.state = "Parked")
    /\ Filed(o) => Filed(n)
    /\ Settles(o) => Settles(n)
Alike(o, n) == Entry(o, n) /\ n.state = o.state

\* It does not even touch what the owner is going to end with.
Plain(o, n) ==
    /\ Fields \subseteq DOMAIN n
    /\ n.receipts = o.receipts /\ n.brokerHead = o.brokerHead
    /\ n.pending = o.pending /\ n.deferred = o.deferred /\ n.queued = o.queued
    /\ n.quarantined = o.quarantined /\ n.withdrawn = o.withdrawn
    /\ n.done = o.done /\ n.wait \in {o.wait, NoOp}
    /\ n.state = o.state \/ (o.state = "Running" /\ n.state = "Parked")
    /\ n.finishQuiet = o.finishQuiet /\ n.finishDrained = o.finishDrained
    /\ n.finished \in {o.finished, "err"} /\ n.replies = o.replies /\ n.failed = o.failed
    /\ n.draining \in {o.draining, NoOp} /\ n.settling \in {o.settling, FALSE}

Formed(o) == Fields \subseteq DOMAIN o

LEMMA PlainEntry == ASSUME NEW o, NEW n, Plain(o, n) PROVE Entry(o, n)
<1>1. OkIn(n) => OkIn(o) BY DEF Plain, OkIn
<1>2. ASSUME Oks(o) PROVE Oks(n)
  <2>1. OkIn(n) => Closed(n) BY <1>1, <1>2 DEF Plain, Oks, Closed
  <2>2. n.finished = "ok" => o.finished = "ok" BY DEF Plain
  <2>3. Backlog(n) <=> Backlog(o) BY DEF Plain, Backlog, Tip
  <2>4. QED BY <1>2, <2>1, <2>2, <2>3 DEF Plain, Oks
<1>3. Forms(o) => Forms(n) BY DEF Plain, Forms, NoOp
<1>4. Filed(o) => Filed(n) BY <1>2, <1>3 DEF Plain, Filed
<1>5. Settles(o) => Settles(n) BY DEF Plain, Settles
<1>6. QED BY <1>4, <1>5 DEF Plain, Entry

LEMMA PlainAlike == ASSUME NEW o, NEW n, Plain(o, n), n.state = o.state PROVE Alike(o, n)
  BY PlainEntry DEF Alike

LEMMA EntryTrans ==
  ASSUME NEW a, NEW b, NEW c, Entry(a, b), Entry(b, c) PROVE Entry(a, c)
  BY DEF Entry

LEMMA AlikeTrans ==
  ASSUME NEW a, NEW b, NEW c, Alike(a, b), Alike(b, c) PROVE Alike(a, c)
  BY EntryTrans DEF Alike

LEMMA OwesTrans == ASSUME NEW a, NEW b, NEW c, Owes(a, b), Owes(b, c) PROVE Owes(a, c)
  BY DEF Owes

LEMMA HeedsTrans == ASSUME NEW a, NEW b, NEW c, Heeds(a, b), Heeds(b, c) PROVE Heeds(a, c)
<1>1. \A by \in c.done : by \in a.done \/ (a.pending # NoOp /\ a.pending.respond
          /\ by = a.pending.pay.by /\ (a.pending.finish = "ok" => Closed(c)))
  <2> TAKE by \in c.done
  <2>1. CASE by \in b.done BY <2>1 DEF Heeds
  <2>2. CASE by \notin b.done BY <2>2 DEF Heeds, Closed
  <2>3. QED BY <2>1, <2>2
<1>2. QED BY <1>1 DEF Heeds

LEMMA EntryHeeds ==
  ASSUME NEW o, NEW n, Entry(o, n) PROVE Owes(o, n) /\ Heeds(o, n)
<1>1. Owes(o, n) BY DEF Entry, Owes, Due, Tip
<1>2. QED BY <1>1 DEF Entry, Heeds, Closed

\* The chain is a matter of the receipts, of what is owed, under way and queued.
LEMMA SameLine ==
  ASSUME NEW o, NEW n, n.receipts = o.receipts, n.deferred = o.deferred
  PROVE  (Line(n) <=> Line(o)) /\ Latest(n) = Latest(o) /\ (\A to : Led(n, to) <=> Led(o, to))
  BY DEF Line, Latest, Led, Tip

LEMMA SameLegal ==
  ASSUME NEW o, NEW n, n.receipts = o.receipts, n.deferred = o.deferred,
         n.pending = o.pending, n.queued = o.queued
  PROVE  Legal(o) => Legal(n)
  BY SameLine DEF Legal, Apt, Closing, Sole

LEMMA AlikeRecords ==
  ASSUME NEW o, NEW n, Alike(o, n), Records(o) PROVE Records(n) /\ Owes(o, n) /\ Heeds(o, n)
<1>1. LastTo(n) = LastTo(o) BY DEF Alike, Entry, LastTo, Tip
<1>2. Gap(n) = Gap(o) BY DEF Alike, Entry, Gap, Tip
<1>3. Reaches(n, LastTo(n)) BY <1>1 DEF Alike, Entry, Reaches, Records
<1>4. Room(n) BY <1>2 DEF Alike, Room, Spare, Records
<1>5. Placed(n) BY DEF Alike, Entry, Placed, Doing, Records
<1>6. Legal(n) BY SameLegal DEF Alike, Entry, Records
<1>7. QED BY <1>3, <1>4, <1>5, <1>6, EntryHeeds DEF Alike, Entry, Records

LEMMA AlikeTells == ASSUME NEW o, NEW n, Alike(o, n), Records(o) PROVE Tells(o, n)
  BY AlikeRecords DEF Tells

\* One handler after another, once the first did not quarantine the Session.
LEMMA TellsTrans ==
  ASSUME NEW a, NEW b, NEW c, Tells(a, b), b.quarantined => c.quarantined,
         Records(b) => Tells(b, c)
  PROVE  Tells(a, c)
  BY OwesTrans, HeedsTrans DEF Tells
-----------------------------------------------------------------------------
(* The handlers of the gate, the tree and the end leave the evidence alone *)

LEMMA AlikeSelf == ASSUME NEW o, Formed(o) PROVE Alike(o, o)
  BY DEF Formed, Alike, Entry

LEMMA AlikeFormed == ASSUME NEW o, NEW n, Alike(o, n) PROVE Formed(n) /\ Entry(o, n)
  BY DEF Formed, Alike, Entry

LEMMA RevokeAlike == ASSUME NEW o, NEW e, Formed(o) PROVE Alike(o, Revoke(o, e))
<1> DEFINE n == Revoke(o, e)
<1>1. Plain(o, n) /\ n.state = o.state BY DEF Formed, Plain, Fields, Revoke
<1> HIDE DEF n
<1>2. Alike(o, n) BY <1>1, PlainAlike
<1>3. QED BY <1>2 DEF n

LEMMA NarrowedAlike == ASSUME NEW o, Formed(o) PROVE Alike(o, Narrowed(o))
<1> DEFINE n == Narrowed(o)
<1>1. Plain(o, n) /\ n.state = o.state BY DEF Formed, Plain, Fields, Narrowed
<1> HIDE DEF n
<1>2. Alike(o, n) BY <1>1, PlainAlike
<1>3. QED BY <1>2 DEF n

\* The flags and the connection tell nothing of the evidence.
LEMMA FlagsAlike ==
  ASSUME NEW o, NEW v, Formed(o)
  PROVE  /\ Alike(o, [o EXCEPT !.channel = v]) /\ Alike(o, [o EXCEPT !.blocked = v])
         /\ Alike(o, [o EXCEPT !.conn = v]) /\ Alike(o, [o EXCEPT !.tree = v])
         /\ Alike(o, [o EXCEPT !.lost = v]) /\ Alike(o, [o EXCEPT !.lostPark = v])
         /\ Alike(o, [o EXCEPT !.unproven = v]) /\ Alike(o, [o EXCEPT !.resending = v])
         /\ Alike(o, [o EXCEPT !.wire = v]) /\ Alike(o, [o EXCEPT !.offered = v])
         /\ Alike(o, [o EXCEPT !.relay = v]) /\ Alike(o, [o EXCEPT !.contained = v])
         /\ Alike(o, [o EXCEPT !.suspended = v]) /\ Alike(o, [o EXCEPT !.trying = v])
         /\ Alike(o, [o EXCEPT !.offer = v]) /\ Alike(o, [o EXCEPT !.acks = v])
         /\ Alike(o, [o EXCEPT !.settling = FALSE]) /\ Alike(o, [o EXCEPT !.draining = NoOp])
<1> DEFINE Just(n) == Plain(o, n) /\ n.state = o.state
<1>1. \A n : Just(n) => Alike(o, n) BY PlainAlike
<1>2. /\ Just([o EXCEPT !.channel = v]) /\ Just([o EXCEPT !.blocked = v])
      /\ Just([o EXCEPT !.conn = v]) /\ Just([o EXCEPT !.tree = v])
      /\ Just([o EXCEPT !.lost = v]) /\ Just([o EXCEPT !.lostPark = v])
  BY DEF Formed, Plain, Fields
<1>3. /\ Just([o EXCEPT !.unproven = v]) /\ Just([o EXCEPT !.resending = v])
      /\ Just([o EXCEPT !.wire = v]) /\ Just([o EXCEPT !.offered = v])
      /\ Just([o EXCEPT !.relay = v]) /\ Just([o EXCEPT !.contained = v])
  BY DEF Formed, Plain, Fields
<1>4. /\ Just([o EXCEPT !.suspended = v]) /\ Just([o EXCEPT !.trying = v])
      /\ Just([o EXCEPT !.offer = v]) /\ Just([o EXCEPT !.acks = v])
      /\ Just([o EXCEPT !.settling = FALSE]) /\ Just([o EXCEPT !.draining = NoOp])
  BY DEF Formed, Plain, Fields
<1> HIDE DEF Just
<1>5. QED BY <1>1, <1>2, <1>3, <1>4

LEMMA ShutAlike == ASSUME NEW o, NEW e, Formed(o) PROVE Alike(o, Shut(o, e))
<1> DEFINE n == Revoke(o, e)
<1>1. Alike(o, n) BY RevokeAlike
<1> HIDE DEF n
<1>2. Alike(n, [n EXCEPT !.channel = "Revoked"]) BY <1>1, AlikeFormed, FlagsAlike
<1>3. QED BY <1>1, <1>2, AlikeTrans DEF Shut, n

LEMMA RevokeEnabledAlike == ASSUME NEW o, NEW e, Formed(o) PROVE Alike(o, RevokeEnabled(o, e))
  BY ShutAlike, AlikeSelf DEF RevokeEnabled, Shut

LEMMA TerminateAlike == ASSUME NEW o, NEW e, Formed(o) PROVE Alike(o, Terminate(o, e))
<1> DEFINE n == Terminate(o, e)
<1>1. Plain(o, n) /\ n.state = o.state BY DEF Formed, Plain, Fields, Terminate
<1> HIDE DEF n
<1>2. Alike(o, n) BY <1>1, PlainAlike
<1>3. QED BY <1>2 DEF n

LEMMA QuiesceAlike == ASSUME NEW o, Formed(o) PROVE Alike(o, Quiesce(o))
<1> DEFINE n == Quiesce(o)
<1>1. Plain(o, n) /\ n.state = o.state BY DEF Formed, Plain, Fields, Quiesce
<1> HIDE DEF n
<1>2. Alike(o, n) BY <1>1, PlainAlike
<1>3. QED BY <1>2 DEF n

LEMMA ForgetControllerAlike ==
  ASSUME NEW o, Formed(o)
  PROVE  Alike(o, ForgetController(o)) /\ ForgetController(o).settling = FALSE
<1> DEFINE n == ForgetController(o)
<1>1. Plain(o, n) /\ n.state = o.state /\ n.settling = FALSE
  BY DEF Formed, Plain, Fields, ForgetController
<1> HIDE DEF n
<1>2. Alike(o, n) BY <1>1, PlainAlike
<1>3. QED BY <1>1, <1>2 DEF n

\* Success is asked for once the end of the Session is recorded.
LEMMA RequestFinishAlike ==
  ASSUME NEW o, NEW f, Formed(o), f = "ok" => Closed(o) /\ ~o.quarantined
  PROVE  Alike(o, RequestFinish(o, f))
<1> DEFINE n == RequestFinish(o, f)
<1>1. /\ Formed(n)
      /\ n.receipts = o.receipts /\ n.brokerHead = o.brokerHead
      /\ n.pending = o.pending /\ n.deferred = o.deferred /\ n.queued = o.queued
      /\ n.quarantined = o.quarantined /\ n.withdrawn = o.withdrawn
      /\ n.done = o.done /\ n.wait = o.wait /\ n.state = o.state
      /\ n.draining = o.draining /\ n.settling = o.settling
      /\ n.replies = o.replies /\ n.failed = o.failed
  BY DEF Formed, Fields, RequestFinish
<1>2. "ok" \in {n.finishQuiet, n.finishDrained, n.finished} =>
         "ok" \in {o.finishQuiet, o.finishDrained, o.finished} \/ f = "ok"
  BY DEF Formed, Fields, RequestFinish, First
<1>3. n.finished = "ok" => o.finished = "ok" \/ (f = "ok" /\ ~Backlog(o))
  BY DEF Formed, Fields, RequestFinish, Closed
<1> HIDE DEF n
<1>4. Backlog(n) <=> Backlog(o) BY <1>1 DEF Backlog, Tip
<1>5. Closed(n) <=> Closed(o) BY <1>1 DEF Closed
<1>6. OkIn(n) => OkIn(o) \/ f = "ok" BY <1>1, <1>2 DEF OkIn
<1>7. Oks(o) => Oks(n) BY <1>1, <1>3, <1>4, <1>5, <1>6 DEF Oks
<1>8. Filed(o) => Filed(n) BY <1>1, <1>7 DEF Filed, Forms
<1>9. Settles(o) => Settles(n) BY <1>1 DEF Settles
<1>10. Alike(o, n) BY <1>1, <1>8, <1>9 DEF Alike, Entry, Formed
<1>11. QED BY <1>10 DEF n

LEMMA ReplyAlike ==
  ASSUME NEW o, NEW f, NEW h, Formed(o), f = "ok" => Closed(o) PROVE Alike(o, Reply(o, f, h))
<1> DEFINE r == [finish |-> f, head |-> h, live |-> TRUE]
           n == [o EXCEPT !.replies = @ \union {r}]
<1>1. /\ Formed(n)
      /\ n.receipts = o.receipts /\ n.brokerHead = o.brokerHead
      /\ n.pending = o.pending /\ n.deferred = o.deferred /\ n.queued = o.queued
      /\ n.quarantined = o.quarantined /\ n.withdrawn = o.withdrawn
      /\ n.done = o.done /\ n.wait = o.wait /\ n.state = o.state
      /\ n.draining = o.draining /\ n.settling = o.settling
      /\ n.finishQuiet = o.finishQuiet /\ n.finishDrained = o.finishDrained
      /\ n.finished = o.finished /\ n.failed = o.failed
      /\ n.replies = o.replies \union {r}
  BY DEF Formed, Fields
<1>2. r.finish = f OBVIOUS
<1> HIDE DEF n, r
<1>4. Backlog(n) <=> Backlog(o) BY <1>1 DEF Backlog, Tip
<1>5. Closed(n) <=> Closed(o) BY <1>1 DEF Closed
<1>6. OkIn(n) => OkIn(o) \/ f = "ok" BY <1>1, <1>2 DEF OkIn
<1>7. Oks(o) => Oks(n) BY <1>1, <1>4, <1>5, <1>6 DEF Oks
<1>8. Filed(o) => Filed(n) BY <1>1, <1>7 DEF Filed, Forms
<1>9. Settles(o) => Settles(n) BY <1>1 DEF Settles
<1>10. Alike(o, n) BY <1>1, <1>8, <1>9 DEF Alike, Entry, Formed
<1>11. QED BY <1>10, AlikeSelf DEF Reply, n, r

LEMMA FailedAlike ==
  ASSUME NEW o, NEW by, NEW f, Formed(o), f = "ok" => Closed(o) PROVE Alike(o, Failed(o, by, f))
<1> DEFINE r == [by |-> by, finish |-> f]
           n == [o EXCEPT !.failed = @ \union {r}]
<1>1. /\ Formed(n)
      /\ n.receipts = o.receipts /\ n.brokerHead = o.brokerHead
      /\ n.pending = o.pending /\ n.deferred = o.deferred /\ n.queued = o.queued
      /\ n.quarantined = o.quarantined /\ n.withdrawn = o.withdrawn
      /\ n.done = o.done /\ n.wait = o.wait /\ n.state = o.state
      /\ n.draining = o.draining /\ n.settling = o.settling
      /\ n.finishQuiet = o.finishQuiet /\ n.finishDrained = o.finishDrained
      /\ n.finished = o.finished /\ n.replies = o.replies
      /\ n.failed = o.failed \union {r}
  BY DEF Formed, Fields
<1>2. r.finish = f OBVIOUS
<1> HIDE DEF n, r
<1>4. Backlog(n) <=> Backlog(o) BY <1>1 DEF Backlog, Tip
<1>5. Closed(n) <=> Closed(o) BY <1>1 DEF Closed
<1>6. OkIn(n) => OkIn(o) \/ f = "ok" BY <1>1, <1>2 DEF OkIn
<1>7. Oks(o) => Oks(n) BY <1>1, <1>4, <1>5, <1>6 DEF Oks
<1>8. Filed(o) => Filed(n) BY <1>1, <1>7 DEF Filed, Forms
<1>9. Settles(o) => Settles(n) BY <1>1 DEF Settles
<1>10. Alike(o, n) BY <1>1, <1>8, <1>9 DEF Alike, Entry, Formed
<1>11. Alike(n, Reply(n, f, 0)) BY <1>1, <1>5, ReplyAlike
<1>12. QED BY <1>10, <1>11, AlikeTrans DEF Failed, n, r

LEMMA ToldAlike ==
  ASSUME NEW o, NEW op, Formed(o), op.finish = "ok" => Closed(o) /\ ~o.quarantined
  PROVE  Alike(o, Told(o, op))
  BY FailedAlike, RequestFinishAlike DEF Told

LEMMA CancelWaitAlike == ASSUME NEW o, Formed(o) PROVE Alike(o, CancelWait(o))
<1> DEFINE n == [o EXCEPT !.wait = NoOp]
<1>1. Plain(o, n) /\ n.state = o.state BY DEF Formed, Plain, Fields
<1> HIDE DEF n
<1>2. Alike(o, n) BY <1>1, PlainAlike
<1>3. Alike(n, Failed(n, o.wait.id, "none")) BY <1>2, AlikeFormed, FailedAlike
<1>4. QED BY <1>2, <1>3, AlikeTrans, AlikeSelf DEF CancelWait, n

LEMMA MaybeSettleAlike == ASSUME NEW o, Formed(o) PROVE Alike(o, MaybeSettle(o))
<1> DEFINE n == [o EXCEPT !.settling = TRUE]
<1>1. ASSUME o.state = "Parked", o.pending = NoOp PROVE Alike(o, n)
  <2>1. /\ Formed(n)
        /\ n.receipts = o.receipts /\ n.brokerHead = o.brokerHead
        /\ n.pending = o.pending /\ n.deferred = o.deferred /\ n.queued = o.queued
        /\ n.quarantined = o.quarantined /\ n.withdrawn = o.withdrawn
        /\ n.done = o.done /\ n.wait = o.wait /\ n.state = o.state
        /\ n.draining = o.draining
        /\ n.finishQuiet = o.finishQuiet /\ n.finishDrained = o.finishDrained
        /\ n.finished = o.finished /\ n.replies = o.replies /\ n.failed = o.failed
    BY DEF Formed, Fields
  <2> HIDE DEF n
  <2>2. Oks(o) => Oks(n) BY <2>1 DEF Oks, OkIn, Closed, Backlog, Tip
  <2>3. Filed(o) => Filed(n) BY <2>1, <2>2 DEF Filed, Forms
  <2>4. Settles(n) BY <1>1, <2>1 DEF Settles
  <2>5. QED BY <2>1, <2>3, <2>4 DEF Alike, Entry, Formed
<1>2. QED BY <1>1, AlikeSelf DEF MaybeSettle, n
-----------------------------------------------------------------------------
(* Evidence that is owed, and operations that are taken back *)

\* What the arithmetic of the evidence needs.
Sized(o) ==
    /\ Formed(o) /\ Tip(o) \in Nat /\ o.brokerHead \in Nat /\ Sequence(o.deferred)
    /\ o.state \in {"Running", "Parked", "Terminal"} /\ o.queued \in Finishes

LEMMA TypedSized == ASSUME NEW o, Typed(o) PROVE Sized(o)
<1>1. Tip(o) \in Nat BY Counts
<1>2. QED BY <1>1 DEF Typed, Sized, Formed

LEMMA EntrySized == ASSUME NEW o, NEW n, Entry(o, n), Sized(o) PROVE Sized(n)
  BY DEF Entry, Sized, Formed, Tip

LEMMA AlikeSized == ASSUME NEW o, NEW n, Alike(o, n), Sized(o) PROVE Sized(n)
  BY EntrySized DEF Alike

\* Nothing but a payload at the end of what is owed is new.
Adds(o, n, pay) ==
    /\ Sized(n)
    /\ n.receipts = o.receipts /\ n.brokerHead = o.brokerHead
    /\ n.pending = o.pending /\ n.queued = o.queued /\ n.state = o.state
    /\ n.quarantined = o.quarantined /\ n.withdrawn = o.withdrawn
    /\ n.done = o.done /\ n.wait = o.wait /\ n.settling = o.settling
    /\ n.deferred = Append(o.deferred, pay)
    /\ Gap(n) = Gap(o) + 1 /\ Backlog(n)
    /\ LastTo(n) = IF o.queued # "none" THEN "Terminal" ELSE pay.to
    /\ Filed(n) /\ Owes(o, n) /\ Heeds(o, n) /\ Due(n, pay)
    /\ Latest(n) = pay.to
    /\ Line(o) /\ ValidTransition(Latest(o), pay) => Line(n)

LEMMA LastAppended ==
  ASSUME NEW s, Sequence(s), NEW x
  PROVE  /\ Len(s) \in Nat /\ Len(Append(s, x)) = Len(s) + 1 /\ Append(s, x) # <<>>
         /\ Append(s, x)[Len(s) + 1] = x
         /\ \A i \in 1 .. Len(s) : Append(s, x)[i] = s[i]
         /\ s = <<>> <=> Len(s) = 0
<1>1. PICK S : s \in Seq(S) BY DEF Sequence
<1>2. s \in Seq(S \union {x}) BY <1>1, SeqMonotonic
<1>3. QED BY <1>2, AppendSequence, AppendProperties, EmptySeq

LEMMA DeferAdds ==
  ASSUME NEW o, NEW pay, Sized(o), Filed(o), IsPay(pay), Gap(o) < MaxPending,
         o.finished # "ok"
  PROVE  Adds(o, Defer(o, pay), pay)
<1> DEFINE n == [o EXCEPT !.deferred = Append(@, pay)]
<1>1. /\ Formed(n)
      /\ n.receipts = o.receipts /\ n.brokerHead = o.brokerHead
      /\ n.pending = o.pending /\ n.queued = o.queued /\ n.state = o.state
      /\ n.quarantined = o.quarantined /\ n.withdrawn = o.withdrawn
      /\ n.done = o.done /\ n.wait = o.wait /\ n.settling = o.settling
      /\ n.draining = o.draining
      /\ n.finishQuiet = o.finishQuiet /\ n.finishDrained = o.finishDrained
      /\ n.finished = o.finished /\ n.replies = o.replies /\ n.failed = o.failed
      /\ n.deferred = Append(o.deferred, pay)
  BY DEF Sized, Formed, Fields
<1>2. Defer(o, pay) = n BY DEF Defer
<1> HIDE DEF n
<1>3. /\ Len(o.deferred) \in Nat /\ Len(n.deferred) = Len(o.deferred) + 1 /\ n.deferred # <<>>
      /\ n.deferred[Len(o.deferred) + 1] = pay
      /\ \A i \in 1 .. Len(o.deferred) : n.deferred[i] = o.deferred[i]
      /\ o.deferred = <<>> <=> Len(o.deferred) = 0
      /\ Sequence(n.deferred)
  <2> DEFINE s == o.deferred
  <2>1. Sequence(s) BY DEF Sized
  <2>2. n.deferred = Append(s, pay) BY <1>1
  <2> HIDE DEF s
  <2>3. /\ Len(s) \in Nat /\ Len(Append(s, pay)) = Len(s) + 1 /\ Append(s, pay) # <<>>
        /\ Append(s, pay)[Len(s) + 1] = pay
        /\ \A i \in 1 .. Len(s) : Append(s, pay)[i] = s[i]
        /\ s = <<>> <=> Len(s) = 0
    BY <2>1, LastAppended, Zenon
  <2>4. Sequence(Append(s, pay)) BY <2>1, AppendSequence, Zenon
  <2>5. QED BY <2>2, <2>3, <2>4 DEF s
<1>4. Sized(n) BY <1>1, <1>3 DEF Sized, Tip
<1>5. Gap(n) = Gap(o) + 1
  <2>1. Tip(n) = Tip(o) /\ n.brokerHead = o.brokerHead BY <1>1 DEF Tip
  <2>2. Tip(o) \in Nat /\ o.brokerHead \in Nat BY DEF Sized
  <2>3. Len(n.deferred) = Len(o.deferred) + 1 /\ Len(o.deferred) \in Nat BY <1>3
  <2> DEFINE g == Gap(o)
             h == Gap(n)
  <2>4. g = Tip(o) - o.brokerHead + Len(o.deferred) BY DEF Gap
  <2>5. h = Tip(o) - o.brokerHead + (Len(o.deferred) + 1) BY <2>1, <2>3 DEF Gap
  <2> HIDE DEF g, h
  <2>6. h = g + 1 BY <2>2, <2>3, <2>4, <2>5
  <2>7. QED BY <2>6 DEF g, h
<1>6. Backlog(n) BY <1>3 DEF Backlog
<1>7. LastTo(n) = IF o.queued # "none" THEN "Terminal" ELSE pay.to BY <1>1, <1>3 DEF LastTo
<1>8. Forms(n)
  <2>1. \A i \in 1 .. Len(n.deferred) : IsPay(n.deferred[i])
    <3> TAKE i \in 1 .. Len(n.deferred)
    <3>1. i \in 1 .. Len(o.deferred) \/ i = Len(o.deferred) + 1 BY <1>3
    <3>2. QED BY <1>3, <3>1 DEF Filed, Forms
  <2>2. n.draining.phase = "Signing" =>
           n.draining.pay = n.deferred[1] /\ n.draining.seq = Len(n.receipts) + 1
    BY <1>1, <1>3 DEF Filed, Forms
  <2>3. /\ \A i \in 1 .. Len(n.receipts) : n.receipts[i].seq = i
        /\ n.pending # NoOp /\ n.pending.index = 0 => n.pending.seq = Len(n.receipts) + 1
    BY <1>1 DEF Filed, Forms
  <2>4. QED BY <1>3, <2>1, <2>2, <2>3 DEF Forms
<1>9. Oks(n) BY <1>1 DEF Filed, Oks, OkIn, Closed
<1>10. Filed(n) BY <1>1, <1>8, <1>9 DEF Filed
<1>11. Owes(o, n)
  <2>1. \A i \in 1 .. Len(o.deferred) : i \in 1 .. Len(n.deferred) BY <1>3
  <2>2. QED BY <1>1, <1>3, <2>1 DEF Owes, Due, Tip
<1>12. Heeds(o, n) BY <1>1 DEF Heeds, Closed
<1>13. Due(n, pay)
  <2>1. Len(o.deferred) + 1 \in 1 .. Len(n.deferred) BY <1>3
  <2>2. QED BY <1>3, <2>1 DEF Due
<1>14. Latest(n) = pay.to BY <1>3 DEF Latest
<1>15. ASSUME Line(o), ValidTransition(Latest(o), pay) PROVE Line(n)
  <2>1. \A i \in 1 .. Tip(n) - 1 : ValidTransition(n.receipts[i].to, n.receipts[i + 1])
    BY <1>1, <1>15 DEF Line, Tip
  <2>2. ValidTransition(n.receipts[Tip(n)].to, n.deferred[1])
    <3>1. CASE o.deferred = <<>> BY <1>1, <1>3, <1>15, <3>1 DEF Latest, Tip
    <3>2. CASE o.deferred # <<>> BY <1>1, <1>3, <1>15, <3>2 DEF Line, Tip
    <3>3. QED BY <3>1, <3>2
  <2>3. ASSUME NEW i \in 1 .. Len(n.deferred) - 1
        PROVE  ValidTransition(n.deferred[i].to, n.deferred[i + 1])
    <3>1. i \in 1 .. Len(o.deferred) /\ o.deferred # <<>> BY <1>3, <2>3
    <3>2. CASE i = Len(o.deferred) BY <1>3, <1>15, <3>1, <3>2 DEF Latest
    <3>3. CASE i # Len(o.deferred)
      <4>1. i \in 1 .. Len(o.deferred) - 1 /\ i + 1 \in 1 .. Len(o.deferred)
        BY <1>3, <3>1, <3>3
      <4>2. QED BY <1>3, <1>15, <3>1, <4>1 DEF Line
    <3>4. QED BY <3>2, <3>3
  <2>4. QED BY <2>1, <2>2, <2>3 DEF Line
<1>16. QED BY <1>1, <1>2, <1>4, <1>5, <1>6, <1>7, <1>10, <1>11, <1>12, <1>13, <1>14, <1>15 DEF Adds

\* The operation is forgotten.
Drop(o) == [o EXCEPT !.pending = NoOp]

LEMMA DropDoes ==
  ASSUME NEW o, Sized(o)
  PROVE  /\ Sized(Drop(o))
         /\ Drop(o).receipts = o.receipts /\ Drop(o).brokerHead = o.brokerHead
         /\ Drop(o).pending = NoOp /\ Drop(o).deferred = o.deferred
         /\ Drop(o).queued = o.queued /\ Drop(o).state = o.state
         /\ Drop(o).quarantined = o.quarantined /\ Drop(o).withdrawn = o.withdrawn
         /\ Drop(o).done = o.done /\ Drop(o).wait = o.wait
         /\ Drop(o).settling = o.settling /\ Drop(o).finished = o.finished
         /\ Drop(o).tree = o.tree
         /\ Gap(Drop(o)) = Gap(o) /\ (Backlog(Drop(o)) <=> Backlog(o))
         /\ Filed(o) => Filed(Drop(o))
         /\ Settles(o) => Settles(Drop(o))
         /\ o.pending.phase # "Signing" => LastTo(Drop(o)) = LastTo(o) /\ Owes(o, Drop(o))
         /\ Heeds(o, Drop(o))
<1> DEFINE n == Drop(o)
<1>1. /\ Formed(n)
      /\ n.receipts = o.receipts /\ n.brokerHead = o.brokerHead /\ n.tree = o.tree
      /\ n.pending = NoOp /\ n.queued = o.queued /\ n.state = o.state
      /\ n.quarantined = o.quarantined /\ n.withdrawn = o.withdrawn
      /\ n.done = o.done /\ n.wait = o.wait /\ n.settling = o.settling
      /\ n.draining = o.draining /\ n.deferred = o.deferred
      /\ n.finishQuiet = o.finishQuiet /\ n.finishDrained = o.finishDrained
      /\ n.finished = o.finished /\ n.replies = o.replies /\ n.failed = o.failed
  BY DEF Sized, Formed, Fields, Drop
<1> HIDE DEF n
<1>2. Sized(n) /\ Gap(n) = Gap(o) /\ (Backlog(n) <=> Backlog(o))
  BY <1>1 DEF Sized, Gap, Backlog, Tip
<1>3. Oks(o) => Oks(n) BY <1>1, <1>2 DEF Oks, OkIn, Closed
<1>4. Filed(o) => Filed(n) BY <1>1, <1>3 DEF Filed, Forms
<1>5. Settles(o) => Settles(n) BY <1>1 DEF Settles
<1>6. o.pending.phase # "Signing" => LastTo(n) = LastTo(o) BY <1>1 DEF LastTo, Tip, NoOp
<1>7. o.pending.phase # "Signing" => Owes(o, n) BY <1>1 DEF Owes, Due, Tip
<1>8. Heeds(o, n) BY <1>1 DEF Heeds, Closed
<1>9. QED BY <1>1, <1>2, <1>4, <1>5, <1>6, <1>7, <1>8 DEF n

LEMMA AbortedAlike == ASSUME NEW o, NEW e, Sized(o) PROVE Alike(Drop(o), Aborted(o, e))
<1> DEFINE n == Aborted(o, e)
           d == Drop(o)
<1>1. Plain(d, n) /\ n.state = d.state
  BY DEF Sized, Formed, Plain, Fields, Aborted, RevokeEnabled, Revoke, Drop
<1> HIDE DEF n, d
<1>2. Alike(d, n) BY <1>1, PlainAlike
<1>3. QED BY <1>2 DEF n, d

LEMMA FailMechanicAlike == ASSUME NEW o, NEW e, Sized(o) PROVE Alike(Drop(o), FailMechanic(o, e))
<1> DEFINE n == Aborted(o, e)
           by == o.pending.pay.by
<1>1. Alike(Drop(o), n) BY AbortedAlike
<1>2. FailMechanic(o, e) = Failed(n, by, "none") BY DEF FailMechanic, Aborted
<1> HIDE DEF n, by
<1>3. Alike(n, Failed(n, by, "none")) BY <1>1, AlikeFormed, FailedAlike
<1>4. QED BY <1>1, <1>2, <1>3, AlikeTrans

LEMMA QuarantineMechanicTells ==
  ASSUME NEW o, NEW op, NEW e, Formed(o)
  PROVE  /\ QuarantineMechanic(o, op, e).quarantined
         /\ \A a : Tells(a, QuarantineMechanic(o, op, e))
<1> DEFINE c == [ForgetController(o) EXCEPT
                   !.quarantined = TRUE, !.blocked = TRUE, !.queued = "none",
                   !.finishDrained = "none", !.pending = NoOp]
           t == Terminate(Quiesce(c), e)
           m == [t EXCEPT !.unproven = "cleanup" \in e, !.channel = "Closed",
                       !.state = IF "cleanup" \in e THEN @ ELSE "Terminal"]
<1>1. Formed(c) /\ c.quarantined BY DEF Formed, Fields, ForgetController
<1> HIDE DEF c
<1>2. Alike(c, Quiesce(c)) BY <1>1, QuiesceAlike
<1>3. Alike(Quiesce(c), t) BY <1>2, AlikeFormed, TerminateAlike
<1>4. Formed(t) /\ t.quarantined BY <1>1, <1>2, <1>3 DEF Alike, Entry, Formed
<1> HIDE DEF t
<1>5. Formed(m) /\ m.quarantined BY <1>4 DEF Formed, Fields
<1> HIDE DEF m
<1>6. Failed(m, op.pay.by, "err").quarantined /\ RequestFinish(m, "err").quarantined
  BY <1>5, FailedAlike, RequestFinishAlike DEF Alike, Entry
<1>7. QuarantineMechanic(o, op, e).quarantined
  BY <1>6 DEF QuarantineMechanic, m, t, c
<1>8. QED BY <1>7 DEF Tells

LEMMA AttemptParkEntry ==
  ASSUME NEW o, NEW e, Typed(o)
  PROVE  /\ Entry(o, AttemptPark(o, e))
         /\ AttemptPark(o, e).state = IF ParkResult(o, e) = "Parked" THEN "Parked" ELSE o.state
         /\ AttemptPark(o, e).settling = o.settling
         /\ AttemptPark(o, e).finished = o.finished
         /\ ParkResult(o, e) = "Parked" => o.state # "Terminal"
         /\ ParkResult(o, e) = "Running" => o.state = "Running"
<1> DEFINE n == AttemptPark(o, e)
<1>1. /\ ParkResult(o, e) = "Parked" => o.state # "Terminal"
      /\ ParkResult(o, e) = "Running" => o.state = "Running"
  BY DEF ParkResult, Typed
<1>2. /\ Plain(o, n) /\ n.state = IF ParkResult(o, e) = "Parked" THEN "Parked" ELSE o.state
      /\ n.settling = o.settling /\ n.finished = o.finished
  BY <1>1, ParkResults DEF Typed, Plain, Fields, AttemptPark
<1> HIDE DEF n
<1>3. Entry(o, n) BY <1>2, PlainEntry
<1>4. QED BY <1>1, <1>2, <1>3 DEF n
-----------------------------------------------------------------------------
(* The end of the Session is recorded *)

LEMMA BeginTerminalReceiptRecords ==
  ASSUME NEW o, NEW f \in {"ok", "err"}, Sized(o), Filed(o), Closed(o), ~OkIn(o),
         ~o.quarantined, ~o.settling, Gap(o) < MaxPending, Led(o, {"Running", "Parked"}),
         NEW n, n = BeginTerminalReceipt(o, f)
  PROVE  /\ Records(n) /\ Owes(o, n) /\ Due(n, End) /\ n.state = o.state
         /\ n.done = o.done /\ n.wait \in {o.wait, NoOp}
         /\ n.pending = NoOp \/ ~n.pending.respond
<1> DEFINE a == [o EXCEPT !.blocked = TRUE]
           b == Defer(a, End)
           r == RequestFinish(b, f)
           op == Operation(o, End, "Signing", FALSE, f)
           s == [o EXCEPT !.pending = op]
<1>1. /\ IsPay(End) /\ End.to = "Terminal" /\ End.kind = "Disposal"
      /\ ValidTransition("Running", End) /\ ValidTransition("Parked", End)
  BY DEF IsPay, End, Payload, ValidTransition
<1>2. Alike(o, a) BY FlagsAlike DEF Sized
<1>3. a.finished # "ok" /\ a.settling = o.settling
  BY DEF OkIn, Sized, Formed, Fields
<1>4. n = IF Backlog(o) THEN r ELSE s BY DEF BeginTerminalReceipt, End, a, b, r, s, op
<1> HIDE DEF a
<1>5. ASSUME Backlog(o)
      PROVE  /\ Records(r) /\ Owes(o, r) /\ Due(r, End) /\ r.state = o.state
             /\ r.done = o.done /\ r.wait \in {o.wait, NoOp} /\ r.pending = NoOp
  <2>1. Sized(a) /\ Filed(a) /\ Gap(a) = Gap(o) /\ Closed(a) /\ ~a.quarantined
    BY <1>2, AlikeSized DEF Alike, Entry, Closed, Gap, Tip
  <2>2. Adds(a, b, End) BY <1>1, <1>3, <2>1, DeferAdds
  <2> HIDE DEF b
  <2>3. Closed(b) /\ ~b.quarantined /\ ~b.settling BY <1>3, <2>1, <2>2 DEF Adds, Closed
  <2>4. Records(b)
    <3>1. Reaches(b, LastTo(b)) BY <1>1, <2>2, <2>3 DEF Adds, Reaches, Closed
    <3>2. Room(b)
      <4>1. Gap(b) = Gap(o) + 1 /\ b.state = "Terminal" BY <2>1, <2>2, <2>3 DEF Adds, Closed
      <4>2. Gap(o) < MaxPending /\ Gap(o) \in Int BY DEF Gap, Sized
      <4>3. QED BY <4>1, <4>2, OwnerAssumption DEF Room, Spare
    <3>3. Placed(b) BY <2>3 DEF Placed, Doing, Closed, NoOp
    <3>4. Settles(b) BY <2>3 DEF Settles
    <3>5. Legal(b)
      <4>1. Led(a, {"Running", "Parked"}) BY <1>2, SameLine DEF Alike, Entry
      <4>2. b.pending = NoOp /\ b.queued = "none" BY <2>3 DEF Closed
      <4>3. Strict => Line(b) BY <1>1, <2>2, <4>1 DEF Adds, Led
      <4>4. QED BY <4>2, <4>3 DEF Legal, Apt, Closing, Sole
    <3>6. QED BY <2>2, <3>1, <3>2, <3>3, <3>4, <3>5 DEF Records, Adds
  <2>5. Alike(b, r) BY <2>2, <2>3, RequestFinishAlike DEF Adds, Sized
  <2> HIDE DEF r
  <2>6. Records(r) /\ Owes(b, r) BY <2>4, <2>5, AlikeRecords
  <2>7. Owes(o, a) BY <1>2, EntryHeeds DEF Alike
  <2>8. Owes(o, r) BY <2>2, <2>6, <2>7, OwesTrans DEF Adds
  <2>9. Due(r, End) BY <2>2, <2>6 DEF Adds, Owes
  <2>10. QED BY <1>2, <2>2, <2>3, <2>5, <2>6, <2>8, <2>9 DEF Alike, Entry, Adds, Closed
<1>6. ASSUME ~Backlog(o)
      PROVE  /\ Records(s) /\ Owes(o, s) /\ Due(s, End) /\ s.state = o.state
             /\ s.done = o.done /\ s.wait \in {o.wait, NoOp} /\ ~s.pending.respond
  <2>1. op.phase = "Signing" /\ op.pay = End /\ op.index = 0 /\ op.respond = FALSE
        /\ op.finish = f /\ op # NoOp /\ op.seq = Len(o.receipts) + 1
    BY DEF Operation, NoOp, Tip
  <2> HIDE DEF op
  <2>2. /\ Formed(s)
        /\ s.receipts = o.receipts /\ s.brokerHead = o.brokerHead
        /\ s.pending = op /\ s.queued = o.queued /\ s.state = o.state
        /\ s.withdrawn = o.withdrawn
        /\ s.done = o.done /\ s.wait = o.wait /\ s.settling = o.settling
        /\ s.draining = o.draining /\ s.deferred = o.deferred
        /\ s.finishQuiet = o.finishQuiet /\ s.finishDrained = o.finishDrained
        /\ s.finished = o.finished /\ s.replies = o.replies /\ s.failed = o.failed
    BY DEF Sized, Formed, Fields
  <2> HIDE DEF s
  <2>3. ~OkIn(s) BY <2>2 DEF OkIn
  <2>4. s.finished # "ok" BY <2>3 DEF OkIn
  <2>5. Oks(s) BY <2>2, <2>3, <2>4 DEF Oks, Closed
  <2>6. Deed(op) BY <1>1, <2>1 DEF Deed
  <2>7. Filed(s) BY <2>1, <2>2, <2>5, <2>6 DEF Filed, Forms
  <2>8. LastTo(s) = "Terminal" BY <1>1, <1>6, <2>1, <2>2 DEF LastTo, Closed, Backlog
  <2>9. Reaches(s, LastTo(s)) BY <2>2, <2>8 DEF Reaches, Closed
  <2>10. Gap(s) = Gap(o) /\ Gap(o) \in Int
    <3>1. Len(o.deferred) \in Nat BY DEF Sized, Sequence
    <3>2. QED BY <2>2, <3>1 DEF Gap, Tip, Sized
  <2>11. Room(s) BY <2>2, <2>10, OwnerAssumption DEF Room, Spare, Closed
  <2>12. Placed(s) BY <1>1, <2>1, <2>2 DEF Placed, Doing
  <2>13. Settles(s) BY <2>2 DEF Settles
  <2>14. Owes(o, s) BY <2>2 DEF Owes, Due, Tip, Closed, NoOp
  <2>15. Due(s, End) BY <2>1, <2>2 DEF Due
  <2>16. Legal(s)
    <3>1. Led(s, {"Running", "Parked"}) BY <2>2, SameLine
    <3>2. s.queued = "none" /\ s.deferred = <<>> BY <1>6, <2>2 DEF Closed, Backlog
    <3>3. Strict => ValidTransition(Latest(s), s.pending.pay) BY <1>1, <2>1, <2>2, <3>1 DEF Led
    <3>4. QED BY <3>1, <3>2, <3>3 DEF Legal, Led, Apt, Closing, Sole
  <2>17. QED
    BY <2>1, <2>2, <2>7, <2>9, <2>11, <2>12, <2>13, <2>14, <2>15, <2>16 DEF Records
<1>7. QED BY <1>4, <1>5, <1>6

\* The end that was queued is recorded, and stays due meanwhile.
LEMMA TakeQueuedTells ==
  ASSUME NEW o, Sized(o), Filed(o), o.pending = NoOp, ~o.quarantined,
         o.queued = "none" => Records(o),
         o.queued # "none" => o.state = "Terminal" /\ ~o.settling /\ Gap(o) < MaxPending
                              /\ Led(o, {"Running", "Parked"})
  PROVE  Tells(o, TakeQueued(o))
<1> DEFINE a == [o EXCEPT !.queued = "none"]
           n == BeginTerminalReceipt(a, o.queued)
<1>1. CASE o.queued = "none"
  <2>1. TakeQueued(o) = o BY <1>1 DEF TakeQueued
  <2>2. Alike(o, o) BY AlikeSelf DEF Sized
  <2>3. QED BY <1>1, <2>1, <2>2, AlikeTells
<1>2. CASE o.queued # "none"
  <2>1. TakeQueued(o) = n BY <1>2 DEF TakeQueued
  <2>2. o.queued \in {"ok", "err"} BY <1>2 DEF Sized, Finishes
  <2>3. ~Closed(o) /\ ~OkIn(o) BY <1>2 DEF Closed, Filed, Oks
  <2>4. /\ Formed(a)
        /\ a.receipts = o.receipts /\ a.brokerHead = o.brokerHead
        /\ a.pending = NoOp /\ a.queued = "none" /\ a.state = "Terminal"
        /\ a.withdrawn = o.withdrawn /\ ~a.quarantined
        /\ a.done = o.done /\ a.wait = o.wait /\ ~a.settling
        /\ a.draining = o.draining /\ a.deferred = o.deferred
        /\ a.finishQuiet = o.finishQuiet /\ a.finishDrained = o.finishDrained
        /\ a.finished = o.finished /\ a.replies = o.replies /\ a.failed = o.failed
    BY <1>2 DEF Sized, Formed, Fields
  <2> HIDE DEF a
  <2>5. ~OkIn(a) BY <2>3, <2>4 DEF OkIn
  <2>6. a.finished # "ok" BY <2>5 DEF OkIn
  <2>7. Closed(a) BY <2>4 DEF Closed
  <2>8. Filed(a) BY <2>4, <2>5, <2>6 DEF Filed, Oks, Forms, NoOp
  <2>9. Sized(a) BY <2>4 DEF Sized, Tip, Finishes
  <2>10. Gap(a) < MaxPending /\ Led(a, {"Running", "Parked"})
    <3>1. Gap(a) = Gap(o) BY <2>4 DEF Gap, Tip
    <3>2. QED BY <1>2, <2>4, <3>1, SameLine
  <2> HIDE DEF n
  <2>11. n = BeginTerminalReceipt(a, o.queued) BY DEF n
  <2>12. /\ Records(n) /\ Owes(a, n) /\ Due(n, End)
         /\ n.done = a.done /\ n.wait \in {a.wait, NoOp}
         /\ n.pending = NoOp \/ ~n.pending.respond
    BY <2>2, <2>4, <2>5, <2>7, <2>8, <2>9, <2>10, <2>11, BeginTerminalReceiptRecords
  <2>13. \A p : Due(o, p) => Due(a, p) \/ p = End BY <2>4 DEF Due, Tip
  <2>14. Owes(o, n) BY <2>12, <2>13 DEF Owes
  <2>15. Heeds(o, n) BY <2>3, <2>4, <2>12 DEF Heeds
  <2>16. QED BY <2>1, <2>12, <2>14, <2>15 DEF Tells
<1>3. QED BY <1>1, <1>2

\* The evidence of a Session that is not over can be followed by its end.
LEMMA AliveLed ==
  ASSUME NEW o, Sized(o), Records(o), o.state # "Terminal", o.queued = "none", Strict
  PROVE  /\ Line(o) /\ Apt(o) /\ Sole(o) /\ Latest(o) \in {"Running", "Parked"}
         /\ o.pending # NoOp /\ o.pending.index = 0 => o.pending.pay.to # "Terminal"
         /\ o.pending.phase # "Signing" /\ ~o.withdrawn => Latest(o) = o.state
         /\ o.pending.phase = "Signing" /\ ~o.withdrawn => o.pending.pay.to = o.state
<1>1. Line(o) /\ Apt(o) /\ Sole(o) BY DEF Records, Legal
<1>2. /\ LastTo(o) \in {"Running", "Parked"}
      /\ ~o.withdrawn => LastTo(o) = o.state
  BY DEF Records, Reaches, Sized, Strict
<1>3. o.pending.phase # "Signing" => LastTo(o) = Latest(o) BY DEF LastTo, Latest
<1>4. CASE o.pending = NoOp BY <1>1, <1>2, <1>3, <1>4 DEF NoOp
<1>5. CASE o.pending # NoOp
  <2>1. Deed(o.pending) /\ Placed(o) BY <1>5 DEF Records, Filed
  <2>2. CASE o.pending.phase = "Signing"
    <3>1. o.pending.index = 0 /\ LastTo(o) = o.pending.pay.to
      BY <1>1, <1>5, <2>1, <2>2 DEF Deed, LastTo, Sole
    <3>2. ValidTransition(Latest(o), o.pending.pay) BY <1>1, <1>5, <3>1 DEF Apt
    <3>3. Latest(o) \in {"Running", "Parked"} BY <3>2 DEF ValidTransition
    <3>4. QED BY <1>1, <1>2, <2>2, <3>1, <3>3
  <2>3. CASE o.pending.phase # "Signing"
    <3>1. o.pending.index = 0 => o.pending.pay.to = "Running"
      BY <1>5, <2>1, <2>3 DEF Deed, Placed
    <3>2. QED BY <1>1, <1>2, <1>3, <2>3, <3>1
  <2>4. QED BY <2>2, <2>3
<1>6. QED BY <1>4, <1>5

LEMMA BeginTerminalEventTells ==
  ASSUME NEW o, NEW f \in {"ok", "err"}, NEW e, Sized(o), Records(o), ~o.quarantined,
         o.queued # "none" => o.state = "Terminal"
  PROVE  /\ Tells(o, BeginTerminalEvent(o, f, e))
         /\ BeginTerminalEvent(o, f, e).state \in {o.state, "Terminal"}
<1> DEFINE a == ForgetController(o)
           n == Terminate(Quiesce(a), e)
           u == [n EXCEPT !.unproven = TRUE, !.blocked = TRUE, !.channel = "Revoked"]
           m == [n EXCEPT !.unproven = FALSE, !.state = "Terminal", !.channel = "Closed"]
           q == [m EXCEPT !.queued = f]
           t == BeginTerminalReceipt(m, f)
<1>1. Alike(o, a) /\ a.settling = FALSE BY ForgetControllerAlike DEF Sized
<1>2. Quiesce(a).settling = FALSE /\ n.settling = FALSE
  BY <1>1 DEF Alike, Entry, Fields, Quiesce, Terminate
<1> HIDE DEF a
<1>3. Alike(a, Quiesce(a)) BY <1>1, AlikeFormed, QuiesceAlike
<1>4. Alike(Quiesce(a), n) BY <1>3, AlikeFormed, TerminateAlike
<1>5. Alike(o, n) BY <1>1, <1>3, <1>4, AlikeTrans
<1> HIDE DEF n
<1>6. CASE o.state = "Terminal"
  <2>1. BeginTerminalEvent(o, f, e) = o BY <1>6 DEF BeginTerminalEvent
  <2>2. Alike(o, o) BY AlikeSelf DEF Sized
  <2>3. QED BY <2>1, <2>2, AlikeTells
<1>7. CASE o.state # "Terminal" /\ "cleanup" \in e
  <2>1. BeginTerminalEvent(o, f, e) = RequestFinish(u, "err")
    BY <1>7 DEF BeginTerminalEvent, u, n, a
  <2>2. Plain(n, u) /\ u.state = n.state BY <1>5, AlikeFormed DEF Plain, Formed, Fields
  <2> HIDE DEF u
  <2>3. Alike(n, u) BY <2>2, PlainAlike
  <2>4. Alike(u, RequestFinish(u, "err")) BY <2>3, AlikeFormed, RequestFinishAlike
  <2>5. Alike(o, RequestFinish(u, "err")) BY <1>5, <2>3, <2>4, AlikeTrans
  <2>6. QED BY <2>1, <2>5, AlikeTells DEF Alike
<1>8. CASE o.state # "Terminal" /\ "cleanup" \notin e
  <2>1. BeginTerminalEvent(o, f, e) = IF o.pending # NoOp THEN q ELSE t
    BY <1>8 DEF BeginTerminalEvent, q, t, m, n, a
  <2>2. ~Closed(o) /\ ~OkIn(o) /\ o.queued = "none" BY <1>8 DEF Closed, Records, Filed, Oks
  <2>3. o.pending # NoOp => o.pending.finish # "ok" BY <1>8 DEF Records, Filed, Oks
  <2>4. Sized(n) /\ Filed(n) BY <1>5, AlikeSized DEF Alike, Entry, Records
  <2>5. ~OkIn(n) /\ n.queued = "none" /\ n.state # "Terminal"
    BY <1>5, <1>8, <2>2, <2>4 DEF Alike, Entry, Closed, Filed, Oks
  <2>6. /\ Formed(m)
        /\ m.receipts = n.receipts /\ m.brokerHead = n.brokerHead
        /\ m.pending = n.pending /\ m.queued = "none" /\ m.state = "Terminal"
        /\ m.withdrawn = n.withdrawn /\ m.quarantined = n.quarantined
        /\ m.done = n.done /\ m.wait = n.wait /\ ~m.settling
        /\ m.draining = n.draining /\ m.deferred = n.deferred
        /\ m.finishQuiet = n.finishQuiet /\ m.finishDrained = n.finishDrained
        /\ m.finished = n.finished /\ m.replies = n.replies /\ m.failed = n.failed
    BY <1>2, <2>4, <2>5 DEF Sized, Formed, Fields
  <2> HIDE DEF m
  <2>7. ~OkIn(m) BY <2>5, <2>6 DEF OkIn
  <2>8. m.finished # "ok" BY <2>7 DEF OkIn
  <2>9. m.pending # NoOp => m.pending.finish # "ok" BY <1>5, <2>3, <2>6 DEF Alike, Entry
  <2>10. Filed(m) BY <2>4, <2>6, <2>7, <2>8, <2>9 DEF Filed, Oks, Forms
  <2>11. Sized(m) BY <2>4, <2>6 DEF Sized, Tip, Finishes
  <2>12. Gap(m) = Gap(o) /\ Gap(o) \in Int
    <3>1. Len(o.deferred) \in Nat BY DEF Sized, Sequence
    <3>2. QED BY <1>5, <2>6, <3>1 DEF Alike, Entry, Gap, Tip, Sized
  <2>13. Gap(m) < MaxPending
    BY <1>8, <2>12, OwnerAssumption DEF Records, Room, Spare, Sized
  <2>14. ~m.quarantined /\ m.done = o.done /\ m.wait \in {o.wait, NoOp} /\ m.pending = o.pending
    BY <1>5, <2>6 DEF Alike, Entry
  <2>15. Owes(o, m)
    <3>1. Owes(o, n) BY <1>5, EntryHeeds DEF Alike
    <3>2. Owes(n, m) BY <2>5, <2>6 DEF Owes, Due, Tip
    <3>3. QED BY <3>1, <3>2, OwesTrans
  <2>16. /\ m.receipts = o.receipts /\ m.deferred = o.deferred
         /\ Strict => /\ Line(o) /\ Apt(o) /\ Sole(o) /\ Latest(o) \in {"Running", "Parked"}
                      /\ o.pending # NoOp /\ o.pending.index = 0 =>
                            o.pending.pay.to # "Terminal"
    BY <1>5, <1>8, <2>2, <2>6, AliveLed DEF Alike, Entry
  <2>17. ASSUME o.pending = NoOp PROVE Tells(o, t) /\ t.state = "Terminal"
    <3>1. Closed(m) /\ Led(m, {"Running", "Parked"})
      BY <2>6, <2>14, <2>17, <2>16, SameLine DEF Closed, Led
    <3>2. t = BeginTerminalReceipt(m, f) OBVIOUS
    <3> HIDE DEF t
    <3>3. /\ Records(t) /\ Owes(m, t) /\ t.state = m.state
          /\ t.done = m.done /\ t.wait \in {m.wait, NoOp}
          /\ t.pending = NoOp \/ ~t.pending.respond
      BY <2>6, <2>7, <2>10, <2>11, <2>13, <2>14, <3>1, <3>2, BeginTerminalReceiptRecords
    <3>4. Owes(o, t) BY <2>15, <3>3, OwesTrans
    <3>5. Heeds(o, t) BY <2>2, <2>14, <3>3 DEF Heeds
    <3>6. QED BY <2>6, <3>3, <3>4, <3>5 DEF Tells
  <2>18. ASSUME o.pending # NoOp PROVE Tells(o, q) /\ q.state = "Terminal"
    <3>1. /\ Formed(q)
          /\ q.receipts = m.receipts /\ q.brokerHead = m.brokerHead
          /\ q.pending = m.pending /\ q.queued = f /\ q.state = "Terminal"
          /\ q.withdrawn = m.withdrawn
          /\ q.done = m.done /\ q.wait = m.wait /\ ~q.settling
          /\ q.draining = m.draining /\ q.deferred = m.deferred
          /\ q.finishQuiet = m.finishQuiet /\ q.finishDrained = m.finishDrained
          /\ q.finished = m.finished /\ q.replies = m.replies /\ q.failed = m.failed
      BY <2>6 DEF Formed, Fields
    <3> HIDE DEF q
    <3>2. ~OkIn(q) BY <2>7, <3>1 DEF OkIn
    <3>3. Filed(q) BY <2>8, <2>9, <2>10, <3>1, <3>2 DEF Filed, Oks, Forms
    <3>4. Reaches(q, LastTo(q)) BY <3>1 DEF Reaches, LastTo
    <3>5. Room(q) BY <2>12, <2>13, <3>1, OwnerAssumption DEF Room, Spare, Gap, Tip
    <3>6. Placed(q) BY <2>14, <3>1 DEF Placed, Doing, Records
    <3>7. Settles(q) BY <3>1 DEF Settles
    <3>8. Owes(m, q) BY <2>6, <3>1 DEF Owes, Due, Tip
    <3>9. Heeds(o, q) BY <2>2, <2>14, <3>1 DEF Heeds
    <3>10. Legal(q)
      <4>1. /\ (Line(q) <=> Line(o)) /\ Latest(q) = Latest(o)
            /\ q.pending = o.pending /\ q.deferred = o.deferred
        BY <2>14, <2>16, <3>1, SameLine
      <4>2. QED BY <2>16, <4>1 DEF Legal, Apt, Closing, Sole
    <3>11. QED BY <2>15, <3>1, <3>3, <3>4, <3>5, <3>6, <3>7, <3>8, <3>9, <3>10, OwesTrans
           DEF Tells, Records
  <2>19. QED BY <2>1, <2>17, <2>18
<1>9. QED BY <1>6, <1>7, <1>8
-----------------------------------------------------------------------------
(* Operations that fail *)

LEMMA DropTells ==
  ASSUME NEW o, Sized(o), Records(o), o.pending.phase # "Signing"
  PROVE  Tells(o, Drop(o)) /\ Records(Drop(o))
<1> DEFINE n == Drop(o)
<1>1. /\ n.state = o.state /\ n.withdrawn = o.withdrawn /\ n.pending = NoOp
      /\ Gap(n) = Gap(o) /\ Filed(n) /\ Settles(n)
      /\ LastTo(n) = LastTo(o) /\ Owes(o, n) /\ Heeds(o, n)
  BY DropDoes DEF Records
<1> HIDE DEF n
<1>2. Reaches(n, LastTo(n)) /\ Room(n) BY <1>1 DEF Records, Reaches, Room, Spare
<1>3. Placed(n) BY <1>1 DEF Placed, Doing
<1>4. Legal(n)
  <2>1. n.receipts = o.receipts /\ n.deferred = o.deferred /\ n.queued = o.queued
    BY DropDoes DEF n
  <2>2. QED BY <1>1, <2>1, SameLine DEF Records, Legal, Apt, Closing, Sole
<1>5. QED BY <1>1, <1>2, <1>3, <1>4 DEF n, Tells, Records

LEMMA FailMechanicTells ==
  ASSUME NEW o, NEW e, Sized(o), Records(o), o.pending.phase # "Signing"
  PROVE  Tells(o, FailMechanic(o, e)) /\ Alike(Drop(o), FailMechanic(o, e))
<1>1. Records(Drop(o)) /\ Tells(o, Drop(o)) BY DropTells
<1>2. Alike(Drop(o), FailMechanic(o, e)) BY FailMechanicAlike
<1>3. Tells(Drop(o), FailMechanic(o, e)) BY <1>1, <1>2, AlikeTells
<1>4. Drop(o).quarantined => FailMechanic(o, e).quarantined BY <1>2 DEF Alike, Entry
<1>5. QED BY <1>1, <1>2, <1>3, <1>4, TellsTrans

LEMMA FailPreparationTells ==
  ASSUME NEW o, NEW e, Sized(o), Records(o), o.pending.phase # "Signing"
  PROVE  Tells(o, FailPreparation(o, e))
<1> DEFINE n == RevokeEnabled(o, e)
           a == [n EXCEPT !.channel = "Revoked"]
           m == FailMechanic(a, e)
           b == [m EXCEPT !.blocked = m.lost \/ m.unproven \/ Backlog(m)]
<1>1. Alike(o, n) BY RevokeEnabledAlike DEF Sized
<1> HIDE DEF n
<1>2. Alike(n, a) BY <1>1, AlikeFormed, FlagsAlike
<1>3. Alike(o, a) BY <1>1, <1>2, AlikeTrans
<1> HIDE DEF a
<1>4. Sized(a) /\ Records(a) /\ Owes(o, a) /\ Heeds(o, a) /\ a.pending.phase # "Signing"
  BY <1>3, AlikeSized, AlikeRecords DEF Alike, Entry
<1>5. Tells(a, m) /\ Alike(Drop(a), m) BY <1>4, FailMechanicTells
<1> HIDE DEF m
<1>6. Formed(m) BY <1>5, AlikeFormed
<1>7. Plain(m, b) /\ b.state = m.state BY <1>6 DEF Plain, Formed, Fields
<1> HIDE DEF b
<1>8. Alike(m, b) BY <1>7, PlainAlike
<1>9. Tells(a, b) BY <1>5, <1>8, AlikeTells, TellsTrans DEF Alike, Entry
<1>10. Tells(o, b) BY <1>4, <1>9, OwesTrans, HeedsTrans DEF Tells
<1>11. \A op : Tells(o, QuarantineMechanic(n, op, e))
  BY <1>1, AlikeFormed, QuarantineMechanicTells
<1>12. QED BY <1>10, <1>11 DEF FailPreparation, b, m, a, n

\* What an operation that was not recorded adds to what is owed.
Own(o) == IF o.pending.index = 0 THEN 1 ELSE 0
\* The state the evidence reaches once the operation was taken back.
Ending(o) ==
    IF o.queued # "none" THEN "Terminal"
    ELSE IF o.pending.index = 0 THEN o.pending.pay.to ELSE LastTo(o)

\* The operation was taken back, and its record is owed where it had none.
TakenBack(o, n) ==
    /\ Sized(n) /\ Filed(n) /\ Settles(n) /\ n.pending = NoOp
    /\ n.queued = o.queued /\ n.withdrawn = o.withdrawn /\ n.quarantined = o.quarantined
    /\ n.state = o.state \/ (o.state = "Running" /\ n.state = "Parked")
    /\ Gap(n) = Gap(o) + Own(o) /\ LastTo(n) = Ending(o)
    /\ Owes(o, n) /\ Heeds(o, n)
    /\ Latest(n) = IF o.pending.index = 0 THEN o.pending.pay.to ELSE Latest(o)
    /\ Line(o) /\ Apt(o) => Line(n)

LEMMA OwingTakesBack ==
  ASSUME NEW o, Sized(o), Filed(o), Settles(o), o.pending # NoOp, Gap(o) + Own(o) <= MaxPending,
         NEW x, Entry(Drop(o), x), x.finished # "ok",
         NEW n, n = Owing(x, o.pending)
  PROVE  TakenBack(o, n) /\ n.state = x.state
<1> DEFINE d == Drop(o)
           pay == o.pending.pay
<1>1. /\ Sized(d) /\ d.pending = NoOp /\ d.deferred = o.deferred
      /\ d.receipts = o.receipts /\ d.brokerHead = o.brokerHead
      /\ d.queued = o.queued /\ d.state = o.state
      /\ d.quarantined = o.quarantined /\ d.withdrawn = o.withdrawn
      /\ Gap(d) = Gap(o) /\ Filed(d) /\ Settles(d) /\ Heeds(o, d)
      /\ o.pending.phase # "Signing" => LastTo(d) = LastTo(o) /\ Owes(o, d)
  BY DropDoes
<1>2. Deed(o.pending) BY DEF Filed
<1>3. \A p : Due(o, p) => Due(d, p) \/ (o.pending.index = 0 /\ p = pay)
  BY <1>1, <1>2 DEF Due, Tip, Deed
<1> HIDE DEF d
<1>4. /\ Sized(x) /\ Filed(x) /\ Settles(x) /\ x.pending = NoOp
      /\ x.queued = o.queued /\ x.withdrawn = o.withdrawn /\ x.quarantined = o.quarantined
      /\ x.state = o.state \/ (o.state = "Running" /\ x.state = "Parked")
  BY <1>1, EntrySized DEF Entry, d
<1>5. Gap(x) = Gap(o) BY <1>1 DEF Entry, Gap, Tip, d
<1>6. LastTo(x) = LastTo(d) BY DEF Entry, LastTo, Tip, d
<1>7. (Line(x) <=> Line(o)) /\ Latest(x) = Latest(o)
  <2>1. x.receipts = o.receipts /\ x.deferred = o.deferred BY <1>1 DEF Entry, d
  <2>2. QED BY <2>1, SameLine
<1>8. Owes(d, x) /\ Heeds(d, x) BY EntryHeeds DEF d
<1>9. Heeds(o, x) BY <1>1, <1>8, HeedsTrans
<1>10. \A p : Due(o, p) => Due(x, p) \/ (o.pending.index = 0 /\ p = pay)
  BY <1>3, <1>8 DEF Owes
<1>11. Gap(o) \in Int
  <2>1. Len(o.deferred) \in Nat BY DEF Sized, Sequence
  <2>2. QED BY <2>1 DEF Gap, Sized
<1>12. CASE o.pending.index = 0
  <2>1. n = Defer(x, pay) BY <1>12 DEF Owing, Unrecorded
  <2>2. IsPay(pay) /\ Gap(x) < MaxPending
    BY <1>2, <1>5, <1>11, <1>12, OwnerAssumption DEF Deed, Own
  <2> HIDE DEF pay
  <2>3. Adds(x, n, pay) BY <1>4, <2>1, <2>2, DeferAdds
  <2>4. Owes(o, n) BY <1>10, <2>3 DEF Adds, Owes
  <2>5. Heeds(o, n) BY <1>9, <2>3, HeedsTrans DEF Adds
  <2>6. Gap(n) = Gap(o) + Own(o) BY <1>5, <1>12, <2>3 DEF Adds, Own
  <2>7. LastTo(n) = Ending(o) BY <1>4, <1>12, <2>3 DEF Adds, Ending, pay
  <2>8. Settles(n) BY <1>4, <2>3 DEF Adds, Settles
  <2>9. Latest(n) = pay.to /\ (Line(o) /\ Apt(o) => Line(n))
    BY <1>12, <1>7, <2>3 DEF Adds, Apt, pay
  <2>10. QED BY <1>4, <1>12, <2>3, <2>4, <2>5, <2>6, <2>7, <2>8, <2>9 DEF Adds, TakenBack, pay
<1>13. CASE o.pending.index # 0
  <2>1. n = x BY <1>13 DEF Owing, Unrecorded
  <2>2. o.pending.phase # "Signing" BY <1>2, <1>13 DEF Deed
  <2>3. Owes(o, n) BY <1>10, <1>13, <2>1 DEF Owes
  <2>4. LastTo(o) = "Terminal" \/ o.queued = "none" BY DEF LastTo
  <2>5. LastTo(n) = Ending(o) BY <1>1, <1>6, <1>13, <2>1, <2>2, <2>4 DEF Ending
  <2>6. Gap(n) = Gap(o) + Own(o) BY <1>5, <1>11, <1>13, <2>1 DEF Own
  <2>7. QED BY <1>4, <1>9, <1>13, <1>7, <2>1, <2>3, <2>5, <2>6 DEF TakenBack
<1>14. QED BY <1>12, <1>13

LEMMA AlikeTakesBack ==
  ASSUME NEW o, NEW x, NEW n, TakenBack(o, x), Alike(x, n) PROVE TakenBack(o, n)
<1>1. Sized(n) BY AlikeSized DEF TakenBack
<1>2. Owes(x, n) /\ Heeds(x, n) BY EntryHeeds DEF Alike
<1>3. Owes(o, n) /\ Heeds(o, n) BY <1>2, OwesTrans, HeedsTrans DEF TakenBack
<1>4. Gap(n) = Gap(x) BY DEF Alike, Entry, Gap, Tip
<1>5. LastTo(n) = LastTo(x) BY DEF Alike, Entry, LastTo, Tip
<1>6. (Line(n) <=> Line(x)) /\ Latest(n) = Latest(x) BY SameLine DEF Alike, Entry
<1>7. QED BY <1>1, <1>3, <1>4, <1>5, <1>6 DEF TakenBack, Alike, Entry

\* Any operation but a Resume is just taken back.
Revoked(o, e) ==
    Told(Awaiting(Owing(Aborted(o, e), o.pending), o.pending, o.deferred), o.pending)

LEMMA RevokedTakesBack ==
  ASSUME NEW o, NEW e, Sized(o), Filed(o), Settles(o), o.pending # NoOp, ~o.quarantined,
         Gap(o) + Own(o) <= MaxPending
  PROVE  TakenBack(o, Revoked(o, e)) /\ Revoked(o, e).state = o.state
<1> DEFINE a == Aborted(o, e)
           b == Owing(a, o.pending)
           c == Awaiting(b, o.pending, o.deferred)
           n == Told(c, o.pending)
<1>1. Alike(Drop(o), a) BY AbortedAlike
<1>2. Drop(o).state = o.state BY DropDoes
<1>3. a.finished = o.finished
  BY DEF Sized, Formed, Fields, Aborted, RevokeEnabled, Revoke
<1>4. ~Closed(o) /\ ~OkIn(o) /\ o.finished # "ok" BY DEF Closed, Filed, Oks, OkIn
<1>5. a.state = o.state BY <1>1, <1>2 DEF Alike
<1> HIDE DEF a
<1>6. TakenBack(o, b) /\ b.state = o.state
  BY <1>1, <1>3, <1>4, <1>5, OwingTakesBack DEF Alike
<1> HIDE DEF b
<1>7. Plain(b, c) /\ c.state = b.state
  BY <1>6 DEF TakenBack, Sized, Formed, Plain, Fields, Awaiting
<1> HIDE DEF c
<1>8. Alike(b, c) BY <1>7, PlainAlike
<1>9. TakenBack(o, c) BY <1>6, <1>8, AlikeTakesBack
<1>10. o.pending.finish = "ok" => Closed(c) /\ ~c.quarantined
  BY <1>6, <1>7, <1>9 DEF TakenBack, Closed, Filed, Oks
<1>11. Alike(c, n) BY <1>9, <1>10, ToldAlike DEF TakenBack, Sized
<1>12. n = Revoked(o, e) BY DEF Revoked, n, c, b, a
<1> HIDE DEF n
<1>13. TakenBack(o, n) BY <1>9, <1>11, AlikeTakesBack
<1>14. QED BY <1>6, <1>7, <1>11, <1>12, <1>13 DEF Alike

\* How much room an operation that is taken back needs.
Reach(o) == Gap(o) + Own(o) + Spare(o) + (IF o.queued # "none" THEN 1 ELSE 0)

LEMMA TakenBackTells ==
  ASSUME NEW o, Sized(o), o.queued # "none" => o.state = "Terminal", ~o.quarantined,
         Reaches(o, Ending(o)), Reach(o) <= MaxPending, Lawful(o), o.pending # NoOp,
         NEW n, TakenBack(o, n), n.state = o.state
  PROVE  Tells(o, TakeQueued(n)) /\ (o.queued = "none" => TakeQueued(n) = n)
<1>1. Gap(o) \in Int
  <2>1. Len(o.deferred) \in Nat BY DEF Sized, Sequence
  <2>2. QED BY <2>1 DEF Gap, Sized
<1>2. ASSUME o.queued = "none" PROVE Records(n)
  <2>1. Reaches(n, LastTo(n)) BY DEF Reaches, TakenBack
  <2>2. Room(n) BY <1>1, <1>2, OwnerAssumption DEF Room, Reach, TakenBack, Spare, Own
  <2>3. Placed(n) BY DEF Placed, Doing, TakenBack
  <2>4. Legal(n) BY <1>2 DEF Lawful, Legal, Apt, Closing, Sole, TakenBack
  <2>5. QED BY <2>1, <2>2, <2>3, <2>4 DEF Records, TakenBack
<1>3. ASSUME o.queued # "none"
      PROVE  /\ n.state = "Terminal" /\ ~n.settling /\ Gap(n) < MaxPending
             /\ Led(n, {"Running", "Parked"})
  <2>1. Gap(n) < MaxPending
    BY <1>1, <1>3, OwnerAssumption DEF Reach, TakenBack, Spare, Own
  <2>2. Led(n, {"Running", "Parked"})
    <3>1. SUFFICES ASSUME Strict PROVE Line(n) /\ Latest(n) \in {"Running", "Parked"}
      BY DEF Led
    <3>2. Line(n) BY <3>1 DEF Lawful, TakenBack
    <3>3. CASE o.pending.index # 0 BY <1>3, <3>1, <3>2, <3>3 DEF Lawful, Closing, TakenBack
    <3>4. CASE o.pending.index = 0
      <4>1. ValidTransition(Latest(o), o.pending.pay) /\ o.pending.pay.to # "Terminal"
        BY <1>3, <3>1, <3>4 DEF Lawful, Closing, Apt
      <4>2. o.pending.pay.to \in {"Running", "Parked"} BY <4>1 DEF ValidTransition
      <4>3. QED BY <3>2, <3>4, <4>2 DEF TakenBack
    <3>5. QED BY <3>3, <3>4
  <2>3. QED BY <1>3, <2>1, <2>2 DEF TakenBack, Settles
<1>4. Tells(n, TakeQueued(n)) BY <1>2, <1>3, TakeQueuedTells DEF TakenBack
<1>5. Tells(o, TakeQueued(n)) BY <1>4, OwesTrans, HeedsTrans DEF Tells, TakenBack
<1>6. o.queued = "none" => TakeQueued(n) = n BY DEF TakeQueued, TakenBack
<1>7. QED BY <1>5, <1>6

LEMMA CausalIsPay ==
  ASSUME NEW cause
  PROVE  /\ IsPay(Causal(cause)) /\ Causal(cause).to = "Parked" /\ Causal(cause).kind = "Park"
         /\ ValidTransition("Running", Causal(cause))
  BY DEF IsPay, Causal, Payload, ValidTransition

\* A Resume that fails leaves the Session where it was, or parks it again.
LEMMA FailResumeTells ==
  ASSUME NEW o, NEW e, Typed(o), Filed(o), Settles(o), Doing(o, "Resume"), ~o.quarantined,
         o.queued = "none", o.state # "Terminal", Gap(o) + Own(o) + 2 <= MaxPending,
         (o.state = "Running" /\ Reaches(o, Ending(o))) \/ ParkResult(o, e) = "Parked",
         Lawful(o), o.pending.index # 0 => Led(o, {"Running"}),
         NEW n, n = FailResume(o, e)
  PROVE  /\ Tells(o, n)
         /\ n.state = "Parked" /\ ~n.quarantined => Gap(n) = Gap(o) + Own(o) + 1
         /\ ParkResult(o, e) = "Parked" /\ ~n.quarantined => n.state = "Parked" /\ n.pending = NoOp
<1> DEFINE a == Aborted(o, e)
           r == Revoke(a, e)
           w == Narrowed(r)
           x == AttemptPark(w, e)
           op == o.pending
           z == Owing(x, op)
           result == IF "revoke" \in e THEN "Ambiguous" ELSE ParkResult(o, e)
           why == Causal(IF op.phase = "Activating" THEN <<"inactive", op.pay.by[2]>>
                                                    ELSE <<"unacknowledged", op.pay.by[2]>>)
           d == Defer(z, why)
           m == Told(z, op)
           t == [m EXCEPT !.queued = "none"]
<1>1. Sized(o) /\ Gap(o) \in Int
  <2>1. Sized(o) BY TypedSized
  <2>2. Len(o.deferred) \in Nat BY <2>1 DEF Sized, Sequence
  <2>3. QED BY <2>1, <2>2 DEF Gap, Sized
<1>2. o.pending # NoOp /\ Deed(op) /\ op.pay.kind = "Resume" /\ op.finish = "none"
  BY DEF Doing, Filed, Deed
<1>3. ~Closed(o) /\ ~OkIn(o) /\ o.finished # "ok" BY DEF Closed, Filed, Oks, OkIn
<1>4. w.tree = o.tree /\ w.finished = o.finished
  BY DEF Typed, Fields, Aborted, RevokeEnabled, Revoke, Narrowed
<1>5. Typed(w)
  <2>1. Eases(o, a) BY AbortedEases
  <2> HIDE DEF a
  <2>2. Eases(a, r) BY <2>1, RevokeEases DEF Eases
  <2> HIDE DEF r
  <2>3. Eases(r, w) BY <2>2, NarrowedEases DEF Eases
  <2>4. QED BY <2>3 DEF Eases
<1>6. Alike(Drop(o), w) /\ Drop(o).state = o.state
  <2>1. Alike(Drop(o), a) BY <1>1, AbortedAlike
  <2> HIDE DEF a
  <2>2. Alike(a, r) BY <2>1, AlikeFormed, RevokeAlike
  <2> HIDE DEF r
  <2>3. Alike(r, w) BY <2>2, AlikeFormed, NarrowedAlike
  <2>4. QED BY <1>1, <2>1, <2>2, <2>3, AlikeTrans, DropDoes
<1>7. ParkResult(w, e) = ParkResult(o, e) BY <1>4 DEF ParkResult
<1>8. n = Reparked(z, op, result, e) BY DEF FailResume, result, z, x, w, r, a, op
<1> HIDE DEF w
<1>9. /\ Entry(Drop(o), x) /\ x.finished # "ok"
      /\ x.state = IF ParkResult(o, e) = "Parked" THEN "Parked" ELSE o.state
      /\ ParkResult(o, e) = "Running" => o.state = "Running"
  <2>1. /\ Entry(w, x) /\ x.finished = w.finished
        /\ x.state = IF ParkResult(o, e) = "Parked" THEN "Parked" ELSE w.state
        /\ ParkResult(o, e) = "Running" => w.state = "Running"
    <3>1. /\ Entry(w, x) /\ x.finished = w.finished
          /\ x.state = IF ParkResult(w, e) = "Parked" THEN "Parked" ELSE w.state
          /\ ParkResult(w, e) = "Running" => w.state = "Running"
      BY <1>5, AttemptParkEntry, Zenon
    <3> HIDE DEF x
    <3>2. QED BY <1>7, <3>1
  <2>2. w.state = o.state /\ Entry(Drop(o), w) BY <1>6 DEF Alike
  <2> HIDE DEF x
  <2>3. Entry(Drop(o), x) BY <2>1, <2>2, EntryTrans
  <2>4. QED BY <1>3, <1>4, <2>1, <2>2, <2>3
<1> HIDE DEF x
<1>10. TakenBack(o, z) /\ z.state = x.state
  <2>1. Gap(o) + Own(o) <= MaxPending BY <1>1, OwnerAssumption DEF Own
  <2>2. QED BY <1>1, <1>2, <1>9, <2>1, OwingTakesBack
<1>11. ~Closed(z) /\ ~OkIn(z) /\ z.finished # "ok" /\ z.queued = "none" /\ z.state # "Terminal"
  BY <1>9, <1>10 DEF TakenBack, Closed, Filed, Oks, OkIn
<1> HIDE DEF z
<1>12. Led(z, {"Running"})
  <2>1. SUFFICES ASSUME Strict PROVE Line(z) /\ Latest(z) = "Running" BY DEF Led
  <2>2. Line(z) BY <1>10, <2>1 DEF Lawful, TakenBack
  <2>3. o.pending.index = 0 => o.pending.pay.to = "Running" BY <1>2 DEF Deed
  <2>4. QED BY <1>10, <2>1, <2>2, <2>3 DEF Led, TakenBack
<1>13. result \in {"Ambiguous", "Terminal", "Running", "Parked"} BY ParkResults
<1>14. CASE result = "Ambiguous"
  <2>1. n = QuarantineMechanic(z, op, e) BY <1>8, <1>14 DEF Reparked
  <2>2. QED BY <1>10, <2>1, QuarantineMechanicTells DEF TakenBack, Sized
<1>15. CASE result = "Parked"
  <2>1. n = TakeQueued(Told(d, op)) BY <1>8, <1>15 DEF Reparked
  <2>2. z.state = "Parked" BY <1>9, <1>10, <1>15
  <2>3. IsPay(why) /\ why.to = "Parked" /\ ValidTransition("Running", why) BY CausalIsPay
  <2> HIDE DEF why
  <2>4. Gap(z) = Gap(o) + Own(o) /\ Own(o) \in {0, 1} BY <1>10 DEF TakenBack, Own
  <2>5. Gap(z) < MaxPending BY <1>1, <2>4, OwnerAssumption
  <2>6. Adds(z, d, why) BY <1>10, <1>11, <2>3, <2>5, DeferAdds DEF TakenBack
  <2>7. d.state = "Parked" /\ d.pending = NoOp /\ d.queued = "none"
    BY <1>10, <1>11, <2>2, <2>6 DEF Adds, TakenBack
  <2>8. Gap(d) = Gap(o) + Own(o) + 1 BY <2>4, <2>6 DEF Adds
  <2>9. Records(d)
    <3>1. Reaches(d, LastTo(d)) BY <1>11, <2>3, <2>6, <2>7 DEF Adds, Reaches
    <3>2. Room(d) BY <1>1, <2>7, <2>8, OwnerAssumption DEF Room, Spare, Own
    <3>3. Placed(d) BY <2>7 DEF Placed, Doing
    <3>4. Settles(d) BY <1>10, <2>6 DEF Settles, Adds, TakenBack
    <3>5. Legal(d)
      <4>1. Strict => Line(d) BY <1>12, <2>3, <2>6 DEF Adds, Led
      <4>2. QED BY <2>7, <4>1 DEF Legal, Apt, Closing, Sole
    <3>6. QED BY <2>6, <3>1, <3>2, <3>3, <3>4, <3>5 DEF Records, Adds
  <2>10. Owes(o, d) /\ Heeds(o, d)
    BY <1>10, <2>6, OwesTrans, HeedsTrans DEF Adds, TakenBack
  <2> HIDE DEF d
  <2>11. Alike(d, Told(d, op)) BY <1>2, <2>6, ToldAlike DEF Adds, Sized
  <2>12. n = Told(d, op) BY <2>1, <2>7, <2>11 DEF TakeQueued, Alike, Entry
  <2>13. Records(n) /\ Owes(o, n) /\ Heeds(o, n)
    BY <2>9, <2>10, <2>11, <2>12, AlikeRecords, OwesTrans, HeedsTrans
  <2>14. Gap(n) = Gap(d) /\ n.state = "Parked" /\ n.pending = NoOp
    BY <2>7, <2>11, <2>12 DEF Alike, Entry, Gap, Tip
  <2>15. Gap(n) = Gap(o) + Own(o) + 1 BY <1>1, <2>4, <2>8, <2>14
  <2>16. QED BY <2>13, <2>14, <2>15 DEF Tells
<1>16. ASSUME result # "Parked", result # "Ambiguous" PROVE Records(z) /\ z.state = "Running"
  <2>1. o.state = "Running" /\ Reaches(o, Ending(o)) /\ z.state = "Running"
    BY <1>9, <1>10, <1>16
  <2>2. Reaches(z, LastTo(z)) BY <1>10, <2>1 DEF Reaches, TakenBack
  <2>3. Room(z) BY <1>1, <1>10, <2>1, OwnerAssumption DEF Room, Spare, Own, TakenBack
  <2>4. Placed(z) BY <1>10 DEF Placed, Doing, TakenBack
  <2>5. Legal(z) BY <1>10, <1>11, <1>12 DEF TakenBack, Legal, Led, Apt, Closing, Sole
  <2>6. QED BY <1>10, <2>1, <2>2, <2>3, <2>4, <2>5 DEF Records, TakenBack
<1>17. Alike(z, m) BY <1>2, <1>10, ToldAlike DEF TakenBack, Sized
<1>18. CASE result = "Running"
  <2>1. n = TakeQueued(m) BY <1>8, <1>18 DEF Reparked
  <2>2. Records(z) /\ z.state = "Running" BY <1>16, <1>18
  <2> HIDE DEF m
  <2>3. n = m BY <1>11, <1>17, <2>1 DEF TakeQueued, Alike, Entry
  <2>4. Tells(o, n) /\ n.state = "Running"
    BY <1>10, <1>17, <2>2, <2>3, AlikeRecords, OwesTrans, HeedsTrans DEF Tells, TakenBack, Alike
  <2>5. ParkResult(o, e) # "Parked" BY <1>18
  <2>6. QED BY <2>4, <2>5
<1>19. CASE result = "Terminal"
  <2>1. n = BeginTerminalEvent(t, "ok", e) BY <1>8, <1>19 DEF Reparked, t, m
  <2>2. Records(z) /\ z.state = "Running" BY <1>16, <1>19
  <2> HIDE DEF m
  <2>3. m.queued = "none" /\ Formed(m) BY <1>11, <1>17, AlikeFormed DEF Alike, Entry
  <2>4. Plain(m, t) /\ t.state = m.state BY <2>3 DEF Plain, Formed, Fields
  <2> HIDE DEF t
  <2>5. Alike(m, t) BY <2>4, PlainAlike
  <2>6. Alike(z, t) BY <1>17, <2>5, AlikeTrans
  <2>7. Records(t) /\ Owes(z, t) /\ Heeds(z, t) BY <2>2, <2>6, AlikeRecords
  <2>8. Sized(t) /\ ~t.quarantined /\ t.queued = "none" /\ t.state = "Running"
    BY <1>10, <2>2, <2>3, <2>4, <2>6, AlikeSized DEF TakenBack, Alike, Entry
  <2>9. Tells(t, n) /\ n.state \in {"Running", "Terminal"}
    BY <2>1, <2>7, <2>8, BeginTerminalEventTells
  <2>10. Tells(o, n) BY <1>10, <2>7, <2>9, OwesTrans, HeedsTrans DEF Tells, TakenBack
  <2>11. ParkResult(o, e) # "Parked" BY <1>19
  <2>12. QED BY <2>9, <2>10, <2>11
<1>20. QED BY <1>13, <1>14, <1>15, <1>18, <1>19

LEMMA FailPlainTells ==
  ASSUME NEW o, NEW e, Sized(o), Filed(o), Settles(o), o.pending # NoOp, ~o.quarantined,
         ~Doing(o, "Resume") \/ o.state = "Terminal",
         o.queued # "none" => o.state = "Terminal",
         Reaches(o, Ending(o)), Reach(o) <= MaxPending, Lawful(o)
  PROVE  /\ Tells(o, FailReceipt(o, e))
         /\ o.queued = "none" => /\ FailReceipt(o, e).state = o.state
                                 /\ FailReceipt(o, e).pending = NoOp
<1>1. FailReceipt(o, e) = TakeQueued(Revoked(o, e)) BY DEF FailReceipt, Preparing, Revoked
<1>2. Gap(o) + Own(o) <= MaxPending
  <2>1. Len(o.deferred) \in Nat BY DEF Sized, Sequence
  <2>2. Gap(o) \in Int /\ Own(o) \in Nat /\ Spare(o) \in Nat BY <2>1 DEF Gap, Sized, Own, Spare
  <2>3. QED BY <2>2, OwnerAssumption DEF Reach
<1>3. TakenBack(o, Revoked(o, e)) /\ Revoked(o, e).state = o.state
  BY <1>2, RevokedTakesBack
<1>4. QED BY <1>1, <1>3, TakenBackTells DEF TakenBack

\* An operation under way is all there is past the known head.
Busy(o) == o.pending # NoOp => o.deferred = <<>> /\ Gap(o) + Own(o) <= 1

LEMMA OrderlyBusy ==
  ASSUME NEW o, Orderly(o), o.pending # NoOp => Deed(o.pending) PROVE Busy(o)
<1>1. Typed(o) /\ Under(o) BY DEF Orderly, Fit
<1>2. Tip(o) \in Nat BY <1>1, Counts
<1>3. ASSUME o.pending # NoOp PROVE o.deferred = <<>> /\ Gap(o) + Own(o) <= 1
  <2>1. o.deferred = <<>> BY <1>1, <1>3 DEF Under, Quiet
  <2>2. Len(o.deferred) = 0 BY <1>1, <2>1, Counts
  <2>3. CASE o.pending.phase = "AwaitingDurableAck"
    <3>1. o.brokerHead + 1 = Tip(o) /\ Own(o) = 0
      BY <1>1, <1>3, <2>3 DEF Under, Deed, Own
    <3>2. o.brokerHead \in Nat BY <1>1, <1>2 DEF Typed
    <3>3. QED BY <1>2, <2>1, <2>2, <3>1, <3>2 DEF Gap
  <2>4. CASE o.pending.phase # "AwaitingDurableAck"
    <3>1. o.brokerHead = Tip(o) BY <1>1, <1>3, <2>4 DEF Under
    <3>2. Own(o) \in {0, 1} BY DEF Own
    <3>3. QED BY <1>2, <2>1, <2>2, <3>1, <3>2 DEF Gap
  <2>5. QED BY <2>3, <2>4
<1>4. QED BY <1>3 DEF Busy

\* More than three receipts may be owed (MAX_PENDING_RECEIPTS is eight).
Wide == MaxPending > 3

LEMMA FailReceiptTells ==
  ASSUME Wide, NEW o, NEW e, Typed(o), Records(o), Busy(o), ~o.quarantined, ~o.withdrawn,
         o.queued # "none" => o.state = "Terminal",
         NEW n, n = FailReceipt(o, e)
  PROVE  /\ Tells(o, n)
         /\ o.state = "Running" /\ n.state = "Parked" /\ ~n.quarantined => Gap(n) <= 2
<1>1. Sized(o) BY TypedSized
<1>2. Gap(o) \in Int
  <2>1. Len(o.deferred) \in Nat BY <1>1 DEF Sized, Sequence
  <2>2. QED BY <1>1, <2>1 DEF Gap, Sized
<1>3. CASE o.pending = NoOp
  <2>1. n = o BY <1>3 DEF FailReceipt
  <2>2. Alike(o, o) BY <1>1, AlikeSelf DEF Sized
  <2>3. QED BY <2>1, <2>2, AlikeTells
<1>4. CASE o.pending # NoOp /\ Preparing(o)
  <2>1. n = FailPreparation(o, e) BY <1>4 DEF FailReceipt
  <2>2. o.pending.phase # "Signing" /\ o.state # "Running" BY <1>4 DEF Preparing
  <2>3. QED BY <1>1, <2>1, <2>2, FailPreparationTells
<1>5. ASSUME o.pending # NoOp, ~Preparing(o)
      PROVE  Reaches(o, Ending(o)) /\ Own(o) \in {0, 1} /\ Gap(o) + Own(o) <= 1
  <2>1. Deed(o.pending) /\ Placed(o) /\ Reaches(o, LastTo(o)) /\ o.deferred = <<>>
        /\ Gap(o) + Own(o) <= 1
    BY <1>5 DEF Records, Filed, Busy
  <2>2. CASE o.queued # "none" BY <2>1, <2>2 DEF Reaches, Ending, Own
  <2>3. CASE o.queued = "none" /\ o.pending.phase = "Signing"
    <3>1. Ending(o) = LastTo(o) BY <2>1, <2>3 DEF Ending, LastTo, Deed
    <3>2. QED BY <2>1, <3>1 DEF Own
  <2>4. CASE o.queued = "none" /\ o.pending.phase = "Applying"
    <3>1. Doing(o, "Resume") BY <1>5, <2>1, <2>4 DEF Placed, Doing
    <3>2. o.state = "Parked" BY <2>1, <2>4, <3>1 DEF Placed
    <3>3. QED BY <1>5, <2>4, <3>1, <3>2 DEF Preparing
  <2>5. CASE o.queued = "none" /\ o.pending.phase \notin {"Applying", "Signing"}
    <3>1. Ending(o) = LastTo(o) BY <2>1, <2>5 DEF Ending, Deed
    <3>2. QED BY <2>1, <3>1 DEF Own
  <2>6. QED BY <2>2, <2>3, <2>4, <2>5
<1>6. CASE o.pending # NoOp /\ ~Preparing(o) /\ Doing(o, "Resume") /\ o.state # "Terminal"
  <2>1. n = FailResume(o, e) BY <1>6 DEF FailReceipt
  <2>2. Placed(o) /\ o.queued = "none" /\ Filed(o) /\ Settles(o) BY <1>6 DEF Records
  <2>3. o.state = "Running"
    <3>1. o.state = "Parked" => o.pending.phase = "Applying" BY <1>6, <2>2 DEF Placed
    <3>2. QED BY <1>1, <1>6, <3>1 DEF Preparing, Sized
  <2>4. Reaches(o, Ending(o)) /\ Own(o) \in {0, 1} /\ Gap(o) + Own(o) <= 1 BY <1>5, <1>6
  <2>5. Gap(o) + Own(o) + 2 <= MaxPending BY <1>2, <2>4, OwnerAssumption DEF Wide
  <2>6. Lawful(o) /\ (o.pending.index # 0 => Led(o, {"Running"}))
    <3>1. o.pending.index # 0 => o.pending.phase # "Signing" BY <1>6, <2>2 DEF Filed, Deed
    <3>2. Strict /\ o.pending.index # 0 => Line(o) /\ Latest(o) = "Running"
      BY <1>1, <1>6, <2>2, <2>3, <3>1, AliveLed
    <3>3. QED BY <3>2 DEF Records, Legal, Lawful, Led
  <2>7. /\ Tells(o, n)
        /\ n.state = "Parked" /\ ~n.quarantined => Gap(n) = Gap(o) + Own(o) + 1
    BY <1>6, <2>1, <2>2, <2>3, <2>4, <2>5, <2>6, FailResumeTells
  <2>8. n.state = "Parked" /\ ~n.quarantined => Gap(n) <= 2 BY <1>2, <2>4, <2>7
  <2>9. QED BY <2>7, <2>8
<1>7. CASE o.pending # NoOp /\ ~Preparing(o) /\ ~(Doing(o, "Resume") /\ o.state # "Terminal")
  <2>1. Reaches(o, Ending(o)) /\ Own(o) \in {0, 1} /\ Gap(o) + Own(o) <= 1 BY <1>5, <1>7
  <2>2. Reach(o) <= MaxPending BY <1>2, <2>1, OwnerAssumption DEF Reach, Spare, Wide
  <2>3. Lawful(o) BY DEF Records, Legal, Lawful
  <2>4. Tells(o, n) /\ (o.queued = "none" => n.state = o.state)
    BY <1>1, <1>7, <2>1, <2>2, <2>3, FailPlainTells DEF Records
  <2>5. o.state = "Running" => o.queued = "none" OBVIOUS
  <2>6. QED BY <2>4, <2>5
<1>8. QED BY <1>3, <1>4, <1>6, <1>7
-----------------------------------------------------------------------------
(* Operations that begin *)

LEMMA GapIsInt == ASSUME NEW o, Sized(o) PROVE Gap(o) \in Int
<1>1. Len(o.deferred) \in Nat BY DEF Sized, Sequence
<1>2. QED BY <1>1 DEF Gap, Sized

LEMMA BegunFiles ==
  ASSUME NEW o, Sized(o), Filed(o), o.pending = NoOp, o.state # "Terminal",
         NEW op, Deed(op), op.finish # "ok", op.seq = Tip(o) + 1,
         NEW n, n = [o EXCEPT !.pending = op]
  PROVE  /\ Sized(n) /\ Filed(n) /\ Gap(n) = Gap(o) /\ (Backlog(n) <=> Backlog(o))
         /\ n.receipts = o.receipts /\ n.brokerHead = o.brokerHead
         /\ n.pending = op /\ n.queued = o.queued /\ n.state = o.state
         /\ n.quarantined = o.quarantined /\ n.withdrawn = o.withdrawn
         /\ n.done = o.done /\ n.wait = o.wait /\ n.settling = o.settling
         /\ n.deferred = o.deferred /\ n.tree = o.tree
         /\ Owes(o, n)
<1>1. /\ Formed(n)
      /\ n.receipts = o.receipts /\ n.brokerHead = o.brokerHead
      /\ n.pending = op /\ n.queued = o.queued /\ n.state = o.state
      /\ n.quarantined = o.quarantined /\ n.withdrawn = o.withdrawn
      /\ n.done = o.done /\ n.wait = o.wait /\ n.settling = o.settling
      /\ n.draining = o.draining /\ n.deferred = o.deferred /\ n.tree = o.tree
      /\ n.finishQuiet = o.finishQuiet /\ n.finishDrained = o.finishDrained
      /\ n.finished = o.finished /\ n.replies = o.replies /\ n.failed = o.failed
  BY DEF Sized, Formed, Fields
<1>2. Sized(n) /\ Gap(n) = Gap(o) /\ (Backlog(n) <=> Backlog(o))
  BY <1>1 DEF Sized, Gap, Backlog, Tip
<1>3. ~OkIn(o) BY DEF Filed, Oks, Closed
<1>4. ~OkIn(n) BY <1>1, <1>3 DEF OkIn
<1>5. n.finished # "ok" BY <1>4 DEF OkIn
<1>6. Filed(n) BY <1>1, <1>4, <1>5 DEF Filed, Oks, Forms, Tip
<1>7. Owes(o, n) BY <1>1 DEF Owes, Due, Tip, NoOp
<1>8. QED BY <1>1, <1>2, <1>6, <1>7

\* A Park nobody asked for is signed, or owed at once.
LEMMA BeginCausedParkTells ==
  ASSUME NEW o, NEW cause, NEW e, Sized(o), Filed(o), o.pending = NoOp, o.queued = "none",
         o.state = "Parked", ~o.settling, ~o.quarantined, Gap(o) + 2 <= MaxPending,
         Led(o, {"Running"})
  PROVE  Tells(o, BeginCausedPark(o, cause, e))
<1> DEFINE pay == Causal(cause)
           op == Operation(o, pay, "Signing", FALSE, "none")
           n == [o EXCEPT !.pending = op]
<1>1. BeginCausedPark(o, cause, e) = IF Backlog(o) THEN FailReceipt(n, e) ELSE n
  BY DEF BeginCausedPark
<1>2. /\ IsPay(pay) /\ pay.to = "Parked" /\ pay.kind = "Park"
      /\ ValidTransition("Running", pay)
  BY CausalIsPay
<1> HIDE DEF pay
<1>3. op.phase = "Signing" /\ op.pay = pay /\ op.index = 0 /\ op.respond = FALSE
      /\ op.finish = "none" /\ op # NoOp /\ op.seq = Tip(o) + 1
  BY DEF Operation, NoOp
<1> HIDE DEF op
<1>4. Deed(op) BY <1>2, <1>3 DEF Deed
<1>5. n = [o EXCEPT !.pending = op] OBVIOUS
<1> HIDE DEF n
<1>6. /\ Sized(n) /\ Filed(n) /\ Gap(n) = Gap(o)
      /\ n.pending = op /\ n.queued = o.queued /\ n.state = o.state
      /\ n.quarantined = o.quarantined /\ n.withdrawn = o.withdrawn
      /\ n.done = o.done /\ n.wait = o.wait /\ n.settling = o.settling
      /\ n.deferred = o.deferred /\ n.receipts = o.receipts
      /\ Owes(o, n)
  BY <1>3, <1>4, <1>5, BegunFiles
<1>7. Heeds(o, n) BY <1>3, <1>6 DEF Heeds, Closed
<1>8. Gap(o) \in Int BY GapIsInt
<1>9. ~Doing(n, "Resume") BY <1>2, <1>3, <1>6 DEF Doing
<1>10. Settles(n) BY <1>6 DEF Settles
<1>11. Strict => Line(n) /\ Apt(n) /\ Closing(n)
  <2>1. Led(n, {"Running"}) BY <1>6, SameLine
  <2>2. QED BY <1>2, <1>3, <1>6, <2>1 DEF Led, Apt, Closing
<1>12. ASSUME Backlog(o) PROVE Tells(o, FailReceipt(n, e))
  <2>1. Ending(n) = "Parked" BY <1>2, <1>3, <1>6 DEF Ending
  <2>2. Reaches(n, Ending(n)) BY <1>6, <2>1 DEF Reaches
  <2>3. Reach(n) <= MaxPending
    BY <1>3, <1>6, <1>8, OwnerAssumption DEF Reach, Own, Spare
  <2>4. Tells(n, FailReceipt(n, e))
    BY <1>3, <1>6, <1>9, <1>10, <1>11, <2>2, <2>3, FailPlainTells DEF Lawful
  <2>5. QED BY <1>6, <1>7, <2>4, OwesTrans, HeedsTrans DEF Tells
<1>13. ASSUME ~Backlog(o) PROVE Tells(o, n)
  <2>1. LastTo(n) = "Parked" BY <1>2, <1>3, <1>6, <1>13 DEF LastTo, Backlog
  <2>2. Reaches(n, LastTo(n)) BY <1>6, <2>1 DEF Reaches
  <2>3. Room(n) BY <1>6, <1>8, OwnerAssumption DEF Room, Spare
  <2>4. Placed(n) BY <1>3, <1>6, <1>9 DEF Placed
  <2>5. Legal(n) BY <1>6, <1>13, <1>11 DEF Legal, Sole, Backlog
  <2>6. QED BY <1>6, <1>7, <1>10, <2>2, <2>3, <2>4, <2>5 DEF Records, Tells
<1>14. QED BY <1>1, <1>12, <1>13

\* What was applied is signed, or owed where there is a backlog.
LEMMA StartSigningTells ==
  ASSUME NEW o, NEW owed, NEW e, Sized(o), Filed(o), Settles(o), UnderWay(o.pending),
         o.pending.phase = "Applying", o.pending.pay.kind # "Resume",
         o.pending.pay.to = o.state, o.queued = "none", ~o.quarantined,
         owed <=> Backlog(o), Gap(o) + 1 + Spare(o) <= MaxPending, Lawful(o)
  PROVE  Tells(o, StartSigning(o, owed, e))
<1> DEFINE n == [o EXCEPT !.pending.phase = "Signing"]
<1>1. o.pending # NoOp /\ Deed(o.pending) /\ o.pending.index = 0 /\ ~Doing(o, "Resume")
  BY DEF UnderWay, NoOp, Filed, Deed, Doing
<1>2. Gap(o) \in Int BY GapIsInt
<1>3. ASSUME owed PROVE Tells(o, FailReceipt(o, e))
  <2>1. Reaches(o, Ending(o)) BY <1>1 DEF Ending, Reaches
  <2>2. Reach(o) <= MaxPending BY <1>1, <1>2, OwnerAssumption DEF Reach, Own, Spare
  <2>3. QED BY <1>1, <2>1, <2>2, FailPlainTells
<1>4. ASSUME ~owed PROVE Tells(o, n)
  <2>1. /\ Formed(n)
        /\ n.receipts = o.receipts /\ n.brokerHead = o.brokerHead
        /\ n.queued = o.queued /\ n.state = o.state
        /\ n.quarantined = o.quarantined /\ n.withdrawn = o.withdrawn
        /\ n.done = o.done /\ n.wait = o.wait /\ n.settling = o.settling
        /\ n.draining = o.draining /\ n.deferred = o.deferred
        /\ n.finishQuiet = o.finishQuiet /\ n.finishDrained = o.finishDrained
        /\ n.finished = o.finished /\ n.replies = o.replies /\ n.failed = o.failed
    BY DEF Sized, Formed, Fields
  <2>2. /\ n.pending.phase = "Signing" /\ n.pending.pay = o.pending.pay
        /\ n.pending.index = o.pending.index /\ n.pending.respond = o.pending.respond
        /\ n.pending.finish = o.pending.finish /\ n.pending # NoOp
        /\ n.pending.seq = o.pending.seq
    BY <1>1 DEF Sized, Formed, Fields, UnderWay, NoOp
  <2> HIDE DEF n
  <2>3. Deed(n.pending) BY <1>1, <2>2 DEF Deed
  <2>4. ~OkIn(n) BY <1>1, <2>1 DEF OkIn, Filed, Oks, Closed
  <2>5. n.finished # "ok" BY <2>4 DEF OkIn
  <2>6. Filed(n) BY <1>1, <2>1, <2>2, <2>3, <2>4, <2>5 DEF Filed, Oks, Forms
  <2>7. LastTo(n) = o.state BY <1>4, <2>1, <2>2 DEF LastTo, Backlog
  <2>8. Reaches(n, LastTo(n)) BY <2>1, <2>7 DEF Reaches
  <2>9. Gap(n) = Gap(o) BY <2>1 DEF Gap, Tip
  <2>10. Room(n) BY <1>2, <2>1, <2>9, OwnerAssumption DEF Room, Spare
  <2>11. Placed(n) BY <2>2 DEF Placed, Doing
  <2>12. Settles(n) BY <1>1, <2>1 DEF Settles
  <2>13. Owes(o, n) BY <2>1 DEF Owes, Due, Tip
  <2>14. Heeds(o, n) BY <1>1, <2>1, <2>2 DEF Heeds, Closed
  <2>15. Legal(n)
    <3>1. (Line(n) <=> Line(o)) /\ Latest(n) = Latest(o) BY <2>1, SameLine
    <3>2. n.deferred = <<>> BY <1>4, <2>1 DEF Backlog
    <3>3. QED BY <1>1, <2>1, <2>2, <3>1, <3>2 DEF Legal, Lawful, Apt, Closing, Sole
  <2>16. QED BY <2>6, <2>8, <2>10, <2>11, <2>12, <2>13, <2>14, <2>15 DEF Records, Tells
<1>5. QED BY <1>3, <1>4 DEF StartSigning

\* An operation is under way that nothing was done for.
Takes(o, a) ==
    /\ Sized(a) /\ Filed(a) /\ Gap(a) = Gap(o) /\ (Backlog(a) <=> Backlog(o))
    /\ a.receipts = o.receipts /\ a.brokerHead = o.brokerHead
    /\ a.queued = o.queued /\ a.state = o.state
    /\ a.quarantined = o.quarantined /\ a.withdrawn = o.withdrawn
    /\ a.done = o.done /\ a.wait = o.wait /\ a.settling = o.settling
    /\ a.deferred = o.deferred /\ a.tree = o.tree
    /\ UnderWay(a.pending) /\ a.pending.phase = "Applying"
    /\ Owes(o, a)

LEMMA ApplyingTakes ==
  ASSUME NEW o, NEW q, Sized(o), Filed(o), o.pending = NoOp, o.state # "Terminal",
         q.act # "Disposal", q.act = "Resume" => o.state = "Parked"
  PROVE  /\ Takes(o, Applying(o, q))
         /\ Applying(o, q).pending.pay = Payload(q.act, Transition(o.state, q.act), q.id)
         /\ Applying(o, q).pending.respond = TRUE /\ Applying(o, q).pending.finish = "none"
         /\ Applying(o, q).pending.index = 0
<1> DEFINE to == Transition(o.state, q.act)
           pay == Payload(q.act, to, q.id)
           fin == IF q.act = "Disposal" THEN "ok" ELSE "none"
           op == Operation(o, pay, "Applying", TRUE, fin)
           n == [o EXCEPT !.pending = op]
<1>1. Applying(o, q) = n BY DEF Applying
<1>2. IsPay(pay) /\ pay.kind = q.act /\ pay.to = to BY DEF IsPay, Payload
<1>3. q.act = "Resume" => to = "Running" BY DEF Transition
<1>4. fin = "none" OBVIOUS
<1> HIDE DEF pay, to, fin
<1>5. /\ op.phase = "Applying" /\ op.pay = pay /\ op.index = 0 /\ op.respond = TRUE
      /\ op.finish = "none" /\ op # NoOp /\ UnderWay(op) /\ op.seq = Tip(o) + 1
  BY <1>4 DEF Operation, NoOp, UnderWay, Finishes
<1> HIDE DEF op
<1>6. Deed(op) BY <1>2, <1>3, <1>5 DEF Deed
<1>7. n = [o EXCEPT !.pending = op] OBVIOUS
<1> HIDE DEF n
<1>8. /\ Sized(n) /\ Filed(n) /\ Gap(n) = Gap(o) /\ (Backlog(n) <=> Backlog(o))
      /\ n.receipts = o.receipts /\ n.brokerHead = o.brokerHead
      /\ n.pending = op /\ n.queued = o.queued /\ n.state = o.state
      /\ n.quarantined = o.quarantined /\ n.withdrawn = o.withdrawn
      /\ n.done = o.done /\ n.wait = o.wait /\ n.settling = o.settling
      /\ n.deferred = o.deferred /\ n.tree = o.tree
      /\ Owes(o, n)
  BY <1>5, <1>6, <1>7, BegunFiles
<1>9. QED BY <1>1, <1>5, <1>8 DEF Takes, pay, to

\* What was begun and failed in its mechanics leaves no record.
LEMMA FailBegunTells ==
  ASSUME NEW o, Records(o), o.pending = NoOp, ~o.settling,
         NEW a, Takes(o, a), NEW m, Entry(a, m), m.state = o.state \/ Lax,
         NEW e, NEW n, n = FailMechanic(m, e)
  PROVE  /\ Tells(a, n) /\ Records(n) /\ Sized(n) /\ n.state = m.state
         /\ n.queued = o.queued /\ n.quarantined = o.quarantined
<1> DEFINE d == Drop(m)
<1>1. Sized(m) /\ Filed(m) /\ Settles(m)
  BY EntrySized DEF Takes, Entry, Settles
<1>2. m.pending = a.pending /\ m.pending.phase = "Applying" BY DEF Takes, Entry
<1>3. /\ Sized(d)
      /\ d.receipts = m.receipts /\ d.brokerHead = m.brokerHead
      /\ d.pending = NoOp /\ d.deferred = m.deferred
      /\ d.queued = m.queued /\ d.state = m.state
      /\ d.quarantined = m.quarantined /\ d.withdrawn = m.withdrawn
      /\ Filed(d) /\ Settles(d) /\ LastTo(d) = LastTo(m) /\ Owes(m, d) /\ Heeds(m, d)
  BY <1>1, <1>2, DropDoes
<1>4. Alike(d, n) BY <1>1, FailMechanicAlike
<1> HIDE DEF d
<1>5. Gap(d) = Gap(o) BY <1>3 DEF Takes, Entry, Gap, Tip
<1>6. LastTo(d) = LastTo(o)
  <2>1. LastTo(m) = LastTo(a) BY DEF Entry, LastTo, Tip
  <2>2. LastTo(a) = LastTo(o) BY DEF Takes, LastTo, Tip, NoOp
  <2>3. QED BY <1>3, <2>1, <2>2
<1>7. d.state = o.state \/ (o.state = "Running" /\ d.state = "Parked" /\ Lax)
  BY <1>3 DEF Takes, Entry
<1>8. Reaches(d, LastTo(d)) BY <1>3, <1>6, <1>7 DEF Reaches, Records, Takes, Entry
<1>9. Room(d)
  <2>1. Gap(o) \in Int
    <3>1. Gap(d) \in Int BY <1>3, GapIsInt
    <3>2. QED BY <1>5, <3>1
  <2>2. QED BY <1>5, <1>7, <2>1, OwnerAssumption DEF Room, Spare, Records
<1>10. Placed(d) BY <1>3 DEF Placed, Doing
<1>11. Records(d)
  <2>1. (Line(d) <=> Line(o)) /\ Latest(d) = Latest(o) BY <1>3, SameLine DEF Takes, Entry
  <2>2. Legal(d) BY <1>3, <2>1 DEF Records, Legal, Apt, Closing, Sole, Takes, Entry
  <2>3. QED BY <1>3, <1>8, <1>9, <1>10, <2>2 DEF Records
<1>12. Records(n) /\ Owes(d, n) /\ Heeds(d, n) BY <1>4, <1>11, AlikeRecords
<1>13. Owes(a, m) /\ Heeds(a, m) BY EntryHeeds
<1>14. Owes(a, n) /\ Heeds(a, n) BY <1>3, <1>12, <1>13, OwesTrans, HeedsTrans
<1>15. Sized(n) BY <1>3, <1>4, AlikeSized
<1>16. QED BY <1>3, <1>4, <1>12, <1>14, <1>15 DEF Tells, Alike, Entry, Takes

LEMMA LuckIsLax == ASSUME NEW e \in Luck, "revoke" \in e PROVE Lax
  BY DEF Luck, Lax

\* What is begun in a Session that is not over follows what its evidence reaches.
LEMMA BegunLawful ==
  ASSUME NEW o, Sized(o), Records(o), o.state # "Terminal", o.queued = "none", o.pending = NoOp,
         NEW m, m.receipts = o.receipts, m.deferred = o.deferred, m.queued = "none",
         /\ Latest(o) \in {"Running", "Parked"}
         /\ ~o.withdrawn => Latest(o) = o.state
         => ValidTransition(Latest(o), m.pending.pay)
  PROVE  Lawful(m)
<1>1. ASSUME Strict
      PROVE  /\ Line(o) /\ Latest(o) \in {"Running", "Parked"}
             /\ ~o.withdrawn => Latest(o) = o.state
  BY <1>1, AliveLed DEF NoOp
<1>2. (Line(m) <=> Line(o)) /\ Latest(m) = Latest(o) BY SameLine
<1>3. QED BY <1>1, <1>2 DEF Lawful, Apt, Closing

LEMMA BeginParkTells ==
  ASSUME NEW o, NEW q, NEW e \in Luck, Typed(o), Records(o), o.pending = NoOp,
         o.queued = "none", ~o.quarantined, ~o.withdrawn, o.state = "Running", q.act = "Park",
         Gap(o) + 2 <= MaxPending
  PROVE  Takes(o, Applying(o, q)) /\ Tells(Applying(o, q), BeginPark(o, q, e))
<1> DEFINE a == Applying(o, q)
           s == Shut(a, e)
           m == AttemptPark(s, e)
           f == FailMechanic(m, e)
           result == ParkResult(s, e)
<1>1. Sized(o) /\ Filed(o) /\ ~o.settling BY TypedSized DEF Records, Settles, Typed
<1>2. /\ Takes(o, a) /\ a.pending.pay = Payload("Park", "Parked", q.id)
      /\ a.pending.index = 0
  BY <1>1, ApplyingTakes DEF Transition
<1>3. Typed(a)
  <2>1. a = [o EXCEPT !.pending = a.pending] BY DEF Applying, Typed, Fields
  <2>2. UnderWay(a.pending) /\ a.pending.index = 0 BY <1>2 DEF Takes
  <2>3. Tip(o) \in Nat BY <1>1 DEF Sized
  <2> DEFINE op == a.pending
  <2> HIDE DEF a
  <2>4. a.pending.index \in 0 .. Tip(o) BY <2>2, <2>3
  <2>5. QED BY <2>1, <2>2, <2>4, SMTT(20) DEF Typed, Fields, Tip, Gap
<1> HIDE DEF a
<1>4. Typed(s) /\ Alike(a, s)
  BY <1>2, <1>3, ShutEases, ShutAlike DEF Eases, Takes, Sized
<1>5. BeginPark(o, q, e) =
         CASE result = "Running"   -> f
           [] result = "Terminal"  -> BeginTerminalEvent(f, "ok", e)
           [] result = "Ambiguous" -> QuarantineMechanic(m, m.pending, e)
           [] result = "Parked"    ->
                 IF "revoke" \in e THEN f ELSE StartSigning(m, Backlog(o), e)
  BY DEF BeginPark, result, f, m, s, a
<1> HIDE DEF s
<1>6. /\ Entry(s, m)
      /\ m.state = IF result = "Parked" THEN "Parked" ELSE s.state
  BY <1>4, AttemptParkEntry
<1>7. result \in {"Ambiguous", "Terminal", "Running", "Parked"} BY ParkResults
<1> HIDE DEF m, result
<1>8. Entry(a, m) BY <1>4, <1>6, EntryTrans DEF Alike
<1>9. result # "Parked" => m.state = o.state BY <1>2, <1>4, <1>6 DEF Alike, Takes
<1>10. ASSUME m.state = o.state \/ "revoke" \in e
       PROVE  /\ Tells(a, f) /\ Records(f) /\ Sized(f) /\ f.state = m.state
              /\ f.queued = "none" /\ ~f.quarantined
  BY <1>1, <1>2, <1>8, <1>10, LuckIsLax, FailBegunTells
<1> HIDE DEF f
<1>11. CASE result = "Running" BY <1>2, <1>5, <1>9, <1>10, <1>11 DEF a
<1>12. CASE result = "Terminal"
  <2>1. Tells(a, f) /\ Records(f) /\ Sized(f) /\ f.queued = "none" /\ ~f.quarantined
    BY <1>9, <1>10, <1>12
  <2>2. Tells(f, BeginTerminalEvent(f, "ok", e)) BY <2>1, BeginTerminalEventTells
  <2>3. Tells(a, BeginTerminalEvent(f, "ok", e)) BY <2>1, <2>2, TellsTrans
  <2>4. QED BY <1>2, <1>5, <1>12, <2>3 DEF a
<1>13. CASE result = "Ambiguous"
  <2>1. Tells(a, QuarantineMechanic(m, m.pending, e))
    BY <1>8, QuarantineMechanicTells DEF Entry, Formed
  <2>2. QED BY <1>2, <1>5, <1>13, <2>1 DEF a
<1>14. CASE result = "Parked" /\ "revoke" \in e BY <1>2, <1>5, <1>10, <1>14 DEF a
<1>15. CASE result = "Parked" /\ "revoke" \notin e
  <2>1. m.state = "Parked" BY <1>6, <1>15
  <2>2. /\ Sized(m) /\ Filed(m) /\ Settles(m) /\ m.pending = a.pending
        /\ m.queued = "none" /\ ~m.quarantined
    BY <1>1, <1>2, <1>8, EntrySized DEF Takes, Entry, Settles
  <2>3. Gap(m) = Gap(o) /\ Gap(o) \in Int /\ (Backlog(m) <=> Backlog(o))
    BY <1>1, <1>2, <1>8, GapIsInt DEF Takes, Entry, Gap, Backlog, Tip
  <2>4. Gap(m) + 1 + Spare(m) <= MaxPending BY <2>1, <2>3, OwnerAssumption DEF Spare
  <2>5. m.pending.pay.kind = "Park" /\ m.pending.pay.to = "Parked"
    BY <1>2, <2>2 DEF Payload
  <2>6. Tells(m, StartSigning(m, Backlog(o), e))
    <3>1. m.receipts = o.receipts /\ m.deferred = o.deferred BY <1>2, <1>8 DEF Takes, Entry
    <3>2. ValidTransition("Running", m.pending.pay) BY <1>2, <2>2 DEF ValidTransition, Payload
    <3>3. Lawful(m) BY <1>1, <2>2, <3>1, <3>2, BegunLawful
    <3>4. QED BY <1>2, <2>1, <2>2, <2>3, <2>4, <2>5, <3>3, StartSigningTells DEF Takes
  <2>7. Owes(a, m) /\ Heeds(a, m) BY <1>8, EntryHeeds
  <2>8. Tells(a, StartSigning(m, Backlog(o), e)) BY <2>6, <2>7, OwesTrans, HeedsTrans DEF Tells
  <2>9. QED BY <1>2, <1>5, <1>15, <2>8 DEF a
<1>16. QED BY <1>7, <1>11, <1>12, <1>13, <1>14, <1>15

LEMMA BeginInterruptTells ==
  ASSUME NEW o, NEW q, NEW e \in Luck, Sized(o), Records(o), o.pending = NoOp,
         o.queued = "none", ~o.quarantined, ~o.withdrawn, o.state # "Terminal",
         q.act = "Interrupt",
         ~o.settling, Gap(o) + 1 + Spare(o) <= MaxPending
  PROVE  Takes(o, Applying(o, q)) /\ Tells(Applying(o, q), BeginInterrupt(o, q, e))
<1> DEFINE a == Applying(o, q)
           f == FailMechanic(a, e)
           g == [f EXCEPT !.tree = "gone"]
<1>1. Filed(o) BY DEF Records
<1>2. /\ Takes(o, a) /\ a.pending.pay = Payload("Interrupt", o.state, q.id)
      /\ a.pending.index = 0
  BY <1>1, ApplyingTakes DEF Transition, Sized
<1>3. BeginInterrupt(o, q, e) =
         CASE "ambiguous" \in e -> QuarantineMechanic(a, a.pending, e)
           [] "exited" \in e    -> BeginTerminalEvent(g, "ok", e)
           [] "stuck" \in e     -> f
           [] {"ambiguous", "exited", "stuck"} \intersect e = {} ->
                 StartSigning(a, Backlog(o), e)
  BY DEF BeginInterrupt, a, f, g
<1>4. e \subseteq {"stuck", "ambiguous", "exited", "revoke", "cleanup", "guard"}
  BY OwnerAssumption DEF Luck
<1> HIDE DEF a
<1>5. Alike(a, a) BY <1>2, AlikeSelf DEF Takes, Sized
<1>6. /\ Tells(a, f) /\ Records(f) /\ Sized(f)
      /\ f.queued = "none" /\ ~f.quarantined
  BY <1>2, <1>5, FailBegunTells DEF Alike, Takes
<1> HIDE DEF f
<1>7. Tells(a, BeginTerminalEvent(g, "ok", e))
  <2>1. Alike(f, g) BY <1>6, FlagsAlike DEF Sized
  <2> HIDE DEF g
  <2>2. Records(g) /\ Owes(f, g) /\ Heeds(f, g) /\ Sized(g) BY <1>6, <2>1, AlikeRecords, AlikeSized
  <2>3. ~g.quarantined /\ g.queued = "none" BY <1>6, <2>1 DEF Alike, Entry
  <2>4. Tells(g, BeginTerminalEvent(g, "ok", e)) BY <2>2, <2>3, BeginTerminalEventTells
  <2>5. Tells(a, g) BY <1>6, <2>2, OwesTrans, HeedsTrans DEF Tells
  <2>6. QED BY <2>2, <2>3, <2>4, <2>5, TellsTrans
<1>8. Tells(a, QuarantineMechanic(a, a.pending, e))
  BY <1>2, QuarantineMechanicTells DEF Takes, Sized
<1>9. Tells(a, StartSigning(a, Backlog(o), e))
  <2>1. /\ Sized(a) /\ Filed(a) /\ Settles(a) /\ UnderWay(a.pending) /\ a.queued = "none"
        /\ ~a.quarantined /\ a.state = o.state /\ Gap(a) = Gap(o) /\ (Backlog(a) <=> Backlog(o))
    BY <1>2 DEF Takes, Settles
  <2>2. Gap(a) + 1 + Spare(a) <= MaxPending BY <2>1 DEF Spare
  <2>3. a.pending.pay.kind = "Interrupt" /\ a.pending.pay.to = o.state BY <1>2 DEF Payload
  <2>4. a.receipts = o.receipts /\ a.deferred = o.deferred BY <1>2 DEF Takes
  <2>5. o.state \in {"Running", "Parked"} => ValidTransition(o.state, a.pending.pay)
    BY <1>2 DEF ValidTransition, Payload
  <2>6. Lawful(a) BY <2>1, <2>4, <2>5, BegunLawful
  <2>7. QED BY <1>2, <2>1, <2>2, <2>3, <2>6, StartSigningTells DEF Takes
<1>10. QED
  <2>1. CASE "ambiguous" \in e
    <3>1. BeginInterrupt(o, q, e) \in
             {QuarantineMechanic(a, a.pending, e), BeginTerminalEvent(g, "ok", e), f}
      BY <1>3, <2>1
    <3>2. QED BY <1>2, <1>6, <1>7, <1>8, <3>1 DEF a
  <2>2. CASE "ambiguous" \notin e /\ "exited" \in e
    <3>1. BeginInterrupt(o, q, e) \in {BeginTerminalEvent(g, "ok", e), f} BY <1>3, <2>2
    <3>2. QED BY <1>2, <1>6, <1>7, <3>1 DEF a
  <2>3. CASE "ambiguous" \notin e /\ "exited" \notin e /\ "stuck" \in e
    <3>1. BeginInterrupt(o, q, e) = f BY <1>3, <2>3
    <3>2. QED BY <1>2, <1>6, <3>1 DEF a
  <2>4. CASE {"ambiguous", "exited", "stuck"} \intersect e = {}
    <3>1. BeginInterrupt(o, q, e) = StartSigning(a, Backlog(o), e) BY <1>3, <2>4
    <3>2. QED BY <1>2, <1>9, <3>1 DEF a
  <2>5. QED BY <2>1, <2>2, <2>3, <2>4

\* A tree that was ended is recorded; what could not be ended is not.
LEMMA BeginDisposalTells ==
  ASSUME NEW o, NEW q, NEW e, Sized(o), Records(o), o.pending = NoOp,
         o.queued = "none", ~o.quarantined, o.state # "Terminal", q.act = "Disposal",
         NEW n, n = BeginDisposal(o, q, e)
  PROVE  n.quarantined \/ (Records(n) /\ Owes(o, n)
                           /\ Heeds(Applying(ForgetController(o), q), n))
<1> DEFINE f == ForgetController(o)
           a == Applying(f, q)
           t == Terminate(Quiesce(a), e)
           m == [t EXCEPT !.unproven = FALSE, !.state = "Terminal", !.channel = "Closed"]
           c == [t EXCEPT !.unproven = TRUE, !.blocked = TRUE, !.channel = "Revoked",
                          !.pending = NoOp]
           op == Operation(f, Payload("Disposal", Transition(f.state, "Disposal"), q.id),
                           "Applying", TRUE, "ok")
<1>1. n = IF "cleanup" \in e THEN Failed(c, q.id, "err") ELSE StartSigning(m, Backlog(o), e)
  BY DEF BeginDisposal, c, m, t, a, f
<1>2. f.state = o.state BY DEF ForgetController, Sized, Formed, Fields
<1>3. Transition(f.state, "Disposal") = "Terminal" BY <1>2 DEF Transition, Sized
<1>4. /\ op.phase = "Applying" /\ op.index = 0 /\ op.respond = TRUE /\ op.finish = "ok"
      /\ op.pay = Payload("Disposal", "Terminal", q.id) /\ UnderWay(op) /\ op # NoOp
      /\ op.seq = Tip(f) + 1
  BY <1>3 DEF Operation, UnderWay, NoOp, Finishes
<1>5. a = [f EXCEPT !.pending = op] BY DEF Applying
<1> HIDE DEF op
<1>6. /\ Formed(a)
      /\ a.receipts = o.receipts /\ a.brokerHead = o.brokerHead
      /\ a.pending = op /\ a.queued = o.queued /\ a.state = o.state
      /\ a.quarantined = o.quarantined /\ a.withdrawn = o.withdrawn
      /\ a.done = o.done /\ a.wait = o.wait /\ a.settling = FALSE
      /\ a.draining = o.draining /\ a.deferred = o.deferred
      /\ a.finishQuiet = o.finishQuiet /\ a.finishDrained = o.finishDrained
      /\ a.finished = o.finished /\ a.replies = o.replies /\ a.failed = o.failed
      /\ Tip(f) = Tip(o)
  BY <1>5 DEF Sized, Formed, Fields, ForgetController, Tip
<1> HIDE DEF a
<1>7. /\ Formed(t)
      /\ t.receipts = o.receipts /\ t.brokerHead = o.brokerHead
      /\ t.pending = op /\ t.queued = o.queued /\ t.state = o.state
      /\ t.quarantined = o.quarantined /\ t.withdrawn = o.withdrawn
      /\ t.done = o.done /\ t.wait = o.wait /\ t.settling = FALSE
      /\ t.draining = o.draining /\ t.deferred = o.deferred
      /\ t.finishQuiet = o.finishQuiet /\ t.finishDrained = o.finishDrained
      /\ t.finished = o.finished /\ t.replies = o.replies /\ t.failed = o.failed
  BY <1>6 DEF Formed, Fields, Quiesce, Terminate
<1> HIDE DEF t
<1>8. ~OkIn(o) /\ o.finished # "ok" /\ Gap(o) \in Int
  BY GapIsInt DEF Records, Filed, Oks, Closed, OkIn
<1>9. ASSUME "cleanup" \in e PROVE Records(n) /\ Owes(o, n) /\ Heeds(a, n)
  <2>1. Plain(o, c) /\ c.state = o.state BY <1>7 DEF Plain, Formed, Fields
  <2> HIDE DEF c
  <2>2. Alike(o, c) BY <2>1, PlainAlike
  <2>3. Alike(c, Failed(c, q.id, "err")) BY <2>2, AlikeFormed, FailedAlike
  <2>4. Alike(o, n) BY <1>1, <1>9, <2>2, <2>3, AlikeTrans
  <2>5. Heeds(a, n) BY <1>6, <2>4 DEF Heeds, Alike, Entry, Closed
  <2>6. QED BY <2>4, <2>5, AlikeRecords
<1>10. ASSUME "cleanup" \notin e PROVE n.quarantined \/ (Records(n) /\ Owes(o, n) /\ Heeds(a, n))
  <2>1. /\ Formed(m)
        /\ m.receipts = o.receipts /\ m.brokerHead = o.brokerHead
        /\ m.pending = op /\ m.queued = "none" /\ m.state = "Terminal"
        /\ m.quarantined = o.quarantined /\ m.withdrawn = o.withdrawn
        /\ m.done = o.done /\ m.wait = o.wait /\ m.settling = FALSE
        /\ m.draining = o.draining /\ m.deferred = o.deferred
        /\ m.finishQuiet = o.finishQuiet /\ m.finishDrained = o.finishDrained
        /\ m.finished = o.finished /\ m.replies = o.replies /\ m.failed = o.failed
    BY <1>7 DEF Formed, Fields
  <2> HIDE DEF m
  <2>2. ~OkIn(m) BY <1>8, <2>1 DEF OkIn
  <2>3. m.finished # "ok" BY <1>8, <2>1
  <2>4. op.pay.kind = "Disposal" /\ op.pay.to = "Terminal" /\ IsPay(op.pay)
    BY <1>4 DEF IsPay, Payload
  <2>5. Deed(op) BY <1>4, <2>4 DEF Deed
  <2>6. Filed(m) BY <1>4, <1>6, <2>1, <2>2, <2>3, <2>5 DEF Filed, Oks, Forms, Records, Tip
  <2>7. Sized(m) /\ Settles(m) BY <2>1 DEF Sized, Tip, Finishes, Settles
  <2>8. Gap(m) = Gap(o) /\ (Backlog(m) <=> Backlog(o)) BY <2>1 DEF Gap, Backlog, Tip
  <2>9. Gap(m) + 1 + Spare(m) <= MaxPending
    BY <1>8, <2>1, <2>8, OwnerAssumption DEF Spare, Records, Room, Sized
  <2>10. Tells(m, StartSigning(m, Backlog(o), e))
    <3>1. Latest(o) \in {"Running", "Parked"} => ValidTransition(Latest(o), m.pending.pay)
      BY <2>1, <2>4 DEF ValidTransition
    <3>2. Lawful(m) BY <2>1, <3>1, BegunLawful
    <3>3. QED BY <1>4, <2>1, <2>4, <2>6, <2>7, <2>8, <2>9, <3>2, StartSigningTells
  <2>11. Owes(o, m) BY <2>1 DEF Owes, Due, Tip, NoOp
  <2>12. Heeds(a, m) BY <1>4, <1>6, <2>1 DEF Heeds, Closed
  <2>13. QED BY <1>1, <1>10, <2>10, <2>11, <2>12, OwesTrans, HeedsTrans DEF Tells
<1>11. QED BY <1>9, <1>10 DEF a, f

LEMMA BeginControllerLossDisposalTells ==
  ASSUME NEW o, NEW e, Sized(o), Records(o), o.pending = NoOp, ~o.settling,
         o.queued = "none", ~o.quarantined, o.state = "Parked"
  PROVE  Tells(o, BeginControllerLossDisposal(o, e))
<1> DEFINE op == Operation(o, Payload("Disposal", "Terminal", <<"settled">>),
                           "Applying", FALSE, "ok")
           n == Quiesce([o EXCEPT !.pending = op])
           t == Terminate(n, e)
           c == [t EXCEPT !.unproven = TRUE, !.blocked = TRUE, !.pending = NoOp]
           m == [t EXCEPT !.unproven = FALSE, !.lost = FALSE,
                          !.state = "Terminal", !.channel = "Closed"]
<1>1. BeginControllerLossDisposal(o, e) =
         IF "cleanup" \in e THEN c ELSE StartSigning(m, Backlog(o), e)
  BY DEF BeginControllerLossDisposal, c, m, t, n, op
<1>2. /\ op.phase = "Applying" /\ op.index = 0 /\ op.respond = FALSE /\ op.finish = "ok"
      /\ op.pay = Payload("Disposal", "Terminal", <<"settled">>) /\ UnderWay(op) /\ op # NoOp
      /\ op.seq = Tip(o) + 1
  BY DEF Operation, UnderWay, NoOp, Finishes
<1> HIDE DEF op
<1>3. /\ Formed(t)
      /\ t.receipts = o.receipts /\ t.brokerHead = o.brokerHead
      /\ t.pending = op /\ t.queued = o.queued /\ t.state = o.state
      /\ t.quarantined = o.quarantined /\ t.withdrawn = o.withdrawn
      /\ t.done = o.done /\ t.wait = o.wait /\ t.settling = o.settling
      /\ t.draining = o.draining /\ t.deferred = o.deferred
      /\ t.finishQuiet = o.finishQuiet /\ t.finishDrained = o.finishDrained
      /\ t.finished = o.finished /\ t.replies = o.replies /\ t.failed = o.failed
  BY DEF Sized, Formed, Fields, Quiesce, Terminate
<1> HIDE DEF t
<1>4. ~OkIn(o) /\ o.finished # "ok" /\ Gap(o) \in Int
  BY GapIsInt DEF Records, Filed, Oks, Closed, OkIn
<1>5. Tells(o, c)
  <2>1. Plain(o, c) /\ c.state = o.state BY <1>3 DEF Plain, Formed, Fields
  <2> HIDE DEF c
  <2>2. QED BY <2>1, PlainAlike, AlikeTells
<1>6. Tells(o, StartSigning(m, Backlog(o), e))
  <2>1. /\ Formed(m)
        /\ m.receipts = o.receipts /\ m.brokerHead = o.brokerHead
        /\ m.pending = op /\ m.queued = "none" /\ m.state = "Terminal"
        /\ m.quarantined = o.quarantined /\ m.withdrawn = o.withdrawn
        /\ m.done = o.done /\ m.wait = o.wait /\ ~m.settling
        /\ m.draining = o.draining /\ m.deferred = o.deferred
        /\ m.finishQuiet = o.finishQuiet /\ m.finishDrained = o.finishDrained
        /\ m.finished = o.finished /\ m.replies = o.replies /\ m.failed = o.failed
    BY <1>3 DEF Formed, Fields
  <2> HIDE DEF m
  <2>2. ~OkIn(m) BY <1>4, <2>1 DEF OkIn
  <2>3. m.finished # "ok" BY <1>4, <2>1
  <2>4. op.pay.kind = "Disposal" /\ op.pay.to = "Terminal" /\ IsPay(op.pay)
    BY <1>2 DEF IsPay, Payload
  <2>5. Deed(op) BY <1>2, <2>4 DEF Deed
  <2>6. Filed(m) BY <1>2, <2>1, <2>2, <2>3, <2>5 DEF Filed, Oks, Forms, Records, Tip
  <2>7. Sized(m) /\ Settles(m) BY <2>1 DEF Sized, Tip, Finishes, Settles
  <2>8. Gap(m) = Gap(o) /\ (Backlog(m) <=> Backlog(o)) BY <2>1 DEF Gap, Backlog, Tip
  <2>9. Gap(m) + 1 + Spare(m) <= MaxPending
    BY <1>4, <2>1, <2>8, OwnerAssumption DEF Spare, Records, Room, Sized
  <2>10. Tells(m, StartSigning(m, Backlog(o), e))
    <3>1. Latest(o) \in {"Running", "Parked"} => ValidTransition(Latest(o), m.pending.pay)
      BY <2>1, <2>4 DEF ValidTransition
    <3>2. Lawful(m) BY <2>1, <3>1, BegunLawful
    <3>3. QED BY <1>2, <2>1, <2>4, <2>6, <2>7, <2>8, <2>9, <3>2, StartSigningTells
  <2>11. Owes(o, m) BY <2>1 DEF Owes, Due, Tip, NoOp
  <2>12. Heeds(o, m) BY <1>2, <2>1 DEF Heeds, Closed
  <2>13. QED BY <2>10, <2>11, <2>12, OwesTrans, HeedsTrans DEF Tells
<1>7. QED BY <1>1, <1>5, <1>6
-----------------------------------------------------------------------------
(* Freezing for the broker's sake, and the Park that is owed for it *)

\* Able to go on: in order, with its evidence, and with its key.
Able(o) == Orderly(o) /\ Records(o) /\ ~o.withdrawn /\ ~o.quarantined

LEMMA AbleIs ==
  ASSUME NEW o, Able(o)
  PROVE  /\ Orderly(o) /\ Fit(o) /\ Typed(o) /\ Sized(o) /\ Sound(o) /\ Formed(o)
         /\ Records(o) /\ Filed(o) /\ Settles(o) /\ Busy(o)
         /\ ~o.withdrawn /\ ~o.quarantined /\ Gap(o) \in Int
         /\ o.queued # "none" => o.state = "Terminal"
<1>1. Orderly(o) /\ Fit(o) /\ Typed(o) BY OrderlyTyped DEF Able
<1>2. Sized(o) /\ Sound(o) BY <1>1, TypedSized DEF Typed, Fields, Sound
<1>3. Busy(o) BY <1>1, OrderlyBusy DEF Able, Records, Filed
<1>4. QED BY <1>1, <1>2, <1>3, GapIsInt DEF Able, Records, Sized, Fit

LEMMA Then ==
  ASSUME NEW a, NEW b, NEW c, Tells(a, b), b.quarantined => c.quarantined,
         Records(b) /\ ~b.quarantined => Tells(b, c)
  PROVE  Tells(a, c)
  BY OwesTrans, HeedsTrans DEF Tells

LEMMA AlikeThen ==
  ASSUME NEW a, NEW b, NEW c, Records(a), Alike(a, b), Tells(b, c) PROVE Tells(a, c)
  BY AlikeRecords, OwesTrans, HeedsTrans DEF Tells

LEMMA ThenAlike ==
  ASSUME NEW a, NEW b, NEW c, Tells(a, b), Alike(b, c) PROVE Tells(a, c)
<1>1. b.quarantined => c.quarantined BY DEF Alike, Entry
<1>2. QED BY <1>1, Then, AlikeTells

\* An owner that does nothing owes the Park that froze its tree.
LEMMA DeferParkRecords ==
  ASSUME NEW o, NEW cause, Sized(o), Filed(o), o.state = "Parked", o.pending = NoOp,
         o.queued = "none", Gap(o) + 2 <= MaxPending, Led(o, {"Running"}),
         NEW n, n = Defer(o, Causal(cause))
  PROVE  Records(n) /\ Owes(o, n) /\ Heeds(o, n) /\ Sized(n)
<1> DEFINE pay == Causal(cause)
<1>1. IsPay(pay) /\ pay.to = "Parked" /\ ValidTransition("Running", pay) BY CausalIsPay
<1>2. o.finished # "ok" BY DEF Filed, Oks, OkIn, Closed
<1>3. Gap(o) \in Int BY GapIsInt
<1>4. n = Defer(o, pay) OBVIOUS
<1> HIDE DEF pay
<1>5. Gap(o) < MaxPending BY <1>3, OwnerAssumption
<1>6. Adds(o, n, pay) BY <1>1, <1>2, <1>4, <1>5, DeferAdds
<1>7. /\ Filed(n) /\ Owes(o, n) /\ Heeds(o, n) /\ Sized(n) /\ LastTo(n) = "Parked"
      /\ n.state = "Parked" /\ n.pending = NoOp /\ n.queued = "none" /\ Gap(n) = Gap(o) + 1
  BY <1>1, <1>6 DEF Adds
<1>8. Reaches(n, LastTo(n)) BY <1>7 DEF Reaches
<1>9. Room(n) BY <1>3, <1>7, OwnerAssumption DEF Room, Spare
<1>10. Placed(n) /\ Settles(n) BY <1>7 DEF Placed, Settles, Doing
<1>11. Strict => Line(n) BY <1>1, <1>6 DEF Adds, Led
<1>12. Legal(n) BY <1>7, <1>11 DEF Legal, Apt, Closing, Sole
<1>13. QED BY <1>7, <1>8, <1>9, <1>10, <1>12 DEF Records

LEMMA DeferBrokerLossParkRecords ==
  ASSUME NEW o, Sized(o), Filed(o), o.state = "Parked", o.pending = NoOp,
         o.queued = "none", Gap(o) + 2 <= MaxPending, Led(o, {"Running"})
  PROVE  Records(DeferBrokerLossPark(o)) /\ Owes(o, DeferBrokerLossPark(o))
         /\ Heeds(o, DeferBrokerLossPark(o))
<1> DEFINE d == Defer(o, Causal(<<"reconcile">>))
<1>1. Records(d) /\ Owes(o, d) /\ Heeds(o, d) /\ Sized(d) BY DeferParkRecords
<1> HIDE DEF d
<1>2. Alike(d, [d EXCEPT !.blocked = TRUE]) BY <1>1, FlagsAlike DEF Sized
<1>3. QED BY <1>1, <1>2, AlikeRecords, OwesTrans, HeedsTrans DEF DeferBrokerLossPark, d

\* A tree that is frozen for the broker leaves a Park to be owed.
LEMMA FrozenEntry ==
  ASSUME NEW o, NEW e, Able(o), o.state = "Running", FrozeNow(o, e),
         NEW n, n = ParkForReconciliation(o, e)
  PROVE  /\ Entry(o, n) /\ Sized(n) /\ Filed(n) /\ n.state = "Parked" /\ n.settling = FALSE
         /\ n.queued = "none" /\ n.pending = o.pending /\ Gap(n) = Gap(o)
         /\ Gap(n) + 2 <= MaxPending /\ Owes(o, n) /\ Heeds(o, n) /\ ~n.quarantined
         /\ o.pending.phase # "Signing" => Led(n, {"Running"})
<1>1. n = AttemptPark(o, e) /\ ParkResult(o, e) = "Parked"
  BY DEF FrozeNow, ParkForReconciliation
<1>2. Entry(o, n) /\ n.state = "Parked" /\ n.settling = o.settling
  BY <1>1, AbleIs, AttemptParkEntry
<1>3. Sized(n) /\ Owes(o, n) /\ Heeds(o, n) BY <1>2, AbleIs, EntrySized, EntryHeeds
<1>4. /\ Filed(n) /\ n.queued = "none" /\ n.pending = o.pending /\ Gap(n) = Gap(o)
      /\ ~n.quarantined
  BY <1>2, AbleIs DEF Entry, Gap, Tip
<1>5. n.settling = FALSE BY <1>2, AbleIs DEF Settles, Typed
<1>6. Gap(n) + 2 <= MaxPending BY <1>4, AbleIs DEF Records, Room, Spare
<1>7. ASSUME o.pending.phase # "Signing" PROVE Led(n, {"Running"})
  <2>1. Strict => Line(o) /\ Latest(o) = "Running"
    <3>1. o.queued = "none" /\ o.state # "Terminal" BY AbleIs
    <3>2. QED BY <1>7, <3>1, AbleIs, AliveLed
  <2>2. (Line(n) <=> Line(o)) /\ Latest(n) = Latest(o) BY <1>2, SameLine DEF Entry
  <2>3. QED BY <2>1, <2>2 DEF Led
<1>8. QED BY <1>2, <1>3, <1>4, <1>5, <1>6, <1>7

LEMMA UnfrozenTells ==
  ASSUME NEW o, NEW e, Able(o), ~FrozeNow(o, e), NEW n, n = ParkForReconciliation(o, e)
  PROVE  Tells(o, n) /\ (n.quarantined \/ n.state # "Parked")
<1> DEFINE m == AttemptPark(o, e)
<1>1. o.state = "Running" /\ ParkResult(o, e) # "Parked" BY DEF FrozeNow
<1>2. n \in {BeginTerminalEvent(m, "ok", e), QuarantineMechanic(m, NoOp, e), m}
  BY <1>1 DEF ParkForReconciliation
<1>3. Entry(o, m) /\ m.state = o.state BY <1>1, AbleIs, AttemptParkEntry
<1> HIDE DEF m
<1>4. Alike(o, m) /\ Records(m) /\ Tells(o, m) /\ Sized(m)
  BY <1>3, AbleIs, AlikeTells, AlikeRecords, AlikeSized DEF Alike
<1>5. m.state = "Running" /\ ~m.quarantined /\ m.queued = "none"
  BY <1>1, <1>3, AbleIs DEF Entry
<1>6. /\ Tells(m, BeginTerminalEvent(m, "ok", e))
      /\ BeginTerminalEvent(m, "ok", e).state \in {m.state, "Terminal"}
  BY <1>4, <1>5, BeginTerminalEventTells
<1>7. /\ QuarantineMechanic(m, NoOp, e).quarantined
      /\ Tells(o, QuarantineMechanic(m, NoOp, e))
  BY <1>4, QuarantineMechanicTells DEF Sized
<1>8. QED BY <1>2, <1>4, <1>5, <1>6, <1>7, AlikeThen, AbleIs

LEMMA FreezeOwingTells ==
  ASSUME NEW o, NEW e, Able(o), o.pending = NoOp, FrozeNow(o, e)
  PROVE  Tells(o, FreezeOwing(o, e))
<1>1. CASE o.state = "Running"
  <2> DEFINE n == ParkForReconciliation(o, e)
  <2>1. o.pending.phase # "Signing" BY DEF NoOp
  <2>2. /\ Sized(n) /\ Filed(n) /\ n.state = "Parked" /\ n.queued = "none"
        /\ n.pending = NoOp /\ Gap(n) + 2 <= MaxPending /\ Owes(o, n) /\ Heeds(o, n)
        /\ Led(n, {"Running"})
    BY <1>1, <2>1, FrozenEntry
  <2> HIDE DEF n
  <2>3. QED BY <1>1, <2>2, DeferBrokerLossParkRecords, OwesTrans, HeedsTrans
            DEF FreezeOwing, Tells, n
<1>2. CASE o.state # "Running"
  BY <1>2, AbleIs, AlikeSelf, AlikeTells DEF FreezeOwing
<1>3. QED BY <1>1, <1>2

LEMMA ParkUnreachableTells ==
  ASSUME NEW o, NEW e, Able(o), o.state = "Running", o.pending = NoOp
  PROVE  Tells(o, ParkUnreachable(o, e))
<1> DEFINE m == ParkForReconciliation(o, e)
           gone == [m EXCEPT !.conn = "Disconnected"]
           b == BeginCausedPark(gone, <<"broker">>, e)
<1>1. ParkUnreachable(o, e) = IF FrozeNow(o, e) THEN b ELSE IF Over(m) THEN m ELSE gone
  BY DEF ParkUnreachable
<1>2. o.pending.phase # "Signing" BY DEF NoOp
<1>3. CASE FrozeNow(o, e)
  <2>1. /\ Entry(o, m) /\ Sized(m) /\ Filed(m) /\ m.state = "Parked" /\ m.settling = FALSE
        /\ m.queued = "none" /\ m.pending = NoOp /\ Gap(m) + 2 <= MaxPending
        /\ Owes(o, m) /\ Heeds(o, m) /\ ~m.quarantined /\ Led(m, {"Running"})
    BY <1>3, <1>2, FrozenEntry
  <2> HIDE DEF m
  <2>2. Alike(m, gone) BY <2>1, FlagsAlike DEF Sized
  <2>3. gone.settling = FALSE BY <2>1 DEF Sized, Formed, Fields
  <2> HIDE DEF gone
  <2>4. /\ Sized(gone) /\ Filed(gone) /\ gone.state = "Parked" /\ gone.pending = NoOp
        /\ gone.queued = "none" /\ ~gone.quarantined /\ Gap(gone) + 2 <= MaxPending
    BY <2>1, <2>2, AlikeSized DEF Alike, Entry, Gap, Tip
  <2>5. Owes(o, gone) /\ Heeds(o, gone) BY <2>1, <2>2, EntryHeeds, OwesTrans, HeedsTrans DEF Alike
  <2>6. Tells(gone, b)
    <3>1. Led(gone, {"Running"}) BY <2>1, <2>2, SameLine DEF Alike, Entry
    <3>2. QED BY <2>3, <2>4, <3>1, BeginCausedParkTells
  <2>7. QED BY <1>1, <1>3, <2>5, <2>6, OwesTrans, HeedsTrans DEF Tells
<1>4. CASE ~FrozeNow(o, e)
  <2>1. Tells(o, m) BY <1>4, UnfrozenTells
  <2>2. Formed(m) BY AbleIs, ParkForReconciliationOrders, OrderlyTyped DEF Typed, Formed
  <2> HIDE DEF m
  <2>3. Alike(m, gone) BY <2>2, FlagsAlike
  <2>4. Tells(o, gone) BY <2>1, <2>3, ThenAlike
  <2>5. QED BY <1>1, <1>4, <2>1, <2>4
<1>5. QED BY <1>3, <1>4

LEMMA FailReceiptAble ==
  ASSUME Wide, NEW o, NEW e, Able(o), NEW n, n = FailReceipt(o, e)
  PROVE  /\ Tells(o, n) /\ Ends(o, n) /\ Orderly(n) /\ ~n.withdrawn
         /\ n.quarantined \/ Able(n)
         /\ o.state = "Running" /\ n.state = "Parked" /\ ~n.quarantined => Gap(n) <= 2
<1>1. Ends(o, n) BY AbleIs, FailReceiptEnds
<1>2. Orderly(n) /\ ~n.withdrawn BY <1>1, AbleIs DEF Ends, Still
<1>3. /\ Tells(o, n)
      /\ o.state = "Running" /\ n.state = "Parked" /\ ~n.quarantined => Gap(n) <= 2
  BY AbleIs, FailReceiptTells
<1>4. n.quarantined \/ Able(n) BY <1>2, <1>3 DEF Tells, Able
<1>5. QED BY <1>1, <1>2, <1>3, <1>4

LEMMA GraceExpiredTells ==
  ASSUME Wide, NEW o, NEW e, Able(o) PROVE Tells(o, GraceExpired(o, e))
<1> DEFINE f == FailReceipt(o, e)
<1>1. Tells(o, f) /\ Ends(o, f) /\ Orderly(f) /\ (f.quarantined \/ Able(f))
  BY FailReceiptAble
<1> HIDE DEF f
<1>2. Sound(f) /\ Formed(f) BY <1>1, OrderlyTyped DEF Typed, Fields, Sound, Formed
<1>3. f.quarantined => Unreachable(f, e).quarantined BY <1>2, UnreachableKeeps DEF Kept
<1>4. ASSUME Able(f) PROVE Tells(f, Unreachable(f, e))
  <2>1. CASE f.state = "Running"
    <3>1. f.pending = NoOp BY <1>1, <2>1 DEF Ends, Settled
    <3>2. QED BY <1>4, <2>1, <3>1, ParkUnreachableTells DEF Unreachable
  <2>2. CASE f.state # "Running"
    <3>1. Alike(f, [f EXCEPT !.conn = "Disconnected"]) BY <1>2, FlagsAlike
    <3>2. QED BY <1>4, <2>2, <3>1, AbleIs, AlikeTells DEF Unreachable
  <2>3. QED BY <2>1, <2>2
<1>5. QED BY <1>1, <1>3, <1>4, Then DEF GraceExpired, f

\* A connection that is given up takes its answers with it, not the evidence.
LEMMA DetachedAlike ==
  ASSUME NEW o, NEW e, Formed(o) PROVE Alike(o, Detached(o, e))
<1> DEFINE a == Narrowed(Revoke(o, e))
           mute == {[r EXCEPT !.live = FALSE] : r \in o.replies}
           n == [a EXCEPT !.resending = 0, !.draining = NoOp, !.settling = FALSE,
                          !.conn = "Grace", !.acks = <<>>, !.trying = TRUE, !.replies = mute]
<1>1. Formed(a) /\ a.replies = o.replies
  BY DEF Formed, Fields, Narrowed, Revoke
<1>2. Alike(o, a) BY RevokeAlike, NarrowedAlike, AlikeTrans, AlikeFormed
<1>3. Detached(o, e) = n BY <1>1 DEF Detached
<1> HIDE DEF a
<1>4. /\ Formed(n)
      /\ n.receipts = a.receipts /\ n.brokerHead = a.brokerHead
      /\ n.pending = a.pending /\ n.deferred = a.deferred /\ n.queued = a.queued
      /\ n.quarantined = a.quarantined /\ n.withdrawn = a.withdrawn
      /\ n.done = a.done /\ n.wait = a.wait /\ n.state = a.state
      /\ n.draining = NoOp /\ n.settling = FALSE
      /\ n.finishQuiet = a.finishQuiet /\ n.finishDrained = a.finishDrained
      /\ n.finished = a.finished /\ n.replies = mute /\ n.failed = a.failed
  BY <1>1 DEF Formed, Fields
<1>5. OkIn(n) => OkIn(a)
  <2>1. ASSUME NEW r \in mute, r.finish = "ok" PROVE \E s \in a.replies : s.finish = "ok"
    <3>1. PICK s \in o.replies : r = [s EXCEPT !.live = FALSE] OBVIOUS
    <3>2. s.finish = "ok" BY <2>1, <3>1
    <3>3. QED BY <1>1, <3>1, <3>2
  <2> HIDE DEF n, mute
  <2>2. QED BY <1>4, <2>1 DEF OkIn
<1> HIDE DEF n, mute
<1>6. Closed(n) <=> Closed(a) BY <1>4 DEF Closed
<1>7. Backlog(n) <=> Backlog(a) BY <1>4 DEF Backlog, Tip
<1>8. Oks(a) => Oks(n) BY <1>4, <1>5, <1>6, <1>7 DEF Oks
<1>9. Filed(a) => Filed(n) BY <1>4, <1>8 DEF Filed, Forms, NoOp
<1>10. Settles(a) => Settles(n) BY <1>4 DEF Settles
<1>11. Alike(a, n) BY <1>4, <1>9, <1>10 DEF Alike, Entry, Formed
<1>12. QED BY <1>2, <1>3, <1>11, AlikeTrans

LEMMA LoseBrokerTells ==
  ASSUME Wide, NEW o, NEW e, Able(o) PROVE Tells(o, LoseBroker(o, e))
<1> DEFINE d == Detached(o, e)
           g == FailGuarded(d, e)
           n == [g EXCEPT !.offered = Tip(g)]
<1>1. ASSUME o.conn \in {"Connected", "Reconciling"} PROVE Tells(o, n)
  <2>1. Orderly(d) BY <1>1, AbleIs, DetachedOrders
  <2>2. Alike(o, d) BY AbleIs, DetachedAlike
  <2> HIDE DEF d
  <2>3. Able(d) BY <2>1, <2>2, AbleIs, AlikeRecords DEF Able, Alike, Entry
  <2>4. g \in {d, FailReceipt(d, e)} BY DEF FailGuarded
  <2> DEFINE f == FailReceipt(d, e)
  <2>5. Tells(d, f) /\ Orderly(f) BY <2>3, FailReceiptAble
  <2>6. Tells(d, d) BY <2>3, AbleIs, AlikeSelf, AlikeTells
  <2> HIDE DEF f
  <2>7. Tells(d, g) /\ Orderly(g) BY <2>1, <2>4, <2>5, <2>6 DEF f
  <2> HIDE DEF g
  <2>8. Alike(g, n) BY <2>7, OrderlyTyped, FlagsAlike DEF Typed, Formed
  <2> HIDE DEF n
  <2>9. Tells(d, n) BY <2>7, <2>8, ThenAlike
  <2>10. QED BY <2>2, <2>9, AlikeThen, AbleIs
<1>2. LoseBroker(o, e) = IF o.conn \in {"Connected", "Reconciling"} THEN n ELSE o
  BY DEF LoseBroker, Offering, Offered
<1>3. Tells(o, o) BY AbleIs, AlikeSelf, AlikeTells
<1>4. QED BY <1>1, <1>2, <1>3
-----------------------------------------------------------------------------
(* An operation whose receipt is durable *)

\* A Resume that is activated keeps its place.
LEMMA ActivatingRecords ==
  ASSUME NEW o, Typed(o), Records(o), Doing(o, "Resume"), o.state = "Running", ~o.withdrawn,
         o.pending.phase \in {"AwaitingDurableAck", "Activating"},
         NEW n, n = [o EXCEPT !.pending.phase = "Activating"]
  PROVE  /\ Typed(n) /\ Records(n) /\ Owes(o, n) /\ Heeds(o, n)
         /\ n.pending.phase = "Activating" /\ n.pending.index = o.pending.index
         /\ n.pending # NoOp /\ n.queued = o.queued /\ n.quarantined = o.quarantined
         /\ n.withdrawn = o.withdrawn /\ n.deferred = o.deferred /\ Gap(n) = Gap(o)
         /\ n.state = o.state
<1>1. UnderWay(o.pending) BY DEF Typed, Doing
<1>2. /\ UnderWay(n.pending) /\ n.pending.phase = "Activating"
      /\ n.pending.index = o.pending.index /\ n.pending.pay = o.pending.pay
      /\ n.pending.respond = o.pending.respond /\ n.pending.finish = o.pending.finish
      /\ n.pending # NoOp
  BY <1>1 DEF UnderWay, Typed, Fields, NoOp
<1>3. /\ Formed(n) /\ Tip(n) = Tip(o)
      /\ n.receipts = o.receipts /\ n.brokerHead = o.brokerHead
      /\ n.deferred = o.deferred /\ n.queued = o.queued
      /\ n.quarantined = o.quarantined /\ n.withdrawn = o.withdrawn
      /\ n.done = o.done /\ n.wait = o.wait /\ n.state = o.state
      /\ n.draining = o.draining /\ n.settling = o.settling
      /\ n.finishQuiet = o.finishQuiet /\ n.finishDrained = o.finishDrained
      /\ n.finished = o.finished /\ n.replies = o.replies /\ n.failed = o.failed
  BY DEF Typed, Formed, Fields, Tip
<1>4. Gap(n) = Gap(o) BY <1>3 DEF Gap
<1>5. Typed(n)
  <2>1. /\ n.tree = o.tree /\ n.channel = o.channel /\ n.conn = o.conn /\ n.relay = o.relay
        /\ n.gate = o.gate /\ n.lost = o.lost /\ n.lostPark = o.lostPark
        /\ n.unproven = o.unproven /\ n.blocked = o.blocked /\ n.trying = o.trying
        /\ n.suspended = o.suspended /\ n.contained = o.contained
        /\ n.resending = o.resending /\ n.offered = o.offered /\ n.offer = o.offer
    BY DEF Typed, Fields
  <2>2. o.pending # NoOp BY DEF Doing
  <2>3. QED BY <1>2, <1>3, <1>4, <2>1, <2>2 DEF Typed, Formed
<1>6. Deed(o.pending) /\ o.pending # NoOp BY DEF Doing, Records, Filed
<1>7. Deed(n.pending) BY <1>2, <1>6 DEF Deed, Doing
<1>8. Oks(n) BY <1>2, <1>3, <1>6 DEF Records, Filed, Oks, OkIn, Closed, Backlog, Tip
<1>9. n.pending.index # 0 BY <1>2, <1>7 DEF Deed
<1>10. Filed(n) BY <1>3, <1>7, <1>8, <1>9 DEF Filed, Records, Forms
<1>11. LastTo(n) = LastTo(o) BY <1>2, <1>3 DEF LastTo
<1>12. Reaches(n, LastTo(n)) BY <1>3, <1>11 DEF Records, Reaches
<1>13. Room(n) BY <1>3, <1>4 DEF Records, Room, Spare
<1>14. Placed(n) BY <1>2, <1>3 DEF Records, Placed, Doing
<1>15. Settles(n) BY <1>3, <1>6 DEF Records, Settles
<1>16. Records(n)
  <2>1. (Line(n) <=> Line(o)) /\ Latest(n) = Latest(o) BY <1>3, SameLine
  <2>2. Legal(n) BY <1>3, <1>6, <1>9, <2>1 DEF Records, Legal, Apt, Closing, Sole
  <2>3. QED BY <1>10, <1>12, <1>13, <1>14, <1>15, <2>2 DEF Records
<1>17. Owes(o, n) BY <1>2, <1>3 DEF Owes, Due
<1>18. Heeds(o, n) BY <1>2, <1>3, <1>6 DEF Heeds, Closed
<1>19. QED BY <1>2, <1>3, <1>4, <1>5, <1>16, <1>17, <1>18

\* The operation ended, and its request, if any, is answered.
Ended(o) ==
    [o EXCEPT !.pending = NoOp,
              !.done = IF o.pending.respond THEN @ \union {o.pending.pay.by} ELSE @]

LEMMA DoneRecords ==
  ASSUME NEW o, Sized(o), Records(o), o.pending # NoOp,
         o.pending.phase \in {"AwaitingDurableAck", "Activating"},
         NEW n, n = Ended(o)
  PROVE  /\ Sized(n) /\ Records(n) /\ Owes(o, n) /\ Heeds(o, n) /\ n.pending = NoOp
         /\ n.queued = o.queued /\ n.quarantined = o.quarantined /\ n.state = o.state
         /\ Gap(n) = Gap(o)
         /\ o.pending.finish = "ok" => Closed(n)
<1> DEFINE by == o.pending.pay.by
<1>1. /\ Formed(n)
      /\ n.receipts = o.receipts /\ n.brokerHead = o.brokerHead /\ n.pending = NoOp
      /\ n.deferred = o.deferred /\ n.queued = o.queued
      /\ n.quarantined = o.quarantined /\ n.withdrawn = o.withdrawn
      /\ n.wait = o.wait /\ n.state = o.state
      /\ n.draining = o.draining /\ n.settling = o.settling
      /\ n.finishQuiet = o.finishQuiet /\ n.finishDrained = o.finishDrained
      /\ n.finished = o.finished /\ n.replies = o.replies /\ n.failed = o.failed
  BY DEF Sized, Formed, Fields, Ended
<1>2. \A x \in n.done : x \in o.done \/ (o.pending.respond /\ x = by)
  BY DEF Sized, Formed, Fields, Ended
<1>3. Sized(n) /\ Gap(n) = Gap(o) BY <1>1 DEF Sized, Tip, Gap
<1>4. ~OkIn(n) /\ o.pending.phase # "Signing" BY <1>1 DEF Records, Filed, Oks, OkIn, Closed
<1>5. Filed(n) BY <1>1, <1>4 DEF Records, Filed, Oks, Forms, OkIn
<1>6. LastTo(n) = LastTo(o) BY <1>1, <1>4 DEF LastTo, NoOp, Tip
<1>7. Reaches(n, LastTo(n)) BY <1>1, <1>6 DEF Records, Reaches
<1>8. Room(n) BY <1>1, <1>3 DEF Records, Room, Spare
<1>9. Placed(n) /\ Settles(n) BY <1>1 DEF Placed, Doing, Records, Settles
<1>10. Records(n)
  <2>1. (Line(n) <=> Line(o)) /\ Latest(n) = Latest(o) BY <1>1, SameLine
  <2>2. Legal(n) BY <1>1, <2>1 DEF Records, Legal, Apt, Closing, Sole
  <2>3. QED BY <1>5, <1>7, <1>8, <1>9, <2>2 DEF Records
<1>11. Owes(o, n) BY <1>1, <1>4 DEF Owes, Due, Tip
<1>12. o.pending.finish = "ok" => Closed(n)
  BY <1>1 DEF Records, Filed, Oks, Closed
<1>13. Heeds(o, n) BY <1>1, <1>2, <1>12 DEF Heeds, Closed
<1>14. QED BY <1>1, <1>3, <1>10, <1>11, <1>12, <1>13

LEMMA CompleteTells ==
  ASSUME Wide, NEW o, NEW enable, NEW e, Caught(o), Records(o), ~o.withdrawn, ~o.quarantined,
         o.pending # NoOp, o.pending.phase \in {"AwaitingDurableAck", "Activating"}
  PROVE  Tells(o, Complete(o, enable, e))
<1> DEFINE op == o.pending
           settles == o.lostPark /\ op.pay.by = <<"controller">>
           n == [o EXCEPT !.pending = NoOp,
                   !.done = IF op.respond THEN @ \union {op.pay.by} ELSE @]
           m == IF op.pay.kind = "Park" /\ ~n.lost /\ ~n.unproven /\ ~Backlog(n)
                THEN [n EXCEPT !.blocked = FALSE] ELSE n
           told == IF op.respond
                   THEN Reply(m, op.finish, IF op.pay.to = "Terminal" THEN op.index ELSE 0)
                   ELSE RequestFinish(m, op.finish)
           last == [told EXCEPT !.lostPark = @ /\ ~settles]
           a == [o EXCEPT !.pending.phase = "Activating"]
           g == [a EXCEPT !.gate = TRUE]
<1>1. Typed(o) /\ Sized(o) /\ (o.queued # "none" => o.state = "Terminal")
  BY TypedSized DEF Caught, Fit
<1>2. \/ /\ Activates(o)
         /\ Complete(o, enable, e) \in {FailReceipt(a, e), g}
      \/ Complete(o, enable, e) =
           IF last.queued # "none" THEN TakeQueued(last)
           ELSE IF settles THEN MaybeSettle(last) ELSE last
  BY DEF Complete
<1>3. o.brokerHead = Tip(o) /\ o.deferred = <<>> /\ Gap(o) = 0
  <2>1. o.brokerHead = Tip(o) /\ o.deferred = <<>> BY DEF Caught, Quiet
  <2>2. Tip(o) \in Nat /\ Len(o.deferred) = 0 BY <1>1, <2>1, Counts
  <2>3. QED BY <2>1, <2>2 DEF Gap
<1>4. ASSUME Activates(o) PROVE Tells(o, FailReceipt(a, e)) /\ Tells(o, g)
  <2>1. a = [o EXCEPT !.pending.phase = "Activating"] OBVIOUS
  <2> DEFINE f == FailReceipt(a, e)
  <2> HIDE DEF a
  <2>2. /\ Typed(a) /\ Records(a) /\ Owes(o, a) /\ Heeds(o, a)
        /\ a.pending.index = o.pending.index /\ a.queued = o.queued
        /\ a.quarantined = o.quarantined /\ a.withdrawn = o.withdrawn
        /\ a.deferred = o.deferred /\ Gap(a) = Gap(o) /\ a.state = o.state
    BY <1>1, <1>4, <2>1, ActivatingRecords DEF Activates
  <2>3. Busy(a) BY <1>3, <2>2 DEF Busy, Own
  <2>4. Tells(a, f) BY <1>1, <2>2, <2>3, FailReceiptTells
  <2> HIDE DEF f
  <2>5. Alike(a, g)
    <3>1. Plain(a, g) /\ g.state = a.state BY <2>2 DEF Typed, Plain, Fields
    <3> HIDE DEF g
    <3>2. QED BY <3>1, PlainAlike
  <2> HIDE DEF g
  <2>6. Tells(a, g) BY <2>2, <2>5, AlikeTells
  <2>7. QED BY <2>2, <2>4, <2>6, OwesTrans, HeedsTrans DEF Tells, f
<1> HIDE DEF a, g
<1>5. /\ Sized(n) /\ Records(n) /\ Owes(o, n) /\ Heeds(o, n) /\ n.pending = NoOp
      /\ n.queued = o.queued /\ ~n.quarantined /\ n.state = o.state /\ Gap(n) = 0
      /\ op.finish = "ok" => Closed(n)
  <2>1. n = Ended(o) BY DEF Ended
  <2> HIDE DEF n
  <2>2. /\ Sized(n) /\ Records(n) /\ Owes(o, n) /\ Heeds(o, n) /\ n.pending = NoOp
        /\ n.queued = o.queued /\ n.quarantined = o.quarantined /\ n.state = o.state
        /\ Gap(n) = Gap(o)
        /\ o.pending.finish = "ok" => Closed(n)
    BY <1>1, <2>1, DoneRecords, Zenon
  <2>3. QED BY <1>3, <2>2
<1>6. Alike(n, last)
  <2> DEFINE head == IF op.pay.to = "Terminal" THEN op.index ELSE 0
             kept == told.lostPark /\ ~settles
  <2> HIDE DEF n, head
  <2>1. Alike(n, m) BY <1>5, FlagsAlike, AlikeSelf DEF Sized
  <2> HIDE DEF m, op
  <2>2. Formed(m) /\ ~m.quarantined /\ (op.finish = "ok" => Closed(m))
    BY <1>5, <2>1 DEF Alike, Entry, Closed, Formed
  <2>3. Alike(m, Reply(m, op.finish, head)) BY <2>2, ReplyAlike
  <2>4. Alike(m, RequestFinish(m, op.finish)) BY <2>2, RequestFinishAlike
  <2>5. told \in {Reply(m, op.finish, head), RequestFinish(m, op.finish)} BY DEF head, op
  <2> HIDE DEF told
  <2>6. Alike(m, told) BY <2>3, <2>4, <2>5
  <2>7. Formed(told) BY <2>6 DEF Alike, Entry, Formed
  <2>8. last = [told EXCEPT !.lostPark = kept] BY <2>7 DEF Formed, Fields
  <2> HIDE DEF last, kept
  <2>9. Alike(told, last) BY <2>7, <2>8, FlagsAlike
  <2>10. QED BY <2>1, <2>6, <2>9, AlikeTrans
<1> HIDE DEF n, last
<1>7. /\ Records(last) /\ Owes(n, last) /\ Heeds(n, last) /\ Sized(last)
      /\ last.pending = NoOp /\ last.queued = o.queued /\ ~last.quarantined
      /\ last.state = o.state /\ Gap(last) = 0
  BY <1>5, <1>6, AlikeRecords, AlikeSized DEF Alike, Entry, Gap, Tip
<1>8. Tells(last, TakeQueued(last))
  <2>1. last.queued # "none" => last.state = "Terminal" /\ ~last.settling
    BY <1>1, <1>7 DEF Records, Settles
  <2>2. Filed(last) /\ Gap(last) < MaxPending BY <1>7, OwnerAssumption DEF Records
  <2>3. last.queued # "none" => Led(last, {"Running", "Parked"})
    BY <1>7 DEF Records, Legal, Closing, Led
  <2>4. QED BY <1>7, <2>1, <2>2, <2>3, TakeQueuedTells
<1>9. Tells(last, MaybeSettle(last)) /\ Tells(last, last)
  BY <1>7, MaybeSettleAlike, AlikeSelf, AlikeTells DEF Sized
<1>10. ASSUME NEW x \in {TakeQueued(last), MaybeSettle(last), last} PROVE Tells(o, x)
  BY <1>5, <1>7, <1>8, <1>9, OwesTrans, HeedsTrans DEF Tells
<1>11. QED BY <1>2, <1>4, <1>10
-----------------------------------------------------------------------------
(* Reconciling with the broker *)

\* The evidence and the state are as they were.
Same(o, n) ==
    /\ Formed(n)
    /\ n.receipts = o.receipts /\ n.brokerHead = o.brokerHead
    /\ n.pending = o.pending /\ n.deferred = o.deferred /\ n.queued = o.queued
    /\ n.quarantined = o.quarantined /\ n.withdrawn = o.withdrawn
    /\ n.done = o.done /\ n.wait \in {o.wait, NoOp} /\ n.state = o.state
    /\ n.settling \in {o.settling, FALSE}

LEMMA LessAlike ==
  ASSUME NEW o, NEW n, Same(o, n), OkIn(n) => OkIn(o), n.finished = "ok" => o.finished = "ok",
         n.draining \in {o.draining, NoOp}
  PROVE  Alike(o, n)
<1>1. Closed(n) <=> Closed(o) BY DEF Same, Closed
<1>2. Backlog(n) <=> Backlog(o) BY DEF Same, Backlog, Tip
<1>3. Oks(o) => Oks(n) BY <1>1, <1>2 DEF Same, Oks
<1>4. Filed(o) => Filed(n) BY <1>3 DEF Same, Filed, Forms, NoOp
<1>5. Settles(o) => Settles(n) BY DEF Same, Settles
<1>6. QED BY <1>4, <1>5 DEF Same, Alike, Entry, Formed

LEMMA StartDrainingAlike == ASSUME NEW o, Formed(o) PROVE Alike(o, StartDraining(o))
<1> DEFINE d == [phase |-> "Signing", pay |-> o.deferred[1], seq |-> Tip(o) + 1, index |-> 0]
           n == [o EXCEPT !.draining = d]
<1>1. ASSUME o.deferred # <<>> PROVE Alike(o, n)
  <2>1. d.phase = "Signing" /\ d.pay = o.deferred[1] /\ d.seq = Len(o.receipts) + 1 BY DEF Tip
  <2> HIDE DEF d
  <2>2. /\ Same(o, n) /\ n.draining = d /\ n.finishQuiet = o.finishQuiet
        /\ n.finishDrained = o.finishDrained /\ n.finished = o.finished
        /\ n.replies = o.replies /\ n.failed = o.failed
    BY DEF Same, Formed, Fields
  <2> HIDE DEF n
  <2>3. Oks(o) => Oks(n) BY <2>2 DEF Same, Oks, OkIn, Closed, Backlog, Tip
  <2>4. Filed(o) => Filed(n) BY <1>1, <2>1, <2>2, <2>3 DEF Same, Filed, Forms
  <2>5. Settles(o) => Settles(n) BY <2>2 DEF Same, Settles
  <2>6. QED BY <2>2, <2>4, <2>5 DEF Same, Alike, Entry, Formed
<1>2. QED BY <1>1, AlikeSelf DEF StartDraining, d

LEMMA CompleteDurableTells ==
  ASSUME Wide, NEW o, NEW e, Caught(o), Records(o), ~o.withdrawn, ~o.quarantined
  PROVE  Tells(o, CompleteDurable(o, e))
<1> DEFINE enable == FALSE
<1>1. CASE o.pending.phase = "AwaitingDurableAck" /\ o.pending.index = o.brokerHead
  <2>1. CompleteDurable(o, e) = Complete(o, enable, e) BY <1>1 DEF CompleteDurable
  <2> HIDE DEF enable
  <2>2. o.pending # NoOp BY <1>1 DEF NoOp
  <2>3. QED BY <1>1, <2>1, <2>2, CompleteTells
<1>2. CASE ~(o.pending.phase = "AwaitingDurableAck" /\ o.pending.index = o.brokerHead)
  <2>1. CompleteDurable(o, e) = o BY <1>2 DEF CompleteDurable
  <2>2. Formed(o) BY DEF Caught, Fit, Typed, Formed
  <2>3. QED BY <2>1, <2>2, AlikeSelf, AlikeTells
<1>3. QED BY <1>1, <1>2

LEMMA ReattachedAlike == ASSUME NEW o, Formed(o) PROVE Alike(o, Reattached(o))
<1> DEFINE kept == o.lostPark /\ ~\E i \in 1 .. o.brokerHead :
                                       o.receipts[i].by = <<"controller">>
           a == [o EXCEPT !.conn = "Connected"]
           n == [a EXCEPT !.lostPark = kept]
<1>1. Reattached(o) = MaybeSettle(n) BY DEF Reattached, Formed, Fields
<1> HIDE DEF kept
<1>2. Alike(o, a) BY FlagsAlike
<1> HIDE DEF a
<1>3. Alike(a, n) BY <1>2, AlikeFormed, FlagsAlike
<1> HIDE DEF n
<1>4. Alike(n, MaybeSettle(n)) BY <1>3, AlikeFormed, MaybeSettleAlike
<1>5. QED BY <1>1, <1>2, <1>3, <1>4, AlikeTrans

LEMMA UnblockAlike == ASSUME NEW o, Formed(o) PROVE Alike(o, Unblock(o))
  BY FlagsAlike, AlikeSelf DEF Unblock

LEMMA FinishDrainedAlike ==
  ASSUME NEW o, Formed(o), Filed(o), ~o.quarantined PROVE Alike(o, FinishDrained(o))
<1> DEFINE n == [o EXCEPT !.finishDrained = "none"]
<1>1. /\ Same(o, n) /\ n.draining = o.draining /\ n.finishQuiet = o.finishQuiet
      /\ n.finishDrained = "none" /\ n.finished = o.finished
      /\ n.replies = o.replies /\ n.failed = o.failed
  BY DEF Same, Formed, Fields
<1>2. FinishDrained(o) = RequestFinish(n, o.finishDrained) BY DEF FinishDrained
<1> HIDE DEF n
<1>3. OkIn(n) => OkIn(o) BY <1>1 DEF OkIn
<1>4. Alike(o, n) BY <1>1, <1>3, LessAlike
<1>5. o.finishDrained = "ok" => Closed(n)
  BY <1>1 DEF Filed, Oks, OkIn, Same, Closed
<1>6. Formed(n) /\ ~n.quarantined BY <1>1 DEF Same
<1>7. Alike(n, RequestFinish(n, o.finishDrained)) BY <1>5, <1>6, RequestFinishAlike
<1>8. QED BY <1>2, <1>4, <1>7, AlikeTrans

LEMMA UnfrozenAlike == ASSUME NEW o, Formed(o) PROVE Alike(o, Unfrozen(o))
<1> DEFINE n == [o EXCEPT !.blocked = TRUE, !.conn = "Connected", !.channel = "Revoked"]
<1>1. Plain(o, n) /\ n.state = o.state BY DEF Formed, Plain, Fields
<1> HIDE DEF n
<1>2. Alike(o, n) BY <1>1, PlainAlike
<1>3. QED BY <1>2, AlikeSelf DEF Unfrozen, n

LEMMA ReconciledTells ==
  ASSUME NEW o, NEW e, Able(o), Alone(o) PROVE Tells(o, Reconciled(o, e))
<1> DEFINE f == FreezeOwing(o, e)
           r == [f EXCEPT !.conn = "Reconciling"]
           p == ParkForReconciliation(o, e)
<1>1. CASE o.deferred = <<>>
  <2> DEFINE a == Reattached(o)
             b == Unblock(a)
  <2>1. Alike(o, a) BY AbleIs, ReattachedAlike
  <2> HIDE DEF a
  <2>2. Alike(a, b) BY <2>1, AlikeFormed, UnblockAlike
  <2> HIDE DEF b
  <2>3. Alike(o, b) BY <2>1, <2>2, AlikeTrans
  <2>4. Formed(b) /\ Filed(b) /\ ~b.quarantined BY <2>3, AbleIs DEF Alike, Entry, Formed
  <2>5. Alike(o, FinishDrained(b)) BY <2>3, <2>4, FinishDrainedAlike, AlikeTrans
  <2>6. Tells(o, FinishDrained(b)) BY <2>5, AbleIs, AlikeTells
  <2>7. QED BY <1>1, <2>6 DEF Reconciled, b, a
<1>2. CASE o.deferred # <<>> /\ FrozeNow(o, e)
  <2>1. Free(o) BY <1>2 DEF Able, Orderly, Under, Quiet, Free
  <2>2. Tells(o, f) BY <1>2, <2>1, FreezeOwingTells DEF Free
  <2>3. Formed(f) BY <1>2, <2>1, FreezeOwingOwes, FreeOrders DEF Typed, Formed
  <2> HIDE DEF f
  <2>4. Alike(f, r) BY <2>3, FlagsAlike
  <2> HIDE DEF r
  <2>5. Alike(r, StartDraining(r)) BY <2>4, AlikeFormed, StartDrainingAlike
  <2>6. Tells(o, StartDraining(r)) BY <2>2, <2>4, <2>5, AlikeTrans, ThenAlike
  <2>7. QED BY <1>2, <2>6 DEF Reconciled, r, f
<1>3. CASE o.deferred # <<>> /\ ~FrozeNow(o, e)
  <2>1. Tells(o, p) BY <1>3, UnfrozenTells
  <2>2. Formed(p) BY AbleIs, ParkForReconciliationOrders, OrderlyTyped DEF Typed, Formed
  <2> HIDE DEF p
  <2>3. Tells(o, Unfrozen(p)) BY <2>1, <2>2, UnfrozenAlike, ThenAlike
  <2>4. QED BY <1>3, <2>3 DEF Reconciled, p
<1>4. QED BY <1>1, <1>2, <1>3

LEMMA FinishReconnectTells ==
  ASSUME Wide, NEW o, NEW e, Typed(o), Caught([o EXCEPT !.resending = 0]), o.draining = NoOp,
         o.offer = 0, Records(o), ~o.withdrawn, ~o.quarantined
  PROVE  Tells(o, FinishReconnect(o, e))
<1> DEFINE n == [o EXCEPT !.resending = 0]
           c == CompleteDurable(n, e)
<1>1. Alone(n) BY DEF Alone, Typed, Fields
<1>2. Caught(n) OBVIOUS
<1>3. Alike(o, n) BY FlagsAlike DEF Typed, Formed
<1> HIDE DEF n
<1>4. Records(n) /\ ~n.withdrawn /\ ~n.quarantined
  BY <1>3, AlikeRecords DEF Alike, Entry
<1>5. Tells(n, c) BY <1>2, <1>4, CompleteDurableTells
<1>6. Orderly(c) /\ Still(n, c) BY <1>2, CompleteDurableOrders
<1> HIDE DEF c
<1>7. Alone(c) /\ ~c.withdrawn BY <1>1, <1>4, <1>6, AloneStays DEF Still
<1>8. Sound(c) BY <1>6, OrderlyTyped DEF Typed, Fields, Sound
<1>9. c.quarantined => Reconciled(c, e).quarantined BY <1>8, ReconciledKeeps DEF Kept
<1>10. Records(c) /\ ~c.quarantined => Tells(c, Reconciled(c, e))
  BY <1>6, <1>7, ReconciledTells DEF Able
<1>11. Tells(n, Reconciled(c, e)) BY <1>5, <1>9, <1>10, Then
<1>12. QED BY <1>3, <1>11, AlikeThen DEF FinishReconnect, c, n

LEMMA FailReconciliationTells ==
  ASSUME NEW o, NEW e, Able(o), o.pending = NoOp PROVE Tells(o, FailReconciliation(o, e))
<1> DEFINE a == [o EXCEPT !.resending = 0, !.blocked = TRUE]
           p == ParkForReconciliation(a, e)
           owed == DeferBrokerLossPark(p)
<1>1. Eases(o, a) BY AbleIs DEF Eases, Still, Typed, Fields, Tip, Gap
<1>2. Alike(o, a)
  <2>1. Plain(o, a) /\ a.state = o.state BY AbleIs DEF Formed, Plain, Fields
  <2> HIDE DEF a
  <2>2. QED BY <2>1, PlainAlike
<1> HIDE DEF a
<1>3. Able(a) /\ a.pending = NoOp /\ a.state = o.state
  <2>1. Orderly(a) BY <1>1, AbleIs, EasesOrderly
  <2>2. QED BY <1>2, <2>1, AbleIs, AlikeRecords DEF Able, Alike, Entry
<1>4. ASSUME NEW x, Formed(x), ~Over(x)
      PROVE  Alike(x, [Narrowed(x) EXCEPT !.conn = "Connected"])
  <2> DEFINE m == Narrowed(x)
  <2>1. Alike(x, m) BY <1>4, NarrowedAlike
  <2> HIDE DEF m
  <2>2. Alike(m, [m EXCEPT !.conn = "Connected"]) BY <2>1, AlikeFormed, FlagsAlike
  <2>3. Alike(x, [m EXCEPT !.conn = "Connected"]) BY <2>1, <2>2, AlikeTrans
  <2>4. QED BY <2>3 DEF m
<1>5. FailReconciliation(o, e) = Unreconciled(p, o.state) BY DEF FailReconciliation, a
<1>6. CASE o.state = "Running" /\ FrozeNow(a, e)
  <2>1. /\ Sized(p) /\ Filed(p) /\ p.state = "Parked" /\ p.queued = "none"
        /\ p.pending = NoOp /\ Gap(p) + 2 <= MaxPending
        /\ Owes(a, p) /\ Heeds(a, p) /\ ~p.quarantined /\ Led(p, {"Running"})
    <3>1. Able(a) /\ a.state = "Running" /\ FrozeNow(a, e) BY <1>3, <1>6
    <3>2. /\ Entry(a, p) /\ Sized(p) /\ Filed(p) /\ p.state = "Parked" /\ p.queued = "none"
          /\ p.pending = a.pending /\ Gap(p) + 2 <= MaxPending
          /\ Owes(a, p) /\ Heeds(a, p) /\ ~p.quarantined
          /\ a.pending.phase # "Signing" => Led(p, {"Running"})
      BY <3>1, FrozenEntry
    <3> HIDE DEF p
    <3>3. QED BY <1>3, <3>2 DEF NoOp
  <2> HIDE DEF p
  <2>2. Records(owed) /\ Owes(p, owed) /\ Heeds(p, owed)
    BY <2>1, DeferBrokerLossParkRecords
  <2>3. Formed(owed) /\ owed.state = "Parked"
    BY <2>1 DEF Sized, Formed, Fields, DeferBrokerLossPark, Defer
  <2>4. Unreconciled(p, o.state) = [Narrowed(owed) EXCEPT !.conn = "Connected"]
    BY <1>6, <2>1 DEF Unreconciled, Over
  <2> HIDE DEF owed
  <2>5. Alike(owed, [Narrowed(owed) EXCEPT !.conn = "Connected"])
    BY <2>3, NarrowedAlike, AlikeFormed, FlagsAlike, AlikeTrans
  <2>6. Tells(owed, Unreconciled(p, o.state)) BY <2>2, <2>4, <2>5, AlikeTells
  <2>7. Tells(a, Unreconciled(p, o.state))
    BY <2>1, <2>2, <2>6, OwesTrans, HeedsTrans DEF Tells
  <2>8. QED BY <1>2, <1>5, <2>7, AbleIs, AlikeThen
<1>7. CASE ~(o.state = "Running" /\ FrozeNow(a, e))
  <2>1. Tells(a, p) /\ (p.quarantined \/ p.state # "Parked" \/ o.state # "Running")
    <3>1. CASE FrozeNow(a, e)
      <4>1. p = a BY <1>3, <1>7, <3>1 DEF ParkForReconciliation
      <4>2. QED BY <1>3, <1>7, <3>1, <4>1, AbleIs, AlikeSelf, AlikeTells
    <3>2. CASE ~FrozeNow(a, e) BY <1>3, <3>2, UnfrozenTells
    <3>3. QED BY <3>1, <3>2
  <2>2. Formed(p) BY <1>3, AbleIs, ParkForReconciliationOrders, OrderlyTyped DEF Typed, Formed
  <2> HIDE DEF p
  <2>3. Unreconciled(p, o.state) =
          IF Over(p) THEN p ELSE [Narrowed(p) EXCEPT !.conn = "Connected"]
    BY <2>1 DEF Unreconciled, Over
  <2>4. Alike(p, Unreconciled(p, o.state)) BY <1>4, <2>2, <2>3, AlikeSelf
  <2>5. Tells(a, Unreconciled(p, o.state)) BY <2>1, <2>4, ThenAlike
  <2>6. QED BY <1>2, <1>5, <2>5, AbleIs, AlikeThen
<1>8. QED BY <1>6, <1>7

LEMMA SendAlike == ASSUME NEW o, NEW i, Formed(o) PROVE Alike(o, Send(o, i))
  BY FlagsAlike DEF Send, Formed, Fields

LEMMA CatchUpTells ==
  ASSUME NEW o, NEW head, NEW e, Able(o), o.pending = NoOp PROVE Tells(o, CatchUp(o, head, e))
<1> DEFINE f == FreezeOwing(o, e)
           c == [f EXCEPT !.conn = "Reconciling"]
           n == [c EXCEPT !.resending = head + 1]
           p == ParkForReconciliation(o, e)
<1>1. Free(o) BY AbleIs DEF Free
<1>2. ASSUME FrozeNow(o, e) PROVE Tells(o, CatchUp(o, head, e))
  <2>1. Tells(o, f) BY <1>2, FreezeOwingTells
  <2>2. Formed(f) BY <1>1, <1>2, FreezeOwingOwes, FreeOrders DEF Typed, Formed
  <2>3. CatchUp(o, head, e) = Send([f EXCEPT !.conn = "Reconciling", !.resending = head + 1],
                                   head + 1)
    BY <1>2 DEF CatchUp
  <2> HIDE DEF f
  <2>4. n = [f EXCEPT !.conn = "Reconciling", !.resending = head + 1] OBVIOUS
  <2>5. Alike(f, c) BY <2>2, FlagsAlike
  <2> HIDE DEF c
  <2>6. Alike(c, n) BY <2>5, AlikeFormed, FlagsAlike
  <2> HIDE DEF n
  <2>7. Alike(n, Send(n, head + 1)) BY <2>6, AlikeFormed, SendAlike
  <2>8. Alike(f, CatchUp(o, head, e)) BY <2>3, <2>4, <2>5, <2>6, <2>7, AlikeTrans
  <2>9. QED BY <2>1, <2>8, ThenAlike
<1>3. ASSUME ~FrozeNow(o, e) PROVE Tells(o, CatchUp(o, head, e))
  <2>1. Tells(o, p) /\ Orderly(p) /\ Settled(p) /\ ~p.withdrawn
    BY <1>1, <1>3, AbleIs, UnfrozenTells, ParkForReconciliationOrders DEF Free, Still
  <2>2. CatchUp(o, head, e) = FailUnfrozen(p, e) BY <1>3 DEF CatchUp
  <2> HIDE DEF p
  <2>3. CASE Over(p) BY <2>1, <2>2, <2>3 DEF FailUnfrozen
  <2>4. CASE ~Over(p)
    <3>1. Able(p) /\ p.pending = NoOp BY <2>1, <2>4 DEF Over, Tells, Able, Settled
    <3>2. Tells(p, FailReconciliation(p, e)) BY <3>1, FailReconciliationTells
    <3>3. Tells(o, FailReconciliation(p, e)) BY <2>1, <2>4, <3>2, Then DEF Over
    <3>4. QED BY <2>2, <2>4, <3>3 DEF FailUnfrozen
  <2>5. QED BY <2>3, <2>4
<1>4. QED BY <1>2, <1>3

\* The broker knows more of the chain than it did.
LEMMA HeadRecords ==
  ASSUME NEW o, NEW n, Typed(o), Records(o), Formed(n), n.receipts = o.receipts,
         n.brokerHead \in o.brokerHead .. Tip(o), n.pending = o.pending,
         n.deferred = o.deferred, n.queued = o.queued, n.quarantined = o.quarantined,
         n.withdrawn = o.withdrawn, n.done = o.done, n.wait = o.wait, n.state = o.state,
         n.settling = o.settling, n.draining \in {o.draining, NoOp},
         n.finishQuiet = o.finishQuiet, n.finishDrained = o.finishDrained,
         n.finished = o.finished, n.replies = o.replies, n.failed = o.failed
  PROVE  Records(n) /\ Owes(o, n) /\ Heeds(o, n)
<1>1. /\ Tip(n) = Tip(o) /\ Tip(o) \in Nat /\ Len(o.deferred) \in Nat
      /\ o.brokerHead \in Nat /\ n.brokerHead \in Nat
      /\ (o.deferred = <<>> <=> Len(o.deferred) = 0)
  BY Counts DEF Tip, Typed
<1>2. Gap(n) <= Gap(o) /\ Gap(n) \in Int /\ Gap(o) \in Int BY <1>1 DEF Gap
<1>3. ~Backlog(o) => ~Backlog(n) BY <1>1 DEF Backlog
<1>4. OkIn(n) <=> OkIn(o) BY DEF OkIn
<1>5. Closed(n) <=> Closed(o) BY DEF Closed
<1>6. Oks(n) BY <1>3, <1>4, <1>5 DEF Records, Filed, Oks
<1>7. Filed(n) BY <1>6 DEF Records, Filed, Forms, NoOp
<1>8. LastTo(n) = LastTo(o) BY <1>1 DEF LastTo
<1>9. Reaches(n, LastTo(n)) BY <1>8 DEF Records, Reaches
<1>10. Room(n)
  <2>1. Spare(n) = Spare(o) /\ Spare(o) \in Nat BY DEF Spare
  <2>2. QED BY <1>2, <2>1, OwnerAssumption DEF Records, Room
<1>11. Placed(n) /\ Settles(n) BY DEF Records, Placed, Doing, Settles
<1>12. Owes(o, n) BY <1>1 DEF Owes, Due
<1>13. Heeds(o, n) BY <1>5 DEF Heeds
<1>14. Legal(n) BY SameLegal DEF Records
<1>15. QED BY <1>7, <1>9, <1>10, <1>11, <1>12, <1>13, <1>14 DEF Records

LEMMA ReconnectedTells ==
  ASSUME Wide, NEW o, NEW head, NEW e, Able(o), Alone(o), head \in o.brokerHead .. Tip(o)
  PROVE  Tells(o, Reconnected(o, head, e))
<1> DEFINE n == [o EXCEPT !.brokerHead = head, !.trying = FALSE]
           f == FailReceipt(n, e)
<1>1. n = [o EXCEPT !.brokerHead = head, !.trying = FALSE] OBVIOUS
<1>2. /\ Formed(n) /\ n.receipts = o.receipts /\ n.brokerHead = head /\ n.pending = o.pending
      /\ n.deferred = o.deferred /\ n.queued = o.queued /\ n.quarantined = o.quarantined
      /\ n.withdrawn = o.withdrawn /\ n.done = o.done /\ n.wait = o.wait /\ n.state = o.state
      /\ n.settling = o.settling /\ n.draining = o.draining
      /\ n.finishQuiet = o.finishQuiet /\ n.finishDrained = o.finishDrained
      /\ n.finished = o.finished /\ n.replies = o.replies /\ n.failed = o.failed
      /\ n.lost = o.lost /\ n.resending = o.resending
  BY AbleIs DEF Formed, Fields
<1>3. Reconnected(o, head, e) = IF head = Tip(n) THEN FinishReconnect(n, e)
                                                 ELSE CatchUp(f, head, e)
  BY DEF Reconnected
<1> HIDE DEF n
<1>4. /\ Fit(n) /\ Alone(n) /\ Tip(n) = Tip(o)
      /\ head = Tip(n) => Caught([n EXCEPT !.resending = 0])
  <2>1. Orderly(o) BY AbleIs
  <2>2. QED BY <1>1, <2>1, CheckpointFits
<1>5. Records(n) /\ Owes(o, n) /\ Heeds(o, n) BY <1>2, AbleIs, HeadRecords
<1>6. ~n.withdrawn /\ ~n.quarantined BY <1>2, AbleIs
<1>7. ASSUME head = Tip(n) PROVE Tells(n, FinishReconnect(n, e))
  BY <1>4, <1>5, <1>6, <1>7, FinishReconnectTells DEF Alone, Fit
<1>8. ASSUME head # Tip(n) PROVE Tells(n, CatchUp(f, head, e))
  <2>1. Under(n)
    <3>1. Tip(o) \in Nat /\ o.brokerHead \in Nat BY AbleIs, Counts DEF Typed
    <3>2. ASSUME o.pending # NoOp
          PROVE  o.pending.phase = "AwaitingDurableAck" /\ n.brokerHead = o.brokerHead
      BY <1>2, <1>4, <1>8, <3>1, <3>2, AbleIs DEF Orderly, Under
    <3>3. QED BY <1>2, <1>4, <3>2, AbleIs DEF Orderly, Under, Quiet
  <2>2. Able(n) BY <1>4, <1>5, <1>6, <2>1 DEF Able, Orderly
  <2>3. Tells(n, f) /\ Ends(n, f) /\ Orderly(f) /\ (f.quarantined \/ Able(f))
    BY <2>2, FailReceiptAble
  <2> HIDE DEF f
  <2>4. f.brokerHead = head /\ Tip(f) = Tip(n) BY <1>2, <2>3 DEF Ends, Still, Tip
  <2>5. f.pending = NoOp BY <1>8, <2>3, <2>4 DEF Ends, Settled, Orderly, Under
  <2>6. ASSUME f.quarantined PROVE CatchUp(f, head, e).quarantined
    <3> DEFINE g == FreezeOwing(f, e)
               q == ParkForReconciliation(f, e)
    <3>1. Sound(f) BY <2>3, OrderlyTyped DEF Typed, Fields, Sound
    <3>2. g.quarantined /\ q.quarantined /\ Formed(q) 
      BY <2>3, <2>6, <3>1, FreezeOwingKeeps, ParkForReconciliationKeeps,
         ParkForReconciliationOrders, OrderlyTyped DEF Kept, Typed, Formed
    <3>3. CatchUp(f, head, e) \in
            {Send([g EXCEPT !.conn = "Reconciling", !.resending = head + 1], head + 1),
             FailUnfrozen(q, e)}
      BY DEF CatchUp
    <3> HIDE DEF g, q
    <3>4. FailUnfrozen(q, e) = q BY <3>2 DEF FailUnfrozen, Over
    <3>5. Send([g EXCEPT !.conn = "Reconciling", !.resending = head + 1], head + 1).quarantined
            = g.quarantined
      BY DEF Send
    <3>6. QED BY <3>2, <3>3, <3>4, <3>5
  <2>7. Able(f) => Tells(f, CatchUp(f, head, e)) BY <2>5, CatchUpTells
  <2>8. QED BY <2>3, <2>6, <2>7, Then
<1>9. Tells(n, Reconnected(o, head, e)) BY <1>3, <1>7, <1>8
<1>10. QED BY <1>5, <1>9, OwesTrans, HeedsTrans DEF Tells

LEMMA RecordsThen ==
  ASSUME NEW a, NEW b, NEW c, Owes(a, b), Heeds(a, b), Tells(b, c) PROVE Tells(a, c)
  BY OwesTrans, HeedsTrans DEF Tells

LEMMA FailDrainingAlike == ASSUME NEW o, Formed(o) PROVE Alike(o, FailDraining(o))
<1> DEFINE c == IF o.state = "Terminal" THEN "Closed" ELSE "Revoked"
           n == [o EXCEPT !.draining = NoOp, !.blocked = TRUE, !.conn = "Connected", !.channel = c]
<1> HIDE DEF c
<1>1. Plain(o, n) /\ n.state = o.state BY DEF Formed, Plain, Fields
<1> HIDE DEF n
<1>2. Alike(o, n) BY <1>1, PlainAlike
<1>3. QED BY <1>2 DEF FailDraining, n, c

LEMMA AcknowledgedCaught ==
  ASSUME NEW o, NEW i \in Nat \ {0}, NEW n, Orderly(o), ~o.withdrawn, o.offer = 0,
         o.draining = NoOp, o.resending = 0, n = [o EXCEPT !.brokerHead = i],
         o.pending.phase = "AwaitingDurableAck", o.pending.index = i
  PROVE  Caught(n)
<1>1. /\ Typed(o) /\ Fit(o) /\ Tip(o) \in Nat /\ Len(o.deferred) \in Nat
      /\ o.brokerHead \in 1 .. Tip(o)
  BY OrderlyTyped, Counts DEF Typed
<1>2. o.pending # NoOp BY DEF NoOp
<1>3. i = Tip(o) /\ o.brokerHead + 1 = Tip(o) /\ Quiet(o) BY <1>2 DEF Orderly, Under
<1>4. /\ n.receipts = o.receipts /\ n.brokerHead = i /\ n.pending = o.pending
      /\ n.deferred = o.deferred /\ n.resending = 0 /\ n.draining = NoOp
      /\ n.wait = o.wait /\ n.state = o.state /\ n.queued = o.queued /\ n.lost = o.lost
      /\ n.offer = 0 /\ n.conn = o.conn /\ n.withdrawn = o.withdrawn /\ Tip(n) = Tip(o)
  BY <1>1 DEF Typed, Fields, Tip
<1>5. Gap(n) <= MaxPending
  <2>1. Gap(o) <= MaxPending BY <1>1 DEF Typed
  <2>2. Gap(n) <= Gap(o) BY <1>1, <1>3, <1>4 DEF Gap
  <2>3. Gap(o) \in Int /\ Gap(n) \in Int BY <1>1, <1>4 DEF Gap
  <2>4. QED BY <2>1, <2>2, <2>3, OwnerAssumption
<1>6. Typed(n) BY <1>1, <1>3, <1>4, <1>5 DEF Typed, Fields
<1>7. Resends(n) /\ Drains(n) BY <1>4 DEF Resends, Drains
<1>8. o.brokerHead <= n.brokerHead BY <1>1, <1>3, <1>4
<1>9. Fit(n) BY <1>1, <1>4, <1>6, <1>7, <1>8, AdvanceFits
<1>10. Under(o) BY DEF Orderly
<1>11. QED BY <1>2, <1>3, <1>4, <1>9, <1>10 DEF Caught, Quiet, Under

LEMMA AcknowledgedTells ==
  ASSUME Wide, NEW o, NEW i \in Nat \ {0}, NEW e, Able(o), o.offer = 0
  PROVE  Tells(o, Acknowledged(o, i, e))
<1>1. /\ Typed(o) /\ Fit(o) /\ Orderly(o) /\ Sized(o) /\ Formed(o) /\ Records(o)
      /\ ~o.withdrawn /\ ~o.quarantined
  BY AbleIs
<1>2. Tip(o) \in Nat /\ o.brokerHead \in 1 .. Tip(o) BY <1>1, Counts DEF Typed
<1>3. ASSUME NEW n, Formed(n), n.receipts = o.receipts, n.brokerHead = i, n.pending = o.pending,
             n.deferred = o.deferred, n.queued = o.queued, n.quarantined = o.quarantined,
             n.withdrawn = o.withdrawn, n.done = o.done, n.wait = o.wait, n.state = o.state,
             n.settling = o.settling, n.draining \in {o.draining, NoOp},
             n.finishQuiet = o.finishQuiet, n.finishDrained = o.finishDrained,
             n.finished = o.finished, n.replies = o.replies, n.failed = o.failed,
             i \in o.brokerHead + 1 .. Tip(o)
      PROVE  Records(n) /\ Owes(o, n) /\ Heeds(o, n) /\ ~n.withdrawn /\ ~n.quarantined
  <2>1. n.brokerHead \in o.brokerHead .. Tip(o) BY <1>2, <1>3
  <2>2. QED BY <1>1, <1>3, <2>1, HeadRecords
<1>4. CASE o.draining # NoOp
  <2> DEFINE n == [o EXCEPT !.brokerHead = i, !.draining = NoOp]
  <2>1. n = [o EXCEPT !.brokerHead = i, !.draining = NoOp] OBVIOUS
  <2>2. /\ Formed(n) /\ n.receipts = o.receipts /\ n.brokerHead = i /\ n.pending = o.pending
        /\ n.deferred = o.deferred /\ n.queued = o.queued /\ n.quarantined = o.quarantined
        /\ n.withdrawn = o.withdrawn /\ n.done = o.done /\ n.wait = o.wait /\ n.state = o.state
        /\ n.settling = o.settling /\ n.draining = NoOp
        /\ n.finishQuiet = o.finishQuiet /\ n.finishDrained = o.finishDrained
        /\ n.finished = o.finished /\ n.replies = o.replies /\ n.failed = o.failed
    BY <1>1 DEF Formed, Fields
  <2>3. Acknowledged(o, i, e) =
          IF o.draining.index # i THEN FailDraining(o)
          ELSE IF n.deferred = <<>> THEN FinishReconnect(n, e) ELSE StartDraining(n)
    BY <1>4 DEF Acknowledged
  <2> HIDE DEF n
  <2>4. Tells(o, FailDraining(o)) BY <1>1, FailDrainingAlike, AlikeTells
  <2>5. ASSUME o.draining.index = i
        PROVE  Tells(o, FinishReconnect(n, e)) /\ Tells(o, StartDraining(n))
    <3>1. Free(n) /\ Alone(n) BY <1>1, <1>4, <2>1, <2>5, DrainedFrees
    <3>2. i \in o.brokerHead + 1 .. Tip(o) BY <1>1, <1>2, <1>4, <2>5 DEF Fit, Drains
    <3>3. Records(n) /\ Owes(o, n) /\ Heeds(o, n) /\ ~n.withdrawn /\ ~n.quarantined
      BY <1>3, <2>2, <3>2
    <3>4. Caught([n EXCEPT !.resending = 0]) BY <3>1, CaughtStops DEF Free, Caught
    <3>5. Tells(n, FinishReconnect(n, e))
      BY <3>1, <3>3, <3>4, FinishReconnectTells, FreeOrders DEF Alone
    <3>6. Tells(n, StartDraining(n)) BY <2>2, <3>3, StartDrainingAlike, AlikeTells
    <3>7. QED BY <3>3, <3>5, <3>6, RecordsThen
  <2>6. QED BY <2>3, <2>4, <2>5
<1>5. CASE o.draining = NoOp /\ o.resending # 0
  <2> DEFINE n == [o EXCEPT !.brokerHead = i]
             s == [n EXCEPT !.resending = i + 1]
             z == [n EXCEPT !.resending = 0]
  <2>1. n = [o EXCEPT !.brokerHead = i] OBVIOUS
  <2>2. /\ Formed(n) /\ n.receipts = o.receipts /\ n.brokerHead = i /\ n.pending = o.pending
        /\ n.deferred = o.deferred /\ n.queued = o.queued /\ n.quarantined = o.quarantined
        /\ n.withdrawn = o.withdrawn /\ n.done = o.done /\ n.wait = o.wait /\ n.state = o.state
        /\ n.settling = o.settling /\ n.draining = o.draining
        /\ n.finishQuiet = o.finishQuiet /\ n.finishDrained = o.finishDrained
        /\ n.finished = o.finished /\ n.replies = o.replies /\ n.failed = o.failed
    BY <1>1 DEF Formed, Fields
  <2>3. Acknowledged(o, i, e) =
          IF i # o.resending THEN FailReconciliation(o, e)
          ELSE IF i < Tip(o) THEN Send(s, i + 1) ELSE FinishReconnect(n, e)
    BY <1>5 DEF Acknowledged
  <2> HIDE DEF n
  <2>4. o.pending = NoOp BY <1>1, <1>5 DEF Orderly, Under, Quiet
  <2>5. Tells(o, FailReconciliation(o, e)) BY <2>4, FailReconciliationTells
  <2>6. ASSUME i = o.resending
        PROVE  Tells(o, FinishReconnect(n, e)) /\ Tells(o, Send(s, i + 1))
    <3>1. Typed(n) /\ n.draining = NoOp /\ n.offer = 0 /\ Free(z)
      <4> HIDE DEF s
      <4>1. QED BY <1>1, <1>5, <2>1, <2>6, ResentFrees, ZenonT(90)
    <3>2. i \in o.brokerHead + 1 .. Tip(o) BY <1>1, <1>2, <1>5, <2>6 DEF Fit, Resends
    <3>3. Records(n) /\ Owes(o, n) /\ Heeds(o, n) /\ ~n.withdrawn /\ ~n.quarantined
      BY <1>3, <2>2, <3>2
    <3>4. Caught(z) BY <3>1 DEF Free, Caught
    <3>5. Tells(n, FinishReconnect(n, e)) BY <3>1, <3>3, <3>4, FinishReconnectTells
    <3>6. Alike(n, s) BY <2>2, FlagsAlike
    <3> HIDE DEF s, z
    <3>7. Alike(n, Send(s, i + 1)) BY <3>6, AlikeFormed, SendAlike, AlikeTrans
    <3>8. Tells(n, Send(s, i + 1)) BY <3>3, <3>7, AlikeTells
    <3>9. QED BY <3>3, <3>5, <3>8, RecordsThen
  <2> HIDE DEF s, z
  <2>7. QED BY <2>3, <2>5, <2>6
<1>6. CASE o.draining = NoOp /\ o.resending = 0
  <2> DEFINE n == [o EXCEPT !.brokerHead = i]
             enable == TRUE
             c == Complete(n, enable, e)
  <2>1. n = [o EXCEPT !.brokerHead = i] OBVIOUS
  <2>2. /\ Formed(n) /\ n.receipts = o.receipts /\ n.brokerHead = i /\ n.pending = o.pending
        /\ n.deferred = o.deferred /\ n.queued = o.queued /\ n.quarantined = o.quarantined
        /\ n.withdrawn = o.withdrawn /\ n.done = o.done /\ n.wait = o.wait /\ n.state = o.state
        /\ n.settling = o.settling /\ n.draining = o.draining
        /\ n.finishQuiet = o.finishQuiet /\ n.finishDrained = o.finishDrained
        /\ n.finished = o.finished /\ n.replies = o.replies /\ n.failed = o.failed
    BY <1>1 DEF Formed, Fields
  <2>3. Acknowledged(o, i, e) =
          IF o.pending.phase \in {"None", "Activating"} THEN o
          ELSE IF o.pending.phase = "AwaitingDurableAck" /\ o.pending.index = i THEN c
          ELSE FailReceipt(o, e)
    BY <1>6 DEF Acknowledged
  <2> HIDE DEF enable
  <2>4. ASSUME o.pending.phase = "AwaitingDurableAck", o.pending.index = i
        PROVE  Tells(o, c)
    <3>1. o.pending # NoOp BY <2>4 DEF NoOp
    <3>2. i = Tip(o) /\ o.brokerHead + 1 = Tip(o) /\ Quiet(o)
      BY <1>1, <2>4, <3>1 DEF Orderly, Under
    <3>3. i \in o.brokerHead + 1 .. Tip(o) BY <1>2, <3>2
    <3>4. Caught(n) BY <1>1, <1>2, <1>6, <2>1, <2>4, AcknowledgedCaught
    <3> HIDE DEF n
    <3>5. Records(n) /\ Owes(o, n) /\ Heeds(o, n) /\ ~n.withdrawn /\ ~n.quarantined
      BY <1>3, <2>2, <3>3
    <3>6. Tells(n, c) BY <2>2, <2>4, <3>1, <3>4, <3>5, CompleteTells
    <3> HIDE DEF c
    <3>7. QED BY <3>5, <3>6, RecordsThen
  <2>5. Tells(o, FailReceipt(o, e)) BY FailReceiptAble
  <2>6. Tells(o, o) BY <1>1, AlikeSelf, AlikeTells
  <2> HIDE DEF c, n
  <2>7. QED BY <2>3, <2>4, <2>5, <2>6
<1>7. QED BY <1>4, <1>5, <1>6
-----------------------------------------------------------------------------
(* The conformance of the host, and the key *)

LEMMA SuspendConformanceTells ==
  ASSUME Wide, NEW o, NEW contained \in BOOLEAN, NEW e, Able(o)
  PROVE  Tells(o, SuspendConformance(o, contained, e))
<1> DEFINE n == [o EXCEPT !.contained = @ \/ contained]
           shut == Shut(n, e)
           m == [shut EXCEPT !.suspended = TRUE]
           frozen == AttemptPark(m, e)
           failed == FailReceipt(frozen, e)
           owing == OweSuspension(failed, OwesPark(o))
           begun == BeginCausedPark(frozen, <<"conformance">>, e)
           quar == QuarantineMechanic(frozen, o.pending, e)
<1>1. SuspendConformance(o, contained, e) =
        IF o.suspended THEN n
        ELSE IF ParkResult(m, e) # "Parked" \/ "revoke" \in e THEN quar
        ELSE IF o.state # "Running" THEN frozen
        ELSE IF o.pending = NoOp /\ ~Backlog(o) /\ o.conn = "Connected" THEN begun
        ELSE owing
  BY DEF SuspendConformance
<1>2. Alike(o, n) /\ Eases(o, n)
  <2>1. n = [o EXCEPT !.contained = o.contained \/ contained] BY AbleIs DEF Formed, Fields
  <2>2. Alike(o, n) BY <2>1, AbleIs, FlagsAlike
  <2>3. Eases(o, n) BY AbleIs DEF Eases, Still, Typed, Fields, Tip, Gap
  <2>4. QED BY <2>2, <2>3
<1> HIDE DEF n
<1>3. Alike(n, shut) /\ Eases(n, shut) BY <1>2, AlikeFormed, ShutAlike, ShutEases DEF Eases
<1> HIDE DEF shut
<1>4. Alike(shut, m) /\ Eases(shut, m) /\ m.suspended
  <2>1. Alike(shut, m) BY <1>3, AlikeFormed, FlagsAlike
  <2>2. Eases(shut, m) /\ m.suspended
    BY <1>3 DEF Eases, Still, Typed, Fields, Tip, Gap
  <2>3. QED BY <2>1, <2>2
<1> HIDE DEF m
<1>5. Alike(o, m) /\ Eases(o, m) BY <1>2, <1>3, <1>4, AlikeTrans, EasesTrans
<1>6. Typed(m) /\ Records(m) /\ m.state = o.state /\ m.pending = o.pending
      /\ m.queued = o.queued /\ ~m.quarantined /\ ~m.withdrawn /\ m.deferred = o.deferred
      /\ Gap(m) = Gap(o)
  BY <1>5, AbleIs, AlikeRecords DEF Eases, Alike, Entry, Gap, Tip
<1>7. /\ Entry(m, frozen)
      /\ frozen.state = IF ParkResult(m, e) = "Parked" THEN "Parked" ELSE m.state
      /\ frozen.settling = m.settling /\ frozen.finished = m.finished
      /\ ParkResult(m, e) = "Parked" => m.state # "Terminal"
  BY <1>6, AttemptParkEntry
<1>8. ParkResult(m, e) = "Parked" => ParkResult(frozen, e) = "Parked"
  <2>1. ASSUME ParkResult(m, e) = "Parked" PROVE frozen.tree = "frozen"
    BY <1>6, <2>1 DEF AttemptPark, Typed, Fields
  <2> HIDE DEF frozen
  <2>2. QED BY <2>1 DEF ParkResult
<1>9. Typed(frozen) BY <1>6, AttemptParkEases DEF Eases
<1> HIDE DEF frozen
<1>10. Entry(o, frozen) BY <1>5, <1>7, EntryTrans DEF Alike
<1>11. Owes(o, frozen) /\ Heeds(o, frozen) BY <1>10, EntryHeeds
<1>12. ASSUME o.state = "Running"
       PROVE  /\ (Line(frozen) <=> Line(o)) /\ Latest(frozen) = Latest(o)
              /\ Strict => /\ Line(o) /\ Apt(o) /\ Sole(o)
                           /\ o.pending.phase # "Signing" => Latest(o) = "Running"
                           /\ o.pending.phase = "Signing" => o.pending.pay.to = "Running"
  <2>1. (Line(frozen) <=> Line(o)) /\ Latest(frozen) = Latest(o) BY <1>10, SameLine DEF Entry
  <2>2. o.queued = "none" /\ o.state # "Terminal" BY <1>12, AbleIs
  <2>3. QED BY <1>12, <2>1, <2>2, AbleIs, AliveLed
<1>13. Tells(o, n) /\ Tells(o, quar)
  <2>1. Tells(o, n) BY <1>2, AbleIs, AlikeTells
  <2>2. Formed(frozen) BY <1>9 DEF Typed, Formed
  <2>3. QED BY <2>1, <2>2, QuarantineMechanicTells
<1>14. ASSUME ParkResult(m, e) = "Parked", o.state # "Running" PROVE Tells(o, frozen)
  <2>1. frozen.state = o.state BY <1>6, <1>7, <1>14 DEF Typed
  <2>2. Alike(o, frozen) BY <1>10, <2>1 DEF Alike
  <2>3. QED BY <2>2, AbleIs, AlikeTells
<1>15. ASSUME ParkResult(m, e) = "Parked", o.state = "Running"
       PROVE  Tells(o, begun) \/ o.pending # NoOp
  <2>1. /\ Sized(frozen) /\ Filed(frozen) /\ frozen.pending = o.pending
        /\ frozen.queued = "none" /\ frozen.state = "Parked" /\ ~frozen.quarantined
        /\ Gap(frozen) = Gap(o)
    BY <1>7, <1>9, <1>10, <1>15, AbleIs, TypedSized DEF Entry, Gap, Tip
  <2>2. ~frozen.settling BY <1>6, <1>7, <1>15 DEF Records, Settles
  <2>3. Gap(frozen) + 2 <= MaxPending BY <1>15, <2>1, AbleIs DEF Records, Room, Spare
  <2>4. ASSUME o.pending = NoOp PROVE Tells(frozen, begun)
    <3>1. Led(frozen, {"Running"}) BY <1>15, <1>12, <2>4 DEF Led, NoOp
    <3>2. QED BY <2>1, <2>2, <2>3, <2>4, <3>1, BeginCausedParkTells
  <2>5. QED BY <1>11, <2>4, RecordsThen
<1>16. ASSUME ParkResult(m, e) = "Parked", o.state = "Running" PROVE Tells(o, owing)
  <2>1. /\ Sized(frozen) /\ Filed(frozen) /\ frozen.pending = o.pending
        /\ frozen.queued = "none" /\ frozen.state = "Parked" /\ ~frozen.quarantined
        /\ Gap(frozen) = Gap(o) /\ ~frozen.withdrawn
    BY <1>7, <1>9, <1>10, <1>16, AbleIs, TypedSized DEF Entry, Gap, Tip
  <2>2. ~frozen.settling BY <1>6, <1>7, <1>16 DEF Records, Settles
  <2>3. Settles(frozen) BY <2>2 DEF Settles
  <2>4. Gap(o) + 2 <= MaxPending /\ Gap(o) \in Int
    BY <1>16, AbleIs DEF Records, Room, Spare
  <2>5. ASSUME NEW x, Sized(x), Filed(x), x.state = "Parked", x.pending = NoOp,
               x.queued = "none", Gap(x) + 2 <= MaxPending, Led(x, {"Running"}),
               Owes(frozen, x), Heeds(frozen, x),
               OweSuspension(failed, OwesPark(o)) = Defer(x, Causal(<<"conformance">>))
        PROVE  Tells(o, owing)
    <3> DEFINE d == Defer(x, Causal(<<"conformance">>))
    <3>1. Records(d) /\ Owes(x, d) /\ Heeds(x, d) BY <2>5, DeferParkRecords
    <3>2. owing = d BY <2>5
    <3> HIDE DEF d, owing
    <3>3. Owes(o, d) /\ Heeds(o, d) BY <1>11, <2>5, <3>1, OwesTrans, HeedsTrans
    <3>4. QED BY <3>1, <3>2, <3>3 DEF Tells
  <2>6. CASE o.pending = NoOp
    <3>1. failed = frozen BY <2>1, <2>6 DEF FailReceipt
    <3>2. OwesPark(o) BY <2>6 DEF OwesPark, Doing
    <3>3. OweSuspension(failed, OwesPark(o)) = Defer(frozen, Causal(<<"conformance">>))
      BY <3>1, <3>2 DEF OweSuspension
    <3>4. Owes(frozen, frozen) /\ Heeds(frozen, frozen)
      BY <1>9, AlikeSelf, EntryHeeds DEF Typed, Formed, Alike
    <3>5. Led(frozen, {"Running"}) BY <1>16, <1>12, <2>6 DEF Led, NoOp
    <3>6. QED BY <2>1, <2>4, <2>5, <2>6, <3>3, <3>4, <3>5
  <2>7. CASE o.pending # NoOp /\ Doing(o, "Resume")
    <3>1. o.pending.phase # "Applying" BY <1>16, <2>7, AbleIs DEF Records, Placed
    <3>2. Doing(frozen, "Resume") /\ ~Preparing(frozen)
      BY <2>1, <2>7, <3>1 DEF Doing, Preparing
    <3>3. failed = FailResume(frozen, e) BY <2>1, <2>7, <3>2 DEF FailReceipt
    <3>4. Gap(o) + Own(o) <= 1 /\ Own(o) \in Int BY <2>7, AbleIs DEF Busy, Own
    <3>5. Gap(frozen) + Own(frozen) + 2 <= MaxPending
      BY <2>1, <2>4, <3>4, OwnerAssumption DEF Wide, Own
    <3>6. owing = failed BY <2>7 DEF OweSuspension, OwesPark
    <3> HIDE DEF failed, owing
    <3>7. Tells(frozen, failed)
      <4>1. Legal(frozen) BY <1>10, AbleIs, SameLegal DEF Entry, Records
      <4>2. Lawful(frozen) BY <4>1 DEF Legal, Lawful
      <4>3. ASSUME frozen.pending.index # 0 PROVE Led(frozen, {"Running"})
        <5>1. o.pending.phase # "Signing" BY <2>1, <2>7, <4>3, AbleIs DEF Filed, Deed
        <5>2. QED BY <1>16, <1>12, <5>1 DEF Led
      <4>4. QED BY <1>8, <1>9, <1>16, <2>1, <2>3, <3>2, <3>3, <3>5, <4>2, <4>3, FailResumeTells
    <3>8. QED BY <1>11, <3>6, <3>7, RecordsThen
  <2>8. CASE o.pending # NoOp /\ ~Doing(o, "Resume")
    <3> DEFINE f == Revoked(frozen, e)
    <3>1. failed = TakeQueued(f)
      BY <2>1, <2>8 DEF FailReceipt, Preparing, Doing, Revoked
    <3>2. Gap(o) + Own(o) <= 1 /\ Own(o) \in Int BY <2>8, AbleIs DEF Busy, Own
    <3>3. Own(frozen) = Own(o) BY <2>1 DEF Own
    <3>4. Gap(frozen) + Own(frozen) <= MaxPending
      BY <2>1, <2>4, <3>2, <3>3, OwnerAssumption DEF Wide
    <3>5. TakenBack(frozen, f) /\ f.state = "Parked"
      BY <2>1, <2>3, <2>8, <3>4, RevokedTakesBack
    <3> HIDE DEF f
    <3>6. /\ Sized(f) /\ Filed(f) /\ f.pending = NoOp /\ f.queued = "none"
          /\ Gap(f) = Gap(o) + Own(o) /\ Owes(frozen, f) /\ Heeds(frozen, f)
      BY <2>1, <3>3, <3>5 DEF TakenBack
    <3>7. Gap(f) + 2 <= MaxPending BY <2>4, <3>2, <3>6, OwnerAssumption DEF Wide
    <3>8. failed = f BY <3>1, <3>6 DEF TakeQueued
    <3>9. OweSuspension(failed, OwesPark(o)) = Defer(f, Causal(<<"conformance">>))
      BY <2>8, <3>8 DEF OweSuspension, OwesPark
    <3>10. Led(f, {"Running"})
      <4>1. Deed(o.pending) /\ o.pending.phase # "Applying"
        BY <2>8, AbleIs DEF Records, Filed, Placed, Doing
      <4>2. o.pending.index = 0 <=> o.pending.phase = "Signing" BY <4>1 DEF Deed
      <4>3. Apt(o) => Apt(frozen) BY <1>16, <1>12, <2>1 DEF Apt
      <4>4. Latest(f) = (IF o.pending.index = 0 THEN o.pending.pay.to ELSE Latest(o))
            /\ (Line(frozen) /\ Apt(frozen) => Line(f))
        BY <1>16, <1>12, <2>1, <3>5 DEF TakenBack
      <4>5. QED BY <1>16, <1>12, <4>2, <4>3, <4>4 DEF Led
    <3>11. QED BY <2>5, <3>5, <3>6, <3>7, <3>9, <3>10
  <2>9. QED BY <2>6, <2>7, <2>8
<1> HIDE DEF owing, begun, quar
<1>17. QED BY <1>1, <1>13, <1>14, <1>15, <1>16

LEMMA WithdrawKeyAuthorityTells ==
  ASSUME NEW o, NEW e, Able(o) PROVE Tells(o, WithdrawKeyAuthority(o, e))
<1> DEFINE a == Revoke(o, e)
           b == [a EXCEPT !.withdrawn = TRUE, !.blocked = TRUE, !.channel = "Revoked"]
           n == AttemptPark(b, e)
           m == [n EXCEPT !.conn = "Disconnected", !.trying = FALSE, !.wire = <<>>, !.acks = <<>>]
<1>1. WithdrawKeyAuthority(o, e) =
        IF "revoke" \in e \/ ParkResult(o, e) # "Parked"
        THEN QuarantineMechanic(m, NoOp, e) ELSE m
  BY DEF WithdrawKeyAuthority
<1>2. /\ Formed(b)
      /\ b.receipts = o.receipts /\ b.brokerHead = o.brokerHead /\ b.pending = o.pending
      /\ b.deferred = o.deferred /\ b.queued = o.queued /\ b.quarantined = o.quarantined
      /\ b.withdrawn = TRUE /\ b.done = o.done /\ b.wait = o.wait /\ b.state = o.state
      /\ b.settling = o.settling /\ b.draining = o.draining
      /\ b.finishQuiet = o.finishQuiet /\ b.finishDrained = o.finishDrained
      /\ b.finished = o.finished /\ b.replies = o.replies /\ b.failed = o.failed
      /\ b.tree = o.tree
  BY AbleIs DEF Formed, Fields, Revoke
<1> HIDE DEF b
<1>3. /\ Formed(m)
      /\ m.receipts = b.receipts /\ m.brokerHead = b.brokerHead /\ m.pending = b.pending
      /\ m.deferred = b.deferred /\ m.queued = b.queued /\ m.quarantined = b.quarantined
      /\ m.withdrawn = b.withdrawn /\ m.done = b.done /\ m.wait = b.wait
      /\ m.settling = b.settling /\ m.draining = b.draining
      /\ m.finishQuiet = b.finishQuiet /\ m.finishDrained = b.finishDrained
      /\ m.finished = b.finished /\ m.replies = b.replies /\ m.failed = b.failed
      /\ m.state = IF ParkResult(b, e) = "Parked" THEN "Parked" ELSE b.state
  <2>1. /\ Formed(n)
        /\ n.receipts = b.receipts /\ n.brokerHead = b.brokerHead /\ n.pending = b.pending
        /\ n.deferred = b.deferred /\ n.queued = b.queued /\ n.quarantined = b.quarantined
        /\ n.withdrawn = b.withdrawn /\ n.done = b.done /\ n.wait = b.wait
        /\ n.settling = b.settling /\ n.draining = b.draining
        /\ n.finishQuiet = b.finishQuiet /\ n.finishDrained = b.finishDrained
        /\ n.finished = b.finished /\ n.replies = b.replies /\ n.failed = b.failed
        /\ n.state = IF ParkResult(b, e) = "Parked" THEN "Parked" ELSE b.state
    <3>0. ParkResult(b, e) \in {"Ambiguous", "Terminal", "Running", "Parked"} BY ParkResults
    <3>1. ParkResult(b, e) = "Running" => b.state = "Running"
      BY <1>2, AbleIs DEF ParkResult, Typed
    <3>2. QED BY <1>2, <3>0, <3>1 DEF Formed, Fields, AttemptPark
  <2> HIDE DEF n
  <2>2. QED BY <2>1 DEF Formed, Fields
<1> HIDE DEF m
<1>4. ParkResult(b, e) = ParkResult(o, e) BY <1>2 DEF ParkResult
<1>5. Tells(o, QuarantineMechanic(m, NoOp, e)) BY <1>3, QuarantineMechanicTells
<1>6. ASSUME ParkResult(o, e) = "Parked" PROVE Tells(o, m)
  <2>1. o.state \in {"Running", "Parked"} /\ o.queued = "none"
    BY <1>6, AbleIs, AttemptParkEntry DEF Typed
  <2>2. m.state = "Parked" BY <1>3, <1>4, <1>6
  <2>3. ~Closed(o) /\ ~OkIn(o) /\ (o.pending # NoOp => o.pending.finish # "ok")
    BY <2>1, AbleIs DEF Closed, Filed, Oks
  <2>4. Oks(m)
    BY <1>2, <1>3, <2>1, <2>3, AbleIs DEF Filed, Oks, OkIn, Closed, Backlog, Tip
  <2>5. Filed(m) BY <1>2, <1>3, <2>4, AbleIs DEF Filed, Forms
  <2>6. LastTo(m) = LastTo(o) /\ Gap(m) = Gap(o) BY <1>2, <1>3 DEF LastTo, Gap, Tip
  <2>7. Reaches(m, LastTo(m)) BY <1>2, <1>3, <2>1, <2>2, <2>6, AbleIs DEF Records, Reaches
  <2>8. Room(m)
    <3>1. Spare(m) = 1 /\ Spare(o) \in {1, 2} BY <2>1, <2>2 DEF Spare
    <3>2. QED BY <2>6, <3>1, AbleIs, OwnerAssumption DEF Records, Room
  <2>9. Placed(m) BY <1>2, <1>3, <2>2, AbleIs DEF Records, Placed, Doing
  <2>10. Settles(m) BY <1>2, <1>3, <2>2, AbleIs DEF Settles
  <2>11. Owes(o, m) BY <1>2, <1>3 DEF Owes, Due, Tip
  <2>12. Heeds(o, m) BY <1>2, <1>3, <2>3 DEF Heeds
  <2>13. Legal(m) BY <1>2, <1>3, AbleIs, SameLegal DEF Records
  <2>14. QED BY <2>5, <2>7, <2>8, <2>9, <2>10, <2>11, <2>12, <2>13 DEF Tells, Records
<1>7. QED BY <1>1, <1>5, <1>6
-----------------------------------------------------------------------------
(* The controller is lost *)

\* No handler here starts the settlement of a lost controller.
Calm(o, n) == Formed(n) /\ n.settling \in {o.settling, FALSE}

LEMMA CalmSelf == ASSUME NEW o, Formed(o) PROVE Calm(o, o)
  BY DEF Calm

LEMMA CalmTrans == ASSUME NEW a, NEW b, NEW c, Calm(a, b), Calm(b, c) PROVE Calm(a, c)
  BY DEF Calm

LEMMA CalmSteps ==
  ASSUME NEW o, Formed(o), NEW e, NEW f, NEW h, NEW by, NEW pay
  PROVE  /\ Calm(o, Revoke(o, e)) /\ Calm(o, Narrowed(o)) /\ Calm(o, RevokeEnabled(o, e))
         /\ Calm(o, RequestFinish(o, f)) /\ Calm(o, Reply(o, f, h)) /\ Calm(o, Defer(o, pay))
         /\ Calm(o, Quiesce(o)) /\ Calm(o, Terminate(o, e)) /\ Calm(o, ForgetController(o))
<1>1. Calm(o, Revoke(o, e)) /\ Calm(o, Narrowed(o))
  BY DEF Calm, Formed, Fields, Revoke, Narrowed
<1>2. Calm(o, RevokeEnabled(o, e)) BY DEF Calm, Formed, Fields, Revoke, RevokeEnabled
<1>3. Calm(o, RequestFinish(o, f)) BY DEF Calm, Formed, Fields, RequestFinish
<1>4. Calm(o, Reply(o, f, h)) /\ Calm(o, Defer(o, pay))
  BY DEF Calm, Formed, Fields, Reply, Defer
<1>5. Calm(o, Quiesce(o)) /\ Calm(o, Terminate(o, e)) /\ Calm(o, ForgetController(o))
  BY DEF Calm, Formed, Fields, Quiesce, Terminate, ForgetController
<1>6. QED BY <1>1, <1>2, <1>3, <1>4, <1>5

LEMMA CalmDrop ==
  ASSUME NEW o, Formed(o)
  PROVE  Calm(o, [o EXCEPT !.pending = NoOp, !.blocked = TRUE])
  BY DEF Calm, Formed, Fields

LEMMA AbortedCalm == ASSUME NEW o, Formed(o), NEW e PROVE Calm(o, Aborted(o, e))
<1> DEFINE n == RevokeEnabled(o, e)
<1>1. Calm(o, n) BY CalmSteps
<1>2. Aborted(o, e) = [n EXCEPT !.pending = NoOp, !.blocked = TRUE] BY DEF Aborted
<1> HIDE DEF n
<1>3. QED BY <1>1, <1>2, CalmDrop, CalmTrans DEF Calm

LEMMA FailedCalm == ASSUME NEW o, Formed(o), NEW by, NEW f PROVE Calm(o, Failed(o, by, f))
<1> DEFINE n == [o EXCEPT !.failed = @ \union {[by |-> by, finish |-> f]}]
<1>1. Calm(o, n) BY DEF Calm, Formed, Fields
<1>2. Failed(o, by, f) = Reply(n, f, 0) BY DEF Failed
<1> HIDE DEF n
<1>3. Calm(n, Reply(n, f, 0)) BY <1>1, CalmSteps DEF Calm
<1>4. QED BY <1>1, <1>2, <1>3, CalmTrans

LEMMA ToldCalm == ASSUME NEW o, Formed(o), NEW op PROVE Calm(o, Told(o, op))
<1>1. Calm(o, RequestFinish(o, op.finish)) BY CalmSteps
<1>2. Calm(o, Failed(o, op.pay.by, op.finish)) BY FailedCalm
<1>3. QED BY <1>1, <1>2 DEF Told

LEMMA OwingCalm == ASSUME NEW o, Formed(o), NEW op PROVE Calm(o, Owing(o, op))
<1>1. Calm(o, Defer(o, op.pay)) BY CalmSteps
<1>2. QED BY <1>1, CalmSelf DEF Owing

LEMMA AwaitingCalm ==
  ASSUME NEW o, Formed(o), NEW op, NEW owed PROVE Calm(o, Awaiting(o, op, owed))
  BY DEF Calm, Formed, Fields, Awaiting

LEMMA AttemptParkCalm == ASSUME NEW o, Formed(o), NEW e PROVE Calm(o, AttemptPark(o, e))
<1>1. QED BY ParkResults DEF Calm, Formed, Fields, AttemptPark

LEMMA BeginTerminalReceiptCalm ==
  ASSUME NEW o, Formed(o), NEW f PROVE Calm(o, BeginTerminalReceipt(o, f))
<1> DEFINE pay == Payload("Disposal", "Terminal", <<"event">>)
           a == [o EXCEPT !.blocked = TRUE]
           d == Defer(a, pay)
           s == [o EXCEPT !.pending = Operation(o, pay, "Signing", FALSE, f)]
<1>1. BeginTerminalReceipt(o, f) \in {RequestFinish(d, f), s} BY DEF BeginTerminalReceipt
<1>2. Calm(o, a) /\ Calm(o, s) BY DEF Calm, Formed, Fields
<1> HIDE DEF a, s
<1>3. Calm(a, d) BY <1>2, CalmSteps DEF Calm
<1> HIDE DEF d
<1>4. Calm(d, RequestFinish(d, f)) BY <1>3, CalmSteps DEF Calm
<1>5. QED BY <1>1, <1>2, <1>3, <1>4, CalmTrans

LEMMA TakeQueuedCalm == ASSUME NEW o, Formed(o) PROVE Calm(o, TakeQueued(o))
<1> DEFINE a == [o EXCEPT !.queued = "none"]
<1>1. Calm(o, a) BY DEF Calm, Formed, Fields
<1>2. TakeQueued(o) \in {o, BeginTerminalReceipt(a, o.queued)} BY DEF TakeQueued
<1> HIDE DEF a
<1>3. Calm(a, BeginTerminalReceipt(a, o.queued))
  BY <1>1, BeginTerminalReceiptCalm DEF Calm
<1>4. QED BY <1>1, <1>2, <1>3, CalmTrans, CalmSelf

LEMMA BeginTerminalEventCalm ==
  ASSUME NEW o, Formed(o), NEW f, NEW e PROVE Calm(o, BeginTerminalEvent(o, f, e))
<1> DEFINE c == ForgetController(o)
           q == Quiesce(c)
           n == Terminate(q, e)
           m == [n EXCEPT !.unproven = FALSE, !.state = "Terminal", !.channel = "Closed"]
           u == [n EXCEPT !.unproven = TRUE, !.blocked = TRUE, !.channel = "Revoked"]
           w == [m EXCEPT !.queued = f]
<1>1. BeginTerminalEvent(o, f, e) \in
        {o, RequestFinish(u, "err"), w, BeginTerminalReceipt(m, f)}
  BY DEF BeginTerminalEvent
<1>2. Calm(o, c) BY CalmSteps
<1> HIDE DEF c
<1>3. Calm(c, q) BY <1>2, CalmSteps DEF Calm
<1> HIDE DEF q
<1>4. Calm(q, n) BY <1>3, CalmSteps DEF Calm
<1>5. Calm(o, n) BY <1>2, <1>3, <1>4, CalmTrans
<1> HIDE DEF n
<1>6. Calm(n, m) /\ Calm(n, u) BY <1>5 DEF Calm, Formed, Fields
<1> HIDE DEF m, u
<1>7. Calm(m, w) BY <1>6 DEF Calm, Formed, Fields
<1> HIDE DEF w
<1>8. Calm(u, RequestFinish(u, "err")) BY <1>6, CalmSteps DEF Calm
<1>9. Calm(m, BeginTerminalReceipt(m, f)) BY <1>6, BeginTerminalReceiptCalm DEF Calm
<1>10. QED BY <1>1, <1>5, <1>6, <1>7, <1>8, <1>9, CalmTrans, CalmSelf

LEMMA FailResumeCalm ==
  ASSUME NEW o, Formed(o), NEW e
  PROVE  FailResume(o, e).quarantined \/ Calm(o, FailResume(o, e))
<1> DEFINE op == o.pending
           a == Aborted(o, e)
           r == Revoke(a, e)
           n == Narrowed(r)
           p == AttemptPark(n, e)
           w == Owing(p, op)
           cause == Causal(IF op.phase = "Activating" THEN <<"inactive", op.pay.by[2]>>
                           ELSE <<"unacknowledged", op.pay.by[2]>>)
           d == Defer(w, cause)
           td == Told(d, op)
           tw == Told(w, op)
           x == [tw EXCEPT !.queued = "none"]
<1>1. FailResume(o, e) \in
        {TakeQueued(td), TakeQueued(tw), BeginTerminalEvent(x, "ok", e),
         QuarantineMechanic(w, op, e)}
  <2>1. ParkResult(o, e) \in {"Ambiguous", "Terminal", "Running", "Parked"} BY ParkResults
  <2>2. QED BY <2>1 DEF FailResume, Reparked
<1>2. Calm(o, a) BY AbortedCalm
<1> HIDE DEF a
<1>3. Calm(a, r) BY <1>2, CalmSteps DEF Calm
<1> HIDE DEF r
<1>4. Calm(r, n) BY <1>3, CalmSteps DEF Calm
<1> HIDE DEF n
<1>5. Calm(n, p) BY <1>4, AttemptParkCalm DEF Calm
<1> HIDE DEF p, op, cause
<1>6. Calm(p, w) BY <1>5, OwingCalm DEF Calm
<1> HIDE DEF w
<1>7. Calm(o, w) BY <1>2, <1>3, <1>4, <1>5, <1>6, CalmTrans
<1>8. Calm(w, d) /\ Calm(w, tw) BY <1>7, CalmSteps, ToldCalm DEF Calm
<1> HIDE DEF d
<1>9. Calm(d, td) BY <1>8, ToldCalm DEF Calm
<1> HIDE DEF td, tw
<1>10. Calm(td, TakeQueued(td)) /\ Calm(tw, TakeQueued(tw)) BY <1>8, <1>9, TakeQueuedCalm DEF Calm
<1>11. Calm(tw, x) BY <1>8 DEF Calm, Formed, Fields
<1> HIDE DEF x
<1>12. Calm(x, BeginTerminalEvent(x, "ok", e)) BY <1>11, BeginTerminalEventCalm DEF Calm
<1>13. QuarantineMechanic(w, op, e).quarantined BY <1>7, QuarantineMechanicTells DEF Calm
<1>14. QED BY <1>1, <1>7, <1>8, <1>9, <1>10, <1>11, <1>12, <1>13, CalmTrans

LEMMA FailPreparationCalm ==
  ASSUME NEW o, Formed(o), NEW e
  PROVE  FailPreparation(o, e).quarantined \/ Calm(o, FailPreparation(o, e))
<1> DEFINE n == RevokeEnabled(o, e)
           a == [n EXCEPT !.channel = "Revoked"]
           b == Aborted(a, e)
           m == Failed(b, a.pending.pay.by, "none")
           c == [m EXCEPT !.blocked = m.lost \/ m.unproven \/ Backlog(m)]
<1>1. FailPreparation(o, e) \in {QuarantineMechanic(n, o.pending, e), c}
  BY DEF FailPreparation, FailMechanic, Aborted
<1>2. Calm(o, n) BY CalmSteps
<1> HIDE DEF n
<1>3. Calm(n, a) BY <1>2 DEF Calm, Formed, Fields
<1> HIDE DEF a
<1>4. Calm(a, b) BY <1>3, AbortedCalm DEF Calm
<1> HIDE DEF b
<1>5. Calm(b, m) BY <1>4, FailedCalm DEF Calm
<1> HIDE DEF m
<1>6. Calm(m, c) BY <1>5 DEF Calm, Formed, Fields
<1>7. QuarantineMechanic(n, o.pending, e).quarantined
  BY <1>2, QuarantineMechanicTells DEF Calm
<1>8. QED BY <1>1, <1>2, <1>3, <1>4, <1>5, <1>6, <1>7, CalmTrans

\* Failing an operation does not start the settlement of a lost controller.
LEMMA FailReceiptCalm ==
  ASSUME NEW o, Formed(o), NEW e
  PROVE  FailReceipt(o, e).quarantined \/ Calm(o, FailReceipt(o, e))
<1> DEFINE op == o.pending
           a == Aborted(o, e)
           w == Owing(a, op)
           v == Awaiting(w, op, o.deferred)
           t == Told(v, op)
<1>1. FailReceipt(o, e) \in
        {o, FailPreparation(o, e), FailResume(o, e), TakeQueued(t)}
  BY DEF FailReceipt
<1>2. Calm(o, a) BY AbortedCalm
<1> HIDE DEF a, op
<1>3. Calm(a, w) BY <1>2, OwingCalm DEF Calm
<1> HIDE DEF w
<1>4. Calm(w, v) BY <1>3, AwaitingCalm DEF Calm
<1> HIDE DEF v
<1>5. Calm(v, t) BY <1>4, ToldCalm DEF Calm
<1> HIDE DEF t
<1>6. Calm(t, TakeQueued(t)) BY <1>5, TakeQueuedCalm DEF Calm
<1>7. Calm(o, TakeQueued(t)) BY <1>2, <1>3, <1>4, <1>5, <1>6, CalmTrans
<1>8. QED BY <1>1, <1>7, CalmSelf, FailPreparationCalm, FailResumeCalm

LEMMA ShutCalm == ASSUME NEW o, Formed(o), NEW e PROVE Calm(o, Shut(o, e))
<1> DEFINE n == Revoke(o, e)
<1>1. Calm(o, n) BY CalmSteps
<1> HIDE DEF n
<1>2. Calm(n, [n EXCEPT !.channel = "Revoked"]) BY <1>1 DEF Calm, Formed, Fields
<1>3. QED BY <1>1, <1>2, CalmTrans DEF Shut, n

LEMMA FrozenLaxRecords ==
  ASSUME NEW g, NEW m, Able(g), g.pending = NoOp, g.state = "Running", m.state = "Parked",
         Entry(g, m), Lax
  PROVE  Records(m) /\ Owes(g, m) /\ Heeds(g, m)
<1>1. LastTo(m) = LastTo(g) /\ Gap(m) = Gap(g) BY DEF Entry, LastTo, Gap, Tip
<1>2. Filed(m) /\ Settles(m) BY AbleIs DEF Entry
<1>3. Reaches(m, LastTo(m)) BY <1>1, AbleIs DEF Records, Reaches
<1>4. Room(m)
  <2>1. Spare(m) = 1 /\ Spare(g) = 2 BY DEF Spare
  <2>2. QED BY <1>1, <2>1, AbleIs, OwnerAssumption DEF Records, Room
<1>5. Placed(m) BY DEF Entry, Placed, Doing
<1>6. Legal(m) BY DEF Legal, Strict
<1>7. QED BY <1>2, <1>3, <1>4, <1>5, <1>6, EntryHeeds DEF Records

\* Only a Resume that fails freezes the tree again.
LEMMA FailReceiptStays ==
  ASSUME NEW o, Formed(o), NEW e, o.queued = "none", ~Doing(o, "Resume")
  PROVE  FailReceipt(o, e).state = o.state
<1> DEFINE op == o.pending
           a == Aborted(o, e)
           w == Owing(a, op)
           v == Awaiting(w, op, o.deferred)
           t == Told(v, op)
<1>1. FailReceipt(o, e) \in {o, TakeQueued(t)}
  BY DEF FailReceipt, Preparing, PreparingAnyState
<1>2. Formed(a) /\ a.state = o.state /\ a.queued = o.queued
  BY DEF Aborted, RevokeEnabled, Revoke, Formed, Fields
<1> HIDE DEF a, op
<1>3. Formed(w) /\ w.state = a.state /\ w.queued = a.queued
  BY <1>2 DEF Owing, Defer, Formed, Fields
<1> HIDE DEF w
<1>4. Formed(v) /\ v.state = w.state /\ v.queued = w.queued
  BY <1>3 DEF Awaiting, Formed, Fields
<1> HIDE DEF v
<1>5. t.state = v.state /\ t.queued = v.queued
  BY <1>4 DEF Told, Failed, Reply, RequestFinish, Formed, Fields
<1> HIDE DEF t
<1>6. TakeQueued(t) = t BY <1>2, <1>3, <1>4, <1>5 DEF TakeQueued
<1>7. QED BY <1>1, <1>2, <1>3, <1>4, <1>5, <1>6

LEMMA ControllerGoneTells ==
  ASSUME Wide, "controller" \in Events, NEW g, Able(g), Settled(g), NEW e \in Luck, NEW was,
         was = "Parked" => g.state # "Running",
         was # "Parked" /\ g.state = "Parked" =>
             ~g.settling /\ Gap(g) <= 2 /\ "Resume" \in Actions
  PROVE  Tells(g, ControllerGone(g, was, e))
<1> DEFINE result == IF g.state = "Parked" THEN "Parked" ELSE ParkResult(g, e)
           m == IF g.state = "Parked" THEN g ELSE AttemptPark(g, e)
           p == [m EXCEPT !.lostPark = TRUE]
           terminal == BeginTerminalEvent(m, "ok", e)
           quar == QuarantineMechanic(m, NoOp, e)
           begun == BeginCausedPark(p, <<"controller">>, e)
<1>1. ControllerGone(g, was, e) =
        IF result = "Terminal" THEN terminal
        ELSE IF result = "Ambiguous" THEN quar
        ELSE IF "revoke" \in e \/ m.state # "Parked" THEN m
        ELSE IF was = "Parked" THEN MaybeSettle(m) ELSE begun
  BY DEF ControllerGone
<1>2. /\ Entry(g, m) /\ m.settling = g.settling
      /\ m.state = IF result = "Parked" THEN "Parked" ELSE g.state
  <2>1. Typed(g) BY AbleIs
  <2>2. CASE g.state = "Parked" BY <2>2, AbleIs, AlikeSelf DEF Alike
  <2>3. CASE g.state # "Parked" BY <2>1, <2>3, AttemptParkEntry
  <2>4. QED BY <2>2, <2>3
<1>3. /\ Sized(m) /\ Formed(m) /\ m.quarantined = g.quarantined /\ m.queued = g.queued
      /\ m.pending = g.pending /\ Gap(m) = Gap(g) /\ Filed(m) /\ Settles(m)
  <2>1. Sized(m) BY <1>2, AbleIs, EntrySized
  <2>2. QED BY <1>2, <2>1, AbleIs DEF Entry, Gap, Tip, Sized
<1> HIDE DEF m, result
<1>4. ASSUME m.state = g.state PROVE Alike(g, m) /\ Records(m) /\ Tells(g, m)
  <2>1. Alike(g, m) BY <1>2, <1>4 DEF Alike
  <2>2. QED BY <2>1, AbleIs, AlikeRecords, AlikeTells
<1>5. ASSUME result = "Terminal" PROVE Tells(g, terminal)
  <2>1. m.state = g.state BY <1>2, <1>5
  <2>2. m.queued # "none" => m.state = "Terminal" BY <1>3, <2>1, AbleIs
  <2>3. Tells(m, terminal) BY <1>3, <1>4, <2>1, <2>2, AbleIs, BeginTerminalEventTells
  <2> HIDE DEF terminal
  <2>4. QED BY <1>4, <2>1, <2>3, AbleIs, AlikeThen
<1>6. Tells(g, quar) BY <1>3, QuarantineMechanicTells
<1>7. ASSUME "revoke" \in e \/ m.state # "Parked" PROVE Tells(g, m)
  <2>1. CASE m.state = g.state BY <1>4, <2>1
  <2>2. CASE m.state # g.state
    <3>1. m.state = "Parked" /\ g.state = "Running" BY <1>2, <2>2 DEF Entry
    <3>2. Lax BY <1>7, <3>1, LuckIsLax
    <3>3. g.pending = NoOp BY <3>1 DEF Settled
    <3>4. QED BY <1>2, <3>1, <3>2, <3>3, FrozenLaxRecords DEF Tells
  <2>3. QED BY <2>1, <2>2
<1>8. ASSUME m.state = "Parked", was = "Parked" PROVE Tells(g, MaybeSettle(m))
  <2>1. m.state = g.state BY <1>2, <1>8 DEF Entry
  <2>2. Alike(m, MaybeSettle(m)) BY <1>3, MaybeSettleAlike
  <2>3. QED BY <1>4, <2>1, <2>2, ThenAlike
<1>9. ASSUME m.state = "Parked", was # "Parked" PROVE Tells(g, begun)
  <2>1. g.state \in {"Running", "Parked"} BY <1>2, <1>9 DEF Entry
  <2>2. m.pending = NoOp /\ m.queued = "none" BY <1>3, <2>1, AbleIs DEF Settled
  <2>3. ~m.settling BY <1>2, <2>1, <1>9, AbleIs DEF Settles
  <2>4. Gap(m) + 2 <= MaxPending
    <3>1. CASE g.state = "Running" BY <1>3, <3>1, AbleIs DEF Records, Room, Spare
    <3>2. CASE g.state = "Parked" BY <1>3, <1>9, <3>2, AbleIs, OwnerAssumption DEF Wide
    <3>3. QED BY <2>1, <3>1, <3>2
  <2>5. Alike(m, p) BY <1>3, FlagsAlike
  <2>6. p.settling = m.settling BY <1>3 DEF Formed, Fields
  <2> HIDE DEF p
  <2>7. /\ Sized(p) /\ Filed(p) /\ p.state = "Parked" /\ p.pending = NoOp
        /\ p.queued = "none" /\ ~p.quarantined /\ Gap(p) + 2 <= MaxPending
    BY <1>3, <1>9, <2>2, <2>4, <2>5, AlikeSized, AbleIs DEF Alike, Entry, Gap, Tip
  <2>8. Tells(p, begun)
    <3>1. Led(p, {"Running"})
      <4> SUFFICES ASSUME Strict PROVE Line(p) /\ Latest(p) = "Running"
        BY DEF Led
      <4>1. g.state = "Running" BY <1>9, <2>1 DEF Strict, Steady
      <4>2. g.pending = NoOp /\ g.queued = "none" BY <1>3, <2>2
      <4>3. g.pending.phase # "Signing" BY <4>2 DEF NoOp
      <4>4. Line(g) /\ Latest(g) = "Running" BY <4>1, <4>2, <4>3, AbleIs, AliveLed
      <4>5. p.receipts = g.receipts /\ p.deferred = g.deferred
        BY <1>2, <2>5 DEF Alike, Entry
      <4>6. QED BY <4>4, <4>5 DEF Line, Latest, Tip
    <3>2. QED BY <2>3, <2>6, <2>7, <3>1, BeginCausedParkTells
  <2>9. Owes(g, p) /\ Heeds(g, p) BY <1>2, <2>5, EntryTrans, EntryHeeds DEF Alike
  <2> HIDE DEF begun
  <2>10. QED BY <2>8, <2>9, RecordsThen
<1> HIDE DEF terminal, quar, begun
<1>10. QED BY <1>1, <1>5, <1>6, <1>7, <1>8, <1>9

LEMMA AlikeAble ==
  ASSUME NEW o, NEW n, Able(o), Alike(o, n), Orderly(n) PROVE Able(n)
<1>1. Records(n) BY AbleIs, AlikeRecords
<1>2. QED BY <1>1, AbleIs DEF Able, Alike, Entry

LEMMA LostAlike ==
  ASSUME NEW o, Formed(o), NEW n, n = [o EXCEPT !.lost = TRUE, !.blocked = TRUE]
  PROVE  Alike(o, n) /\ n.settling = o.settling
<1>1. Plain(o, n) /\ n.state = o.state /\ n.settling = o.settling BY DEF Formed, Plain, Fields
<1>2. QED BY <1>1, PlainAlike

LEMMA BeginControllerLossTells ==
  ASSUME Wide, "controller" \in Events, NEW o, NEW e \in Luck, Able(o)
  PROVE  Tells(o, BeginControllerLoss(o, e))
<1> DEFINE n == CancelWait(o)
           a == [n EXCEPT !.lost = TRUE, !.blocked = TRUE]
           f == FailReceipt(a, e)
           s == Shut(f, e)
           g == ControllerGone(s, n.state, e)
           idle == n.state = "Terminal" \/ n.lost \/ n.lostPark \/ n.settling
<1>1. BeginControllerLoss(o, e) = IF idle THEN n ELSE g BY DEF BeginControllerLoss
<1>2. Alike(o, n) BY AbleIs, CancelWaitAlike
<1>3. Orderly(n) /\ n.wait = NoOp BY AbleIs, CancelWaitEases, EasesOrderly
<1>4. Able(n) /\ Tells(o, n) BY <1>2, <1>3, AlikeAble, AbleIs, AlikeTells
<1> HIDE DEF n
<1>5. Alike(n, a) /\ a.settling = n.settling BY <1>4, AbleIs, LostAlike
<1>6. /\ Typed(a) /\ Tip(a) = Tip(n) /\ a.wait = NoOp /\ a.state = n.state
      /\ a.brokerHead = n.brokerHead /\ a.deferred = n.deferred /\ a.draining = n.draining
      /\ a.resending = n.resending /\ a.conn = n.conn /\ a.offer = n.offer
      /\ a.withdrawn = n.withdrawn /\ a.queued = n.queued /\ a.quarantined = n.quarantined
      /\ a.pending = n.pending
  <2>1. Typed(n) BY <1>4, AbleIs
  <2>2. QED BY <1>3, <2>1 DEF Orderly, Fit, Typed, Fields, Tip, Gap
<1> HIDE DEF a
<1>7. Fit(a) BY <1>3, <1>6 DEF Orderly, Fit, Resends, Drains, Conns, Waits
<1>8. Busy(a)
  <2>1. Busy(n) BY <1>4, AbleIs
  <2>2. QED BY <1>6, <2>1 DEF Busy, Own, Gap
<1>9. Records(a) BY <1>4, <1>5, AbleIs, AlikeRecords
<1>10. ~a.quarantined /\ ~a.withdrawn /\ (a.queued # "none" => a.state = "Terminal")
  BY <1>4, <1>6, AbleIs
<1>11. /\ Tells(a, f)
       /\ a.state = "Running" /\ f.state = "Parked" /\ ~f.quarantined => Gap(f) <= 2
  BY <1>6, <1>8, <1>9, <1>10, FailReceiptTells
<1>12. Ends(a, f) BY <1>7, FailReceiptEnds
<1>13. f.quarantined \/ Calm(a, f) BY <1>6, FailReceiptCalm DEF Typed, Formed
<1> HIDE DEF f
<1>14. Sound(f) /\ Formed(f) /\ Orderly(f) /\ Settled(f) /\ f.withdrawn = a.withdrawn
       /\ (f.state \in {a.state, "Terminal"} \/ (a.state = "Running" /\ f.state = "Parked"))
  BY <1>12, OrderlyTyped DEF Ends, Still, Typed, Fields, Sound, Formed
<1>15. Alike(f, s) /\ Calm(f, s) BY <1>14, ShutAlike, ShutCalm
<1>16. Orderly(s) BY <1>14, ShutEases, EasesOrderly, OrderlyTyped
<1>17. Kept(f, s) BY <1>14, ShutKeeps
<1> HIDE DEF s
<1>18. f.quarantined => g.quarantined BY <1>17, ControllerGoneKeeps DEF Kept
<1>19. ASSUME ~f.quarantined, ~idle PROVE Tells(f, g)
  <2>1. Records(f) BY <1>11, <1>19 DEF Tells
  <2>2. Able(f) BY <1>10, <1>14, <1>19, <2>1 DEF Able
  <2>3. Able(s) BY <1>15, <1>16, <2>2, AlikeAble
  <2>4. s.state = f.state /\ s.pending = f.pending /\ Gap(s) = Gap(f)
    BY <1>15 DEF Alike, Entry, Gap, Tip
  <2>5. Settled(s) BY <1>14, <2>4 DEF Settled
  <2>6. n.state = "Parked" => s.state # "Running" BY <1>6, <1>14, <2>4
  <2>7. n.state # "Parked" /\ s.state = "Parked" =>
            ~s.settling /\ Gap(s) <= 2 /\ "Resume" \in Actions
    <3>1. ~n.settling BY <1>19
    <3>2. ~s.settling BY <1>5, <1>13, <1>15, <1>19, <3>1 DEF Calm
    <3>3. n.state \in {"Running", "Parked"} BY <1>4, <1>19, AbleIs DEF Typed
    <3>4. ~Doing(a, "Resume") /\ n.state = "Running" => f.state = a.state
      BY <1>6, <1>10, FailReceiptStays DEF Typed, Formed, f
    <3>5. Doing(a, "Resume") => "Resume" \in Actions BY <1>9 DEF Records, Placed
    <3>6. QED BY <1>6, <1>11, <1>19, <2>4, <3>2, <3>3, <3>4, <3>5
  <2>8. Tells(s, g) BY <2>3, <2>5, <2>6, <2>7, ControllerGoneTells
  <2> HIDE DEF g
  <2>9. QED BY <1>15, <2>1, <2>8, AlikeThen
<1> HIDE DEF g
<1>20. ASSUME ~idle PROVE Tells(o, g)
  <2>1. Tells(n, f) BY <1>4, <1>5, <1>11, AbleIs, AlikeThen
  <2>2. Tells(n, g) BY <1>18, <1>19, <1>20, <2>1, Then
  <2>3. QED BY <1>2, <2>2, AbleIs, AlikeThen
<1>21. QED BY <1>1, <1>4, <1>20
-----------------------------------------------------------------------------
(* Every step tells *)

\* What a step of the owner leaves of its evidence and of its answers.
Carries(o, n) == n.quarantined \/ (Records(n) /\ Owes(o, n) /\ Answers(n))

LEMMA HeedsAnswers ==
  ASSUME NEW o, NEW n, Answers(o), Requests, Heeds(o, n) PROVE Answers(n)
<1>1. n.pending # NoOp /\ n.pending.respond =>
        \E q \in asked : q.id = n.pending.pay.by
                         /\ (q.act = "Disposal" => n.pending.finish = "ok")
  BY DEF Heeds, Answers
<1>2. n.wait # NoOp => n.wait \in asked /\ n.wait.act = "Resume" BY DEF Heeds, Answers
<1>3. ASSUME NEW q \in asked, q.id \in n.done, q.act = "Disposal" PROVE Closed(n)
  <2>1. CASE q.id \in o.done BY <1>3, <2>1 DEF Heeds, Answers
  <2>2. CASE q.id \notin o.done
    <3>1. /\ o.pending # NoOp /\ o.pending.respond /\ q.id = o.pending.pay.by
          /\ o.pending.finish = "ok" => Closed(n)
      BY <1>3, <2>2 DEF Heeds
    <3>2. PICK p \in asked : p.id = o.pending.pay.by
                             /\ (p.act = "Disposal" => o.pending.finish = "ok")
      BY <3>1 DEF Answers
    <3>3. p = q BY <3>1, <3>2 DEF Requests
    <3>4. QED BY <1>3, <3>1, <3>2, <3>3
  <2>3. QED BY <2>1, <2>2
<1>4. ASSUME NEW by \in n.done PROVE \E q \in asked : q.id = by
  <2>1. CASE by \in o.done BY <2>1 DEF Answers
  <2>2. CASE by \notin o.done
    <3>1. o.pending # NoOp /\ o.pending.respond /\ by = o.pending.pay.by
      BY <2>2 DEF Heeds
    <3>2. QED BY <3>1 DEF Answers
  <2>3. QED BY <2>1, <2>2
<1>5. QED BY <1>1, <1>2, <1>3, <1>4 DEF Answers

LEMMA TellsCarries ==
  ASSUME NEW o, NEW n, Answers(o), Requests, Tells(o, n) PROVE Carries(o, n)
  BY HeedsAnswers DEF Tells, Carries

LEMMA AlikeCarries ==
  ASSUME NEW o, NEW n, Answers(o), Requests, Records(o), Alike(o, n) PROVE Carries(o, n)
  BY AlikeTells, TellsCarries

\* An operation that is begun answers the request it was begun for.
LEMMA ApplyingAnswers ==
  ASSUME NEW o, Formed(o), Answers(o), NEW q \in asked, o.state # "Terminal"
  PROVE  Answers(Applying(o, q))
<1> DEFINE n == Applying(o, q)
           pay == Payload(q.act, Transition(o.state, q.act), q.id)
<1>1. /\ n.pending = Operation(o, pay, "Applying", TRUE,
                               IF q.act = "Disposal" THEN "ok" ELSE "none")
      /\ n.wait = o.wait /\ n.done = o.done
  BY DEF Formed, Fields, Applying
<1> HIDE DEF n
<1>2. n.pending.pay = pay /\ (q.act = "Disposal" => n.pending.finish = "ok")
  BY <1>1 DEF Operation
<1>3. n.pending.pay.by = q.id BY <1>2 DEF Payload
<1>4. ~Closed(o) BY DEF Closed
<1>5. \A p \in asked : p.id \in n.done /\ p.act = "Disposal" => Closed(n)
  BY <1>1, <1>4 DEF Answers
<1>6. \A by \in n.done : \E p \in asked : p.id = by BY <1>1 DEF Answers
<1>7. n.wait # NoOp => n.wait \in asked /\ n.wait.act = "Resume" BY <1>1 DEF Answers
<1>8. \E p \in asked : p.id = n.pending.pay.by
                       /\ (p.act = "Disposal" => n.pending.finish = "ok")
  BY <1>2, <1>3
<1>9. Answers(n) BY <1>5, <1>6, <1>7, <1>8 DEF Answers
<1>10. QED BY <1>9 DEF n

LEMMA CarriesFrom ==
  ASSUME NEW o, NEW a, NEW n, Owes(o, a), Answers(a), Requests, Tells(a, n)
  PROVE  Carries(o, n)
  BY TellsCarries, OwesTrans DEF Carries

\* The owner as it is when it has not given up its Session.
Ready == Wide /\ OwnerInvariant /\ Requests /\ Records(owner) /\ Answers(owner)
         /\ ~owner.quarantined

LEMMA ReadyIs ==
  ASSUME Ready
  PROVE  /\ Wide /\ Requests /\ Answers(owner) /\ Records(owner) /\ Filed(owner)
         /\ Orderly(owner) /\ Fit(owner) /\ Typed(owner) /\ Sized(owner) /\ Formed(owner)
         /\ Under(owner) /\ Heads(owner, stored) /\ ~owner.quarantined
         /\ Live => Able(owner)
         /\ owner.queued # "none" => owner.state = "Terminal"
<1>1. Orderly(owner) /\ Heads(owner, stored) BY DEF Ready, OwnerInvariant
<1>2. Typed(owner) /\ Fit(owner) BY <1>1, OrderlyTyped
<1>3. QED BY <1>1, <1>2, TypedSized DEF Ready, Records, Orderly, Fit, Typed, Formed, Live, Able

\* A request has an identity no other has had.
LEMMA AskKeeps ==
  ASSUME Requests, Answers(owner) \/ owner.quarantined, Ask
  PROVE  Requests' /\ (owner.quarantined \/ Answers(owner)')
<1> DEFINE k == Cardinality(asked)
           r(act) == [id |-> <<"request", k>>, act |-> act,
                      state |-> owner.state, seq |-> owner.brokerHead]
<1>1. PICK act \in Actions : asked' = asked \union {r(act)} BY DEF Ask
<1>2. owner' = owner BY DEF Ask
<1>3. k \in Nat BY FS_CardinalityType DEF Requests
<1>4. \A q \in asked : q.id # r(act).id
  <2> SUFFICES ASSUME NEW q \in asked, q.id = <<"request", k>> PROVE FALSE
    OBVIOUS
  <2>1. PICK j \in 0 .. k - 1 : q.id = <<"request", j>> BY DEF Requests
  <2>2. QED BY <1>3, <2>1
<1>5. r(act) \notin asked BY <1>4
<1>6. IsFiniteSet(asked') /\ Cardinality(asked') = k + 1
  BY <1>1, <1>5, FS_AddElement DEF Requests
<1>7. r(act).id = <<"request", k>> /\ r(act).act \in Actions OBVIOUS
<1> HIDE DEF r
<1>8. \A q \in asked' : \E j \in 0 .. Cardinality(asked') - 1 : q.id = <<"request", j>>
  <2> SUFFICES ASSUME NEW q \in asked' PROVE \E j \in 0 .. k : q.id = <<"request", j>>
    BY <1>3, <1>6
  <2>1. CASE q \in asked
    <3>1. PICK j \in 0 .. k - 1 : q.id = <<"request", j>> BY <2>1 DEF Requests
    <3>2. j \in 0 .. k BY <1>3, <3>1
    <3>3. QED BY <3>1, <3>2
  <2>2. CASE q \notin asked
    <3>1. q.id = <<"request", k>> /\ k \in 0 .. k BY <1>1, <1>3, <1>7, <2>2
    <3>2. QED BY <3>1
  <2>3. QED BY <2>1, <2>2
<1>9. \A q, p \in asked' : q.id = p.id => q = p BY <1>1, <1>4 DEF Requests
<1>10. Requests'
  <2>1. \A q \in asked' : q.act \in Actions BY <1>1, <1>7 DEF Requests
  <2>2. QED BY <1>6, <1>8, <1>9, <2>1 DEF Requests
<1>11. ASSUME Answers(owner) PROVE Answers(owner)'
  <2>1. r(act).id \notin owner.done BY <1>4, <1>11 DEF Answers
  <2>2. \A q \in asked' : q.id \in owner.done /\ q.act = "Disposal" => Closed(owner)
    BY <1>1, <1>11, <2>1 DEF Answers
  <2>3. QED BY <1>1, <1>2, <1>11, <2>2 DEF Answers, Closed
<1>12. QED BY <1>10, <1>11

LEMMA RepeatCarries ==
  ASSUME Ready, NEW q \in asked, Repeat(q) PROVE Carries(owner, owner')
<1>1. PICK f, h : owner' = Reply(owner, f, h) /\ (f = "ok" => Closed(owner))
  <2>1. OkIn(owner) => Closed(owner) BY ReadyIs DEF Filed, Oks
  <2>2. CASE \E f \in owner.failed : f.by = q.id /\ Handle(Reply(owner, f.finish, 0))
    <3>1. PICK f \in owner.failed : owner' = Reply(owner, f.finish, 0) BY <2>2 DEF Handle
    <3>2. f.finish = "ok" => Closed(owner) BY <2>1 DEF OkIn
    <3>3. QED BY <3>1, <3>2
  <2>3. CASE /\ q.id \in owner.done /\ q.act = "Disposal" /\ owner.state = "Terminal"
             /\ \E i \in 1 .. Tip(owner) :
                   owner.receipts[i].by = q.id /\ Handle(Reply(owner, "ok", i))
    <3>1. PICK i \in 1 .. Tip(owner) : owner' = Reply(owner, "ok", i) BY <2>3 DEF Handle
    <3>2. Closed(owner) BY <2>3, ReadyIs DEF Answers
    <3>3. QED BY <3>1, <3>2
  <2>4. QED BY <2>2, <2>3 DEF Repeat
<1>2. Alike(owner, owner') BY <1>1, ReadyIs, ReplyAlike
<1>3. QED BY <1>2, ReadyIs, AlikeCarries

LEMMA RejectFullCarries ==
  ASSUME Ready, NEW q, RejectFull(q) PROVE Carries(owner, owner')
<1>1. PICK e : owner' = [Narrowed(Revoke(owner, e)) EXCEPT !.blocked = TRUE]
  BY DEF RejectFull, Handle
<1> DEFINE a == Revoke(owner, e)
           n == Narrowed(a)
<1>2. Alike(owner, a) BY ReadyIs, RevokeAlike
<1> HIDE DEF a
<1>3. Alike(a, n) BY <1>2, NarrowedAlike, AlikeFormed
<1> HIDE DEF n
<1>4. Alike(n, [n EXCEPT !.blocked = TRUE]) BY <1>3, FlagsAlike, AlikeFormed
<1>5. Alike(owner, owner') BY <1>1, <1>2, <1>3, <1>4, AlikeTrans DEF n, a
<1>6. QED BY <1>5, ReadyIs, AlikeCarries

\* A request for anything but a Disposal begins when nothing else is going on,
\* with room left for what it may owe.
LEMMA AdmittedIs ==
  ASSUME Ready, NEW q, Admitted(q), q.act \in {"Park", "Resume", "Interrupt"}
  PROVE  /\ Able(owner) /\ owner.pending = NoOp /\ owner.wait = NoOp
         /\ owner.queued = "none" /\ owner.state \in {"Running", "Parked"}
         /\ q.act = "Park" => owner.state = "Running" /\ Gap(owner) + 2 <= MaxPending
         /\ q.act = "Interrupt" => ~owner.settling /\ Gap(owner) + 3 <= MaxPending
         /\ q.act = "Resume" => /\ owner.state = "Parked" /\ ~owner.lost /\ ~owner.settling
                                /\ ~Backlog(owner)
<1>1. Able(owner) BY ReadyIs DEF Admitted, Heard
<1>2. owner.pending = NoOp /\ owner.wait = NoOp BY DEF Admitted, Cancels
<1>3. /\ owner.state \in {"Running", "Parked"}
      /\ q.act = "Park" => owner.state = "Running"
      /\ q.act = "Resume" => owner.state = "Parked"
  BY ReadyIs DEF Admitted, Transition, Typed
<1>4. owner.queued = "none" BY <1>3, ReadyIs
<1>5. Gap(owner) < Limit(q.act)
  <2>1. Unsigned(owner) = 0 BY <1>2 DEF Unsigned, NoOp
  <2>2. Gap(owner) \in Int BY ReadyIs, GapIsInt
  <2>3. Limit(q.act) \in Int BY OwnerAssumption DEF Limit
  <2>4. QED BY <2>1, <2>2, <2>3 DEF Admitted, Full, PendingCount
<1>6. Gap(owner) \in Int BY ReadyIs, GapIsInt
<1>7. q.act = "Park" => Gap(owner) + 2 <= MaxPending BY <1>5, <1>6, OwnerAssumption DEF Limit
<1>8. q.act = "Interrupt" => ~owner.settling /\ Gap(owner) + 3 <= MaxPending
  BY <1>5, <1>6, ReadyIs, OwnerAssumption DEF Limit, Admitted, Typed
<1>9. q.act = "Resume" => ~owner.lost /\ ~owner.settling /\ ~Backlog(owner)
  BY ReadyIs DEF Admitted, MayWiden, Typed
<1>10. QED BY <1>1, <1>2, <1>3, <1>4, <1>7, <1>8, <1>9

LEMMA ParkCarries ==
  ASSUME Ready, NEW q \in asked, Park(q) PROVE Carries(owner, owner')
<1> DEFINE a == Applying(owner, q)
<1>1. PICK e \in Luck : owner' = BeginPark(owner, q, e) BY DEF Park, Handle
<1>2. q.act = "Park" /\ Admitted(q) BY DEF Park
<1>3. Takes(owner, a) /\ Tells(a, BeginPark(owner, q, e))
  <2>1. ~owner.withdrawn BY <1>2 DEF Admitted, Heard, Live
  <2>2. QED BY <1>2, <2>1, AdmittedIs, ReadyIs, BeginParkTells
<1>4. Answers(a) BY <1>2, AdmittedIs, ReadyIs, ApplyingAnswers
<1> HIDE DEF a
<1>5. QED BY <1>1, <1>3, <1>4, ReadyIs, CarriesFrom DEF Takes

LEMMA InterruptCarries ==
  ASSUME Ready, NEW q \in asked, Interrupt(q) PROVE Carries(owner, owner')
<1> DEFINE a == Applying(owner, q)
<1>1. PICK e \in Luck : owner' = BeginInterrupt(owner, q, e) BY DEF Interrupt, Handle
<1>2. q.act = "Interrupt" /\ Admitted(q) BY DEF Interrupt
<1>3. Gap(owner) + 1 + Spare(owner) <= MaxPending
  <2>1. Gap(owner) \in Int BY ReadyIs, GapIsInt
  <2>2. QED BY <1>2, <2>1, AdmittedIs, OwnerAssumption DEF Spare
<1>4. Takes(owner, a) /\ Tells(a, BeginInterrupt(owner, q, e))
  <2>1. owner.state # "Terminal" /\ ~owner.withdrawn
    BY <1>2, AdmittedIs DEF Admitted, Heard, Live
  <2>2. QED BY <1>2, <1>3, <2>1, AdmittedIs, ReadyIs, BeginInterruptTells
<1>5. Answers(a) BY <1>2, AdmittedIs, ReadyIs, ApplyingAnswers
<1> HIDE DEF a
<1>6. QED BY <1>1, <1>4, <1>5, ReadyIs, CarriesFrom DEF Takes

\* A Resume that is prepared owes nothing yet.
LEMMA BeginResumeTells ==
  ASSUME NEW o, NEW q, Sized(o), Records(o), o.pending = NoOp, o.queued = "none",
         o.state = "Parked", ~o.settling, ~o.withdrawn, ~Backlog(o), q.act = "Resume",
         q.act \in Actions
  PROVE  Records(BeginResume(o, q)) /\ Owes(o, BeginResume(o, q))
<1> DEFINE a == Applying(o, q)
<1>1. /\ Takes(o, a) /\ a.pending.pay = Payload(q.act, Transition(o.state, q.act), q.id)
  BY ApplyingTakes DEF Records
<1> HIDE DEF a
<1>2. Doing(a, "Resume") BY <1>1 DEF Doing, Payload, Takes, UnderWay, NoOp
<1>3. LastTo(a) = LastTo(o) BY <1>1 DEF Takes, LastTo, Tip, NoOp
<1>4. Reaches(a, LastTo(a)) BY <1>1, <1>3 DEF Takes, Records, Reaches
<1>5. Room(a) BY <1>1 DEF Takes, Records, Room, Spare
<1>6. Placed(a) BY <1>1, <1>2 DEF Takes, Placed, Doing
<1>7. Settles(a) BY <1>1 DEF Takes, Settles
<1>8. Legal(a)
  <2>1. a.receipts = o.receipts /\ a.deferred = o.deferred /\ a.queued = "none"
    BY <1>1 DEF Takes
  <2>2. ValidTransition("Parked", a.pending.pay)
    BY <1>1 DEF ValidTransition, Transition, Payload
  <2>3. Lawful(a) BY <2>1, <2>2, BegunLawful
  <2>4. QED BY <2>1, <2>3 DEF Lawful, Legal, Sole, Backlog
<1>9. Records(a) /\ Owes(o, a) BY <1>1, <1>4, <1>5, <1>6, <1>7, <1>8 DEF Takes, Records
<1>10. QED BY <1>9 DEF BeginResume, a

LEMMA ResumeCarries ==
  ASSUME Ready, NEW q \in asked, Resume(q) PROVE Carries(owner, owner')
<1> DEFINE n == [owner EXCEPT !.wait = q]
<1>1. owner' \in {n, BeginResume(owner, q)} BY DEF Resume, Handle
<1>2. q.act = "Resume" /\ Admitted(q) BY DEF Resume
<1>3. ASSUME owner' = n PROVE Carries(owner, n)
  <2>1. /\ Formed(n)
        /\ n.receipts = owner.receipts /\ n.brokerHead = owner.brokerHead
        /\ n.pending = owner.pending /\ n.deferred = owner.deferred
        /\ n.queued = owner.queued
        /\ n.quarantined = owner.quarantined /\ n.withdrawn = owner.withdrawn
        /\ n.done = owner.done /\ n.wait = q /\ n.state = owner.state
        /\ n.settling = owner.settling /\ n.draining = owner.draining
        /\ n.finishQuiet = owner.finishQuiet /\ n.finishDrained = owner.finishDrained
        /\ n.finished = owner.finished /\ n.replies = owner.replies
        /\ n.failed = owner.failed
    BY ReadyIs DEF Formed, Fields
  <2> HIDE DEF n
  <2>2. Oks(n) BY <2>1, ReadyIs DEF Filed, Oks, OkIn, Closed, Backlog, Tip
  <2>3. Filed(n) BY <2>1, <2>2, ReadyIs DEF Filed, Forms
  <2>4. LastTo(n) = LastTo(owner) /\ Gap(n) = Gap(owner) BY <2>1 DEF LastTo, Gap, Tip
  <2>5. Records(n)
    <3>1. Legal(n) BY <2>1, ReadyIs, SameLegal DEF Records
    <3>2. QED
      BY <2>1, <2>3, <2>4, <3>1, ReadyIs
         DEF Records, Reaches, Room, Spare, Placed, Doing, Settles
  <2>6. Owes(owner, n) BY <2>1 DEF Owes, Due, Tip
  <2>7. Answers(n) BY <1>2, <2>1, ReadyIs DEF Answers, Closed
  <2>8. QED BY <2>5, <2>6, <2>7 DEF Carries
<1>4. Carries(owner, BeginResume(owner, q))
  <2>1. Answers(BeginResume(owner, q))
    BY <1>2, AdmittedIs, ReadyIs, ApplyingAnswers DEF BeginResume
  <2>2. Records(BeginResume(owner, q)) /\ Owes(owner, BeginResume(owner, q))
    <3>1. q.act \in Actions BY ReadyIs DEF Requests
    <3>2. QED BY <1>2, <3>1, AdmittedIs, AbleIs, ReadyIs, BeginResumeTells
  <2>3. QED BY <2>1, <2>2 DEF Carries
<1> HIDE DEF n
<1>5. QED BY <1>1, <1>3, <1>4

LEMMA DisposeCarries ==
  ASSUME Ready, NEW q \in asked, Dispose(q) PROVE Carries(owner, owner')
<1> DEFINE n == CancelWait(owner)
           p(e) == FailPreparation(n, e)
           m(e) == IF Preparing(n) THEN p(e) ELSE n
<1>1. PICK e \in Luck :
        owner' = IF Preparing(n) /\ (m(e).state # "Parked" \/ m(e).unproven) THEN m(e)
                 ELSE BeginDisposal(m(e), q, e)
  BY DEF Dispose, Handle
<1>2. q.act = "Disposal" /\ Admitted(q) /\ Able(owner) /\ owner.state # "Terminal"
  BY ReadyIs DEF Dispose, Admitted, Heard, Transition
<1>3. Alike(owner, n) BY ReadyIs, CancelWaitAlike
<1>4. Orderly(n) BY ReadyIs, CancelWaitEases, EasesOrderly
<1>5. Able(n) BY <1>2, <1>3, <1>4, AlikeAble
<1>6. n.pending = owner.pending /\ n.state = owner.state BY <1>3 DEF Alike, Entry
<1>7. owner.pending = NoOp \/ Preparing(n)
  <2>1. Cancels(q) \/ owner.pending = NoOp BY <1>2 DEF Admitted
  <2>2. owner.wait # NoOp => owner.pending = NoOp BY <1>2, ReadyIs DEF Fit, Waits
  <2>3. Preparing(owner) => Preparing(n) BY <1>6 DEF Preparing, Doing
  <2>4. QED BY <2>1, <2>2, <2>3 DEF Cancels
<1> HIDE DEF n
<1>8. ASSUME Preparing(n) PROVE Tells(n, p(e)) /\ p(e).pending = NoOp /\ Orderly(p(e))
  <2>1. n.pending.phase # "Signing" BY <1>8 DEF Preparing
  <2>2. Tells(n, p(e)) BY <1>5, <2>1, AbleIs, FailPreparationTells
  <2>3. Eases(n, p(e)) /\ p(e).pending = NoOp BY <1>5, AbleIs, FailPreparationEases
  <2>4. Orderly(p(e)) BY <1>4, <2>3, EasesOrderly
  <2>5. QED BY <2>2, <2>3, <2>4
<1>9. /\ Tells(n, m(e)) /\ Orderly(m(e)) /\ m(e).pending = NoOp
      /\ ~Preparing(n) => m(e).state = owner.state
  <2>1. CASE Preparing(n) BY <1>8, <2>1
  <2>2. CASE ~Preparing(n) BY <1>4, <1>5, <1>6, <1>7, <2>2, AbleIs, AlikeSelf, AlikeTells
  <2>3. QED BY <2>1, <2>2
<1> HIDE DEF m
<1>10. Tells(owner, m(e)) BY <1>3, <1>9, ReadyIs, AlikeThen
<1>11. Carries(owner, m(e)) BY <1>10, ReadyIs, TellsCarries
<1>12. Sound(m(e)) /\ Sized(m(e)) /\ Formed(m(e))
       /\ (m(e).queued # "none" => m(e).state = "Terminal")
  BY <1>9, OrderlyTyped, TypedSized DEF Typed, Fields, Sound, Formed, Orderly, Fit
<1>13. CASE Preparing(n) /\ (m(e).state # "Parked" \/ m(e).unproven)
  BY <1>1, <1>11, <1>13
<1>14. CASE ~(Preparing(n) /\ (m(e).state # "Parked" \/ m(e).unproven))
  <2> DEFINE b == BeginDisposal(m(e), q, e)
             f == ForgetController(m(e))
             a == Applying(f, q)
  <2>1. owner' = b BY <1>1, <1>14
  <2>2. m(e).quarantined => b.quarantined BY <1>12, BeginDisposalKeeps DEF Kept
  <2>3. ASSUME ~m(e).quarantined PROVE Carries(owner, b)
    <3>1. Records(m(e)) /\ Owes(owner, m(e)) /\ Answers(m(e))
      BY <1>11, <2>3 DEF Carries
    <3>2. m(e).state # "Terminal" BY <1>2, <1>9, <1>14
    <3>3. b.quarantined \/ (Records(b) /\ Owes(m(e), b) /\ Heeds(a, b))
      BY <1>2, <1>9, <1>12, <2>3, <3>1, <3>2, BeginDisposalTells
    <3>4. Alike(m(e), f) BY <1>12, ForgetControllerAlike
    <3>5. Answers(f) /\ Formed(f) /\ f.state # "Terminal"
      BY <3>1, <3>2, <3>4, ReadyIs, EntryHeeds, HeedsAnswers, AlikeFormed DEF Alike
    <3> HIDE DEF f
    <3>6. Answers(a) BY <3>5, ApplyingAnswers
    <3> HIDE DEF a, b
    <3>7. b.quarantined \/ (Records(b) /\ Owes(m(e), b) /\ Answers(b))
      BY <3>3, <3>6, ReadyIs, HeedsAnswers
    <3>8. QED BY <3>1, <3>7, OwesTrans DEF Carries
  <2>4. QED BY <2>1, <2>2, <2>3 DEF Carries
<1>15. QED BY <1>13, <1>14

LEMMA RequestedCarries ==
  ASSUME Ready, NEW q \in asked, Requested(q) PROVE Carries(owner, owner')
  BY RepeatCarries, RejectFullCarries, ParkCarries, InterruptCarries, DisposeCarries,
     ResumeCarries DEF Requested

\* The thaw is recorded as the Resume that is signed next.
LEMMA ThawedRecords ==
  ASSUME Ready, Able(owner), Preparing(owner),
         NEW n, n = [owner EXCEPT !.state = "Running", !.tree = "running",
                                  !.pending.phase = "Signing"]
  PROVE  Tells(owner, n)
<1>1. /\ owner.state = "Parked" /\ owner.pending # NoOp /\ owner.pending.phase = "Applying"
      /\ owner.pending.pay.kind = "Resume" /\ owner.queued = "none"
      /\ UnderWay(owner.pending)
  BY ReadyIs DEF Preparing, Doing, Typed
<1>2. /\ owner.deferred = <<>> /\ owner.draining = NoOp /\ owner.brokerHead = Tip(owner)
      /\ ~owner.lost /\ ~owner.settling
  BY <1>1, ReadyIs DEF Under, Quiet, Typed
<1>3. Deed(owner.pending) BY <1>1, ReadyIs DEF Filed
<1>4. /\ Formed(n)
      /\ n.receipts = owner.receipts /\ n.brokerHead = owner.brokerHead
      /\ n.deferred = owner.deferred /\ n.queued = owner.queued
      /\ n.quarantined = owner.quarantined /\ n.withdrawn = owner.withdrawn
      /\ n.done = owner.done /\ n.wait = owner.wait /\ n.state = "Running"
      /\ n.settling = owner.settling /\ n.draining = owner.draining
      /\ n.finishQuiet = owner.finishQuiet /\ n.finishDrained = owner.finishDrained
      /\ n.finished = owner.finished /\ n.replies = owner.replies
      /\ n.failed = owner.failed
      /\ n.pending = [owner.pending EXCEPT !.phase = "Signing"]
  BY ReadyIs DEF Formed, Fields
<1> DEFINE op == n.pending
<1>5. /\ op.phase = "Signing" /\ op.pay = owner.pending.pay /\ op.index = owner.pending.index
      /\ op.finish = owner.pending.finish /\ op.respond = owner.pending.respond
      /\ op.seq = owner.pending.seq
  BY <1>1, <1>4 DEF UnderWay
<1>6. op # NoOp BY <1>5 DEF NoOp
<1>7. /\ op.pay.to = "Running" /\ op.pay.kind = "Resume" /\ op.finish = "none"
  BY <1>1, <1>3, <1>5 DEF Deed
<1>8. Deed(op) BY <1>1, <1>3, <1>5 DEF Deed
<1>9. ~OkIn(owner) BY <1>1, ReadyIs DEF Filed, Oks, Closed
<1>10. Oks(n)
  <2>1. ~OkIn(n) /\ n.finished # "ok" BY <1>4, <1>9 DEF OkIn
  <2>2. QED BY <1>7, <2>1 DEF Oks
<1>11. Forms(n) BY <1>1, <1>2, <1>4, <1>5, ReadyIs DEF Filed, Forms, NoOp
<1>12. Filed(n) BY <1>8, <1>10, <1>11 DEF Filed
<1>13. LastTo(n) = "Running" BY <1>1, <1>2, <1>4, <1>5, <1>7 DEF LastTo
<1>14. Room(n)
  <2>1. Gap(n) = Len(<<>>) /\ Len(<<>>) = 0
    BY <1>2, <1>4, ReadyIs, EmptySeq DEF Gap, Tip, Sized
  <2>2. QED BY <1>4, <2>1, OwnerAssumption DEF Room, Spare
<1>15. Placed(n)
  <2>1. "Resume" \in Actions BY ReadyIs DEF Records, Placed, Preparing
  <2>2. QED BY <1>4, <1>5, <2>1 DEF Placed
<1>16. Settles(n) BY <1>2, <1>4 DEF Settles
<1>17. Records(n)
  <2>1. (Line(n) <=> Line(owner)) /\ Latest(n) = Latest(owner) BY <1>4, SameLine
  <2>2. Legal(n)
    BY <1>1, <1>2, <1>4, <1>5, <2>1, ReadyIs DEF Records, Legal, Apt, Closing, Sole
  <2>3. QED BY <1>4, <1>12, <1>13, <1>14, <1>15, <1>16, <2>2 DEF Records, Reaches
<1>18. Owes(owner, n) BY <1>1, <1>4 DEF Owes, Due, Tip
<1>19. Heeds(owner, n) BY <1>1, <1>4, <1>5 DEF Heeds, Closed
<1>20. QED BY <1>17, <1>18, <1>19 DEF Tells

LEMMA PreparedCarries == ASSUME Ready, Prepared PROVE Carries(owner, owner')
<1> DEFINE running == [owner EXCEPT !.state = "Running", !.tree = "running",
                                    !.pending.phase = "Signing"]
           unknown == [owner EXCEPT !.tree = "unknown"]
           f(e) == FailMechanic(owner, e)
           gone(e) == [f(e) EXCEPT !.tree = "gone"]
           ended(e) == BeginTerminalEvent(gone(e), "ok", e)
<1>1. Able(owner) /\ Preparing(owner) BY ReadyIs DEF Prepared
<1>2. PICK e : owner' \in {FailPreparation(owner, e), ended(e),
                           QuarantineMechanic(unknown, owner.pending, e), running}
  BY DEF Prepared, Handle
<1>3. owner.pending.phase # "Signing" /\ owner.state = "Parked" BY <1>1 DEF Preparing
<1>4. Tells(owner, running) BY <1>1, ThawedRecords
<1>5. Tells(owner, FailPreparation(owner, e)) BY <1>3, ReadyIs, FailPreparationTells
<1>6. Tells(owner, QuarantineMechanic(unknown, owner.pending, e))
  <2>1. Formed(unknown) BY ReadyIs DEF Formed, Fields
  <2>2. QED BY <2>1, QuarantineMechanicTells
<1> HIDE DEF running, unknown
<1>7. Tells(owner, ended(e))
  <2>1. Tells(owner, f(e)) /\ Alike(Drop(owner), f(e)) BY <1>3, ReadyIs, FailMechanicTells
  <2>2. Records(Drop(owner)) /\ Sized(Drop(owner)) /\ Drop(owner).queued = owner.queued
        /\ Drop(owner).quarantined = owner.quarantined
    BY <1>3, ReadyIs, DropTells, DropDoes
  <2> HIDE DEF f
  <2>3. Alike(f(e), gone(e)) BY <2>1, FlagsAlike, AlikeFormed
  <2> HIDE DEF gone
  <2>4. Alike(Drop(owner), gone(e)) BY <2>1, <2>3, AlikeTrans
  <2>5. Records(gone(e)) /\ Sized(gone(e)) /\ gone(e).queued = "none" /\ ~gone(e).quarantined
    BY <1>3, <2>2, <2>4, ReadyIs, AlikeRecords, AlikeSized DEF Alike, Entry
  <2>6. Tells(gone(e), ended(e)) BY <2>5, BeginTerminalEventTells
  <2> HIDE DEF ended
  <2>7. Tells(owner, gone(e)) BY <2>1, <2>3, ThenAlike
  <2>8. QED BY <2>5, <2>6, <2>7, Then
<1> HIDE DEF ended
<1>8. Tells(owner, owner') BY <1>2, <1>4, <1>5, <1>6, <1>7
<1>9. QED BY <1>8, ReadyIs, TellsCarries

LEMMA LastOfAppended ==
  ASSUME NEW s, Sequence(s), NEW r
  PROVE  /\ Len(s) \in Nat /\ Len(Append(s, r)) = Len(s) + 1
         /\ Append(s, r)[Len(s) + 1] = r
         /\ \A i \in 1 .. Len(s) : Append(s, r)[i] = s[i]
  BY LastAppended

LEMMA OutcomeOfReceipt ==
  ASSUME NEW p, IsPay(p), NEW k
  PROVE  Outcome(Receipt(p, k)) = p /\ Receipt(p, k).to = p.to
  BY DEF IsPay, Outcome, Receipt, Payload

\* What was being signed is signed.
LEMMA SignedCarries == ASSUME Ready, Signed PROVE Carries(owner, owner')
<1> DEFINE r == Receipt(owner.pending.pay, owner.pending.seq)
           i == Tip(owner) + 1
           n == [owner EXCEPT !.receipts = Append(@, r),
                    !.pending.phase = "AwaitingDurableAck", !.pending.index = i]
<1>1. owner' = Send(n, i) /\ owner.pending.phase = "Signing" BY DEF Signed, Handle
<1>2. owner.pending # NoOp /\ UnderWay(owner.pending) BY <1>1, ReadyIs DEF Typed, NoOp
<1>3. /\ owner.deferred = <<>> /\ owner.draining = NoOp /\ owner.brokerHead = Tip(owner)
      /\ Tip(owner) \in Nat
  BY <1>1, <1>2, ReadyIs DEF Under, Quiet, Sized
<1>4. Deed(owner.pending) /\ IsPay(owner.pending.pay) BY <1>2, ReadyIs DEF Filed, Deed
<1>5. /\ Outcome(r) = owner.pending.pay /\ r.to = owner.pending.pay.to
      /\ r.kind = owner.pending.pay.kind /\ r.seq = owner.pending.seq
  BY <1>4, OutcomeOfReceipt DEF Receipt
<1> HIDE DEF r
<1>6. /\ Formed(n)
      /\ n.receipts = Append(owner.receipts, r) /\ n.brokerHead = owner.brokerHead
      /\ n.deferred = owner.deferred /\ n.queued = owner.queued
      /\ n.quarantined = owner.quarantined /\ n.withdrawn = owner.withdrawn
      /\ n.done = owner.done /\ n.wait = owner.wait /\ n.state = owner.state
      /\ n.settling = owner.settling /\ n.draining = owner.draining
      /\ n.finishQuiet = owner.finishQuiet /\ n.finishDrained = owner.finishDrained
      /\ n.finished = owner.finished /\ n.replies = owner.replies
      /\ n.failed = owner.failed
      /\ n.pending = [owner.pending EXCEPT !.phase = "AwaitingDurableAck", !.index = i]
  BY ReadyIs DEF Formed, Fields
<1> HIDE DEF n
<1> DEFINE op == n.pending
<1>7. /\ op.phase = "AwaitingDurableAck" /\ op.pay = owner.pending.pay /\ op.index = i
      /\ op.finish = owner.pending.finish /\ op.respond = owner.pending.respond
  BY <1>2, <1>6 DEF UnderWay
<1>8. op # NoOp BY <1>7 DEF NoOp
<1>9. /\ Tip(n) = i /\ n.receipts[i] = r
      /\ \A k \in 1 .. Tip(owner) : n.receipts[k] = owner.receipts[k]
  BY <1>6, ReadyIs, LastOfAppended DEF Tip, Typed
<1>10. Deed(op) BY <1>3, <1>4, <1>7 DEF Deed
<1>11. ~OkIn(owner) BY <1>2, ReadyIs DEF Filed, Oks, Closed
<1>12. Oks(n)
  <2>1. ~OkIn(n) /\ n.finished # "ok" BY <1>6, <1>11 DEF OkIn
  <2>2. op.finish = "ok" => n.state = "Terminal" /\ n.queued = "none"
    BY <1>2, <1>6, <1>7, ReadyIs DEF Filed, Oks
  <2>3. QED BY <2>1, <2>2 DEF Oks
<1>13. Forms(n)
  <2>1. owner.pending.index = 0 /\ owner.pending.seq = i
    BY <1>1, <1>2, <1>4, ReadyIs DEF Deed, Filed, Forms, Tip
  <2>2. ASSUME NEW k \in 1 .. Tip(n) PROVE n.receipts[k].seq = k
    <3>1. CASE k = i BY <1>5, <1>9, <2>1, <3>1
    <3>2. CASE k # i
      <4>1. k \in 1 .. Tip(owner) BY <1>3, <1>9, <2>2, <3>2
      <4>2. QED BY <1>9, <4>1, ReadyIs DEF Filed, Forms, Tip
    <3>3. QED BY <3>1, <3>2
  <2>3. op.index # 0 BY <1>3, <1>7
  <2>4. QED BY <1>3, <1>6, <2>2, <2>3, ReadyIs DEF Filed, Forms, NoOp, Tip
<1>14. Filed(n) BY <1>10, <1>12, <1>13 DEF Filed
<1>15. LastTo(n) = LastTo(owner)
  BY <1>1, <1>3, <1>5, <1>6, <1>7, <1>9 DEF LastTo
<1>16. Room(n)
  <2>1. Gap(n) = 1 + Len(<<>>) /\ Len(<<>>) = 0
    BY <1>3, <1>6, <1>9, EmptySeq DEF Gap
  <2>2. QED BY <2>1, OwnerAssumption DEF Room, Spare
<1>17. Placed(n)
  <2>1. Doing(n, "Resume") <=> Doing(owner, "Resume") BY <1>2, <1>7, <1>8 DEF Doing
  <2>2. QED BY <1>1, <1>6, <1>7, <2>1, ReadyIs DEF Records, Placed
<1>18. Settles(n) BY <1>2, <1>6, ReadyIs DEF Records, Settles
<1>19. Legal(n)
  <2> SUFFICES ASSUME Strict PROVE Line(n) /\ Apt(n) /\ Closing(n) /\ Sole(n)
    BY DEF Legal
  <2>1. Line(owner) /\ Apt(owner) /\ Closing(owner) BY ReadyIs DEF Records, Legal
  <2>2. Latest(owner) = owner.receipts[Tip(owner)].to BY <1>3 DEF Latest
  <2>3. ValidTransition(Latest(owner), r)
    BY <1>1, <1>2, <1>4, <1>5, <2>1 DEF Deed, Apt, ValidTransition
  <2>4. ASSUME NEW k \in 1 .. Tip(n) - 1
        PROVE  ValidTransition(n.receipts[k].to, n.receipts[k + 1])
    <3>1. k \in 1 .. Tip(owner) BY <1>3, <1>9, <2>4
    <3>2. CASE k = Tip(owner) BY <1>9, <2>2, <2>3, <3>1, <3>2
    <3>3. CASE k # Tip(owner)
      <4>1. k \in 1 .. Tip(owner) - 1 /\ k + 1 \in 1 .. Tip(owner) BY <1>3, <3>1, <3>3
      <4>2. QED BY <1>9, <2>1, <3>1, <4>1 DEF Line
    <3>4. QED BY <3>2, <3>3
  <2>5. n.deferred = <<>> /\ Len(n.deferred) = 0 BY <1>3, <1>6, EmptySeq
  <2>6. Line(n) BY <2>4, <2>5 DEF Line
  <2>7. Latest(n) = r.to BY <1>9, <2>5 DEF Latest
  <2>8. op.index # 0 BY <1>3, <1>7
  <2>9. Closing(n)
    BY <1>1, <1>2, <1>4, <1>5, <1>6, <2>1, <2>3, <2>7, <2>8 DEF Closing, Deed, ValidTransition
  <2>10. QED BY <2>5, <2>6, <2>8, <2>9 DEF Apt, Sole
<1>20. Records(n)
  BY <1>19, <1>6, <1>14, <1>15, <1>16, <1>17, <1>18, ReadyIs DEF Records, Reaches
<1>21. Owes(owner, n)
  <2> SUFFICES ASSUME NEW p, Due(owner, p) PROVE Due(n, p)
    BY DEF Owes
  <2>1. ASSUME NEW k \in 1 .. Tip(owner), p = Outcome(owner.receipts[k]) PROVE Due(n, p)
    <3>1. k \in 1 .. Tip(n) BY <1>3, <1>9, <2>1
    <3>2. QED BY <1>9, <2>1, <3>1 DEF Due
  <2>2. ASSUME p = owner.pending.pay PROVE Due(n, p)
    <3>1. i \in 1 .. Tip(n) BY <1>3, <1>9
    <3>2. QED BY <1>5, <1>9, <2>2, <3>1 DEF Due
  <2>3. QED BY <1>6, <2>1, <2>2 DEF Due
<1>22. Heeds(owner, n) BY <1>2, <1>6, <1>7, <1>8 DEF Heeds, Closed
<1>23. Alike(n, Send(n, i)) BY <1>6, SendAlike
<1> HIDE DEF i, op
<1>24. Tells(n, owner') BY <1>1, <1>20, <1>23, AlikeTells
<1>25. Tells(owner, owner') BY <1>21, <1>22, <1>24, RecordsThen
<1>26. QED BY <1>25, ReadyIs, TellsCarries

\* What was drained is signed, and no longer owed.
LEMMA DrainSignedCarries == ASSUME Ready, DrainSigned PROVE Carries(owner, owner')
<1> DEFINE r == Receipt(owner.draining.pay, owner.draining.seq)
           i == Tip(owner) + 1
           n == [owner EXCEPT !.receipts = Append(@, r), !.deferred = Tail(@),
                    !.draining.phase = "AwaitingDurableAck", !.draining.index = i]
<1>1. owner' = Send(n, i) /\ owner.draining.phase = "Signing" BY DEF DrainSigned, Handle
<1>2. /\ owner.draining # NoOp /\ owner.deferred # <<>> /\ owner.pending = NoOp
      /\ {"phase", "index"} \subseteq DOMAIN owner.draining
  BY <1>1, ReadyIs DEF Fit, Drains, NoOp, Under, Quiet
<1>3. /\ Tip(owner) \in Nat /\ Sequence(owner.receipts) /\ Sequence(owner.deferred)
      /\ owner.brokerHead \in Nat
  BY ReadyIs DEF Sized, Typed
<1>4. /\ owner.draining.pay = owner.deferred[1] /\ owner.draining.seq = i
      /\ \A k \in 1 .. Tip(owner) : owner.receipts[k].seq = k
      /\ \A k \in 1 .. Len(owner.deferred) : IsPay(owner.deferred[k])
  BY <1>1, ReadyIs DEF Filed, Forms, Tip
<1> DEFINE d == Tail(owner.deferred)
<1>5. /\ Len(owner.deferred) \in Nat \ {0} /\ Len(d) = Len(owner.deferred) - 1
      /\ \A k \in 1 .. Len(d) : d[k] = owner.deferred[k + 1]
      /\ d # <<>> => Len(d) # 0
      /\ d = <<>> => Len(d) = 0
  BY <1>2, <1>3, TailSequence, HeadTailProperties, EmptySeq, LenProperties DEF Sequence
<1>6. IsPay(owner.draining.pay) BY <1>4, <1>5
<1>7. /\ Outcome(r) = owner.deferred[1] /\ r.to = owner.deferred[1].to
      /\ r.kind = owner.deferred[1].kind /\ r.seq = i
  BY <1>4, <1>6, OutcomeOfReceipt DEF Receipt
<1> HIDE DEF r, d
<1>8. /\ Formed(n)
      /\ n.receipts = Append(owner.receipts, r) /\ n.brokerHead = owner.brokerHead
      /\ n.deferred = d /\ n.queued = owner.queued
      /\ n.quarantined = owner.quarantined /\ n.withdrawn = owner.withdrawn
      /\ n.done = owner.done /\ n.wait = owner.wait /\ n.state = owner.state
      /\ n.settling = owner.settling /\ n.pending = owner.pending
      /\ n.finishQuiet = owner.finishQuiet /\ n.finishDrained = owner.finishDrained
      /\ n.finished = owner.finished /\ n.replies = owner.replies
      /\ n.failed = owner.failed
      /\ n.draining = [owner.draining EXCEPT !.phase = "AwaitingDurableAck", !.index = i]
  BY ReadyIs DEF Formed, Fields, d
<1> HIDE DEF n
<1>9. n.draining.phase # "Signing" BY <1>2, <1>8
<1>10. /\ Tip(n) = i /\ n.receipts[i] = r
       /\ \A k \in 1 .. Tip(owner) : n.receipts[k] = owner.receipts[k]
  BY <1>3, <1>8, LastOfAppended DEF Tip
<1>11. Gap(n) = Gap(owner)
  <2>1. /\ Tip(n) = Tip(owner) + 1 /\ n.brokerHead = owner.brokerHead
        /\ Len(n.deferred) = Len(owner.deferred) - 1
    BY <1>5, <1>8, <1>10
  <2>2. Tip(owner) \in Nat /\ owner.brokerHead \in Nat /\ Len(owner.deferred) \in Nat
    BY <1>3, <1>5, ReadyIs DEF Sized
  <2>3. QED BY <2>1, <2>2 DEF Gap
<1>12. Oks(n)
  <2>1. Backlog(owner) /\ owner.finished # "ok"
    BY <1>2, ReadyIs DEF Backlog, Filed, Oks
  <2>2. OkIn(n) => OkIn(owner) BY <1>8 DEF OkIn
  <2>3. Closed(n) <=> Closed(owner) BY <1>8 DEF Closed
  <2>4. QED BY <1>2, <1>8, <2>1, <2>2, <2>3, ReadyIs DEF Filed, Oks
<1>13. Forms(n)
  <2>1. ASSUME NEW k \in 1 .. Len(n.deferred) PROVE IsPay(n.deferred[k])
    <3>1. k \in 1 .. Len(d) /\ k + 1 \in 1 .. Len(owner.deferred) BY <1>5, <1>8, <2>1
    <3>2. QED BY <1>4, <1>5, <1>8, <3>1
  <2>2. ASSUME NEW k \in 1 .. Tip(n) PROVE n.receipts[k].seq = k
    <3>1. CASE k = i BY <1>7, <1>10, <3>1
    <3>2. CASE k # i
      <4>1. k \in 1 .. Tip(owner) BY <1>3, <1>10, <2>2, <3>2
      <4>2. QED BY <1>4, <1>10, <4>1
    <3>3. QED BY <3>1, <3>2
  <2>3. n.pending = NoOp BY <1>2, <1>8
  <2>4. QED BY <1>9, <2>1, <2>2, <2>3 DEF Forms, Tip
<1>14. Filed(n) BY <1>2, <1>8, <1>12, <1>13, ReadyIs DEF Filed
<1>15. LastTo(n) = LastTo(owner)
  <2>1. CASE owner.queued # "none" BY <1>8, <2>1 DEF LastTo
  <2>2. CASE owner.queued = "none" /\ d # <<>>
    <3>1. Len(d) \in 1 .. Len(d) /\ d[Len(d)] = owner.deferred[Len(owner.deferred)]
      BY <1>5, <2>2
    <3>2. QED BY <1>2, <1>8, <2>2, <3>1 DEF LastTo
  <2>3. CASE owner.queued = "none" /\ d = <<>>
    <3>1. Len(owner.deferred) = 1 BY <1>5, <2>3
    <3>2. LastTo(owner) = r.to BY <1>2, <1>7, <2>3, <3>1 DEF LastTo
    <3>3. n.pending.phase # "Signing" BY <1>2, <1>8 DEF NoOp
    <3>4. LastTo(n) = r.to BY <1>8, <1>10, <2>3, <3>3 DEF LastTo
    <3>5. QED BY <3>2, <3>4
  <2>4. QED BY <2>1, <2>2, <2>3
<1>16. Legal(n)
  <2> SUFFICES ASSUME Strict PROVE Line(n) /\ Apt(n) /\ Closing(n) /\ Sole(n)
    BY DEF Legal
  <2>1. Line(owner) /\ Closing(owner) BY ReadyIs DEF Records, Legal
  <2>2. ValidTransition(owner.receipts[Tip(owner)].to, r)
    BY <1>2, <1>7, <2>1 DEF Line, ValidTransition
  <2>3. ASSUME NEW k \in 1 .. Tip(n) - 1
        PROVE  ValidTransition(n.receipts[k].to, n.receipts[k + 1])
    <3>1. k \in 1 .. Tip(owner) BY <1>3, <1>10, <2>3
    <3>2. CASE k = Tip(owner) BY <1>10, <2>2, <3>1, <3>2
    <3>3. CASE k # Tip(owner)
      <4>1. k \in 1 .. Tip(owner) - 1 /\ k + 1 \in 1 .. Tip(owner) BY <1>3, <3>1, <3>3
      <4>2. QED BY <1>10, <2>1, <3>1, <4>1 DEF Line
    <3>4. QED BY <3>2, <3>3
  <2>4. ASSUME NEW k \in 1 .. Len(n.deferred) - 1
        PROVE  ValidTransition(n.deferred[k].to, n.deferred[k + 1])
    <3>1. /\ k \in 1 .. Len(d) /\ k + 1 \in 1 .. Len(d)
          /\ k + 1 \in 1 .. Len(owner.deferred) - 1
      BY <1>5, <1>8, <2>4
    <3>2. ValidTransition(owner.deferred[k + 1].to, owner.deferred[k + 2])
      BY <2>1, <3>1 DEF Line
    <3>3. n.deferred[k] = owner.deferred[k + 1] /\ n.deferred[k + 1] = owner.deferred[k + 2]
      BY <1>5, <1>8, <3>1
    <3>4. QED BY <3>2, <3>3
  <2>5. ASSUME d # <<>> PROVE ValidTransition(n.receipts[Tip(n)].to, n.deferred[1])
    <3>1. 1 \in 1 .. Len(d) /\ 1 \in 1 .. Len(owner.deferred) - 1 BY <1>5, <2>5
    <3>2. ValidTransition(owner.deferred[1].to, owner.deferred[2]) BY <2>1, <3>1 DEF Line
    <3>3. n.deferred[1] = owner.deferred[2] BY <1>5, <1>8, <3>1
    <3>4. QED BY <1>7, <1>10, <3>2, <3>3
  <2>6. Line(n) BY <1>8, <2>3, <2>4, <2>5 DEF Line
  <2>7. Latest(n) = Latest(owner)
    <3>1. CASE d # <<>>
      <4>1. Len(d) \in 1 .. Len(d) /\ d[Len(d)] = owner.deferred[Len(owner.deferred)]
        BY <1>5, <3>1
      <4>2. QED BY <1>2, <1>8, <3>1, <4>1 DEF Latest
    <3>2. CASE d = <<>>
      <4>1. Len(owner.deferred) = 1 BY <1>5, <3>2
      <4>2. QED BY <1>2, <1>7, <1>8, <1>10, <3>2, <4>1 DEF Latest
    <3>3. QED BY <3>1, <3>2
  <2>8. QED BY <1>2, <1>8, <2>1, <2>6, <2>7 DEF Apt, Closing, Sole
<1>17. Records(n)
  BY <1>16, <1>2, <1>8, <1>11, <1>14, <1>15, ReadyIs
  DEF Records, Reaches, Room, Spare, Placed, Doing, Settles
<1>18. Owes(owner, n)
  <2> SUFFICES ASSUME NEW p, Due(owner, p) PROVE Due(n, p)
    BY DEF Owes
  <2>1. ASSUME NEW k \in 1 .. Tip(owner), p = Outcome(owner.receipts[k]) PROVE Due(n, p)
    <3>1. k \in 1 .. Tip(n) BY <1>3, <1>10, <2>1
    <3>2. QED BY <1>10, <2>1, <3>1 DEF Due
  <2>2. ASSUME NEW k \in 1 .. Len(owner.deferred), p = owner.deferred[k] PROVE Due(n, p)
    <3>1. CASE k = 1
      <4>1. i \in 1 .. Tip(n) BY <1>3, <1>10
      <4>2. QED BY <1>7, <1>10, <2>2, <3>1, <4>1 DEF Due
    <3>2. CASE k # 1
      <4>1. k - 1 \in 1 .. Len(d) /\ d[k - 1] = owner.deferred[k] BY <1>5, <2>2, <3>2
      <4>2. QED BY <1>8, <2>2, <4>1 DEF Due
    <3>3. QED BY <3>1, <3>2
  <2>3. QED BY <1>2, <1>8, <2>1, <2>2 DEF Due, NoOp
<1>19. Heeds(owner, n) BY <1>2, <1>8 DEF Heeds, Closed
<1>20. Alike(n, Send(n, i)) BY <1>8, SendAlike
<1> HIDE DEF i
<1>21. Tells(n, owner') BY <1>1, <1>17, <1>20, AlikeTells
<1>22. Tells(owner, owner') BY <1>18, <1>19, <1>21, RecordsThen
<1>23. QED BY <1>22, ReadyIs, TellsCarries

LEMMA OperationCarries ==
  ASSUME Ready, OperationFails \/ Activated \/ ReceiveAck \/ DrainFails
  PROVE  Carries(owner, owner')
<1>0. Wide /\ Able(owner) /\ Answers(owner) /\ Requests
  BY ReadyIs DEF OperationFails, Activated, ReceiveAck, DrainFails
<1>1. CASE OperationFails
  BY <1>0, <1>1, FailReceiptAble, TellsCarries DEF OperationFails, Handle
<1>2. CASE Activated
  <2> DEFINE n == [owner EXCEPT !.channel = "Enabled"]
             enable == FALSE
  <2>1. PICK e : owner' \in {FailReceipt(owner, e), Complete(n, enable, e)}
    BY <1>2 DEF Activated, Handle
  <2>2. owner.pending # NoOp /\ owner.pending.phase = "Activating"
    BY <1>2 DEF Activated, NoOp
  <2>3. Alike(owner, n) BY ReadyIs, FlagsAlike
  <2>4. Orderly(n) BY ReadyIs, ChannelEases, EasesOrderly
  <2> HIDE DEF n, enable
  <2>5. Able(n) /\ n.pending = owner.pending BY <1>0, <2>3, <2>4, AlikeAble DEF Alike, Entry
  <2>6. Caught(n) BY <2>2, <2>4, <2>5 DEF Caught, Orderly, Under
  <2>7. Tells(n, Complete(n, enable, e)) BY <1>0, <2>2, <2>5, <2>6, AbleIs, CompleteTells
  <2>8. Tells(owner, Complete(n, enable, e)) BY <2>3, <2>7, ReadyIs, AlikeThen
  <2>9. Tells(owner, FailReceipt(owner, e)) BY <1>0, FailReceiptAble
  <2>10. QED BY <1>0, <2>1, <2>8, <2>9, TellsCarries
<1>3. CASE ReceiveAck
  <2> DEFINE n == [owner EXCEPT !.acks = Tail(@)]
  <2>1. PICK e : owner' \in {n, Acknowledged(n, owner.acks[1], e)}
    BY <1>3 DEF ReceiveAck, Handle
  <2>2. Eases(owner, n) BY ReadyIs DEF Eases, Still, Typed, Fields, Tip, Gap
  <2>3. Alike(owner, n) BY ReadyIs, FlagsAlike
  <2> HIDE DEF n
  <2>4. Orderly(n) /\ n.offer = 0
    BY <1>3, <2>2, ReadyIs, EasesOrderly DEF ReceiveAck, Eases, Still
  <2>5. owner.acks[1] \in Nat \ {0}
    <3>1. owner.acks \in Seq(1 .. stored) /\ owner.acks # <<>> /\ stored \in Nat
      BY <1>3, ReadyIs DEF ReceiveAck, Heads
    <3>2. Len(owner.acks) \in Nat \ {0} BY <3>1, EmptySeq
    <3>3. 1 \in 1 .. Len(owner.acks) BY <3>2
    <3>4. owner.acks[1] \in 1 .. stored BY <3>1, <3>3, ElementOfSeq
    <3>5. QED BY <3>1, <3>4
  <2>6. Able(n) BY <1>0, <2>3, <2>4, AlikeAble
  <2>7. Tells(n, Acknowledged(n, owner.acks[1], e))
    BY <1>0, <2>4, <2>5, <2>6, AcknowledgedTells
  <2>8. Tells(owner, Acknowledged(n, owner.acks[1], e)) BY <2>3, <2>7, ReadyIs, AlikeThen
  <2>9. Tells(owner, n) BY <2>3, ReadyIs, AlikeTells
  <2>10. QED BY <1>0, <2>1, <2>8, <2>9, TellsCarries
<1>4. CASE DrainFails
  BY <1>0, <1>4, ReadyIs, FailDrainingAlike, AlikeCarries DEF DrainFails, Handle
<1>5. QED BY <1>1, <1>2, <1>3, <1>4

LEMMA ConnectionCarries ==
  ASSUME Ready, BrokerLost \/ BrokerGraceExpired \/ BrokerReconnected
  PROVE  Carries(owner, owner')
<1>0. Wide /\ Able(owner) /\ Answers(owner) /\ Requests
  BY ReadyIs DEF BrokerLost, BrokerGraceExpired, BrokerReconnected
<1>1. CASE BrokerLost
  <2>1. PICK e \in Luck : owner' = LoseBroker(owner, e) BY <1>1 DEF BrokerLost
  <2>2. QED BY <1>0, <2>1, LoseBrokerTells, TellsCarries
<1>2. CASE BrokerGraceExpired
  BY <1>0, <1>2, GraceExpiredTells, TellsCarries DEF BrokerGraceExpired, Handle
<1>3. CASE BrokerReconnected
  <2> DEFINE n == [owner EXCEPT !.offer = 0]
  <2>1. PICK e : owner' = Reconnected(n, owner.offer, e) /\ owner.offer # 0
    BY <1>3 DEF BrokerReconnected, Handle
  <2>2. /\ owner.conn \in {"Grace", "Disconnected"} /\ owner.offer >= owner.brokerHead
        /\ owner.resending = 0 /\ owner.draining = NoOp
    BY <1>3, <2>1, ReadyIs DEF BrokerReconnected, Live, Fit, Conns
  <2>3. /\ Typed(n) /\ n.receipts = owner.receipts /\ n.brokerHead = owner.brokerHead
        /\ n.pending = owner.pending /\ n.deferred = owner.deferred
        /\ n.resending = owner.resending /\ n.draining = owner.draining
        /\ n.wait = owner.wait /\ n.state = owner.state /\ n.queued = owner.queued
        /\ n.lost = owner.lost /\ n.offer = 0 /\ Tip(n) = Tip(owner)
    BY ReadyIs DEF Typed, Fields, Tip, Gap
  <2>4. Alike(owner, n) BY ReadyIs, FlagsAlike
  <2> HIDE DEF n
  <2>5. Conns(n) BY <2>2, <2>3 DEF Conns
  <2>6. Orderly(n) /\ Alone(n)
    <3>1. Orderly(owner) BY ReadyIs
    <3>2. QED BY <2>2, <2>3, <2>5, <3>1, ConnOrders DEF Alone
  <2>7. owner.offer \in n.brokerHead .. Tip(n)
    <3>1. owner.brokerHead \in Nat /\ owner.offer \in Nat BY ReadyIs DEF Typed
    <3>2. owner.offer <= stored /\ stored <= Tip(owner) /\ stored \in Nat
      BY ReadyIs DEF Heads
    <3>3. Tip(owner) \in Nat BY ReadyIs, Counts
    <3>4. QED BY <2>2, <2>3, <3>1, <3>2, <3>3
  <2>8. Able(n) BY <1>0, <2>4, <2>6, AlikeAble
  <2>9. Tells(n, owner') BY <1>0, <2>1, <2>6, <2>7, <2>8, ReconnectedTells
  <2>10. QED BY <1>0, <2>4, <2>9, ReadyIs, AlikeThen, TellsCarries
<1>4. QED BY <1>1, <1>2, <1>3

\* The controller is lost, and its loss is settled or not.
LEMMA ControllerCarries ==
  ASSUME Ready, ControllerDetached \/ ControllerLossSettled \/ ControllerLossUnsettled
  PROVE  Carries(owner, owner')
<1>0. Wide /\ Able(owner) /\ Answers(owner) /\ Requests
  BY ReadyIs DEF ControllerDetached, ControllerLossSettled, ControllerLossUnsettled
<1>1. CASE ControllerDetached
  <2>1. PICK e \in Luck : owner' = BeginControllerLoss(owner, e)
    BY <1>1 DEF ControllerDetached, Handle
  <2>2. "controller" \in Events BY <1>1 DEF ControllerDetached
  <2>3. QED BY <1>0, <2>1, <2>2, BeginControllerLossTells, TellsCarries
<1>2. CASE ControllerLossSettled
  <2> DEFINE n == [owner EXCEPT !.settling = FALSE]
  <2>1. PICK e \in Luck : owner' = BeginControllerLossDisposal(n, e)
    BY <1>2 DEF ControllerLossSettled, Handle
  <2>2. Alike(owner, n) BY ReadyIs, FlagsAlike
  <2>3. ~n.settling BY ReadyIs DEF Formed, Fields
  <2>4. owner.pending = NoOp /\ owner.state = "Parked" /\ owner.queued = "none"
    BY <1>2, ReadyIs DEF ControllerLossSettled, Records, Settles
  <2> HIDE DEF n
  <2>5. /\ Sized(n) /\ Records(n) /\ n.pending = NoOp /\ n.state = "Parked"
        /\ n.queued = "none" /\ ~n.quarantined
    BY <2>2, <2>4, ReadyIs, AlikeRecords, AlikeSized DEF Alike, Entry
  <2>6. Tells(n, BeginControllerLossDisposal(n, e))
    BY <2>3, <2>5, BeginControllerLossDisposalTells
  <2>7. QED BY <1>0, <2>1, <2>2, <2>6, ReadyIs, AlikeThen, TellsCarries
<1>3. CASE ControllerLossUnsettled
  <2> DEFINE n == [owner EXCEPT !.settling = FALSE, !.blocked = TRUE]
  <2>1. Plain(owner, n) /\ n.state = owner.state BY ReadyIs DEF Plain, Formed, Fields
  <2>2. owner' = n BY <1>3 DEF ControllerLossUnsettled, Handle
  <2> HIDE DEF n
  <2>3. QED BY <1>0, <2>1, <2>2, ReadyIs, PlainAlike, AlikeCarries
<1>4. QED BY <1>1, <1>2, <1>3

\* The agent ends, its relay is quiet, or a response is sent.
LEMMA EndCarries ==
  ASSUME Ready, RunningAgent \/ RelayQuiesced \/ ResponseSent \/ ResponseFails
  PROVE  Carries(owner, owner')
<1>0. Wide /\ Able(owner) /\ Answers(owner) /\ Requests
  BY ReadyIs DEF RunningAgent, RelayQuiesced, ResponseSent, ResponseFails
<1>1. CASE RunningAgent
  <2>1. PICK e \in Luck, f \in {"ok", "err"} : owner' = BeginTerminalEvent(owner, f, e)
    BY <1>1 DEF RunningAgent, Handle
  <2>2. Tells(owner, BeginTerminalEvent(owner, f, e)) BY ReadyIs, BeginTerminalEventTells
  <2>3. QED BY <1>0, <2>1, <2>2, TellsCarries
<1>2. CASE RelayQuiesced
  <2>1. PICK result \in {"closed", "broken"} :
          owner' = RequestFinish([owner EXCEPT !.relay = result, !.finishQuiet = "none"],
                                 owner.finishQuiet)
    BY <1>2 DEF RelayQuiesced, Handle
  <2> DEFINE n == [owner EXCEPT !.relay = result, !.finishQuiet = "none"]
  <2>2. owner' = RequestFinish(n, owner.finishQuiet) BY <2>1
  <2>3. /\ Same(owner, n) /\ n.finishQuiet = "none" /\ n.finishDrained = owner.finishDrained
        /\ n.finished = owner.finished /\ n.replies = owner.replies
        /\ n.failed = owner.failed /\ n.draining = owner.draining
    BY ReadyIs DEF Same, Formed, Fields
  <2> HIDE DEF n
  <2>4. Alike(owner, n) BY <2>3, LessAlike DEF OkIn
  <2>5. owner.finishQuiet = "ok" => Closed(n) /\ ~n.quarantined
    BY <2>3, ReadyIs DEF Filed, Oks, OkIn, Closed, Same
  <2>6. Alike(n, owner') BY <2>2, <2>3, <2>5, RequestFinishAlike DEF Same
  <2>7. QED BY <1>0, <2>4, <2>6, ReadyIs, AlikeTrans, AlikeCarries
<1>3. ASSUME NEW r \in owner.replies,
             NEW n, n = [owner EXCEPT !.replies = @ \ {r}]
      PROVE  /\ Alike(owner, n) /\ Formed(n) /\ n.quarantined = owner.quarantined
             /\ r.finish = "ok" => Closed(n) /\ ~n.quarantined
  <2>1. /\ Same(owner, n) /\ n.finishQuiet = owner.finishQuiet
        /\ n.finishDrained = owner.finishDrained
        /\ n.finished = owner.finished /\ n.replies \subseteq owner.replies
        /\ n.failed = owner.failed /\ n.draining = owner.draining
    BY <1>3, ReadyIs DEF Same, Formed, Fields
  <2>2. Alike(owner, n) BY <2>1, LessAlike DEF OkIn
  <2>3. r.finish = "ok" => Closed(n) /\ ~n.quarantined
    BY <1>3, <2>1, ReadyIs DEF Filed, Oks, OkIn, Closed, Same
  <2>4. QED BY <2>1, <2>2, <2>3 DEF Same
<1>4. CASE ResponseSent
  <2> DEFINE n(r) == [owner EXCEPT !.replies = @ \ {r}]
  <2>1. PICK r \in owner.replies :
          \/ owner' = n(r)
          \/ owner' = RequestFinish(n(r), r.finish)
          \/ owner' = RequestFinish(n(r), "ok") /\ r.finish = "ok"
    BY <1>4 DEF ResponseSent, Handle
  <2>2. /\ Alike(owner, n(r)) /\ Formed(n(r))
        /\ r.finish = "ok" => Closed(n(r)) /\ ~n(r).quarantined
    BY <1>3
  <2> HIDE DEF n
  <2>3. owner' # n(r) => Alike(n(r), owner') BY <2>1, <2>2, RequestFinishAlike
  <2>4. Alike(owner, owner') BY <2>2, <2>3, AlikeTrans
  <2>5. QED BY <1>0, <2>4, ReadyIs, AlikeCarries
<1>5. CASE ResponseFails
  <2> DEFINE n(r) == [owner EXCEPT !.replies = @ \ {r}]
  <2>1. PICK r \in owner.replies, e \in Luck : owner' \in {n(r), LoseBroker(n(r), e)}
    BY <1>5 DEF ResponseFails, Handle
  <2>2. Eases(owner, n(r)) BY ReadyIs DEF Eases, Still, Typed, Fields, Tip, Gap
  <2>3. Alike(owner, n(r)) BY <1>3
  <2> HIDE DEF n
  <2>4. Orderly(n(r)) BY <2>2, ReadyIs, EasesOrderly
  <2>5. Able(n(r)) BY <1>0, <2>3, <2>4, AlikeAble
  <2>6. Tells(n(r), LoseBroker(n(r), e)) BY <1>0, <2>5, LoseBrokerTells
  <2>7. Tells(owner, n(r)) /\ Tells(owner, LoseBroker(n(r), e))
    BY <2>3, <2>6, ReadyIs, AlikeTells, AlikeThen
  <2>8. QED BY <1>0, <2>1, <2>7, TellsCarries
<1>6. QED BY <1>1, <1>2, <1>4, <1>5

\* Conformance is lost or confirmed, or the authority of the key withdrawn.
LEMMA AuthorityCarries ==
  ASSUME Ready, ConformanceLost \/ ConformanceConfirmed \/ KeyWithdrawn \/ WithdrawnEnds
  PROVE  Carries(owner, owner')
<1>0. Wide /\ Answers(owner) /\ Requests BY ReadyIs
<1>1. CASE ConformanceLost
  <2>1. PICK e \in Luck, c \in BOOLEAN : owner' = CancelWait(SuspendConformance(owner, c, e))
    BY <1>1 DEF ConformanceLost, Handle
  <2>2. Able(owner) BY <1>1, ReadyIs DEF ConformanceLost, Watched
  <2> DEFINE s == SuspendConformance(owner, c, e)
  <2>3. Tells(owner, s) BY <1>0, <2>2, SuspendConformanceTells
  <2>4. Orderly(s) BY ReadyIs, SuspendConformanceOrders
  <2> HIDE DEF s
  <2>5. Formed(s) BY <2>4, OrderlyTyped DEF Typed, Formed
  <2>6. Tells(owner, CancelWait(s)) BY <2>3, <2>5, CancelWaitAlike, ThenAlike
  <2>7. QED BY <1>0, <2>1, <2>6, TellsCarries DEF s
<1>2. CASE ConformanceConfirmed
  <2> DEFINE n == [owner EXCEPT !.wait = NoOp, !.suspended = FALSE]
             w == owner.wait
  <2>1. owner' \in {CancelWait(owner), BeginResume(n, w)} /\ w # NoOp
    BY <1>2 DEF ConformanceConfirmed, Handle
  <2>2. /\ owner.state = "Parked" /\ owner.pending = NoOp /\ ~owner.lost
        /\ owner.queued = "none"
    BY <1>2, ReadyIs DEF ConformanceConfirmed, Watched, Fit, Waits
  <2>3. ~owner.settling /\ ~owner.withdrawn /\ ~Backlog(owner)
    BY <1>2, <2>1, <2>2, ReadyIs DEF Typed, ConformanceConfirmed, Watched, Live, Fit, Waits
  <2>4. w \in asked /\ w.act = "Resume" /\ w.act \in Actions
    BY <2>1, ReadyIs DEF Answers, Requests
  <2>5. /\ Same(owner, n) /\ n.finishQuiet = owner.finishQuiet
        /\ n.finishDrained = owner.finishDrained
        /\ n.finished = owner.finished /\ n.replies = owner.replies
        /\ n.failed = owner.failed /\ n.draining = owner.draining
    BY ReadyIs DEF Same, Formed, Fields
  <2> HIDE DEF n
  <2>6. Alike(owner, n) BY <2>5, LessAlike DEF OkIn
  <2>7. Records(n) /\ Owes(owner, n) /\ Heeds(owner, n) /\ Sized(n) /\ Formed(n)
    BY <2>6, ReadyIs, AlikeRecords, AlikeSized, AlikeFormed
  <2>8. Answers(n) BY <1>0, <2>7, HeedsAnswers
  <2>9. /\ n.state = "Parked" /\ n.pending = NoOp /\ n.queued = "none" /\ ~n.settling
        /\ ~n.withdrawn /\ ~Backlog(n)
    BY <2>2, <2>3, <2>5 DEF Same, Backlog, Tip
  <2> HIDE DEF w
  <2>10. Records(BeginResume(n, w)) /\ Owes(n, BeginResume(n, w))
    BY <2>4, <2>7, <2>9, BeginResumeTells
  <2>11. Answers(BeginResume(n, w)) BY <2>4, <2>7, <2>8, <2>9, ApplyingAnswers DEF BeginResume
  <2>12. Carries(owner, BeginResume(n, w)) BY <2>7, <2>10, <2>11, OwesTrans DEF Carries
  <2>13. Carries(owner, CancelWait(owner)) BY <1>0, ReadyIs, CancelWaitAlike, AlikeCarries
  <2>14. QED BY <2>1, <2>12, <2>13
<1>3. CASE KeyWithdrawn
  <2>1. PICK e \in Luck : owner' = WithdrawKeyAuthority(owner, e)
    BY <1>3 DEF KeyWithdrawn, Handle
  <2>2. Able(owner) BY <1>3, ReadyIs DEF KeyWithdrawn
  <2>3. QED BY <1>0, <2>1, <2>2, WithdrawKeyAuthorityTells, TellsCarries
<1>4. CASE WithdrawnEnds
  <2>1. PICK e \in Luck : owner' = [Terminate(owner, e) EXCEPT !.finished = "err"]
    BY <1>4 DEF WithdrawnEnds, Handle
  <2> DEFINE n == Terminate(owner, e)
  <2>2. Alike(owner, n) BY ReadyIs, TerminateAlike
  <2> HIDE DEF n
  <2>3. Formed(n) BY <2>2, AlikeFormed
  <2>4. owner' = [n EXCEPT !.finished = "err"] BY <2>1 DEF n
  <2>5. Plain(n, owner') /\ owner'.state = n.state BY <2>3, <2>4 DEF Plain, Formed, Fields
  <2>6. Alike(n, owner') BY <2>5, PlainAlike
  <2>7. Alike(owner, owner') BY <2>2, <2>6, AlikeTrans
  <2>8. QED BY <1>0, <2>7, ReadyIs, AlikeCarries
<1>5. QED BY <1>1, <1>2, <1>3, <1>4

LEMMA BrokerCarries ==
  ASSUME Ready, BrokerStores \/ BrokerRefuses \/ ChannelBreaks \/ BrokerAnswers
  PROVE  Carries(owner, owner')
<1>1. ASSUME NEW w, NEW a, owner' = [owner EXCEPT !.wire = w, !.acks = a]
      PROVE  Alike(owner, owner')
  <2>1. Plain(owner, owner') /\ owner'.state = owner.state
    BY <1>1, ReadyIs DEF Plain, Formed, Fields
  <2>2. QED BY <2>1, PlainAlike
<1>2. ASSUME NEW w, owner' = [owner EXCEPT !.wire = w] PROVE Alike(owner, owner')
  BY <1>2, ReadyIs, FlagsAlike
<1>3. CASE BrokerStores
  <2>1. PICK a : owner' = [owner EXCEPT !.wire = Tail(owner.wire), !.acks = a]
    BY <1>3, ReadyIs DEF BrokerStores, Formed, Fields
  <2>2. QED BY <1>1, <2>1, ReadyIs, AlikeCarries
<1>4. CASE BrokerRefuses BY <1>2, <1>4, ReadyIs, AlikeCarries DEF BrokerRefuses
<1>5. CASE ChannelBreaks BY <1>2, <1>5, ReadyIs, AlikeCarries DEF ChannelBreaks
<1>6. CASE BrokerAnswers
  <2> DEFINE n == [owner EXCEPT !.offer = stored, !.wire = <<>>, !.acks = <<>>]
  <2>1. owner' \in {owner, n} BY <1>6 DEF BrokerAnswers
  <2>2. Plain(owner, n) /\ n.state = owner.state BY ReadyIs DEF Plain, Formed, Fields
  <2> HIDE DEF n
  <2>3. Alike(owner, n) /\ Alike(owner, owner) BY <2>2, ReadyIs, PlainAlike, AlikeSelf
  <2>4. QED BY <2>1, <2>3, ReadyIs, AlikeCarries
<1>7. QED BY <1>3, <1>4, <1>5, <1>6

\* Whatever happens, evidence that is not given up is kept and stays in order.
LEMMA StepTells ==
  ASSUME Wide, OwnerInvariant, Recorded, [Next]_vars
  PROVE  Recorded' /\ (owner'.quarantined \/ Owes(owner, owner'))
<1>1. CASE Ask
  <2>1. Answers(owner) \/ owner.quarantined BY DEF Recorded
  <2>2. Requests' /\ (owner.quarantined \/ Answers(owner)')
    BY <1>1, <2>1, AskKeeps DEF Recorded
  <2>3. owner' = owner BY <1>1 DEF Ask
  <2>4. Records(owner) => Records(owner)' BY <2>3
    DEF Records, Filed, Deed, Oks, Forms, Reaches, LastTo, Room, Spare, Placed, Settles,
        Gap, Tip, Backlog, Closed, OkIn, Doing, Lax, Legal, Line, Latest, Apt, Closing, Sole,
        Strict, Steady
  <2>5. QED BY <2>2, <2>3, <2>4 DEF Recorded, Owes
<1>2. ASSUME ~Ask PROVE asked' = asked
  BY <1>2
  DEF Next, Requested, Repeat, RejectFull, Park, Interrupt, Dispose, Resume, Prepared,
      Signed, OperationFails, Activated, ReceiveAck, DrainSigned, DrainFails, BrokerLost,
      BrokerGraceExpired, BrokerReconnected, ControllerDetached, ControllerLossSettled,
      ControllerLossUnsettled, RunningAgent, RelayQuiesced, ResponseSent, ResponseFails,
      ConformanceLost, ConformanceConfirmed, KeyWithdrawn, WithdrawnEnds, BrokerStores,
      BrokerRefuses, ChannelBreaks, BrokerAnswers, Handle, Outside, vars
<1>3. ASSUME ~Ask, Carries(owner, owner')
      PROVE  Recorded' /\ (owner'.quarantined \/ Owes(owner, owner'))
  <2>1. asked' = asked BY <1>2, <1>3
  <2>2. Requests' BY <2>1 DEF Recorded, Requests
  <2>3. Answers(owner') => Answers(owner)' BY <2>1 DEF Answers, Closed
  <2>4. Records(owner') => Records(owner)'
    BY DEF Records, Filed, Deed, Oks, Forms, Reaches, LastTo, Room, Spare, Placed, Settles,
           Gap, Tip, Backlog, Closed, OkIn, Doing, Lax, Legal, Line, Latest, Apt, Closing, Sole,
        Strict, Steady
  <2>5. QED BY <1>3, <2>2, <2>3, <2>4 DEF Carries, Recorded
<1>4. CASE ~Ask /\ owner.quarantined
  <2>1. owner'.quarantined BY <1>4, StepFollows DEF OwnerInvariant, Extends
  <2>2. QED BY <1>3, <1>4, <2>1 DEF Carries
<1>5. CASE ~Ask /\ ~owner.quarantined
  <2>1. Ready BY <1>5 DEF Ready, Recorded
  <2>2. CASE \E q \in asked : Requested(q) BY <1>3, <1>5, <2>1, <2>2, RequestedCarries
  <2>3. CASE UNCHANGED vars
    <3>1. owner' = owner BY <2>3 DEF vars
    <3>2. Alike(owner, owner) BY <2>1, ReadyIs, AlikeSelf
    <3>3. QED BY <1>3, <1>5, <2>1, <3>1, <3>2, ReadyIs, AlikeCarries
  <2>4. CASE \/ Prepared \/ Signed \/ OperationFails \/ Activated \/ ReceiveAck
             \/ DrainSigned \/ DrainFails
    BY <1>3, <1>5, <2>1, <2>4, PreparedCarries, SignedCarries, DrainSignedCarries,
       OperationCarries
  <2>5. CASE BrokerLost \/ BrokerGraceExpired \/ BrokerReconnected
    BY <1>3, <1>5, <2>1, <2>5, ConnectionCarries
  <2>6. CASE ControllerDetached \/ ControllerLossSettled \/ ControllerLossUnsettled
    BY <1>3, <1>5, <2>1, <2>6, ControllerCarries
  <2>7. CASE RunningAgent \/ RelayQuiesced \/ ResponseSent \/ ResponseFails
    BY <1>3, <1>5, <2>1, <2>7, EndCarries
  <2>8. CASE ConformanceLost \/ ConformanceConfirmed \/ KeyWithdrawn \/ WithdrawnEnds
    BY <1>3, <1>5, <2>1, <2>8, AuthorityCarries
  <2>9. CASE BrokerStores \/ BrokerRefuses \/ ChannelBreaks \/ BrokerAnswers
    BY <1>3, <1>5, <2>1, <2>9, BrokerCarries
  <2>10. QED BY <1>5, <2>2, <2>3, <2>4, <2>5, <2>6, <2>7, <2>8, <2>9 DEF Next
<1>6. QED BY <1>1, <1>4, <1>5
-----------------------------------------------------------------------------
(* The evidence as one sequence *)

Has(s, p) == \E i \in 1 .. Len(s) : p = s[i]

LEMMA ConcatHas ==
  ASSUME NEW a, NEW b, Sequence(a), Sequence(b)
  PROVE  /\ Sequence(a \o b) /\ Len(a) \in Nat /\ Len(b) \in Nat
         /\ Len(a \o b) = Len(a) + Len(b)
         /\ \A p : Has(a \o b, p) <=> Has(a, p) \/ Has(b, p)
         /\ Len(b) # 0 => (a \o b)[Len(a \o b)] = b[Len(b)]
         /\ Len(b) = 0 /\ Len(a) # 0 => (a \o b)[Len(a \o b)] = a[Len(a)]
<1>1. PICK A, B : a \in Seq(A) /\ b \in Seq(B) BY DEF Sequence
<1>2. a \in Seq(A \union B) /\ b \in Seq(A \union B) BY <1>1, SeqMonotonic
<1>3. /\ a \o b \in Seq(A \union B) /\ Len(a \o b) = Len(a) + Len(b)
      /\ \A i \in 1 .. Len(a) + Len(b) :
            (a \o b)[i] = IF i <= Len(a) THEN a[i] ELSE b[i - Len(a)]
  BY <1>2, ConcatProperties
<1>4. Len(a) \in Nat /\ Len(b) \in Nat BY <1>1, LenProperties
<1> DEFINE c == a \o b
           k == Len(a)
           m == Len(b)
<1>5. /\ Len(c) = k + m /\ k \in Nat /\ m \in Nat
      /\ \A i \in 1 .. k + m : c[i] = IF i <= k THEN a[i] ELSE b[i - k]
  BY <1>3, <1>4
<1>6. Sequence(c) BY <1>3 DEF Sequence
<1> HIDE DEF c
<1>7. ASSUME NEW p PROVE Has(c, p) <=> Has(a, p) \/ Has(b, p)
  <2>1. ASSUME NEW i \in 1 .. k, p = a[i] PROVE Has(c, p)
    <3>1. i \in 1 .. Len(c) /\ c[i] = a[i] BY <1>5
    <3>2. QED BY <2>1, <3>1 DEF Has
  <2>2. ASSUME NEW i \in 1 .. m, p = b[i] PROVE Has(c, p)
    <3>1. k + i \in 1 .. Len(c) /\ ~(k + i <= k) /\ (k + i) - k = i BY <1>5
    <3>2. c[k + i] = b[i] BY <1>5, <3>1
    <3>3. QED BY <2>2, <3>1, <3>2 DEF Has
  <2>3. ASSUME NEW i \in 1 .. Len(c), p = c[i] PROVE Has(a, p) \/ Has(b, p)
    <3>1. CASE i <= k
      <4>1. i \in 1 .. k /\ c[i] = a[i] BY <1>5, <3>1
      <4>2. QED BY <2>3, <4>1 DEF Has
    <3>2. CASE ~(i <= k)
      <4>1. i - k \in 1 .. m /\ c[i] = b[i - k] BY <1>5, <3>2
      <4>2. QED BY <2>3, <4>1 DEF Has
    <3>3. QED BY <3>1, <3>2
  <2>4. QED BY <2>1, <2>2, <2>3 DEF Has
<1>8. m # 0 => c[Len(c)] = b[m] BY <1>5
<1>9. m = 0 /\ k # 0 => c[Len(c)] = a[k] BY <1>5
<1>10. QED BY <1>5, <1>6, <1>7, <1>8, <1>9 DEF c

LEMMA EmptyHas ==
  /\ Sequence(<<>>) /\ Len(<<>>) = 0 /\ \A p : ~Has(<<>>, p)
  /\ \A x : Sequence(<<x>>) /\ Len(<<x>>) = 1 /\ <<x>>[1] = x /\ \A p : Has(<<x>>, p) <=> p = x
<1>1. Sequence(<<>>) /\ Len(<<>>) = 0 BY EmptySeq DEF Sequence
<1>2. \A p : ~Has(<<>>, p) BY <1>1 DEF Has
<1>3. ASSUME NEW x
      PROVE  /\ Sequence(<<x>>) /\ Len(<<x>>) = 1 /\ <<x>>[1] = x
             /\ \A p : Has(<<x>>, p) <=> p = x
  <2>1. <<x>> \in Seq({x}) /\ Len(<<x>>) = 1 /\ <<x>>[1] = x OBVIOUS
  <2>2. ASSUME NEW p PROVE Has(<<x>>, p) <=> p = x
    <3>1. 1 \in 1 .. Len(<<x>>) /\ \A i \in 1 .. Len(<<x>>) : i = 1 BY <2>1
    <3>2. QED BY <2>1, <3>1 DEF Has
  <2>3. QED BY <2>1, <2>2 DEF Sequence
<1>4. QED BY <1>1, <1>2, <1>3

\* The parts the evidence is made of: what is signed, what is being signed, what
\* is owed (the owner's deferred payloads) and the end that is queued.
Receipted(o) == [i \in 1 .. Tip(o) |-> Outcome(o.receipts[i])]
InSigning(o) == IF o.pending.phase = "Signing" THEN <<o.pending.pay>> ELSE <<>>
EndOwed(o) == IF o.queued # "none" THEN <<End>> ELSE <<>>

LEMMA EvidenceParts ==
  ASSUME NEW o, Typed(o)
  PROVE  /\ Evidence(o) = ((Receipted(o) \o InSigning(o)) \o o.deferred) \o EndOwed(o)
         /\ Tip(o) \in Nat \ {0} /\ Sequence(o.deferred)
         /\ (o.deferred = <<>> <=> Len(o.deferred) = 0)
         /\ Sequence(Receipted(o)) /\ Len(Receipted(o)) = Tip(o)
         /\ \A i \in 1 .. Tip(o) : Receipted(o)[i] = Outcome(o.receipts[i])
         /\ Sequence(InSigning(o))
         /\ o.pending.phase = "Signing" => Len(InSigning(o)) = 1 /\ InSigning(o)[1] = o.pending.pay
         /\ o.pending.phase # "Signing" => Len(InSigning(o)) = 0
         /\ \A p : Has(InSigning(o), p) <=> o.pending.phase = "Signing" /\ p = o.pending.pay
         /\ Sequence(EndOwed(o))
         /\ o.queued # "none" => Len(EndOwed(o)) = 1 /\ EndOwed(o)[1] = End
         /\ o.queued = "none" => Len(EndOwed(o)) = 0
         /\ \A p : Has(EndOwed(o), p) <=> o.queued # "none" /\ p = End
<1>1. Evidence(o) = ((Receipted(o) \o InSigning(o)) \o o.deferred) \o EndOwed(o)
  BY DEF Evidence, Receipted, InSigning, EndOwed, End
<1>2. Tip(o) \in Nat \ {0} /\ Sequence(o.deferred)
      /\ (o.deferred = <<>> <=> Len(o.deferred) = 0)
  <2>1. Tip(o) \in Nat BY Counts
  <2>2. QED BY <2>1, Counts DEF Typed
<1>3. Sequence(Receipted(o)) /\ Len(Receipted(o)) = Tip(o)
  <2> DEFINE done == Receipted(o)
             R == {Outcome(o.receipts[i]) : i \in 1 .. Tip(o)}
             k == Tip(o)
  <2>1. done \in [1 .. k -> R] /\ k \in Nat BY <1>2 DEF Receipted
  <2>2. done \in Seq(R)
    <3> HIDE DEF done, R, k
    <3>1. [1 .. k -> R] \in {[1 .. j -> R] : j \in Nat} BY <2>1
    <3>2. QED BY <2>1, <3>1, SeqDef
  <2>3. Len(done) \in Nat /\ DOMAIN done = 1 .. Len(done) BY <2>2, LenProperties
  <2>4. DOMAIN done = 1 .. Tip(o) BY DEF Receipted
  <2> HIDE DEF done
  <2>5. Len(done) = Tip(o) BY <1>2, <2>3, <2>4
  <2>6. QED BY <2>2, <2>5 DEF Sequence, done
<1>4. \A i \in 1 .. Tip(o) : Receipted(o)[i] = Outcome(o.receipts[i]) BY DEF Receipted
<1>5. /\ Sequence(InSigning(o))
      /\ o.pending.phase = "Signing" => Len(InSigning(o)) = 1 /\ InSigning(o)[1] = o.pending.pay
      /\ o.pending.phase # "Signing" => Len(InSigning(o)) = 0
      /\ \A p : Has(InSigning(o), p) <=> o.pending.phase = "Signing" /\ p = o.pending.pay
  BY EmptyHas DEF InSigning
<1>6. /\ Sequence(EndOwed(o))
      /\ o.queued # "none" => Len(EndOwed(o)) = 1 /\ EndOwed(o)[1] = End
      /\ o.queued = "none" => Len(EndOwed(o)) = 0
      /\ \A p : Has(EndOwed(o), p) <=> o.queued # "none" /\ p = End
  BY EmptyHas DEF EndOwed
<1>7. QED BY <1>1, <1>2, <1>3, <1>4, <1>5, <1>6

\* The evidence contains what is due, and its last element is the last of it.
LEMMA EvidenceIs ==
  ASSUME NEW o, Typed(o)
  PROVE  /\ \A p : p \in Owed(o) <=> Due(o, p)
         /\ Evidence(o)[Len(Evidence(o))].to = LastTo(o)
<1> DEFINE done == Receipted(o)
           now == InSigning(o)
           last == EndOwed(o)
           due == o.deferred
           a == done \o now
           b == a \o due
           c == b \o last
<1>1. Evidence(o) = c BY EvidenceParts
<1>2. Tip(o) \in Nat \ {0} /\ Sequence(o.deferred)
      /\ (o.deferred = <<>> <=> Len(o.deferred) = 0)
  BY EvidenceParts
<1>3. Sequence(done) /\ Len(done) = Tip(o) BY EvidenceParts
<1>4. \A i \in 1 .. Tip(o) : done[i] = Outcome(o.receipts[i]) BY EvidenceParts
<1>5. /\ Sequence(now)
      /\ o.pending.phase = "Signing" => Len(now) = 1 /\ now[1] = o.pending.pay
      /\ o.pending.phase # "Signing" => Len(now) = 0
      /\ \A p : Has(now, p) <=> o.pending.phase = "Signing" /\ p = o.pending.pay
  BY EvidenceParts
<1>6. /\ Sequence(last)
      /\ o.queued # "none" => Len(last) = 1 /\ last[1] = End
      /\ o.queued = "none" => Len(last) = 0
      /\ \A p : Has(last, p) <=> o.queued # "none" /\ p = End
  BY EvidenceParts
<1>7. Sequence(due) /\ due = o.deferred BY <1>2
<1> HIDE DEF done, now, last, due
<1>8. /\ Sequence(a) /\ Len(a) = Len(done) + Len(now) /\ Len(now) \in Nat
      /\ \A p : Has(a, p) <=> Has(done, p) \/ Has(now, p)
      /\ Len(now) # 0 => a[Len(a)] = now[Len(now)]
      /\ Len(now) = 0 /\ Len(done) # 0 => a[Len(a)] = done[Len(done)]
  BY <1>3, <1>5, ConcatHas
<1> HIDE DEF a
<1>9. /\ Sequence(b) /\ Len(b) = Len(a) + Len(due) /\ Len(due) \in Nat
      /\ \A p : Has(b, p) <=> Has(a, p) \/ Has(due, p)
      /\ Len(due) # 0 => b[Len(b)] = due[Len(due)]
      /\ Len(due) = 0 /\ Len(a) # 0 => b[Len(b)] = a[Len(a)]
  <2>1. Sequence(a) BY <1>8
  <2>2. QED BY <1>7, <2>1, ConcatHas
<1> HIDE DEF b
<1>10. /\ Sequence(c) /\ Len(c) = Len(b) + Len(last)
       /\ \A p : Has(c, p) <=> Has(b, p) \/ Has(last, p)
       /\ Len(last) # 0 => c[Len(c)] = last[Len(last)]
       /\ Len(last) = 0 /\ Len(b) # 0 => c[Len(c)] = b[Len(b)]
  BY <1>6, <1>9, ConcatHas
<1> HIDE DEF c
<1>11. c[Len(c)].to = LastTo(o)
  <2>1. End.to = "Terminal" BY DEF End, Payload
  <2>2. done[Tip(o)].to = o.receipts[Tip(o)].to
    <3>1. Tip(o) \in 1 .. Tip(o) BY <1>2
    <3>2. done[Tip(o)] = Outcome(o.receipts[Tip(o)]) BY <1>4, <3>1
    <3>3. QED BY <3>2 DEF Outcome, Payload
  <2>3. CASE o.queued # "none"
    <3>1. c[Len(c)] = End BY <1>6, <1>10, <2>3
    <3>2. QED BY <2>1, <2>3, <3>1 DEF LastTo
  <2>4. CASE o.queued = "none"
    <3>1. Len(a) \in Nat \ {0} BY <1>2, <1>3, <1>8
    <3>2. Len(b) \in Nat \ {0} BY <1>9, <3>1
    <3>3. c[Len(c)] = b[Len(b)] BY <1>6, <1>10, <2>4, <3>2
    <3>4. CASE o.deferred # <<>>
      <4>1. c[Len(c)] = o.deferred[Len(o.deferred)] BY <1>2, <1>7, <1>9, <3>3, <3>4
      <4>2. QED BY <2>4, <3>4, <4>1 DEF LastTo
    <3>5. CASE o.deferred = <<>>
      <4>1. c[Len(c)] = a[Len(a)] BY <1>2, <1>7, <1>9, <3>1, <3>3, <3>5
      <4>2. CASE o.pending.phase = "Signing"
        <5>0. Len(now) = 1 /\ now[1] = o.pending.pay BY <1>5, <4>2
        <5>1. a[Len(a)] = o.pending.pay BY <1>8, <5>0
        <5>2. QED BY <2>4, <3>5, <4>1, <4>2, <5>1 DEF LastTo
      <4>3. CASE o.pending.phase # "Signing"
        <5>1. a[Len(a)] = done[Tip(o)] BY <1>2, <1>3, <1>5, <1>8, <4>3
        <5>2. QED BY <2>2, <2>4, <3>5, <4>1, <4>3, <5>1 DEF LastTo
      <4>4. QED BY <4>2, <4>3
    <3>6. QED BY <3>4, <3>5
  <2>5. QED BY <2>3, <2>4
<1>12. ASSUME NEW p PROVE p \in Owed(o) <=> Due(o, p)
  <2>1. DOMAIN c = 1 .. Len(c)
    <3>1. PICK S : c \in Seq(S) BY <1>10 DEF Sequence
    <3>2. QED BY <3>1, LenProperties
  <2>2. Owed(o) = {c[i] : i \in 1 .. Len(c)} BY <1>1, <2>1 DEF Owed, ToSet
  <2>3. p \in Owed(o) <=> Has(c, p) BY <2>2 DEF Has
  <2>4. Has(done, p) <=> \E i \in 1 .. Tip(o) : p = Outcome(o.receipts[i])
    BY <1>3, <1>4 DEF Has
  <2>5. Has(c, p) <=> \/ \E i \in 1 .. Tip(o) : p = Outcome(o.receipts[i])
                      \/ o.pending.phase = "Signing" /\ p = o.pending.pay
                      \/ Has(due, p)
                      \/ o.queued # "none" /\ p = End
    BY <1>5, <1>6, <1>8, <1>9, <1>10, <2>4
  <2>6. QED BY <1>7, <2>3, <2>5 DEF Has, Due
<1>13. QED BY <1>1, <1>11, <1>12
\* Each element of the sequence may follow the one before it.
Chained(s) == \A i \in 1 .. Len(s) - 1 : ValidTransition(s[i].to, s[i + 1])

LEMMA ConcatChained ==
  ASSUME NEW a, NEW b, Sequence(a), Sequence(b), Chained(a), Chained(b),
         Len(a) # 0 /\ Len(b) # 0 => ValidTransition(a[Len(a)].to, b[1])
  PROVE  Chained(a \o b)
<1>1. PICK A, B : a \in Seq(A) /\ b \in Seq(B) BY DEF Sequence
<1>2. a \in Seq(A \union B) /\ b \in Seq(A \union B) BY <1>1, SeqMonotonic
<1> DEFINE c == a \o b
           k == Len(a)
           m == Len(b)
<1>3. /\ Len(c) = k + m
      /\ \A i \in 1 .. k + m : c[i] = IF i <= k THEN a[i] ELSE b[i - k]
  BY <1>2, ConcatProperties
<1>4. k \in Nat /\ m \in Nat BY <1>1, LenProperties
<1> HIDE DEF c
<1>5. ASSUME NEW i \in 1 .. Len(c) - 1 PROVE ValidTransition(c[i].to, c[i + 1])
  <2>1. i \in 1 .. k + m /\ i + 1 \in 1 .. k + m BY <1>3, <1>4
  <2>2. CASE i + 1 <= k
    <3>1. i \in 1 .. k - 1 /\ i <= k BY <1>4, <2>1, <2>2
    <3>2. c[i] = a[i] /\ c[i + 1] = a[i + 1] BY <1>3, <2>1, <2>2, <3>1
    <3>3. QED BY <3>1, <3>2 DEF Chained
  <2>3. CASE i = k
    <3>1. k # 0 /\ m # 0 /\ ~(i + 1 <= k) /\ (i + 1) - k = 1 /\ i <= k
      BY <1>4, <2>1, <2>3
    <3>2. c[i] = a[k] /\ c[i + 1] = b[1] BY <1>3, <2>1, <2>3, <3>1
    <3>3. QED BY <3>1, <3>2
  <2>4. CASE i > k
    <3>1. i - k \in 1 .. m - 1 /\ ~(i <= k) /\ ~(i + 1 <= k)
          /\ (i + 1) - k = (i - k) + 1
      BY <1>3, <1>4, <2>1, <2>4
    <3>2. c[i] = b[i - k] /\ c[i + 1] = b[(i - k) + 1] BY <1>3, <2>1, <3>1
    <3>3. QED BY <3>1, <3>2 DEF Chained
  <2>5. QED BY <1>4, <2>1, <2>2, <2>3, <2>4
<1>6. Chained(c) BY <1>5 DEF Chained
<1>7. QED BY <1>6 DEF c

\* What is linked in its parts is linked as a whole.
LEMMA EvidenceChained ==
  ASSUME NEW o, Typed(o), Filed(o), Line(o), Apt(o), Closing(o), Sole(o)
  PROVE  Chained(Evidence(o))
<1> DEFINE done == Receipted(o)
           now == InSigning(o)
           last == EndOwed(o)
           due == o.deferred
           a == done \o now
           b == a \o due
           c == b \o last
           tip == o.receipts[Tip(o)]
<1>1. Evidence(o) = c BY EvidenceParts
<1>2. Tip(o) \in Nat \ {0} /\ Sequence(due) /\ (o.deferred = <<>> <=> Len(due) = 0)
      /\ Len(due) \in Nat
  BY EvidenceParts, Counts
<1>3. Sequence(done) /\ Len(done) = Tip(o) BY EvidenceParts
<1>4. \A i \in 1 .. Tip(o) : done[i].to = o.receipts[i].to /\ done[i].kind = o.receipts[i].kind
  <2> HIDE DEF done
  <2> SUFFICES ASSUME NEW i \in 1 .. Tip(o)
               PROVE  done[i].to = o.receipts[i].to /\ done[i].kind = o.receipts[i].kind
    OBVIOUS
  <2>1. done[i] = Outcome(o.receipts[i]) BY EvidenceParts DEF done
  <2>2. QED BY <2>1 DEF Outcome, Payload
<1>5. /\ Sequence(now)
      /\ o.pending.phase = "Signing" => Len(now) = 1 /\ now[1] = o.pending.pay
      /\ o.pending.phase # "Signing" => Len(now) = 0
  BY EvidenceParts
<1>6. /\ Sequence(last)
      /\ o.queued # "none" => Len(last) = 1 /\ last[1] = End
      /\ o.queued = "none" => Len(last) = 0
  BY EvidenceParts
<1>7. o.pending.phase = "Signing" =>
        /\ o.pending # NoOp /\ o.pending.index = 0 /\ o.deferred = <<>>
        /\ ValidTransition(tip.to, o.pending.pay)
  <2>1. ASSUME o.pending.phase = "Signing" PROVE o.pending # NoOp BY <2>1 DEF NoOp
  <2>2. ASSUME o.pending.phase = "Signing" PROVE o.pending.index = 0
    BY <2>1, <2>2 DEF Filed, Deed
  <2>3. QED BY <2>1, <2>2 DEF Apt, Sole, Latest
<1> HIDE DEF done, now, last
<1>8. Chained(done)
  <2> SUFFICES ASSUME NEW i \in 1 .. Tip(o) - 1
               PROVE  ValidTransition(done[i].to, done[i + 1])
    BY <1>3 DEF Chained
  <2>1. i \in 1 .. Tip(o) /\ i + 1 \in 1 .. Tip(o) BY <1>2
  <2>2. /\ done[i].to = o.receipts[i].to
        /\ done[i + 1].to = o.receipts[i + 1].to /\ done[i + 1].kind = o.receipts[i + 1].kind
    BY <1>4, <2>1
  <2>3. ValidTransition(o.receipts[i].to, o.receipts[i + 1]) BY DEF Line
  <2>4. QED BY <2>2, <2>3 DEF ValidTransition
<1>9. Chained(now) /\ Chained(last)
  <2>1. Len(now) \in {0, 1} /\ Len(last) \in {0, 1} BY <1>5, <1>6
  <2>2. QED BY <2>1 DEF Chained
<1>10. Chained(due) BY DEF Chained, Line
<1>11. Tip(o) \in 1 .. Tip(o) /\ done[Tip(o)].to = tip.to BY <1>2, <1>4
<1>12. /\ Sequence(a) /\ Len(a) = Tip(o) + Len(now) /\ Chained(a)
       /\ o.pending.phase = "Signing" => a[Len(a)] = o.pending.pay
       /\ o.pending.phase # "Signing" => a[Len(a)].to = tip.to
  <2>1. Len(now) # 0 => ValidTransition(done[Len(done)].to, now[1])
    BY <1>3, <1>5, <1>7, <1>11
  <2>2. Chained(a) BY <1>3, <1>5, <1>8, <1>9, <2>1, ConcatChained
  <2>3. /\ Sequence(a) /\ Len(a) = Len(done) + Len(now)
        /\ Len(now) # 0 => a[Len(a)] = now[Len(now)]
        /\ Len(now) = 0 /\ Len(done) # 0 => a[Len(a)] = done[Len(done)]
    BY <1>3, <1>5, ConcatHas
  <2>4. QED BY <1>2, <1>3, <1>5, <1>11, <2>2, <2>3
<1>13. Len(a) \in Nat \ {0} BY <1>2, <1>5, <1>12
<1> HIDE DEF a
<1>14. /\ Sequence(b) /\ Len(b) \in Nat \ {0} /\ Chained(b)
       /\ o.pending.phase = "Signing" => b[Len(b)] = o.pending.pay
       /\ o.pending.phase # "Signing" => b[Len(b)].to = Latest(o)
  <2>1. Len(due) # 0 => ValidTransition(a[Len(a)].to, due[1])
    <3>1. ASSUME Len(due) # 0 PROVE o.deferred # <<>> /\ o.pending.phase # "Signing"
      BY <1>2, <1>7, <3>1
    <3>2. QED BY <1>12, <3>1 DEF Line
  <2>2. Chained(b) BY <1>2, <1>10, <1>12, <2>1, ConcatChained
  <2>3. /\ Sequence(b) /\ Len(b) = Len(a) + Len(due)
        /\ Len(due) # 0 => b[Len(b)] = due[Len(due)]
        /\ Len(due) = 0 /\ Len(a) # 0 => b[Len(b)] = a[Len(a)]
    BY <1>2, <1>12, ConcatHas
  <2>4. Len(b) \in Nat \ {0} BY <1>2, <1>13, <2>3
  <2>5. o.pending.phase = "Signing" => b[Len(b)] = o.pending.pay
    BY <1>2, <1>7, <1>12, <1>13, <2>3
  <2>6. o.pending.phase # "Signing" => b[Len(b)].to = Latest(o)
    BY <1>2, <1>12, <1>13, <2>3 DEF Latest
  <2>7. QED BY <2>2, <2>3, <2>4, <2>5, <2>6
<1> HIDE DEF b
<1>15. Len(last) # 0 => ValidTransition(b[Len(b)].to, last[1])
  <2> SUFFICES ASSUME Len(last) # 0 PROVE ValidTransition(b[Len(b)].to, End)
    BY <1>6
  <2>1. o.queued # "none" BY <1>6
  <2>2. b[Len(b)].to \in {"Running", "Parked"}
    <3>1. CASE o.pending.phase # "Signing" BY <1>14, <2>1, <3>1 DEF Closing
    <3>2. CASE o.pending.phase = "Signing"
      <4>1. o.pending.pay.to # "Terminal" BY <1>7, <2>1, <3>2 DEF Closing
      <4>2. o.pending.pay.to \in {"Running", "Parked", "Terminal"}
        BY <1>7, <3>2 DEF ValidTransition
      <4>3. QED BY <1>14, <3>2, <4>1, <4>2
    <3>3. QED BY <3>1, <3>2
  <2>3. End.kind = "Disposal" /\ End.to = "Terminal" BY DEF End, Payload
  <2>4. QED BY <2>2, <2>3 DEF ValidTransition
<1>16. Chained(c) BY <1>6, <1>9, <1>14, <1>15, ConcatChained
<1>17. QED BY <1>1, <1>16
-----------------------------------------------------------------------------
(* What the evidence says of every behaviour *)

LEMMA InitRecords == ASSUME Wide, Init PROVE Recorded
<1>1. OwnerInvariant BY OwnerStarts
<1>2. Typed(owner) BY <1>1, OrderlyTyped DEF OwnerInvariant
<1> DEFINE r == Receipt(Payload("Start", "Running", <<"start">>), 1)
<1>3. r.to = "Running" BY DEF Receipt, Payload
<1>4. /\ owner.receipts = <<r>> /\ owner.brokerHead = 1 /\ owner.deferred = <<>>
      /\ owner.pending = NoOp /\ owner.draining = NoOp /\ owner.wait = NoOp
      /\ owner.queued = "none" /\ owner.state = "Running" /\ ~owner.settling
      /\ owner.finishQuiet = "none" /\ owner.finishDrained = "none"
      /\ owner.finished = "none" /\ owner.replies = {} /\ owner.failed = {}
      /\ owner.done = {} /\ asked = {}
  BY DEF Init
<1> HIDE DEF r
<1>5. Tip(owner) = 1 /\ Len(owner.receipts) = 1 /\ owner.receipts[1] = r
      /\ Len(owner.deferred) = 0 /\ NoOp.phase = "None"
  BY <1>4, EmptySeq DEF Tip, NoOp
<1>6. Filed(owner)
  <2>1. r.seq = 1 BY DEF r, Receipt, Payload
  <2>2. Forms(owner)
    <3>1. \A i \in 1 .. 1 : i = 1 OBVIOUS
    <3>2. QED BY <1>4, <1>5, <2>1, <3>1 DEF Forms
  <2>3. QED BY <1>4, <1>5, <2>2 DEF Filed, Oks, OkIn
<1>7. LastTo(owner) = "Running" BY <1>3, <1>4, <1>5 DEF LastTo
<1>8. Room(owner)
  <2>1. Gap(owner) = 0 BY <1>4, <1>5 DEF Gap
  <2>2. QED BY <1>4, <2>1, OwnerAssumption DEF Room, Spare, Wide
<1>9. Legal(owner)
  <2>1. Line(owner) BY <1>4, <1>5 DEF Line
  <2>2. QED BY <1>4, <2>1 DEF Legal, Apt, Closing, Sole
<1>10. Records(owner)
  BY <1>4, <1>6, <1>7, <1>8, <1>9 DEF Records, Reaches, Placed, Doing, Settles
<1>11. IsFiniteSet(asked) BY <1>4, FS_EmptySet
<1>12. Answers(owner) /\ Requests BY <1>4, <1>11 DEF Answers, Requests
<1>13. QED BY <1>10, <1>12 DEF Recorded

\* The evidence of a Session that is not given up stays one record of what
\* happened to it, with room for what may still have to be owed, whatever is
\* asked, lost, refused or late (fail_receipt_operation, begin_terminal_event,
\* finish_broker_reconnect).
THEOREM EvidenceIsRecorded == ASSUME Wide PROVE Spec => [](OwnerInvariant /\ Recorded)
<1> DEFINE Inv == OwnerInvariant /\ Recorded
<1>1. Init => Inv BY OwnerStarts, InitRecords
<1>2. Inv /\ [Next]_vars => Inv'
  <2> SUFFICES ASSUME Inv, [Next]_vars PROVE Inv'
    OBVIOUS
  <2>1. OwnerInvariant' BY OwnerContinues
  <2>2. Recorded' BY StepTells
  <2>3. QED BY <2>1, <2>2
<1>3. QED BY <1>1, <1>2, PTL DEF Spec

\* The owner ends with success only when the broker has stored the whole chain
\* down to the Disposal and the tree is gone, whoever asked for the end and
\* whichever response carried it (request_finish, finish_broker_reconnect).
THEOREM SuccessIsRecorded == ASSUME Wide PROVE Spec => []FinishedIsRecorded
<1>1. OwnerInvariant /\ Recorded => FinishedIsRecorded
  <2> SUFFICES ASSUME OwnerInvariant, Recorded, owner.finished = "ok", ~owner.quarantined
               PROVE  /\ owner.receipts[Tip(owner)].to = "Terminal" /\ stored = Tip(owner)
                      /\ owner.deferred = <<>> /\ owner.tree = "gone"
    BY DEF FinishedIsRecorded
  <2>1. Records(owner) /\ Oks(owner) BY DEF Recorded, Records, Filed
  <2>2. /\ owner.state = "Terminal" /\ owner.pending = NoOp /\ owner.queued = "none"
        /\ ~Backlog(owner)
    BY <2>1 DEF Oks, OkIn, Closed
  <2>3. owner.pending.phase # "Signing" BY <2>2 DEF NoOp
  <2>4. LastTo(owner) = "Terminal" BY <2>1, <2>2 DEF Records, Reaches
  <2>5. owner.receipts[Tip(owner)].to = "Terminal" /\ owner.deferred = <<>>
    BY <2>2, <2>3, <2>4 DEF LastTo, Backlog
  <2>6. Heads(owner, stored) /\ Typed(owner) BY OrderlyTyped DEF OwnerInvariant
  <2>7. Tip(owner) \in Nat BY <2>6, TipInNat
  <2>8. stored = Tip(owner)
    <3>1. Tip(owner) = owner.brokerHead BY <2>2 DEF Backlog
    <3>2. stored \in Nat /\ owner.brokerHead <= stored /\ stored <= Tip(owner)
      BY <2>6 DEF Heads
    <3>3. QED BY <2>7, <3>1, <3>2
  <2>9. owner.tree = "gone" BY <2>2, <2>6 DEF Typed
  <2>10. QED BY <2>5, <2>8, <2>9
<1>2. QED BY <1>1, EvidenceIsRecorded, PTL

\* As long as the gate can be shut, the chain of what is signed, being signed
\* and owed ends in the state the Session is in: nothing that happened to the
\* tree goes unrecorded (begin_park, suspend_conformance, defer).  A tree frozen
\* behind a gate that could not be shut has no record of its own.
THEOREM NothingUnrecorded ==
  ASSUME Wide, "revoke" \notin Faults PROVE Spec => []EvidenceMatchesState
<1>1. OwnerInvariant /\ Recorded => EvidenceMatchesState
  <2> SUFFICES ASSUME OwnerInvariant, Recorded, ~owner.quarantined, ~owner.withdrawn
               PROVE  Evidence(owner)[Len(Evidence(owner))].to = owner.state
    BY DEF EvidenceMatchesState
  <2>1. Typed(owner) BY OrderlyTyped DEF OwnerInvariant
  <2>2. LastTo(owner) = owner.state BY DEF Recorded, Records, Reaches, Lax
  <2>3. QED BY <2>1, <2>2, EvidenceIs
<1>2. QED BY <1>1, EvidenceIsRecorded, PTL

\* As long as the gate can be shut and no controller is lost where Sessions are
\* resumed, what is signed, being signed and owed is one chain the broker may
\* store, each element following the state before it and each receipt numbered
\* by its place, until the Session is given up: a failed operation, a Park the
\* owner caused itself and an end that has to wait leave no gap in it
\* (fail_receipt_operation, begin_controller_loss, defer).
THEOREM OwedChainIsLegal ==
  ASSUME Wide, "revoke" \notin Faults, Steady
  PROVE  Spec => [](owner.quarantined \/ LegalChain)
<1>1. OwnerInvariant /\ Recorded => owner.quarantined \/ LegalChain
  <2> SUFFICES ASSUME OwnerInvariant, Recorded, ~owner.quarantined PROVE LegalChain
    OBVIOUS
  <2>1. Typed(owner) BY OrderlyTyped DEF OwnerInvariant
  <2>2. Filed(owner) /\ Legal(owner) BY DEF Recorded, Records
  <2>3. Line(owner) /\ Apt(owner) /\ Closing(owner) /\ Sole(owner)
    BY <2>2 DEF Legal, Strict, Lax
  <2>4. Chained(Evidence(owner)) BY <2>1, <2>2, <2>3, EvidenceChained
  <2>5. \A i \in 1 .. Tip(owner) : owner.receipts[i].seq = i
    BY <2>2 DEF Filed, Forms, Tip
  <2>6. QED BY <2>4, <2>5 DEF LegalChain, Chained
<1>2. QED BY <1>1, EvidenceIsRecorded, PTL

\* Evidence is only ever added, except by a quarantine: a failed operation, a
\* lost connection and a reconnect keep every outcome signed or owed
\* (fail_receipt_operation, begin_terminal_event, finish_broker_reconnect).
THEOREM EvidenceIsKept == ASSUME Wide PROVE Spec => KeepsEvidence
<1>1. OwnerInvariant /\ Recorded /\ (OwnerInvariant /\ Recorded)' /\ [Next]_vars =>
        [owner'.quarantined \/ Owed(owner) \subseteq Owed(owner')]_vars
  <2> SUFFICES ASSUME OwnerInvariant, Recorded, OwnerInvariant', [Next]_vars
               PROVE  owner'.quarantined \/ Owed(owner) \subseteq Owed(owner')
    OBVIOUS
  <2>1. owner'.quarantined \/ Owes(owner, owner') BY StepTells
  <2>2. Typed(owner) BY OrderlyTyped DEF OwnerInvariant
  <2>3. Typed(owner') BY OwnerContinues, OrderlyTyped, StepOrders DEF OwnerInvariant
  <2>4. \A p : p \in Owed(owner) <=> Due(owner, p) BY <2>2, EvidenceIs
  <2>5. \A p : p \in Owed(owner') <=> Due(owner', p) BY <2>3, EvidenceIs
  <2>6. QED BY <2>1, <2>4, <2>5 DEF Owes
<1>2. QED BY <1>1, EvidenceIsRecorded, PTL DEF Spec, KeepsEvidence
-----------------------------------------------------------------------------
(* A request leaves one record, however often it is sent and whatever       *)
(* became of it.                                                            *)

\* Identities of requests are told from the causes of the owner's own records.
IsRequest(by) == by[1] = "request"

Bears(s, by) == \E i \in 1 .. Len(s) : s[i].by = by
Distinct(s) ==
    \A i, j \in 1 .. Len(s) : i # j /\ IsRequest(s[i].by) => s[i].by # s[j].by

\* The request is recorded, has its answer, or is what is under way.
Marked(o, by) == Bears(o.receipts, by) \/ Bears(o.deferred, by)
Replied(o, by) == by \in o.done \/ \E f \in o.failed : f.by = by
Responding(o) == o.pending # NoOp /\ o.pending.respond
Awaited(o, by) == Responding(o) /\ o.pending.pay.by = by

\* Nothing under way has an answer to give, as far as answers are given at all.
Mute(o) == ~o.quarantined => ~Responding(o)
Unsettled(o) == ~o.quarantined => ~o.settling

Fixed(o) == o.state # "Running" /\ o.tree # "running"

\* Every request is recorded once, in the receipts or in what is owed.
Parted(o) ==
    /\ Distinct(o.receipts) /\ Distinct(o.deferred)
    /\ \A by : IsRequest(by) => ~(Bears(o.receipts, by) /\ Bears(o.deferred, by))

\* What is drained is the first that is owed.
Leading(o) ==
    o.draining.phase = "Signing" => o.deferred # <<>> /\ o.draining.pay = o.deferred[1]

\* An operation has no record until it is signed, and answers nobody else's request.
Proper(o, op) ==
    /\ {"phase", "index"} \subseteq DOMAIN op /\ op.respond \in BOOLEAN
    /\ op.respond <=> IsRequest(op.pay.by)
    /\ op.phase \in {"Applying", "Signing"} => op.index = 0
    /\ op.respond /\ op.index = 0 => ~Marked(o, op.pay.by)

\* Evidence of a request that has no answer yet is that of the operation under
\* way, or of one in S, which is being ended.
Answering(o, S) ==
    \A by : IsRequest(by) /\ Marked(o, by) => Replied(o, by) \/ Awaited(o, by) \/ by \in S

\* A Resume that waits for its check has no record yet.
Fresh(o, S) ==
    o.wait # NoOp =>
        /\ IsRequest(o.wait.id) /\ o.wait.id \notin S
        /\ ~Marked(o, o.wait.id) /\ ~Awaited(o, o.wait.id)

Single(o, S) ==
    /\ Fields \subseteq DOMAIN o
    /\ Sequence(o.receipts) /\ Sequence(o.deferred)
    /\ Parted(o) /\ Leading(o) /\ Fresh(o, S)
    /\ o.pending # NoOp => Proper(o, o.pending)
    /\ ~o.quarantined => Answering(o, S)
    /\ o.state = "Running" \/ Fixed(o)
    /\ ~o.quarantined /\ o.settling => Fixed(o) /\ ~Responding(o)

\* The records, the operation and the answers stay as they are.
Level(o, n) ==
    /\ Fields \subseteq DOMAIN n
    /\ n.receipts = o.receipts /\ n.deferred = o.deferred /\ n.pending = o.pending
    /\ n.done = o.done /\ o.failed \subseteq n.failed
    /\ n.draining \in {o.draining, NoOp} /\ n.wait \in {o.wait, NoOp}
    /\ n.quarantined = o.quarantined /\ n.settling \in {o.settling, FALSE}
    /\ o.state = "Running" \/ Fixed(o) => n.state = "Running" \/ Fixed(n)
    /\ Fixed(o) => Fixed(n)

LEMMA LevelTrans ==
  ASSUME NEW a, NEW b, NEW c, Level(a, b), Level(b, c) PROVE Level(a, c)
  BY DEF Level

LEMMA LevelFields == ASSUME NEW o, NEW n, Level(o, n) PROVE Fields \subseteq DOMAIN n
  BY DEF Level

LEMMA LevelSelf == ASSUME NEW o, Fields \subseteq DOMAIN o PROVE Level(o, o)
  BY DEF Level

LEMMA LevelSingle ==
  ASSUME NEW o, NEW S, NEW n, Single(o, S), Level(o, n) PROVE Single(n, S)
<1>1. \A by : Marked(n, by) <=> Marked(o, by) BY DEF Level, Marked
<1>2. \A by : Awaited(n, by) <=> Awaited(o, by) BY DEF Level, Awaited, Responding
<1>3. \A by : Replied(o, by) => Replied(n, by) BY DEF Level, Replied
<1>4. Responding(n) <=> Responding(o) BY DEF Level, Responding
<1>5. Parted(n) BY DEF Level, Single, Parted
<1>6. Leading(n) BY DEF Level, Single, Leading, NoOp
<1>7. Fresh(n, S) BY <1>1, <1>2 DEF Level, Single, Fresh
<1>8. n.pending # NoOp => Proper(n, n.pending) BY <1>1 DEF Level, Single, Proper
<1>9. Answering(o, S) => Answering(n, S) BY <1>1, <1>2, <1>3 DEF Answering
<1>10. QED BY <1>4, <1>5, <1>6, <1>7, <1>8, <1>9 DEF Level, Single

\* A Session that is given up owes no answer any more.
LEMMA BrokenSingle ==
  ASSUME NEW o, NEW S, NEW n, Single(o, S), Fields \subseteq DOMAIN n,
         n.receipts = o.receipts, n.deferred = o.deferred, n.pending = NoOp,
         n.draining \in {o.draining, NoOp}, n.wait \in {o.wait, NoOp},
         n.quarantined, n.state = "Running" \/ Fixed(n)
  PROVE  Single(n, {})
<1>1. \A by : Marked(n, by) <=> Marked(o, by) BY DEF Marked
<1>2. \A by : ~Awaited(n, by) BY DEF Awaited, Responding
<1>3. Parted(n) BY DEF Single, Parted
<1>4. Leading(n) BY DEF Single, Leading, NoOp
<1>5. Fresh(n, {}) BY <1>1, <1>2 DEF Single, Fresh
<1>6. QED BY <1>3, <1>4, <1>5 DEF Single

\* The operation is taken off; its request is still to be answered.
LEMMA DroppedSingle ==
  ASSUME NEW o, NEW n, Single(o, {}), o.pending # NoOp, Fields \subseteq DOMAIN n,
         n.receipts = o.receipts, n.deferred = o.deferred, n.pending = NoOp,
         o.done \subseteq n.done, o.failed \subseteq n.failed,
         n.draining \in {o.draining, NoOp}, n.wait \in {o.wait, NoOp},
         n.quarantined = o.quarantined, n.settling \in {o.settling, FALSE},
         n.state = "Running" \/ Fixed(n), Fixed(o) => Fixed(n)
  PROVE  Single(n, {o.pending.pay.by})
<1> DEFINE S == {o.pending.pay.by}
<1>1. \A by : Marked(n, by) <=> Marked(o, by) BY DEF Marked
<1>2. \A by : Awaited(o, by) => by \in S BY DEF Awaited
<1>3. \A by : Replied(o, by) => Replied(n, by) BY DEF Replied
<1>4. ~Responding(n) /\ \A by : ~Awaited(n, by) BY DEF Awaited, Responding
<1>5. Parted(n) BY DEF Single, Parted
<1>6. Leading(n) BY DEF Single, Leading, NoOp
<1>7. Fresh(n, S)
  <2>1. Proper(o, o.pending) BY DEF Single
  <2>2. ASSUME o.wait # NoOp PROVE o.wait.id \notin S
    BY <2>1, <2>2 DEF Single, Fresh, Proper, Awaited, Responding
  <2>3. QED BY <1>1, <1>4, <2>2 DEF Single, Fresh
<1>8. Answering(o, {}) => Answering(n, S) BY <1>1, <1>2, <1>3 DEF Answering
<1>9. QED BY <1>4, <1>5, <1>6, <1>7, <1>8 DEF Single

\* What has its answer, or never asked for one, is ended.
LEMMA EndedSingle ==
  ASSUME NEW o, NEW by, Single(o, {by}), IsRequest(by) => Replied(o, by)
  PROVE  Single(o, {})
<1>1. Fresh(o, {}) BY DEF Single, Fresh
<1>2. Answering(o, {by}) => Answering(o, {}) BY DEF Answering
<1>3. QED BY <1>1, <1>2 DEF Single
-----------------------------------------------------------------------------
(* Handlers that leave the records as they are *)

\* The flags and the connection say nothing of a request.
LEMMA FlagsLevel ==
  ASSUME NEW o, NEW v, Fields \subseteq DOMAIN o
  PROVE  /\ Level(o, [o EXCEPT !.channel = v]) /\ Level(o, [o EXCEPT !.blocked = v])
         /\ Level(o, [o EXCEPT !.conn = v]) /\ Level(o, [o EXCEPT !.gate = v])
         /\ Level(o, [o EXCEPT !.lost = v]) /\ Level(o, [o EXCEPT !.lostPark = v])
         /\ Level(o, [o EXCEPT !.relay = v]) /\ Level(o, [o EXCEPT !.resending = v])
         /\ Level(o, [o EXCEPT !.wire = v]) /\ Level(o, [o EXCEPT !.offered = v])
         /\ Level(o, [o EXCEPT !.brokerHead = v]) /\ Level(o, [o EXCEPT !.contained = v])
         /\ Level(o, [o EXCEPT !.suspended = v]) /\ Level(o, [o EXCEPT !.trying = v])
         /\ Level(o, [o EXCEPT !.offer = v]) /\ Level(o, [o EXCEPT !.acks = v])
         /\ Level(o, [o EXCEPT !.queued = v]) /\ Level(o, [o EXCEPT !.replies = v])
         /\ Level(o, [o EXCEPT !.draining = NoOp]) /\ Level(o, [o EXCEPT !.wait = NoOp])
         /\ Level(o, [o EXCEPT !.settling = FALSE]) /\ Level(o, [o EXCEPT !.tree = "gone"])
  BY DEF Level, Fields, Fixed

LEMMA RevokeLevel ==
  ASSUME NEW o, NEW e, Fields \subseteq DOMAIN o PROVE Level(o, Revoke(o, e))
  BY FlagsLevel, LevelSelf DEF Revoke

LEMMA NarrowedLevel ==
  ASSUME NEW o, Fields \subseteq DOMAIN o PROVE Level(o, Narrowed(o))
  BY DEF Narrowed, Level, Fields, Fixed

LEMMA ShutLevel ==
  ASSUME NEW o, NEW e, Fields \subseteq DOMAIN o PROVE Level(o, Shut(o, e))
<1> DEFINE n == Revoke(o, e)
<1>1. Level(o, n) BY RevokeLevel
<1> HIDE DEF n
<1>2. Level(n, [n EXCEPT !.channel = "Revoked"]) BY <1>1, LevelFields, FlagsLevel
<1>3. QED BY <1>1, <1>2, LevelTrans DEF Shut, n

LEMMA RevokeEnabledLevel ==
  ASSUME NEW o, NEW e, Fields \subseteq DOMAIN o PROVE Level(o, RevokeEnabled(o, e))
  BY ShutLevel, LevelSelf DEF RevokeEnabled, Shut

LEMMA AttemptParkLevel ==
  ASSUME NEW o, NEW e, Fields \subseteq DOMAIN o PROVE Level(o, AttemptPark(o, e))
<1>1. CASE ParkResult(o, e) = "Parked"
  <2>1. AttemptPark(o, e) = [o EXCEPT !.state = "Parked", !.tree = "frozen"]
    BY <1>1 DEF AttemptPark
  <2>2. QED BY <2>1 DEF Level, Fields, Fixed
<1>2. CASE ParkResult(o, e) = "Running"
  <2>1. o.tree = "running" BY <1>2 DEF ParkResult
  <2>2. AttemptPark(o, e) = [o EXCEPT !.state = "Running"] BY <1>2 DEF AttemptPark
  <2>3. QED BY <2>1, <2>2 DEF Level, Fields, Fixed
<1>3. CASE ParkResult(o, e) = "Terminal"
  <2>1. AttemptPark(o, e) = [o EXCEPT !.tree = "gone"] BY <1>3 DEF AttemptPark
  <2>2. QED BY <2>1, FlagsLevel
<1>4. CASE ParkResult(o, e) = "Ambiguous"
  <2>1. AttemptPark(o, e) = [o EXCEPT !.tree = IF @ = "gone" THEN @ ELSE "unknown"]
    BY <1>4 DEF AttemptPark
  <2>2. QED BY <2>1 DEF Level, Fields, Fixed
<1>5. QED BY <1>1, <1>2, <1>3, <1>4, ParkResults

LEMMA TerminateLevel ==
  ASSUME NEW o, NEW e, Fields \subseteq DOMAIN o
  PROVE  /\ Level(o, Terminate(o, e)) /\ Terminate(o, e).tree # "running"
         /\ "cleanup" \notin e => Terminate(o, e).tree = "gone"
  BY DEF Terminate, Level, Fields, Fixed

LEMMA QuiesceLevel ==
  ASSUME NEW o, Fields \subseteq DOMAIN o PROVE Level(o, Quiesce(o))
  BY DEF Quiesce, Level, Fields, Fixed

LEMMA ForgetControllerLevel ==
  ASSUME NEW o, Fields \subseteq DOMAIN o
  PROVE  Level(o, ForgetController(o)) /\ ForgetController(o).settling = FALSE
  BY DEF ForgetController, Level, Fields, Fixed

LEMMA RequestFinishLevel ==
  ASSUME NEW o, NEW f, Fields \subseteq DOMAIN o PROVE Level(o, RequestFinish(o, f))
<1> DEFINE a(v) == [o EXCEPT !.finishDrained = v]
           b(v) == [o EXCEPT !.finishQuiet = v]
           c(v) == [o EXCEPT !.finished = v]
<1>1. \A v : Level(o, a(v)) /\ Level(o, b(v)) /\ Level(o, c(v)) BY DEF Level, Fields, Fixed
<1>2. \/ RequestFinish(o, f) = o
      \/ RequestFinish(o, f) = a(First(o.finishDrained, f))
      \/ RequestFinish(o, f) = b(First(o.finishQuiet, f))
      \/ RequestFinish(o, f) = c(IF o.relay = "broken" THEN "err" ELSE f)
  BY DEF RequestFinish
<1> HIDE DEF a, b, c
<1>3. QED BY <1>1, <1>2, LevelSelf

LEMMA ReplyLevel ==
  ASSUME NEW o, NEW f, NEW h, Fields \subseteq DOMAIN o PROVE Level(o, Reply(o, f, h))
  BY FlagsLevel, LevelSelf DEF Reply

LEMMA FailedLevel ==
  ASSUME NEW o, NEW by, NEW f, Fields \subseteq DOMAIN o
  PROVE  Level(o, Failed(o, by, f)) /\ Replied(Failed(o, by, f), by)
<1> DEFINE x == [by |-> by, finish |-> f]
           n == [o EXCEPT !.failed = @ \union {x}]
           r == Reply(n, f, 0)
<1>1. Level(o, n) /\ x \in n.failed BY DEF Level, Fields, Fixed
<1>2. x.by = by OBVIOUS
<1> HIDE DEF n, x
<1>3. Level(n, r) BY <1>1, ReplyLevel DEF Level
<1>4. Level(o, r) /\ x \in r.failed BY <1>1, <1>3, LevelTrans DEF Level
<1>5. Replied(r, by) BY <1>2, <1>4 DEF Replied
<1>6. QED BY <1>4, <1>5 DEF Failed, n, r, x

LEMMA CancelWaitLevel ==
  ASSUME NEW o, Fields \subseteq DOMAIN o
  PROVE  Level(o, CancelWait(o)) /\ CancelWait(o).wait = NoOp
<1> DEFINE n == [o EXCEPT !.wait = NoOp]
<1>1. Level(o, n) /\ n.wait = NoOp BY FlagsLevel DEF Fields
<1> HIDE DEF n
<1>2. Fields \subseteq DOMAIN n BY <1>1, LevelFields
<1>3. Level(n, Failed(n, o.wait.id, "none")) BY <1>2, FailedLevel
<1>4. Level(o, Failed(n, o.wait.id, "none")) /\ Failed(n, o.wait.id, "none").wait = NoOp
  BY <1>1, <1>3, LevelTrans DEF Level
<1>5. QED BY <1>4, LevelSelf DEF CancelWait, n

LEMMA AwaitingLevel ==
  ASSUME NEW o, NEW op, NEW owed, Fields \subseteq DOMAIN o PROVE Level(o, Awaiting(o, op, owed))
  BY FlagsLevel DEF Awaiting

LEMMA ToldSingle ==
  ASSUME NEW o, NEW op, Single(o, {op.pay.by}), op.respond \/ ~IsRequest(op.pay.by)
  PROVE  Single(Told(o, op), {}) /\ Level(o, Told(o, op))
<1>0. Fields \subseteq DOMAIN o BY DEF Single
<1>1. CASE op.respond
  <2> DEFINE n == Failed(o, op.pay.by, op.finish)
  <2>1. Level(o, n) /\ Replied(n, op.pay.by) BY <1>0, FailedLevel
  <2> HIDE DEF n
  <2>2. Single(n, {op.pay.by}) BY <2>1, LevelSingle
  <2>3. Single(n, {}) BY <2>1, <2>2, EndedSingle
  <2>4. QED BY <1>1, <2>1, <2>3 DEF Told, n
<1>2. CASE ~op.respond
  <2> DEFINE n == RequestFinish(o, op.finish)
  <2>1. Level(o, n) BY <1>0, RequestFinishLevel
  <2> HIDE DEF n
  <2>2. Single(n, {op.pay.by}) BY <2>1, LevelSingle
  <2>3. Single(n, {}) BY <1>2, <2>2, EndedSingle
  <2>4. QED BY <1>2, <2>1, <2>3 DEF Told, n
<1>3. QED BY <1>1, <1>2

LEMMA UnblockLevel ==
  ASSUME NEW o, Fields \subseteq DOMAIN o PROVE Level(o, Unblock(o))
  BY FlagsLevel, LevelSelf DEF Unblock

LEMMA FinishDrainedLevel ==
  ASSUME NEW o, Fields \subseteq DOMAIN o PROVE Level(o, FinishDrained(o))
<1> DEFINE n == [o EXCEPT !.finishDrained = "none"]
<1>1. Level(o, n) BY DEF Level, Fields, Fixed
<1> HIDE DEF n
<1>2. Level(n, RequestFinish(n, o.finishDrained)) BY <1>1, RequestFinishLevel DEF Level
<1>3. QED BY <1>1, <1>2, LevelTrans DEF FinishDrained, n

LEMMA UnfrozenLevel ==
  ASSUME NEW o, Fields \subseteq DOMAIN o PROVE Level(o, Unfrozen(o))
  BY DEF Unfrozen, Level, Fields, Fixed

LEMMA SendLevel ==
  ASSUME NEW o, NEW i, Fields \subseteq DOMAIN o PROVE Level(o, Send(o, i))
  BY FlagsLevel DEF Send

LEMMA DetachedLevel ==
  ASSUME NEW o, NEW e, Fields \subseteq DOMAIN o PROVE Level(o, Detached(o, e))
<1> DEFINE r == Revoke(o, e)
           n == Narrowed(r)
<1>0. Level(o, r) /\ Fields \subseteq DOMAIN r BY RevokeLevel, LevelFields
<1> HIDE DEF r
<1>1. Level(o, n) BY <1>0, NarrowedLevel, LevelTrans
<1> HIDE DEF n
<1>2. \A v : Level(n, [n EXCEPT !.resending = 0, !.draining = NoOp, !.settling = FALSE,
                                !.conn = "Grace", !.acks = <<>>, !.trying = TRUE, !.replies = v])
  BY <1>1 DEF Level, Fields, Fixed
<1>3. Level(n, Detached(o, e)) BY <1>2 DEF Detached, n, r
<1>4. QED BY <1>1, <1>3, LevelTrans

LEMMA FailDrainingLevel ==
  ASSUME NEW o, Fields \subseteq DOMAIN o PROVE Level(o, FailDraining(o))
  BY DEF FailDraining, Level, Fields, Fixed
-----------------------------------------------------------------------------
(* Evidence that is owed, and operations that end *)

LEMMA AppendBears ==
  ASSUME NEW s, NEW p, Sequence(s)
  PROVE  /\ Sequence(Append(s, p)) /\ Append(s, p) # <<>>
         /\ s # <<>> => Append(s, p)[1] = s[1]
         /\ \A by : Bears(Append(s, p), by) <=> Bears(s, by) \/ p.by = by
         /\ Distinct(s) /\ (IsRequest(p.by) => ~Bears(s, p.by)) => Distinct(Append(s, p))
<1> DEFINE t == Append(s, p)
<1>1. PICK S : s \in Seq(S) BY DEF Sequence
<1>2. s \in Seq(S \union {p}) BY <1>1, SeqMonotonic
<1>3. /\ t \in Seq(S \union {p}) /\ Len(t) = Len(s) + 1 /\ Len(s) \in Nat
      /\ t[Len(s) + 1] = p /\ \A i \in 1 .. Len(s) : t[i] = s[i]
      /\ s = <<>> <=> Len(s) = 0
      /\ t # <<>>
  BY <1>2, AppendProperties, EmptySeq
<1> HIDE DEF t
<1>4. Sequence(t) BY <1>3 DEF Sequence
<1>5. s # <<>> => t[1] = s[1] BY <1>3
<1>6. \A i \in 1 .. Len(t) : i \in 1 .. Len(s) \/ i = Len(s) + 1 BY <1>3
<1>7. \A i \in 1 .. Len(s) : i \in 1 .. Len(t) BY <1>3
<1>8. Len(s) + 1 \in 1 .. Len(t) BY <1>3
<1>9. ASSUME NEW by PROVE Bears(t, by) <=> Bears(s, by) \/ p.by = by
  BY <1>3, <1>6, <1>7, <1>8 DEF Bears
<1>10. ASSUME Distinct(s), IsRequest(p.by) => ~Bears(s, p.by) PROVE Distinct(t)
  <2> SUFFICES ASSUME NEW i \in 1 .. Len(t), NEW j \in 1 .. Len(t), i # j, IsRequest(t[i].by),
                      t[i].by = t[j].by
               PROVE  FALSE
    BY DEF Distinct
  <2>1. CASE i \in 1 .. Len(s) /\ j \in 1 .. Len(s) BY <1>3, <1>10, <2>1 DEF Distinct
  <2>2. CASE i \in 1 .. Len(s) /\ j = Len(s) + 1 BY <1>3, <1>10, <2>2 DEF Bears
  <2>3. CASE i = Len(s) + 1 /\ j \in 1 .. Len(s) BY <1>3, <1>10, <2>3 DEF Bears
  <2>4. QED BY <1>6, <2>1, <2>2, <2>3
<1>11. QED BY <1>3, <1>4, <1>5, <1>9, <1>10 DEF t

LEMMA DeferSingle ==
  ASSUME NEW o, NEW S, NEW pay, Single(o, S),
         IsRequest(pay.by) => pay.by \in S /\ ~Marked(o, pay.by) /\ o.pending = NoOp,
         NEW n, n = Defer(o, pay)
  PROVE  /\ Single(n, S)
         /\ n.pending = o.pending /\ n.state = o.state /\ n.wait = o.wait
<1> DEFINE m == [o EXCEPT !.deferred = Append(@, pay)]
<1>0. n \in {o, m} BY DEF Defer
<1>1. /\ Fields \subseteq DOMAIN m
      /\ m.receipts = o.receipts /\ m.deferred = Append(o.deferred, pay)
      /\ m.pending = o.pending /\ m.done = o.done /\ m.failed = o.failed
      /\ m.draining = o.draining /\ m.wait = o.wait /\ m.quarantined = o.quarantined
      /\ m.settling = o.settling /\ m.state = o.state /\ m.tree = o.tree
  BY DEF Single, Fields
<1> HIDE DEF m
<1>2. /\ Sequence(m.deferred) /\ m.deferred # <<>>
      /\ o.deferred # <<>> => m.deferred[1] = o.deferred[1]
      /\ \A by : Bears(m.deferred, by) <=> Bears(o.deferred, by) \/ pay.by = by
      /\ Distinct(o.deferred) /\ (IsRequest(pay.by) => ~Bears(o.deferred, pay.by))
            => Distinct(m.deferred)
  <2> DEFINE s == o.deferred
  <2>1. Sequence(s) BY DEF Single
  <2> HIDE DEF s
  <2>2. /\ Sequence(Append(s, pay)) /\ Append(s, pay) # <<>>
        /\ s # <<>> => Append(s, pay)[1] = s[1]
        /\ \A by : Bears(Append(s, pay), by) <=> Bears(s, by) \/ pay.by = by
        /\ Distinct(s) /\ (IsRequest(pay.by) => ~Bears(s, pay.by)) => Distinct(Append(s, pay))
    BY <2>1, AppendBears
  <2>3. m.deferred = Append(s, pay) BY <1>1 DEF s
  <2>4. QED BY <2>2, <2>3 DEF s
<1>3. \A by : Marked(m, by) <=> Marked(o, by) \/ pay.by = by BY <1>1, <1>2 DEF Marked
<1>4. \A by : Awaited(m, by) <=> Awaited(o, by) BY <1>1 DEF Awaited, Responding
<1>5. \A by : Replied(m, by) <=> Replied(o, by) BY <1>1 DEF Replied
<1>6. Responding(m) <=> Responding(o) BY <1>1 DEF Responding
<1>7. Parted(m) BY <1>1, <1>2 DEF Single, Parted, Marked
<1>8. Leading(m) BY <1>1, <1>2 DEF Single, Leading
<1>9. Fresh(m, S) BY <1>1, <1>3, <1>4 DEF Single, Fresh
<1>10. m.pending # NoOp => Proper(m, m.pending) BY <1>1, <1>3 DEF Single, Proper
<1>11. Answering(o, S) => Answering(m, S) BY <1>3, <1>4, <1>5 DEF Answering
<1>12. Single(m, S) BY <1>1, <1>2, <1>6, <1>7, <1>8, <1>9, <1>10, <1>11 DEF Single, Fixed
<1>13. QED BY <1>0, <1>1, <1>12

\* Records of the owner's own are nobody's answer.
LEMMA CausesAreOwn ==
  /\ ~IsRequest(<<"event">>) /\ ~IsRequest(<<"controller">>) /\ ~IsRequest(<<"settled">>)
  /\ ~IsRequest(<<"broker">>) /\ ~IsRequest(<<"conformance">>) /\ ~IsRequest(<<"reconcile">>)
  /\ ~IsRequest(<<"start">>)
  /\ \A x : ~IsRequest(<<"inactive", x>>) /\ ~IsRequest(<<"unacknowledged", x>>)
  /\ \A by : Causal(by).by = by
  /\ \A k, t, by : Payload(k, t, by).by = by
  BY DEF IsRequest, Causal, Payload

LEMMA DeferCauseSingle ==
  ASSUME NEW o, NEW S, NEW pay, Single(o, S), ~IsRequest(pay.by)
  PROVE  /\ Single(Defer(o, pay), S)
         /\ Defer(o, pay).pending = o.pending /\ Defer(o, pay).state = o.state
         /\ Defer(o, pay).wait = o.wait
  BY DeferSingle

\* An operation of the owner's own, as the handlers start it.
Launched(o, pay, phase, finish) == [o EXCEPT !.pending = Operation(o, pay, phase, FALSE, finish)]

\* An operation of the owner's own takes the place of none that has to answer.
LEMMA LaunchedSingle ==
  ASSUME NEW o, NEW pay, NEW phase, NEW finish, Single(o, {}), Mute(o), ~IsRequest(pay.by)
  PROVE  /\ Single(Launched(o, pay, phase, finish), {})
         /\ ~Responding(Launched(o, pay, phase, finish))
         /\ Launched(o, pay, phase, finish).pending # NoOp
         /\ Launched(o, pay, phase, finish).pending.phase = phase
<1> DEFINE op == Operation(o, pay, phase, FALSE, finish)
           n == Launched(o, pay, phase, finish)
<1>0. op.respond = FALSE /\ op.pay = pay /\ op.phase = phase /\ op.index = 0 /\ op # NoOp
     /\ {"phase", "index"} \subseteq DOMAIN op
  <2>1. op.respond = FALSE /\ op.pay = pay /\ op.phase = phase /\ op.index = 0
        /\ {"phase", "index"} \subseteq DOMAIN op
    BY DEF Operation
  <2>2. "index" \notin DOMAIN NoOp BY DEF NoOp
  <2>3. QED BY <2>1, <2>2
<1> HIDE DEF op
<1>1. /\ Fields \subseteq DOMAIN n
      /\ n.receipts = o.receipts /\ n.deferred = o.deferred
      /\ n.pending = op /\ n.done = o.done /\ n.failed = o.failed
      /\ n.draining = o.draining /\ n.wait = o.wait /\ n.quarantined = o.quarantined
      /\ n.settling = o.settling /\ n.state = o.state /\ n.tree = o.tree
  BY DEF Single, Fields, op, Launched
<1> HIDE DEF n
<1>2. ~Responding(n) /\ \A by : ~Awaited(n, by) /\ (o.quarantined \/ ~Awaited(o, by))
  BY <1>0, <1>1 DEF Mute, Responding, Awaited
<1>3. \A by : (Marked(n, by) <=> Marked(o, by)) /\ (Replied(n, by) <=> Replied(o, by))
  BY <1>1 DEF Marked, Replied
<1>4. Parted(n) /\ Leading(n) BY <1>1 DEF Single, Parted, Leading
<1>5. Fresh(n, {}) BY <1>1, <1>2, <1>3 DEF Single, Fresh
<1>6. Proper(n, n.pending) BY <1>0, <1>1 DEF Proper
<1>7. ~o.quarantined /\ Answering(o, {}) => Answering(n, {}) BY <1>2, <1>3 DEF Answering
<1>8. Single(n, {}) BY <1>1, <1>2, <1>4, <1>5, <1>6, <1>7 DEF Single, Fixed
<1>9. QED BY <1>0, <1>1, <1>2, <1>8 DEF n

\* A request that is admitted has neither a record nor an answer.
LEMMA ApplyingSingle ==
  ASSUME NEW o, NEW q, Single(o, {}), ~Responding(o), Unsettled(o),
         o.wait = NoOp, IsRequest(q.id), ~Marked(o, q.id), NEW n, n = Applying(o, q)
  PROVE  /\ Single(n, {}) /\ n.state = o.state /\ n.wait = o.wait /\ n.pending # NoOp
         /\ n.pending.phase = "Applying" /\ n.pending.respond = TRUE
         /\ n.pending.pay.by = q.id /\ n.pending.index = 0
<1> DEFINE pay == Payload(q.act, Transition(o.state, q.act), q.id)
           op == Operation(o, pay, "Applying", TRUE, IF q.act = "Disposal" THEN "ok" ELSE "none")
<1>0. op.respond = TRUE /\ op.pay.by = q.id /\ op.phase = "Applying" /\ op.index = 0 /\ op # NoOp
     /\ {"phase", "index"} \subseteq DOMAIN op
  <2>1. op.respond = TRUE /\ op.pay = pay /\ op.phase = "Applying" /\ op.index = 0
        /\ {"phase", "index"} \subseteq DOMAIN op
    BY DEF Operation
  <2>2. pay.by = q.id BY CausesAreOwn
  <2>3. "index" \notin DOMAIN NoOp BY DEF NoOp
  <2> HIDE DEF op, pay
  <2>4. QED BY <2>1, <2>2, <2>3
<1> HIDE DEF op
<1>1. /\ Fields \subseteq DOMAIN n
      /\ n.receipts = o.receipts /\ n.deferred = o.deferred
      /\ n.pending = op /\ n.done = o.done /\ n.failed = o.failed
      /\ n.draining = o.draining /\ n.wait = o.wait /\ n.quarantined = o.quarantined
      /\ n.settling = o.settling /\ n.state = o.state /\ n.tree = o.tree
  BY DEF Single, Fields, op, Applying
<1>2. \A by : ~Awaited(o, by) BY DEF Responding, Awaited
<1>3. \A by : (Marked(n, by) <=> Marked(o, by)) /\ (Replied(n, by) <=> Replied(o, by))
  BY <1>1 DEF Marked, Replied
<1>4. Parted(n) /\ Leading(n) BY <1>1 DEF Single, Parted, Leading
<1>5. Fresh(n, {}) BY <1>1 DEF Fresh
<1>6. Proper(n, n.pending) BY <1>0, <1>1, <1>3 DEF Proper
<1>7. Answering(o, {}) => Answering(n, {}) BY <1>2, <1>3 DEF Answering
<1>8. Single(n, {}) BY <1>1, <1>4, <1>5, <1>6, <1>7 DEF Single, Unsettled, Fixed
<1>9. QED BY <1>0, <1>1, <1>8

LEMMA QuarantineMechanicSingle ==
  ASSUME NEW o, NEW S, NEW op, NEW e, Single(o, S), NEW n, n = QuarantineMechanic(o, op, e)
  PROVE  Single(n, {}) /\ ~Responding(n)
<1> DEFINE f == ForgetController(o)
           a == [f EXCEPT !.quarantined = TRUE, !.blocked = TRUE, !.queued = "none",
                          !.finishDrained = "none", !.pending = NoOp]
           c == Quiesce(a)
           t == Terminate(c, e)
           m == [t EXCEPT !.unproven = "cleanup" \in e, !.channel = "Closed",
                       !.state = IF "cleanup" \in e THEN @ ELSE "Terminal"]
<1>0. Fields \subseteq DOMAIN o BY DEF Single
<1>1. Level(o, f) BY <1>0, ForgetControllerLevel
<1> HIDE DEF f
<1>2. /\ Fields \subseteq DOMAIN a /\ a.receipts = o.receipts /\ a.deferred = o.deferred
      /\ a.pending = NoOp /\ a.draining \in {o.draining, NoOp} /\ a.wait \in {o.wait, NoOp}
      /\ a.quarantined = TRUE /\ a.state = f.state /\ a.tree = f.tree
  BY <1>1 DEF Level, Fields
<1>3. a.state = "Running" \/ Fixed(a) BY <1>1, <1>2 DEF Level, Single, Fixed
<1> HIDE DEF a
<1>4. Single(a, {}) BY <1>2, <1>3, BrokenSingle
<1>5. Level(a, c) BY <1>2, QuiesceLevel
<1> HIDE DEF c
<1>6. Level(c, t) /\ ("cleanup" \notin e => t.tree = "gone")
  BY <1>5, LevelFields, TerminateLevel
<1>7. Level(a, t) BY <1>5, <1>6, LevelTrans
<1> HIDE DEF t
<1>8. Level(t, m)
  <2>1. CASE "cleanup" \in e BY <1>7, <2>1 DEF Level, Fields, Fixed
  <2>2. CASE "cleanup" \notin e BY <1>6, <1>7, <2>2 DEF Level, Fields, Fixed
  <2>3. QED BY <2>1, <2>2
<1> HIDE DEF m
<1>9. Level(m, Failed(m, op.pay.by, "err")) /\ Level(m, RequestFinish(m, "err"))
  BY <1>8, LevelFields, FailedLevel, RequestFinishLevel
<1>10. n \in {Failed(m, op.pay.by, "err"), RequestFinish(m, "err")}
  BY DEF QuarantineMechanic, m, t, c, a, f
<1>11. Level(a, n) BY <1>7, <1>8, <1>9, <1>10, LevelTrans
<1>12. Single(n, {}) BY <1>4, <1>11, LevelSingle
<1>13. n.pending = NoOp BY <1>2, <1>11 DEF Level
<1>14. QED BY <1>12, <1>13 DEF Responding

\* The operation is taken off, and the records are left.
LEMMA AbortedSingle ==
  ASSUME NEW o, NEW e, Single(o, {}), o.pending # NoOp, NEW n, n = Aborted(o, e)
  PROVE  /\ Single(n, {o.pending.pay.by}) /\ n.pending = NoOp
         /\ n.receipts = o.receipts /\ n.deferred = o.deferred /\ n.wait = o.wait
         /\ n.quarantined = o.quarantined
<1> DEFINE r == RevokeEnabled(o, e)
<1>0. Fields \subseteq DOMAIN o BY DEF Single
<1>1. Level(o, r) /\ r.wait = o.wait
  BY <1>0, RevokeEnabledLevel DEF RevokeEnabled, Revoke, Fields
<1>2. n = [r EXCEPT !.pending = NoOp, !.blocked = TRUE] BY DEF Aborted
<1> HIDE DEF r
<1>3. /\ Fields \subseteq DOMAIN n /\ n.receipts = o.receipts /\ n.deferred = o.deferred
      /\ n.pending = NoOp /\ n.done = o.done /\ o.failed \subseteq n.failed
      /\ n.draining \in {o.draining, NoOp} /\ n.wait = o.wait
      /\ n.quarantined = o.quarantined /\ n.settling \in {o.settling, FALSE}
      /\ n.state = r.state /\ n.tree = r.tree
  BY <1>1, <1>2 DEF Level, Fields
<1>4. (n.state = "Running" \/ Fixed(n)) /\ (Fixed(o) => Fixed(n))
  BY <1>1, <1>3 DEF Level, Single, Fixed
<1>5. Single(n, {o.pending.pay.by}) BY <1>3, <1>4, DroppedSingle
<1>6. QED BY <1>3, <1>5

LEMMA FailMechanicSingle ==
  ASSUME NEW o, NEW e, Single(o, {}), o.pending # NoOp, NEW n, n = FailMechanic(o, e)
  PROVE  /\ Single(n, {}) /\ n.pending = NoOp
         /\ n.receipts = o.receipts /\ n.deferred = o.deferred
         /\ o.wait = NoOp => n.wait = NoOp
<1> DEFINE by == o.pending.pay.by
           a == Aborted(o, e)
<1>1. /\ Single(a, {by}) /\ a.pending = NoOp
      /\ a.receipts = o.receipts /\ a.deferred = o.deferred /\ a.wait = o.wait
  BY AbortedSingle
<1>2. n = Failed(a, by, "none") BY DEF FailMechanic, Aborted
<1> HIDE DEF a, by
<1>3. Level(a, n) /\ Replied(n, by) BY <1>1, <1>2, FailedLevel DEF Single
<1>4. Single(n, {by}) BY <1>1, <1>3, LevelSingle
<1>5. Single(n, {}) BY <1>3, <1>4, EndedSingle
<1>6. QED BY <1>1, <1>3, <1>5 DEF Level

LEMMA FailPreparationSingle ==
  ASSUME NEW o, NEW e, Single(o, {}), o.pending # NoOp, NEW n, n = FailPreparation(o, e)
  PROVE  Single(n, {}) /\ ~Responding(n)
<1> DEFINE r == RevokeEnabled(o, e)
           c == [r EXCEPT !.channel = "Revoked"]
           m == FailMechanic(c, e)
<1>0. Fields \subseteq DOMAIN o BY DEF Single
<1>1. Level(o, r) BY <1>0, RevokeEnabledLevel
<1>2. n \in {QuarantineMechanic(r, o.pending, e),
             [m EXCEPT !.blocked = m.lost \/ m.unproven \/ Backlog(m)]}
  BY DEF FailPreparation
<1> HIDE DEF r
<1>3. Level(r, c) BY <1>1, LevelFields, FlagsLevel
<1>4. Level(o, c) BY <1>1, <1>3, LevelTrans
<1>5. Single(r, {}) /\ Single(c, {}) BY <1>1, <1>4, LevelSingle
<1>6. c.pending # NoOp BY <1>4 DEF Level
<1> HIDE DEF c
<1>7. Single(m, {}) /\ m.pending = NoOp BY <1>5, <1>6, FailMechanicSingle
<1> HIDE DEF m
<1>8. \A v : Level(m, [m EXCEPT !.blocked = v]) BY <1>7, FlagsLevel DEF Single
<1>9. \A v : Single([m EXCEPT !.blocked = v], {}) /\ ~Responding([m EXCEPT !.blocked = v])
  BY <1>7, <1>8, LevelSingle DEF Level, Responding
<1>10. CASE n = QuarantineMechanic(r, o.pending, e) BY <1>5, <1>10, QuarantineMechanicSingle
<1>11. QED BY <1>2, <1>9, <1>10

\* A preparation that fails with the Session still Parked leaves the records.
LEMMA FailPreparationLeaves ==
  ASSUME NEW o, NEW e, Single(o, {}), o.pending # NoOp, NEW n, n = FailPreparation(o, e),
         n.state = "Parked", ~n.unproven
  PROVE  /\ n.receipts = o.receipts /\ n.deferred = o.deferred
         /\ o.wait = NoOp => n.wait = NoOp
<1> DEFINE r == RevokeEnabled(o, e)
           c == [r EXCEPT !.channel = "Revoked"]
           m == FailMechanic(c, e)
           q == QuarantineMechanic(r, o.pending, e)
<1>0. Fields \subseteq DOMAIN o BY DEF Single
<1>1. Level(o, r) BY <1>0, RevokeEnabledLevel
<1>2. n \in {q, [m EXCEPT !.blocked = m.lost \/ m.unproven \/ Backlog(m)]}
  BY DEF FailPreparation
<1> HIDE DEF r
<1>3. Level(r, c) BY <1>1, LevelFields, FlagsLevel
<1>4. Level(o, c) BY <1>1, <1>3, LevelTrans
<1>5. Single(c, {}) BY <1>4, LevelSingle
<1>6. c.pending # NoOp BY <1>4 DEF Level
<1> HIDE DEF c
<1>7. /\ Single(m, {}) /\ m.receipts = c.receipts /\ m.deferred = c.deferred
      /\ c.wait = NoOp => m.wait = NoOp
  BY <1>5, <1>6, FailMechanicSingle
<1> HIDE DEF m
<1>8. \A v : Level(m, [m EXCEPT !.blocked = v]) BY <1>7, FlagsLevel DEF Single
<1>9. q.state = "Parked" => q.unproven
  <2> DEFINE a == [ForgetController(r) EXCEPT !.quarantined = TRUE, !.blocked = TRUE,
                     !.queued = "none", !.finishDrained = "none", !.pending = NoOp]
             t == Terminate(Quiesce(a), e)
             z == [t EXCEPT !.unproven = "cleanup" \in e, !.channel = "Closed",
                       !.state = IF "cleanup" \in e THEN @ ELSE "Terminal"]
  <2>1. Level(r, ForgetController(r)) BY <1>1, LevelFields, ForgetControllerLevel
  <2>2. Fields \subseteq DOMAIN a BY <2>1 DEF Level
  <2>3. q \in {Failed(z, o.pending.pay.by, "err"), RequestFinish(z, "err")}
    BY DEF QuarantineMechanic
  <2> HIDE DEF a
  <2>4. Level(a, Quiesce(a)) BY <2>2, QuiesceLevel
  <2>5. Fields \subseteq DOMAIN t BY <2>4, LevelFields, TerminateLevel
  <2> HIDE DEF t
  <2>6. z.state = "Parked" => z.unproven BY <2>5 DEF Fields
  <2>7. Fields \subseteq DOMAIN z BY <2>5
  <2> HIDE DEF z
  <2>8. \A f : RequestFinish(z, f).state = z.state /\ RequestFinish(z, f).unproven = z.unproven
    BY <2>7 DEF RequestFinish, Fields
  <2>9. \A by, f : Failed(z, by, f).state = z.state /\ Failed(z, by, f).unproven = z.unproven
    BY <2>7 DEF Failed, Reply, Fields
  <2>10. QED BY <2>3, <2>6, <2>8, <2>9
<1> HIDE DEF q
<1>10. n # q BY <1>9
<1>11. Level(m, n) BY <1>2, <1>8, <1>10
<1>12. QED BY <1>4, <1>7, <1>11 DEF Level, Single

LEMMA BeginTerminalReceiptSingle ==
  ASSUME NEW o, NEW finish, Single(o, {}), ~Responding(o),
         NEW n, n = BeginTerminalReceipt(o, finish)
  PROVE  Single(n, {}) /\ ~Responding(n)
<1> DEFINE pay == Payload("Disposal", "Terminal", <<"event">>)
           b == [o EXCEPT !.blocked = TRUE]
           d == Defer(b, pay)
<1>0. ~IsRequest(pay.by) BY CausesAreOwn
<1> HIDE DEF pay
<1>1. Level(o, b) BY FlagsLevel DEF Single
<1>2. Single(b, {}) BY <1>1, LevelSingle
<1>3. b.pending = o.pending BY <1>1 DEF Level
<1> HIDE DEF b
<1>4. Single(d, {}) /\ d.pending = o.pending BY <1>0, <1>2, <1>3, DeferCauseSingle
<1> HIDE DEF d
<1>5. Level(d, RequestFinish(d, finish)) BY <1>4, RequestFinishLevel DEF Single
<1>6. CASE n = RequestFinish(d, finish)
  BY <1>4, <1>5, <1>6, LevelSingle DEF Level, Responding
<1>7. CASE n = Launched(o, pay, "Signing", finish) BY <1>0, <1>7, LaunchedSingle DEF Mute
<1>8. QED BY <1>6, <1>7 DEF BeginTerminalReceipt, Launched, d, b, pay

LEMMA BeginTerminalEventSingle ==
  ASSUME NEW o, NEW finish, NEW e, Single(o, {}), NEW n, n = BeginTerminalEvent(o, finish, e)
  PROVE  Single(n, {}) /\ (Responding(n) => Responding(o))
<1> DEFINE f == ForgetController(o)
           c == Quiesce(f)
           t == Terminate(c, e)
           m == [t EXCEPT !.unproven = FALSE, !.state = "Terminal", !.channel = "Closed"]
           u == [t EXCEPT !.unproven = TRUE, !.blocked = TRUE, !.channel = "Revoked"]
           w == [m EXCEPT !.queued = finish]
<1>1. Level(o, f) BY ForgetControllerLevel DEF Single
<1> HIDE DEF f
<1>2. Level(f, c) BY <1>1, LevelFields, QuiesceLevel
<1> HIDE DEF c
<1>3. Level(c, t) /\ ("cleanup" \notin e => t.tree = "gone")
  BY <1>2, LevelFields, TerminateLevel
<1>4. Level(o, t) BY <1>1, <1>2, <1>3, LevelTrans
<1> HIDE DEF t
<1>5. Level(t, u) BY <1>4 DEF Level, Fields, Fixed
<1>6. "cleanup" \notin e => Level(t, m) BY <1>3, <1>4 DEF Level, Fields, Fixed
<1> HIDE DEF m, u
<1>7. CASE n = o BY <1>7
<1>8. CASE n = RequestFinish(u, "err")
  <2>1. Level(u, n) BY <1>5, <1>8, LevelFields, RequestFinishLevel
  <2>2. Level(o, n) BY <1>4, <1>5, <2>1, LevelTrans
  <2>3. QED BY <2>2, LevelSingle DEF Level, Responding
<1>9. CASE "cleanup" \notin e /\ n = w
  <2>1. Level(m, w) BY <1>6, <1>9, LevelFields, FlagsLevel
  <2>2. Level(o, n) BY <1>4, <1>6, <1>9, <2>1, LevelTrans
  <2>3. QED BY <2>2, LevelSingle DEF Level, Responding
<1>10. CASE "cleanup" \notin e /\ o.pending = NoOp /\ n = BeginTerminalReceipt(m, finish)
  <2>1. Level(o, m) BY <1>4, <1>6, <1>10, LevelTrans
  <2>2. Single(m, {}) /\ ~Responding(m) BY <1>10, <2>1, LevelSingle DEF Level, Responding
  <2>3. QED BY <1>10, <2>2, BeginTerminalReceiptSingle
<1>11. QED BY <1>7, <1>8, <1>9, <1>10 DEF BeginTerminalEvent, w, m, u, t, c, f

LEMMA TakeQueuedSingle ==
  ASSUME NEW o, Single(o, {}), ~Responding(o), NEW n, n = TakeQueued(o)
  PROVE  Single(n, {}) /\ ~Responding(n)
<1> DEFINE d == [o EXCEPT !.queued = "none"]
<1>1. Level(o, d) BY FlagsLevel DEF Single
<1>2. Single(d, {}) /\ ~Responding(d) BY <1>1, LevelSingle DEF Level, Responding
<1> HIDE DEF d
<1>3. CASE n = BeginTerminalReceipt(d, o.queued) BY <1>2, <1>3, BeginTerminalReceiptSingle
<1>4. QED BY <1>3 DEF TakeQueued, d

\* What was not signed yet is owed.
LEMMA OwingSingle ==
  ASSUME NEW o, NEW op, Single(o, {op.pay.by}), o.pending = NoOp,
         IsRequest(op.pay.by) /\ op.index = 0 => ~Marked(o, op.pay.by),
         NEW n, n = Owing(o, op)
  PROVE  Single(n, {op.pay.by}) /\ n.pending = NoOp
<1>1. CASE op.index = 0
  <2>1. n = Defer(o, op.pay) BY <1>1 DEF Owing, Unrecorded
  <2>2. QED BY <1>1, <2>1, DeferSingle
<1>2. CASE op.index # 0 BY <1>2 DEF Owing, Unrecorded
<1>3. QED BY <1>1, <1>2

LEMMA ReparkedSingle ==
  ASSUME NEW o, NEW op, NEW result, NEW e, Single(o, {op.pay.by}), o.pending = NoOp,
         op.respond \/ ~IsRequest(op.pay.by),
         result \in {"Ambiguous", "Terminal", "Running", "Parked"},
         NEW n, n = Reparked(o, op, result, e)
  PROVE  Single(n, {}) /\ ~Responding(n)
<1> DEFINE why == Causal(IF op.phase = "Activating" THEN <<"inactive", op.pay.by[2]>>
                                                    ELSE <<"unacknowledged", op.pay.by[2]>>)
           d == Defer(o, why)
           td == Told(d, op)
           t == Told(o, op)
           r == [t EXCEPT !.queued = "none"]
<1>1. ~IsRequest(why.by) BY CausesAreOwn
<1> HIDE DEF why
<1>2. Single(d, {op.pay.by}) /\ d.pending = NoOp BY <1>1, DeferCauseSingle
<1> HIDE DEF d
<1>3. Single(td, {}) /\ Level(d, td) /\ Single(t, {}) /\ Level(o, t) BY <1>2, ToldSingle
<1> HIDE DEF td, t
<1>4. ~Responding(td) /\ ~Responding(t) BY <1>2, <1>3 DEF Level, Responding
<1>5. Level(t, r) BY <1>3, FlagsLevel DEF Single
<1>6. Single(r, {}) /\ ~Responding(r) BY <1>3, <1>4, <1>5, LevelSingle DEF Level, Responding
<1> HIDE DEF r
<1>7. CASE n = TakeQueued(td) BY <1>3, <1>4, <1>7, TakeQueuedSingle
<1>8. CASE n = TakeQueued(t) BY <1>3, <1>4, <1>8, TakeQueuedSingle
<1>9. CASE n = BeginTerminalEvent(r, "ok", e) BY <1>6, <1>9, BeginTerminalEventSingle
<1>10. CASE n = QuarantineMechanic(o, op, e) BY <1>10, QuarantineMechanicSingle
<1>11. QED BY <1>7, <1>8, <1>9, <1>10 DEF Reparked, r, t, td, d, why

\* What the records say of the operation outlives its being taken off.
LEMMA StillUnmarked ==
  ASSUME NEW o, NEW n, Single(o, {}), o.pending # NoOp,
         n.receipts = o.receipts, n.deferred = o.deferred
  PROVE  /\ IsRequest(o.pending.pay.by) /\ o.pending.index = 0 => ~Marked(n, o.pending.pay.by)
         /\ o.pending.respond \/ ~IsRequest(o.pending.pay.by)
<1>1. Proper(o, o.pending) BY DEF Single
<1>2. QED BY <1>1 DEF Proper, Marked

LEMMA FailResumeSingle ==
  ASSUME NEW o, NEW e, Single(o, {}), o.pending # NoOp, NEW n, n = FailResume(o, e)
  PROVE  Single(n, {}) /\ ~Responding(n)
<1> DEFINE op == o.pending
           a == Aborted(o, e)
           r == Revoke(a, e)
           w == Narrowed(r)
           p == AttemptPark(w, e)
           g == Owing(p, op)
           result == IF "revoke" \in e THEN "Ambiguous" ELSE ParkResult(o, e)
<1>1. /\ Single(a, {op.pay.by}) /\ a.pending = NoOp
      /\ a.receipts = o.receipts /\ a.deferred = o.deferred
  BY AbortedSingle
<1> HIDE DEF a
<1>2. Level(a, r) BY <1>1, RevokeLevel DEF Single
<1> HIDE DEF r
<1>3. Level(a, w) BY <1>2, LevelFields, NarrowedLevel, LevelTrans
<1> HIDE DEF w
<1>4. Level(a, p) BY <1>3, LevelFields, AttemptParkLevel, LevelTrans
<1> HIDE DEF p
<1>5. Single(p, {op.pay.by}) BY <1>1, <1>4, LevelSingle
<1>6. p.pending = NoOp /\ p.receipts = o.receipts /\ p.deferred = o.deferred
  BY <1>1, <1>4 DEF Level
<1>7. /\ IsRequest(op.pay.by) /\ op.index = 0 => ~Marked(p, op.pay.by)
      /\ op.respond \/ ~IsRequest(op.pay.by)
  BY <1>6, StillUnmarked
<1> HIDE DEF op
<1>8. Single(g, {op.pay.by}) /\ g.pending = NoOp BY <1>5, <1>6, <1>7, OwingSingle
<1> HIDE DEF g
<1>9. result \in {"Ambiguous", "Terminal", "Running", "Parked"} BY ParkResults
<1>10. n = Reparked(g, op, result, e) BY DEF FailResume, result, g, op, p, w, r, a
<1> HIDE DEF result
<1>11. QED BY <1>7, <1>8, <1>9, <1>10, ReparkedSingle

LEMMA FailReceiptSingle ==
  ASSUME NEW o, NEW e, Single(o, {}), NEW n, n = FailReceipt(o, e)
  PROVE  Single(n, {}) /\ ~Responding(n)
<1> DEFINE op == o.pending
           a == Aborted(o, e)
           g == Owing(a, op)
           w == Awaiting(g, op, o.deferred)
           t == Told(w, op)
<1>1. CASE o.pending = NoOp
  <2>1. n = o BY <1>1 DEF FailReceipt
  <2>2. QED BY <1>1, <2>1 DEF Responding
<1>2. CASE o.pending # NoOp /\ n = FailPreparation(o, e) BY <1>2, FailPreparationSingle
<1>3. CASE o.pending # NoOp /\ n = FailResume(o, e) BY <1>3, FailResumeSingle
<1>4. CASE o.pending # NoOp /\ n = TakeQueued(t)
  <2>1. /\ Single(a, {op.pay.by}) /\ a.pending = NoOp
        /\ a.receipts = o.receipts /\ a.deferred = o.deferred
    BY <1>4, AbortedSingle
  <2> HIDE DEF a
  <2>2. /\ IsRequest(op.pay.by) /\ op.index = 0 => ~Marked(a, op.pay.by)
        /\ op.respond \/ ~IsRequest(op.pay.by)
    BY <1>4, <2>1, StillUnmarked
  <2> HIDE DEF op
  <2>3. Single(g, {op.pay.by}) /\ g.pending = NoOp BY <2>1, <2>2, OwingSingle
  <2> HIDE DEF g
  <2>4. Level(g, w) BY <2>3, AwaitingLevel DEF Single
  <2> HIDE DEF w
  <2>5. Single(w, {op.pay.by}) BY <2>3, <2>4, LevelSingle
  <2>6. Single(t, {}) /\ Level(w, t) BY <2>2, <2>5, ToldSingle
  <2>7. ~Responding(t) BY <2>3, <2>4, <2>6 DEF Level, Responding
  <2> HIDE DEF t
  <2>8. QED BY <1>4, <2>6, <2>7, TakeQueuedSingle
<1>5. QED BY <1>1, <1>2, <1>3, <1>4 DEF FailReceipt, t, w, g, a, op

LEMMA MaybeSettleSingle ==
  ASSUME NEW o, Single(o, {}), NEW n, n = MaybeSettle(o) PROVE Single(n, {})
<1>1. CASE n = o BY <1>1
<1>2. CASE o.state = "Parked" /\ o.pending = NoOp /\ n = [o EXCEPT !.settling = TRUE]
  <2>1. /\ Fields \subseteq DOMAIN n
        /\ n.receipts = o.receipts /\ n.deferred = o.deferred /\ n.pending = o.pending
        /\ n.done = o.done /\ n.failed = o.failed /\ n.draining = o.draining
        /\ n.wait = o.wait /\ n.quarantined = o.quarantined
        /\ n.state = o.state /\ n.tree = o.tree
    BY <1>2 DEF Single, Fields
  <2>2. Fixed(o) /\ Fixed(n) /\ ~Responding(n) /\ ~Responding(o)
    BY <1>2, <2>1 DEF Single, Fixed, Responding
  <2>3. Parted(n) /\ Leading(n) /\ Fresh(n, {}) /\ n.pending = NoOp
        /\ (~n.quarantined => Answering(n, {}))
    BY <1>2, <2>1 DEF Single, Parted, Leading, Fresh, Answering, Marked, Awaited, Responding,
                      Replied
  <2>4. QED BY <2>1, <2>2, <2>3 DEF Single
<1>3. QED BY <1>1, <1>2 DEF MaybeSettle

LEMMA BeginCausedParkSingle ==
  ASSUME NEW o, NEW cause, NEW e, Single(o, {}), ~Responding(o), ~IsRequest(cause),
         NEW n, n = BeginCausedPark(o, cause, e)
  PROVE  Single(n, {}) /\ ~Responding(n)
<1> DEFINE pay == Causal(cause)
           m == Launched(o, pay, "Signing", "none")
<1>1. ~IsRequest(pay.by) BY CausesAreOwn
<1>2. n \in {m, FailReceipt(m, e)} BY DEF BeginCausedPark, Launched
<1> HIDE DEF pay
<1>3. Single(m, {}) /\ ~Responding(m) BY <1>1, LaunchedSingle DEF Mute
<1> HIDE DEF m
<1>4. CASE n = FailReceipt(m, e) BY <1>3, <1>4, FailReceiptSingle
<1>5. QED BY <1>2, <1>3, <1>4

\* An operation goes on to another phase.
LEMMA PhasedSingle ==
  ASSUME NEW o, NEW phase, Single(o, {}), o.pending # NoOp,
         phase \in {"Applying", "Signing"} => o.pending.index = 0,
         NEW n, Fields \subseteq DOMAIN n,
         n.receipts = o.receipts, n.deferred = o.deferred,
         n.pending = [o.pending EXCEPT !.phase = phase],
         n.done = o.done, n.failed = o.failed, n.draining = o.draining, n.wait = o.wait,
         n.quarantined = o.quarantined, n.settling = o.settling,
         n.state = "Running" \/ Fixed(n), ~n.quarantined /\ n.settling => Fixed(n)
  PROVE  Single(n, {}) /\ n.pending # NoOp /\ n.pending.phase = phase
<1> DEFINE op == o.pending
           np == n.pending
<1>0. Proper(o, op) BY DEF Single
<1>1. /\ np.pay = op.pay /\ np.respond = op.respond /\ np.index = op.index
      /\ np.phase = phase /\ DOMAIN np = DOMAIN op
  BY <1>0 DEF Proper
<1>2. "index" \notin DOMAIN NoOp BY DEF NoOp
<1>3. np # NoOp BY <1>0, <1>1, <1>2 DEF Proper
<1>4. \A by : (Marked(n, by) <=> Marked(o, by)) /\ (Replied(n, by) <=> Replied(o, by))
  BY DEF Marked, Replied
<1>5. Responding(n) <=> Responding(o) BY <1>1, <1>3 DEF Responding
<1>6. \A by : Awaited(n, by) <=> Awaited(o, by) BY <1>1, <1>5 DEF Awaited
<1> HIDE DEF np
<1>7. Proper(n, np) BY <1>0, <1>1, <1>4 DEF Proper
<1>8. Parted(n) /\ Leading(n) BY DEF Single, Parted, Leading
<1>9. Fresh(n, {}) BY <1>4, <1>6 DEF Single, Fresh
<1>10. Answering(o, {}) => Answering(n, {}) BY <1>4, <1>6 DEF Answering
<1>11. Single(n, {}) BY <1>5, <1>7, <1>8, <1>9, <1>10 DEF Single, np
<1>12. QED BY <1>1, <1>3, <1>11 DEF np

LEMMA StartSigningSingle ==
  ASSUME NEW o, NEW owed, NEW e, Single(o, {}), o.pending # NoOp, o.pending.phase = "Applying",
         NEW n, n = StartSigning(o, owed, e)
  PROVE  Single(n, {})
<1>1. CASE n = FailReceipt(o, e) BY <1>1, FailReceiptSingle
<1>2. CASE n = [o EXCEPT !.pending.phase = "Signing"]
  <2>1. /\ Fields \subseteq DOMAIN n
        /\ n.receipts = o.receipts /\ n.deferred = o.deferred
        /\ n.pending = [o.pending EXCEPT !.phase = "Signing"]
        /\ n.done = o.done /\ n.failed = o.failed /\ n.draining = o.draining
        /\ n.wait = o.wait /\ n.quarantined = o.quarantined /\ n.settling = o.settling
        /\ n.state = o.state /\ n.tree = o.tree
    BY <1>2 DEF Single, Fields
  <2>2. o.pending.index = 0 BY DEF Single, Proper
  <2>3. (n.state = "Running" \/ Fixed(n)) /\ (~n.quarantined /\ n.settling => Fixed(n))
    BY <2>1 DEF Single, Fixed
  <2>4. QED BY <2>1, <2>2, <2>3, PhasedSingle
<1>3. QED BY <1>1, <1>2 DEF StartSigning

\* The request q alone is under way, as just taken up.
Mine(n, q) ==
    /\ Single(n, {}) /\ n.pending # NoOp
    /\ n.pending.phase = "Applying" /\ n.pending.pay.by = q.id

LEMMA ApplyingMine ==
  ASSUME NEW o, NEW q, Single(o, {}), ~Responding(o), Unsettled(o),
         o.wait = NoOp, IsRequest(q.id), ~Marked(o, q.id), NEW n, n = Applying(o, q)
  PROVE  Mine(n, q)
BY ApplyingSingle DEF Mine

LEMMA BeginParkSingle ==
  ASSUME NEW o, NEW q, NEW e, Single(o, {}), ~Responding(o), Unsettled(o),
         o.wait = NoOp, IsRequest(q.id), ~Marked(o, q.id), NEW n, n = BeginPark(o, q, e)
  PROVE  Single(n, {})
<1> DEFINE a == Applying(o, q)
           c == Shut(a, e)
           m == AttemptPark(c, e)
           f == FailMechanic(m, e)
<1>a. a = Applying(o, q) OBVIOUS
<1> HIDE DEF a
<1>1. Single(a, {}) /\ a.pending # NoOp /\ a.pending.phase = "Applying"
  BY <1>a, ApplyingMine DEF Mine
<1>2. Level(a, c) BY <1>1, ShutLevel DEF Single
<1> HIDE DEF c
<1>3. Level(a, m) BY <1>2, LevelFields, AttemptParkLevel, LevelTrans
<1> HIDE DEF m
<1>4. Single(m, {}) /\ m.pending # NoOp /\ m.pending.phase = "Applying"
  BY <1>1, <1>3, LevelSingle DEF Level
<1>5. Single(f, {}) BY <1>4, FailMechanicSingle
<1> HIDE DEF f
<1>6. CASE n = f BY <1>5, <1>6
<1>7. CASE n = BeginTerminalEvent(f, "ok", e) BY <1>5, <1>7, BeginTerminalEventSingle
<1>8. CASE n = QuarantineMechanic(m, m.pending, e) BY <1>4, <1>8, QuarantineMechanicSingle
<1>9. CASE n = StartSigning(m, Backlog(o), e) BY <1>4, <1>9, StartSigningSingle
<1>10. QED BY <1>6, <1>7, <1>8, <1>9, ParkResults DEF BeginPark, f, m, c, a

LEMMA BeginInterruptSingle ==
  ASSUME NEW o, NEW q, NEW e, Single(o, {}), ~Responding(o), Unsettled(o),
         o.wait = NoOp, IsRequest(q.id), ~Marked(o, q.id), NEW n, n = BeginInterrupt(o, q, e)
  PROVE  Single(n, {})
<1> DEFINE a == Applying(o, q)
           f == FailMechanic(a, e)
           g == [f EXCEPT !.tree = "gone"]
<1>a. a = Applying(o, q) OBVIOUS
<1> HIDE DEF a
<1>1. Single(a, {}) /\ a.pending # NoOp /\ a.pending.phase = "Applying"
  BY <1>a, ApplyingMine DEF Mine
<1>2. Single(f, {}) BY <1>1, FailMechanicSingle
<1> HIDE DEF f
<1>3. Level(f, g) BY <1>2, FlagsLevel DEF Single
<1> HIDE DEF g
<1>4. Single(g, {}) BY <1>2, <1>3, LevelSingle
<1>5. CASE n = f BY <1>2, <1>5
<1>6. CASE n = BeginTerminalEvent(g, "ok", e) BY <1>4, <1>6, BeginTerminalEventSingle
<1>7. CASE n = QuarantineMechanic(a, a.pending, e) BY <1>1, <1>7, QuarantineMechanicSingle
<1>8. CASE n = StartSigning(a, Backlog(o), e) BY <1>1, <1>8, StartSigningSingle
<1>9. QED BY <1>5, <1>6, <1>7, <1>8 DEF BeginInterrupt, g, f, a

LEMMA BeginDisposalSingle ==
  ASSUME NEW o, NEW q, NEW e, Single(o, {}), ~Responding(o), o.wait = NoOp,
         IsRequest(q.id), ~Marked(o, q.id), NEW n, n = BeginDisposal(o, q, e)
  PROVE  Single(n, {})
<1> DEFINE f == ForgetController(o)
           a == Applying(f, q)
           c == Quiesce(a)
           t == Terminate(c, e)
           m == [t EXCEPT !.unproven = FALSE, !.state = "Terminal", !.channel = "Closed"]
           u == [t EXCEPT !.unproven = TRUE, !.blocked = TRUE, !.channel = "Revoked",
                          !.pending = NoOp]
<1>1. Level(o, f) /\ f.settling = FALSE BY ForgetControllerLevel DEF Single
<1>2. /\ Single(f, {}) /\ ~Responding(f) /\ Unsettled(f) /\ f.wait = NoOp /\ ~Marked(f, q.id)
  BY <1>1, LevelSingle DEF Level, Responding, Unsettled, Marked
<1> HIDE DEF f, c, t, m, u
<1>a. a = Applying(f, q) OBVIOUS
<1> HIDE DEF a
<1>3. Mine(a, q) BY <1>2, <1>a, ApplyingMine
<1>4. Level(a, c) BY <1>3, QuiesceLevel DEF Single, Mine, c
<1>5. Level(c, t) /\ ("cleanup" \notin e => t.tree = "gone")
  BY <1>4, LevelFields, TerminateLevel DEF t
<1>6. Level(a, t) BY <1>4, <1>5, LevelTrans
<1>7. Single(t, {}) /\ t.pending # NoOp /\ t.pending.phase = "Applying" /\ t.pending.pay.by = q.id
  BY <1>3, <1>6, LevelSingle DEF Level, Mine
<1>8. CASE n = Failed(u, q.id, "err")
  <2>1. /\ Fields \subseteq DOMAIN u /\ u.receipts = t.receipts /\ u.deferred = t.deferred
        /\ u.pending = NoOp /\ u.done = t.done /\ u.failed = t.failed
        /\ u.draining = t.draining /\ u.wait = t.wait /\ u.quarantined = t.quarantined
        /\ u.settling = t.settling /\ u.state = t.state /\ u.tree = t.tree
    BY <1>7 DEF Single, Fields, u
  <2>2. (u.state = "Running" \/ Fixed(u)) /\ (Fixed(t) => Fixed(u))
    BY <1>7, <2>1 DEF Single, Fixed
  <2>3. Single(u, {q.id}) BY <1>7, <2>1, <2>2, DroppedSingle
  <2>4. Level(u, n) /\ Replied(n, q.id) BY <1>8, <2>1, FailedLevel
  <2>5. Single(n, {q.id}) BY <2>3, <2>4, LevelSingle
  <2>6. QED BY <2>4, <2>5, EndedSingle
<1>9. CASE "cleanup" \notin e /\ n = StartSigning(m, Backlog(o), e)
  <2>1. Level(t, m) BY <1>5, <1>7, <1>9 DEF Single, Level, Fields, Fixed, m
  <2>2. Single(m, {}) /\ m.pending # NoOp /\ m.pending.phase = "Applying"
    BY <1>7, <2>1, LevelSingle DEF Level
  <2>3. QED BY <1>9, <2>2, StartSigningSingle
<1>10. QED BY <1>8, <1>9 DEF BeginDisposal, u, m, t, c, a, f

LEMMA BeginControllerLossDisposalSingle ==
  ASSUME NEW o, NEW e, Single(o, {}), Mute(o), NEW n, n = BeginControllerLossDisposal(o, e)
  PROVE  Single(n, {})
<1> DEFINE pay == Payload("Disposal", "Terminal", <<"settled">>)
           a == Launched(o, pay, "Applying", "ok")
           c == Quiesce(a)
           t == Terminate(c, e)
           u == [t EXCEPT !.unproven = TRUE, !.blocked = TRUE, !.pending = NoOp]
           m == [t EXCEPT !.unproven = FALSE, !.lost = FALSE, !.state = "Terminal",
                          !.channel = "Closed"]
<1>0. ~IsRequest(pay.by) BY CausesAreOwn
<1> HIDE DEF pay
<1>1. /\ Single(a, {}) /\ ~Responding(a) /\ a.pending # NoOp /\ a.pending.phase = "Applying"
  BY <1>0, LaunchedSingle
<1> HIDE DEF a
<1>2. Level(a, c) BY <1>1, QuiesceLevel DEF Single
<1> HIDE DEF c
<1>3. Level(c, t) /\ ("cleanup" \notin e => t.tree = "gone")
  BY <1>2, LevelFields, TerminateLevel
<1>4. Level(a, t) BY <1>2, <1>3, LevelTrans
<1>5. Single(t, {}) /\ t.pending # NoOp /\ t.pending.phase = "Applying" /\ ~Responding(t)
  BY <1>1, <1>4, LevelSingle DEF Level, Responding
<1> HIDE DEF t
<1>6. CASE n = u
  <2>1. /\ Fields \subseteq DOMAIN u /\ u.receipts = t.receipts /\ u.deferred = t.deferred
        /\ u.pending = NoOp /\ u.done = t.done /\ u.failed = t.failed
        /\ u.draining = t.draining /\ u.wait = t.wait /\ u.quarantined = t.quarantined
        /\ u.settling = t.settling /\ u.state = t.state /\ u.tree = t.tree
    BY <1>5 DEF Single, Fields
  <2> HIDE DEF u
  <2>2. (u.state = "Running" \/ Fixed(u)) /\ (Fixed(t) => Fixed(u))
    BY <1>5, <2>1 DEF Single, Fixed
  <2>3. Single(u, {t.pending.pay.by}) BY <1>5, <2>1, <2>2, DroppedSingle
  <2>4. ~IsRequest(t.pending.pay.by) BY <1>5 DEF Single, Proper, Responding
  <2>5. QED BY <1>6, <2>3, <2>4, EndedSingle
<1>7. CASE "cleanup" \notin e /\ n = StartSigning(m, Backlog(o), e)
  <2>1. Level(t, m) BY <1>3, <1>5, <1>7 DEF Single, Level, Fields, Fixed
  <2> HIDE DEF m
  <2>2. Single(m, {}) /\ m.pending # NoOp /\ m.pending.phase = "Applying"
    BY <1>5, <2>1, LevelSingle DEF Level
  <2>3. QED BY <1>7, <2>2, StartSigningSingle
<1>8. QED BY <1>6, <1>7 DEF BeginControllerLossDisposal, Launched, u, m, t, c, a, pay

LEMMA ControllerGoneSingle ==
  ASSUME NEW o, NEW was, NEW e, Single(o, {}), ~Responding(o), NEW n, n = ControllerGone(o, was, e)
  PROVE  Single(n, {})
<1> DEFINE m == IF o.state = "Parked" THEN o ELSE AttemptPark(o, e)
           p == [m EXCEPT !.lostPark = TRUE]
<1>1. Level(o, m) BY AttemptParkLevel, LevelSelf DEF Single
<1> HIDE DEF m
<1>2. Single(m, {}) /\ ~Responding(m) BY <1>1, LevelSingle DEF Level, Responding
<1>3. Level(m, p) BY <1>2, FlagsLevel DEF Single
<1> HIDE DEF p
<1>4. Single(p, {}) /\ ~Responding(p) BY <1>2, <1>3, LevelSingle DEF Level, Responding
<1>5. ~IsRequest(<<"controller">>) BY CausesAreOwn
<1>6. CASE n = BeginTerminalEvent(m, "ok", e) BY <1>2, <1>6, BeginTerminalEventSingle
<1>7. CASE n = QuarantineMechanic(m, NoOp, e) BY <1>2, <1>7, QuarantineMechanicSingle
<1>8. CASE n = m BY <1>2, <1>8
<1>9. CASE n = MaybeSettle(m) BY <1>2, <1>9, MaybeSettleSingle
<1>10. CASE n = BeginCausedPark(p, <<"controller">>, e)
  BY <1>4, <1>5, <1>10, BeginCausedParkSingle
<1>11. QED BY <1>6, <1>7, <1>8, <1>9, <1>10 DEF ControllerGone, p, m

LEMMA BeginControllerLossSingle ==
  ASSUME NEW o, NEW e, Single(o, {}), NEW n, n = BeginControllerLoss(o, e) PROVE Single(n, {})
<1> DEFINE c == CancelWait(o)
           l == [c EXCEPT !.lost = TRUE, !.blocked = TRUE]
           f == FailReceipt(l, e)
           s == Shut(f, e)
<1>1. Level(o, c) BY CancelWaitLevel DEF Single
<1> HIDE DEF c
<1>2. Single(c, {}) BY <1>1, LevelSingle
<1>3. Level(c, l) BY <1>2 DEF Single, Level, Fields, Fixed
<1> HIDE DEF l
<1>4. Single(l, {}) BY <1>2, <1>3, LevelSingle
<1>5. Single(f, {}) /\ ~Responding(f) BY <1>4, FailReceiptSingle
<1> HIDE DEF f
<1>6. Level(f, s) BY <1>5, ShutLevel DEF Single
<1> HIDE DEF s
<1>7. Single(s, {}) /\ ~Responding(s) BY <1>5, <1>6, LevelSingle DEF Level, Responding
<1>8. Single(ControllerGone(s, c.state, e), {}) BY <1>7, ControllerGoneSingle
<1>9. n \in {c, ControllerGone(s, c.state, e)} BY DEF BeginControllerLoss, s, f, l, c
<1>10. QED BY <1>2, <1>8, <1>9

\* A durable outcome answers its request.
LEMMA CompleteSingle ==
  ASSUME NEW o, NEW enable, NEW e, Single(o, {}), o.pending # NoOp, NEW r,
         r = Complete(o, enable, e)
  PROVE  Single(r, {})
<1> DEFINE op == o.pending
           settles == o.lostPark /\ op.pay.by = <<"controller">>
           n == [o EXCEPT !.pending = NoOp,
                   !.done = IF op.respond THEN @ \union {op.pay.by} ELSE @]
           m == IF op.pay.kind = "Park" /\ ~n.lost /\ ~n.unproven /\ ~Backlog(n)
                THEN [n EXCEPT !.blocked = FALSE] ELSE n
           told == IF op.respond
                   THEN Reply(m, op.finish, IF op.pay.to = "Terminal" THEN op.index ELSE 0)
                   ELSE RequestFinish(m, op.finish)
           last == [told EXCEPT !.lostPark = @ /\ ~settles]
           a == [o EXCEPT !.pending.phase = "Activating"]
<1>0. Proper(o, op) BY DEF Single
<1>1. /\ Fields \subseteq DOMAIN n /\ n.receipts = o.receipts /\ n.deferred = o.deferred
      /\ n.pending = NoOp /\ o.done \subseteq n.done /\ n.failed = o.failed
      /\ n.draining = o.draining /\ n.wait = o.wait /\ n.quarantined = o.quarantined
      /\ n.settling = o.settling /\ n.state = o.state /\ n.tree = o.tree
      /\ op.respond => op.pay.by \in n.done
  <2>1. CASE op.respond BY <2>1 DEF Single, Fields
  <2>2. CASE ~op.respond BY <2>2 DEF Single, Fields
  <2>3. QED BY <2>1, <2>2
<1> HIDE DEF n
<1>2. (n.state = "Running" \/ Fixed(n)) /\ (Fixed(o) => Fixed(n))
  BY <1>1 DEF Single, Fixed
<1>3. Single(n, {op.pay.by}) BY <1>1, <1>2, DroppedSingle
<1>4. IsRequest(op.pay.by) => Replied(n, op.pay.by) BY <1>0, <1>1 DEF Proper, Replied
<1>5. Single(n, {}) /\ ~Responding(n) BY <1>1, <1>3, <1>4, EndedSingle DEF Responding
<1>6. Level(n, m) BY <1>5, FlagsLevel, LevelSelf DEF Single
<1> HIDE DEF m
<1>7. Level(m, told) BY <1>6, LevelFields, ReplyLevel, RequestFinishLevel
<1> HIDE DEF told
<1>8. Level(told, last) BY <1>7, LevelFields, FlagsLevel
<1> HIDE DEF last
<1>9. Level(n, last) BY <1>6, <1>7, <1>8, LevelTrans
<1>10. Single(last, {}) /\ ~Responding(last) BY <1>5, <1>9, LevelSingle DEF Level, Responding
<1>11. Single(a, {})
  <2>1. /\ Fields \subseteq DOMAIN a
        /\ a.receipts = o.receipts /\ a.deferred = o.deferred
        /\ a.pending = [o.pending EXCEPT !.phase = "Activating"]
        /\ a.done = o.done /\ a.failed = o.failed /\ a.draining = o.draining
        /\ a.wait = o.wait /\ a.quarantined = o.quarantined /\ a.settling = o.settling
        /\ a.state = o.state /\ a.tree = o.tree
    BY DEF Single, Fields
  <2>2. (a.state = "Running" \/ Fixed(a)) /\ (~a.quarantined /\ a.settling => Fixed(a))
    BY <2>1 DEF Single, Fixed
  <2> HIDE DEF a
  <2>3. QED BY <2>1, <2>2, PhasedSingle
<1> HIDE DEF a
<1>12. CASE r = FailReceipt(a, e) BY <1>11, <1>12, FailReceiptSingle
<1>13. CASE r = [a EXCEPT !.gate = TRUE]
  <2>1. Level(a, r) BY <1>11, <1>13 DEF Single, Level, Fields, Fixed
  <2>2. QED BY <1>11, <2>1, LevelSingle
<1>14. CASE r = TakeQueued(last) BY <1>10, <1>14, TakeQueuedSingle
<1>15. CASE r = MaybeSettle(last) BY <1>10, <1>15, MaybeSettleSingle
<1>16. CASE r = last BY <1>10, <1>16
<1>17. QED
  BY <1>12, <1>13, <1>14, <1>15, <1>16 DEF Complete, a, last, told, m, n, settles, op
-----------------------------------------------------------------------------
(* The broker is lost and found *)

LEMMA DeferBrokerLossParkSingle ==
  ASSUME NEW o, Single(o, {}), NEW n, n = DeferBrokerLossPark(o)
  PROVE  Single(n, {}) /\ (Responding(n) => Responding(o))
<1> DEFINE why == Causal(<<"reconcile">>)
           d == Defer(o, why)
<1>1. ~IsRequest(why.by) BY CausesAreOwn
<1> HIDE DEF why
<1>2. Single(d, {}) /\ d.pending = o.pending BY <1>1, DeferCauseSingle
<1> HIDE DEF d
<1>3. Level(d, [d EXCEPT !.blocked = TRUE]) BY <1>2 DEF Single, Level, Fields, Fixed
<1>4. n = [d EXCEPT !.blocked = TRUE] BY DEF DeferBrokerLossPark, d, why
<1>5. QED BY <1>2, <1>3, <1>4, LevelSingle DEF Level, Responding

LEMMA ParkForReconciliationSingle ==
  ASSUME NEW o, NEW e, Single(o, {}), NEW n, n = ParkForReconciliation(o, e)
  PROVE  Single(n, {}) /\ (Responding(n) => Responding(o))
<1> DEFINE m == AttemptPark(o, e)
<1>1. Level(o, m) BY AttemptParkLevel DEF Single
<1>2. n \in {o, m, BeginTerminalEvent(m, "ok", e), QuarantineMechanic(m, NoOp, e)}
  BY DEF ParkForReconciliation
<1> HIDE DEF m
<1>3. Single(m, {}) /\ (Responding(m) <=> Responding(o)) BY <1>1, LevelSingle DEF Level, Responding
<1>4. CASE n = BeginTerminalEvent(m, "ok", e) BY <1>3, <1>4, BeginTerminalEventSingle
<1>5. CASE n = QuarantineMechanic(m, NoOp, e) BY <1>3, <1>5, QuarantineMechanicSingle
<1>6. QED BY <1>2, <1>3, <1>4, <1>5

LEMMA FreezeOwingSingle ==
  ASSUME NEW o, NEW e, Single(o, {}), NEW n, n = FreezeOwing(o, e) PROVE Single(n, {})
<1> DEFINE p == ParkForReconciliation(o, e)
<1>1. Single(p, {}) BY ParkForReconciliationSingle
<1>2. n \in {o, DeferBrokerLossPark(p)} BY DEF FreezeOwing
<1> HIDE DEF p
<1>3. Single(DeferBrokerLossPark(p), {}) BY <1>1, DeferBrokerLossParkSingle
<1>4. QED BY <1>2, <1>3

LEMMA LoseBrokerSingle ==
  ASSUME NEW o, NEW e, Single(o, {}), NEW n, n = LoseBroker(o, e) PROVE Single(n, {})
<1> DEFINE d == Detached(o, e)
           f == FailGuarded(d, e)
<1>1. Level(o, d) BY DetachedLevel DEF Single
<1> HIDE DEF d
<1>2. Single(d, {}) BY <1>1, LevelSingle
<1>3. f \in {d, FailReceipt(d, e)} BY DEF FailGuarded
<1>4. Single(FailReceipt(d, e), {}) BY <1>2, FailReceiptSingle
<1>5. Single(f, {}) BY <1>2, <1>3, <1>4
<1>6. n \in {o, Offering(f)} BY DEF LoseBroker, f, d
<1> HIDE DEF f
<1>7. Level(f, Offering(f)) BY <1>5 DEF Single, Offering, Level, Fields, Fixed
<1>8. QED BY <1>5, <1>6, <1>7, LevelSingle

LEMMA UnreachableSingle ==
  ASSUME NEW o, NEW e, Single(o, {}), ~Responding(o), NEW n, n = Unreachable(o, e)
  PROVE  Single(n, {})
<1> DEFINE p == ParkForReconciliation(o, e)
           gone == [p EXCEPT !.conn = "Disconnected"]
           d == [o EXCEPT !.conn = "Disconnected"]
<1>1. Single(p, {}) /\ ~Responding(p) BY ParkForReconciliationSingle
<1>2. n \in {d, p, gone, BeginCausedPark(gone, <<"broker">>, e)}
  BY DEF Unreachable, ParkUnreachable
<1> HIDE DEF p
<1>3. Level(p, gone) /\ Level(o, d) BY <1>1 DEF Single, Level, Fields, Fixed
<1> HIDE DEF gone, d
<1>4. Single(gone, {}) /\ ~Responding(gone) /\ Single(d, {})
  BY <1>1, <1>3, LevelSingle DEF Level, Responding
<1>5. ~IsRequest(<<"broker">>) BY CausesAreOwn
<1>6. Single(BeginCausedPark(gone, <<"broker">>, e), {}) BY <1>4, <1>5, BeginCausedParkSingle
<1>7. QED BY <1>1, <1>2, <1>4, <1>6

LEMMA GraceExpiredSingle ==
  ASSUME NEW o, NEW e, Single(o, {}), NEW n, n = GraceExpired(o, e) PROVE Single(n, {})
<1> DEFINE f == FailReceipt(o, e)
<1>1. Single(f, {}) /\ ~Responding(f) BY FailReceiptSingle
<1>2. n = Unreachable(f, e) BY DEF GraceExpired
<1> HIDE DEF f
<1>3. QED BY <1>1, <1>2, UnreachableSingle

\* Draining begins with the first that is owed.
LEMMA StartDrainingSingle ==
  ASSUME NEW o, Single(o, {}), NEW n, n = StartDraining(o) PROVE Single(n, {})
<1> DEFINE d == [phase |-> "Signing", pay |-> o.deferred[1], seq |-> Tip(o) + 1, index |-> 0]
<1>1. d.pay = o.deferred[1] OBVIOUS
<1>2. n = o \/ (o.deferred # <<>> /\ n = [o EXCEPT !.draining = d]) BY DEF StartDraining
<1> HIDE DEF d
<1>3. CASE o.deferred # <<>> /\ n = [o EXCEPT !.draining = d]
  <2>1. /\ Fields \subseteq DOMAIN n
        /\ n.receipts = o.receipts /\ n.deferred = o.deferred /\ n.pending = o.pending
        /\ n.done = o.done /\ n.failed = o.failed /\ n.draining = d
        /\ n.wait = o.wait /\ n.quarantined = o.quarantined /\ n.settling = o.settling
        /\ n.state = o.state /\ n.tree = o.tree
    BY <1>3 DEF Single, Fields
  <2>2. \A by : /\ Marked(n, by) <=> Marked(o, by)
                /\ Replied(n, by) <=> Replied(o, by)
                /\ Awaited(n, by) <=> Awaited(o, by)
    BY <2>1 DEF Marked, Replied, Awaited, Responding
  <2>3. Leading(n) BY <1>1, <1>3, <2>1 DEF Leading
  <2>4. Parted(n) /\ Fresh(n, {}) BY <2>1, <2>2 DEF Single, Parted, Fresh
  <2>5. n.pending # NoOp => Proper(n, n.pending) BY <2>1, <2>2 DEF Single, Proper
  <2>6. Answering(o, {}) => Answering(n, {}) BY <2>2 DEF Answering
  <2>7. (Responding(n) <=> Responding(o)) /\ (Fixed(n) <=> Fixed(o))
    BY <2>1 DEF Responding, Fixed
  <2>8. QED BY <2>1, <2>3, <2>4, <2>5, <2>6, <2>7 DEF Single
<1>4. QED BY <1>2, <1>3

LEMMA CompleteDurableSingle ==
  ASSUME NEW o, NEW e, Single(o, {}), NEW n, n = CompleteDurable(o, e) PROVE Single(n, {})
<1>1. CASE o.pending.phase = "AwaitingDurableAck" /\ n = Complete(o, FALSE, e)
  <2>1. o.pending # NoOp BY <1>1 DEF NoOp
  <2>2. QED BY <1>1, <2>1, CompleteSingle
<1>2. CASE n = o BY <1>2
<1>3. QED BY <1>1, <1>2 DEF CompleteDurable

LEMMA ReattachedSingle ==
  ASSUME NEW o, Single(o, {}), NEW n, n = Reattached(o) PROVE Single(n, {})
<1> DEFINE m == [o EXCEPT !.conn = "Connected",
                    !.lostPark = @ /\ ~\E i \in 1 .. o.brokerHead :
                                          o.receipts[i].by = <<"controller">>]
<1>1. Level(o, m) BY DEF Single, Level, Fields, Fixed
<1>2. n = MaybeSettle(m) BY DEF Reattached
<1> HIDE DEF m
<1>3. Single(m, {}) BY <1>1, LevelSingle
<1>4. QED BY <1>2, <1>3, MaybeSettleSingle

LEMMA ReconciledSingle ==
  ASSUME NEW o, NEW e, Single(o, {}), NEW n, n = Reconciled(o, e) PROVE Single(n, {})
<1> DEFINE back == Reattached(o)
           free == Unblock(back)
           froze == FreezeOwing(o, e)
           drain == [froze EXCEPT !.conn = "Reconciling"]
           m == ParkForReconciliation(o, e)
<1>1. Single(back, {}) BY ReattachedSingle
<1> HIDE DEF back
<1>2. Level(back, free) BY <1>1, UnblockLevel DEF Single
<1> HIDE DEF free
<1>3. Level(back, FinishDrained(free)) BY <1>2, LevelFields, FinishDrainedLevel, LevelTrans
<1>4. Single(FinishDrained(free), {}) BY <1>1, <1>3, LevelSingle
<1>5. Single(froze, {}) BY FreezeOwingSingle
<1> HIDE DEF froze
<1>6. Level(froze, drain) BY <1>5, FlagsLevel DEF Single
<1> HIDE DEF drain
<1>7. Single(drain, {}) BY <1>5, <1>6, LevelSingle
<1>8. Single(StartDraining(drain), {}) BY <1>7, StartDrainingSingle
<1>9. Single(m, {}) BY ParkForReconciliationSingle
<1> HIDE DEF m
<1>10. Level(m, Unfrozen(m)) BY <1>9, UnfrozenLevel DEF Single
<1>11. Single(Unfrozen(m), {}) BY <1>9, <1>10, LevelSingle
<1>12. QED BY <1>4, <1>8, <1>11 DEF Reconciled, m, drain, froze, free, back

LEMMA FinishReconnectSingle ==
  ASSUME NEW o, NEW e, Single(o, {}), NEW n, n = FinishReconnect(o, e) PROVE Single(n, {})
<1> DEFINE z == [o EXCEPT !.resending = 0]
           c == CompleteDurable(z, e)
<1>1. Level(o, z) BY FlagsLevel DEF Single
<1> HIDE DEF z
<1>2. Single(z, {}) BY <1>1, LevelSingle
<1>3. Single(c, {}) BY <1>2, CompleteDurableSingle
<1>4. n = Reconciled(c, e) BY DEF FinishReconnect, c, z
<1> HIDE DEF c
<1>5. QED BY <1>3, <1>4, ReconciledSingle

LEMMA FailReconciliationSingle ==
  ASSUME NEW o, NEW e, Single(o, {}), NEW n, n = FailReconciliation(o, e) PROVE Single(n, {})
<1> DEFINE z == [o EXCEPT !.resending = 0, !.blocked = TRUE]
           p == ParkForReconciliation(z, e)
           owing == IF o.state = "Running" /\ p.state = "Parked"
                    THEN DeferBrokerLossPark(p) ELSE p
           w == Narrowed(owing)
           c == [w EXCEPT !.conn = "Connected"]
<1>1. Level(o, z) BY DEF Single, Level, Fields, Fixed
<1>2. n \in {p, c} BY DEF FailReconciliation, Unreconciled
<1> HIDE DEF z
<1>3. Single(z, {}) BY <1>1, LevelSingle
<1>4. Single(p, {}) BY <1>3, ParkForReconciliationSingle
<1> HIDE DEF p
<1>5. Single(owing, {}) BY <1>4, DeferBrokerLossParkSingle
<1> HIDE DEF owing
<1>6. Level(owing, w) BY <1>5, NarrowedLevel DEF Single
<1> HIDE DEF w
<1>7. Level(w, c) BY <1>6, LevelFields, FlagsLevel
<1> HIDE DEF c
<1>8. Level(owing, c) BY <1>6, <1>7, LevelTrans
<1>9. Single(c, {}) BY <1>5, <1>8, LevelSingle
<1>10. QED BY <1>2, <1>4, <1>9

LEMMA CatchUpSingle ==
  ASSUME NEW o, NEW head, NEW e, Single(o, {}), NEW n, n = CatchUp(o, head, e)
  PROVE  Single(n, {})
<1> DEFINE f == FreezeOwing(o, e)
           r == [f EXCEPT !.conn = "Reconciling", !.resending = head + 1]
           p == ParkForReconciliation(o, e)
<1>1. n \in {Send(r, head + 1), p, FailReconciliation(p, e)} BY DEF CatchUp, FailUnfrozen
<1>2. Single(f, {}) /\ Single(p, {}) BY FreezeOwingSingle, ParkForReconciliationSingle
<1> HIDE DEF p, f
<1>3. Level(f, r) BY <1>2 DEF Single, Level, Fields, Fixed
<1> HIDE DEF r
<1>4. Level(r, Send(r, head + 1)) BY <1>3, LevelFields, SendLevel
<1>5. Level(f, Send(r, head + 1)) BY <1>3, <1>4, LevelTrans
<1>6. Single(Send(r, head + 1), {}) BY <1>2, <1>5, LevelSingle
<1>7. Single(FailReconciliation(p, e), {}) BY <1>2, FailReconciliationSingle
<1>8. QED BY <1>1, <1>2, <1>6, <1>7

LEMMA ReconnectedSingle ==
  ASSUME NEW o, NEW head, NEW e, Single(o, {}), NEW n, n = Reconnected(o, head, e)
  PROVE  Single(n, {})
<1> DEFINE m == [o EXCEPT !.brokerHead = head, !.trying = FALSE]
           f == FailReceipt(m, e)
<1>1. Level(o, m) BY DEF Single, Level, Fields, Fixed
<1>2. n \in {FinishReconnect(m, e), CatchUp(f, head, e)} BY DEF Reconnected
<1> HIDE DEF m
<1>3. Single(m, {}) BY <1>1, LevelSingle
<1>4. Single(f, {}) BY <1>3, FailReceiptSingle
<1> HIDE DEF f
<1>5. CASE n = FinishReconnect(m, e) BY <1>3, <1>5, FinishReconnectSingle
<1>6. CASE n = CatchUp(f, head, e) BY <1>4, <1>6, CatchUpSingle
<1>7. QED BY <1>2, <1>5, <1>6

LEMMA AcknowledgedSingle ==
  ASSUME NEW o, NEW i, NEW e, Single(o, {}), NEW n, n = Acknowledged(o, i, e)
  PROVE  Single(n, {})
<1> DEFINE d == [o EXCEPT !.brokerHead = i, !.draining = NoOp]
           b == [o EXCEPT !.brokerHead = i]
           r == [b EXCEPT !.resending = i + 1]
<1>0. Fields \subseteq DOMAIN o BY DEF Single
<1>1. Level(o, d) /\ Level(o, b) BY <1>0 DEF Level, Fields, Fixed
<1>2. \/ n \in {o, FailDraining(o), FinishReconnect(d, e), StartDraining(d),
                FailReconciliation(o, e), Send(r, i + 1), FinishReconnect(b, e),
                FailReceipt(o, e)}
      \/ o.pending.phase = "AwaitingDurableAck" /\ n = Complete(b, TRUE, e)
  BY DEF Acknowledged
<1> HIDE DEF d, b
<1>3. Single(d, {}) /\ Single(b, {}) BY <1>1, LevelSingle
<1>4. Level(b, r) BY <1>3, FlagsLevel DEF Single
<1> HIDE DEF r
<1>5. Level(r, Send(r, i + 1)) BY <1>4, LevelFields, SendLevel
<1>6. Level(b, Send(r, i + 1)) BY <1>4, <1>5, LevelTrans
<1>7. Single(Send(r, i + 1), {}) BY <1>3, <1>6, LevelSingle
<1>8. Level(o, FailDraining(o)) BY <1>0, FailDrainingLevel
<1>9. Single(FailDraining(o), {}) BY <1>8, LevelSingle
<1>10. /\ Single(FinishReconnect(d, e), {}) /\ Single(FinishReconnect(b, e), {})
       /\ Single(StartDraining(d), {}) /\ Single(FailReconciliation(o, e), {})
       /\ Single(FailReceipt(o, e), {})
  BY <1>3, FinishReconnectSingle, StartDrainingSingle, FailReconciliationSingle, FailReceiptSingle
<1>11. CASE o.pending.phase = "AwaitingDurableAck" /\ n = Complete(b, TRUE, e)
  <2>1. b.pending # NoOp BY <1>1, <1>11 DEF Level, NoOp
  <2>2. QED BY <1>3, <1>11, <2>1, CompleteSingle
<1>12. QED BY <1>2, <1>7, <1>9, <1>10, <1>11

LEMMA SuspendConformanceSingle ==
  ASSUME NEW o, NEW contained, NEW e, Single(o, {}), NEW n, n = SuspendConformance(o, contained, e)
  PROVE  Single(n, {})
<1> DEFINE c == [o EXCEPT !.contained = @ \/ contained]
           s == Shut(c, e)
           m == [s EXCEPT !.suspended = TRUE]
           z == AttemptPark(m, e)
           f == FailReceipt(z, e)
           why == Causal(<<"conformance">>)
<1>0. ~IsRequest(<<"conformance">>) /\ ~IsRequest(why.by) BY CausesAreOwn
<1>1. Level(o, c) BY FlagsLevel DEF Single
<1>2. \/ n \in {c, QuarantineMechanic(z, o.pending, e), z, f, Defer(f, why)}
      \/ o.pending = NoOp /\ n = BeginCausedPark(z, <<"conformance">>, e)
  BY DEF SuspendConformance, OweSuspension
<1> HIDE DEF c, why
<1>3. Level(c, s) BY <1>1, LevelFields, ShutLevel
<1> HIDE DEF s
<1>4. Level(s, m) BY <1>3 DEF Level, Fields, Fixed
<1> HIDE DEF m
<1>5. Level(m, z) BY <1>4, LevelFields, AttemptParkLevel
<1> HIDE DEF z
<1>6. Level(o, z) BY <1>1, <1>3, <1>4, <1>5, LevelTrans
<1>7. Single(c, {}) /\ Single(z, {}) BY <1>1, <1>6, LevelSingle
<1>8. Single(f, {}) BY <1>7, FailReceiptSingle
<1> HIDE DEF f
<1>9. Single(Defer(f, why), {}) BY <1>0, <1>8, DeferCauseSingle
<1>10. Single(QuarantineMechanic(z, o.pending, e), {}) BY <1>7, QuarantineMechanicSingle
<1>11. CASE o.pending = NoOp /\ n = BeginCausedPark(z, <<"conformance">>, e)
  <2>1. ~Responding(z) BY <1>6, <1>11 DEF Level, Responding
  <2>2. QED BY <1>0, <1>7, <1>11, <2>1, BeginCausedParkSingle
<1>12. QED BY <1>2, <1>7, <1>8, <1>9, <1>10, <1>11

LEMMA WithdrawKeyAuthoritySingle ==
  ASSUME NEW o, NEW e, Single(o, {}), NEW n, n = WithdrawKeyAuthority(o, e) PROVE Single(n, {})
<1> DEFINE r == Revoke(o, e)
           w == [r EXCEPT !.withdrawn = TRUE, !.blocked = TRUE, !.channel = "Revoked"]
           a == AttemptPark(w, e)
           m == [a EXCEPT !.conn = "Disconnected", !.trying = FALSE, !.wire = <<>>, !.acks = <<>>]
<1>1. Level(o, r) BY RevokeLevel DEF Single
<1>2. n \in {m, QuarantineMechanic(m, NoOp, e)} BY DEF WithdrawKeyAuthority
<1> HIDE DEF r
<1>3. Level(r, w) BY <1>1 DEF Level, Fields, Fixed
<1> HIDE DEF w
<1>4. Level(w, a) BY <1>3, LevelFields, AttemptParkLevel
<1> HIDE DEF a
<1>5. Level(a, m) BY <1>4 DEF Level, Fields, Fixed
<1> HIDE DEF m
<1>6. Level(o, m) BY <1>1, <1>3, <1>4, <1>5, LevelTrans
<1>7. Single(m, {}) BY <1>6, LevelSingle
<1>8. Single(QuarantineMechanic(m, NoOp, e), {}) BY <1>7, QuarantineMechanicSingle
<1>9. QED BY <1>2, <1>7, <1>8
-----------------------------------------------------------------------------
(* Every step leaves one record of a request *)

\* The requests are told apart from the owner's own causes, and one thing
\* happens at a time.
Requesting == /\ OwnerInvariant /\ Single(owner, {}) /\ \A q \in asked : IsRequest(q.id)

LEMMA LevelStep ==
  ASSUME Single(owner, {}), Level(owner, owner') PROVE Single(owner', {})
  BY LevelSingle

\* What is admitted has no record, and settles nothing that is under way.
LEMMA AdmittedUnmarked ==
  ASSUME Requesting, NEW q \in asked, Admitted(q)
  PROVE  /\ IsRequest(q.id) /\ ~Marked(owner, q.id) /\ ~owner.quarantined
         /\ owner.lost \in BOOLEAN /\ (owner.settling => owner.lost) /\ (owner.lost => owner.blocked)
         /\ owner.state \in {"Running", "Parked"}
         /\ ~Cancels(q) => owner.pending = NoOp /\ owner.wait = NoOp /\ ~Responding(owner)
<1>1. Typed(owner) BY OrderlyTyped DEF Requesting, OwnerInvariant
<1>2. IsRequest(q.id) /\ Single(owner, {}) BY DEF Requesting
<1>3. ~owner.quarantined /\ ~Replied(owner, q.id) BY DEF Admitted, Heard, Answered, Replied
<1>4. owner.state \in {"Running", "Parked"} BY <1>1 DEF Admitted, Transition, Typed
<1>5. ~Cancels(q) => owner.pending = NoOp /\ owner.wait = NoOp BY DEF Admitted
<1>6. Preparing(owner) => owner.pending # NoOp /\ owner.pending.phase = "Applying"
  BY DEF Preparing, Doing
<1>7. owner.wait # NoOp => owner.pending = NoOp
  BY <1>4 DEF Requesting, OwnerInvariant, Orderly, Fit, Waits
<1>8. owner.pending = NoOp \/ owner.pending.phase = "Applying"
  BY <1>5, <1>6, <1>7 DEF Cancels
<1>9. Awaited(owner, q.id) => ~Marked(owner, q.id)
  BY <1>2, <1>8 DEF Awaited, Responding, Single, Proper
<1>10. ~Marked(owner, q.id) BY <1>2, <1>3, <1>9 DEF Single, Answering
<1>11. QED BY <1>1, <1>2, <1>3, <1>4, <1>5, <1>10 DEF Typed, Responding

LEMMA DisposeSingle ==
  ASSUME Requesting, NEW q \in asked, Dispose(q) PROVE Single(owner', {})
<1> DEFINE n == CancelWait(owner)
           m(e) == IF Preparing(n) THEN FailPreparation(n, e) ELSE n
<1>1. PICK e : owner' = IF Preparing(n) /\ (m(e).state # "Parked" \/ m(e).unproven) THEN m(e)
                        ELSE BeginDisposal(m(e), q, e)
  BY DEF Dispose, Handle
<1>2. q.act = "Disposal" /\ Admitted(q) BY DEF Dispose
<1>3. /\ IsRequest(q.id) /\ ~Marked(owner, q.id) /\ Single(owner, {})
      /\ owner.state \in {"Running", "Parked"}
      /\ ~Cancels(q) => owner.pending = NoOp /\ owner.wait = NoOp
  BY <1>2, AdmittedUnmarked DEF Requesting
<1>4. Level(owner, n) /\ n.wait = NoOp BY <1>3, CancelWaitLevel DEF Single
<1>5. n.state = owner.state BY <1>3 DEF CancelWait, Failed, Reply, Single, Fields
<1> HIDE DEF n
<1>6. Single(n, {}) /\ n.pending = owner.pending /\ ~Marked(n, q.id)
  BY <1>3, <1>4, LevelSingle DEF Level, Marked
<1>7. Preparing(n) <=> Preparing(owner) BY <1>5, <1>6 DEF Preparing, Doing
<1>8. ~Preparing(n) => ~Responding(n)
  <2> HAVE ~Preparing(n)
  <2>1. owner.wait # NoOp \/ owner.pending = NoOp BY <1>3, <1>7 DEF Cancels
  <2>2. owner.wait # NoOp => owner.pending = NoOp
    BY <1>3 DEF Requesting, OwnerInvariant, Orderly, Fit, Waits
  <2>3. QED BY <1>6, <2>1, <2>2 DEF Responding
<1>9. CASE ~Preparing(n)
  <2>1. owner' = BeginDisposal(n, q, e) BY <1>1, <1>9
  <2>2. QED BY <1>3, <1>4, <1>6, <1>8, <1>9, <2>1, BeginDisposalSingle
<1>10. CASE Preparing(n)
  <2> DEFINE f == FailPreparation(n, e)
  <2>1. n.pending # NoOp BY <1>10 DEF Preparing, Doing
  <2>2. Single(f, {}) /\ ~Responding(f) BY <1>6, <2>1, FailPreparationSingle
  <2>3. m(e) = f BY <1>10
  <2>4. f.state = "Parked" /\ ~f.unproven =>
          f.receipts = n.receipts /\ f.deferred = n.deferred /\ f.wait = NoOp
    BY <1>4, <1>6, <2>1, FailPreparationLeaves
  <2> HIDE DEF f, m
  <2>5. CASE owner' = f BY <2>2, <2>5
  <2>6. CASE f.state = "Parked" /\ ~f.unproven /\ owner' = BeginDisposal(f, q, e)
    <3>1. ~Marked(f, q.id) BY <1>6, <2>4, <2>6 DEF Marked
    <3>2. f.wait = NoOp BY <2>4, <2>6
    <3>3. QED BY <1>3, <2>2, <2>6, <3>1, <3>2, BeginDisposalSingle
  <2>7. QED BY <1>1, <1>10, <2>3, <2>5, <2>6
<1>11. QED BY <1>9, <1>10

LEMMA ResumeSingle ==
  ASSUME Requesting, NEW q \in asked, Resume(q) PROVE Single(owner', {})
<1>1. /\ IsRequest(q.id) /\ ~Marked(owner, q.id) /\ Single(owner, {})
      /\ owner.pending = NoOp /\ owner.wait = NoOp /\ ~Responding(owner) /\ ~owner.settling
  <2>1. q.act = "Resume" /\ Admitted(q) BY DEF Resume
  <2>2. ~Cancels(q) /\ ~owner.blocked BY <2>1 DEF Cancels, Admitted, MayWiden
  <2>3. QED BY <2>1, <2>2, AdmittedUnmarked DEF Requesting
<1>2. CASE owner' = BeginResume(owner, q)
  <2>1. owner' = Applying(owner, q) BY <1>2 DEF BeginResume
  <2>2. Unsettled(owner) BY <1>1 DEF Unsettled
  <2>3. QED BY <1>1, <2>1, <2>2, ApplyingSingle
<1>3. CASE owner' = [owner EXCEPT !.wait = q]
  <2> DEFINE n == [owner EXCEPT !.wait = q]
  <2>1. /\ Fields \subseteq DOMAIN n
        /\ n.receipts = owner.receipts /\ n.deferred = owner.deferred /\ n.pending = NoOp
        /\ n.done = owner.done /\ n.failed = owner.failed /\ n.draining = owner.draining
        /\ n.wait = q /\ n.quarantined = owner.quarantined /\ n.settling = owner.settling
        /\ n.state = owner.state /\ n.tree = owner.tree
    BY <1>1 DEF Single, Fields
  <2> HIDE DEF n
  <2>2. \A by : /\ Marked(n, by) <=> Marked(owner, by)
                /\ Replied(n, by) <=> Replied(owner, by)
                /\ ~Awaited(n, by) /\ ~Awaited(owner, by)
    BY <1>1, <2>1 DEF Marked, Replied, Awaited, Responding
  <2>3. Leading(n) /\ Parted(n) BY <2>1 DEF Leading, Parted, Single, Requesting
  <2>4. Fresh(n, {}) BY <1>1, <2>1, <2>2 DEF Fresh
  <2>5. Answering(owner, {}) => Answering(n, {}) BY <2>2 DEF Answering
  <2>6. ~Responding(n) /\ (Fixed(n) <=> Fixed(owner)) BY <2>1 DEF Responding, Fixed
  <2>7. Single(n, {}) BY <1>1, <2>1, <2>3, <2>4, <2>5, <2>6 DEF Single
  <2>8. QED BY <1>3, <2>7 DEF n
<1>4. QED BY <1>2, <1>3 DEF Resume, Handle

LEMMA RequestedSingle ==
  ASSUME Requesting, NEW q \in asked, Requested(q) PROVE Single(owner', {})
<1>0. Single(owner, {}) /\ Fields \subseteq DOMAIN owner BY DEF Requesting, Single
<1>1. CASE Repeat(q)
  <2>1. \E f, h : owner' = Reply(owner, f, h) BY <1>1 DEF Repeat, Handle
  <2>2. QED BY <1>0, <2>1, ReplyLevel, LevelStep
<1>2. CASE RejectFull(q)
  <2>1. PICK e : owner' = [Narrowed(Revoke(owner, e)) EXCEPT !.blocked = TRUE]
    BY <1>2 DEF RejectFull, Handle
  <2> DEFINE a == Revoke(owner, e)
             n == Narrowed(a)
  <2>2. Level(owner, a) BY <1>0, RevokeLevel
  <2> HIDE DEF a
  <2>3. Level(owner, n) BY <2>2, LevelFields, NarrowedLevel, LevelTrans
  <2> HIDE DEF n
  <2>4. Level(n, [n EXCEPT !.blocked = TRUE]) BY <2>3 DEF Level, Fields, Fixed
  <2>5. Level(owner, owner') BY <2>1, <2>3, <2>4, LevelTrans DEF n, a
  <2>6. QED BY <1>0, <2>5, LevelStep
<1>3. CASE Park(q)
  <2>1. PICK e : owner' = BeginPark(owner, q, e) BY <1>3 DEF Park, Handle
  <2>2. Admitted(q) /\ ~Cancels(q) BY <1>3 DEF Park, Cancels
  <2>3. owner.state = "Running" BY <1>3, <2>2, AdmittedUnmarked DEF Park, Admitted, Transition
  <2>4. Unsettled(owner) BY <1>0, <2>3 DEF Single, Fixed, Unsettled
  <2>5. QED BY <1>0, <2>1, <2>2, <2>4, AdmittedUnmarked, BeginParkSingle
<1>4. CASE Interrupt(q)
  <2>1. PICK e : owner' = BeginInterrupt(owner, q, e) BY <1>4 DEF Interrupt, Handle
  <2>2. Admitted(q) /\ ~Cancels(q) BY <1>4 DEF Interrupt, Cancels
  <2>3. ~owner.lost BY <1>4, <2>2 DEF Interrupt, Admitted
  <2>4. Unsettled(owner) BY <2>2, <2>3, AdmittedUnmarked DEF Unsettled
  <2>5. QED BY <1>0, <2>1, <2>2, <2>4, AdmittedUnmarked, BeginInterruptSingle
<1>5. CASE Dispose(q) BY <1>5, DisposeSingle
<1>6. CASE Resume(q) BY <1>6, ResumeSingle
<1>7. QED BY <1>1, <1>2, <1>3, <1>4, <1>5, <1>6 DEF Requested

LEMMA PreparedSingle ==
  ASSUME Requesting, Prepared PROVE Single(owner', {})
<1> DEFINE running == [owner EXCEPT !.state = "Running", !.tree = "running",
                                    !.pending.phase = "Signing"]
           unknown == [owner EXCEPT !.tree = "unknown"]
           f(e) == FailMechanic(owner, e)
           gone(e) == [f(e) EXCEPT !.tree = "gone"]
<1>0. Single(owner, {}) /\ Fields \subseteq DOMAIN owner /\ Orderly(owner) /\ Typed(owner)
  BY OrderlyTyped DEF Requesting, OwnerInvariant, Single
<1>1. owner.state = "Parked" /\ owner.pending # NoOp /\ owner.pending.phase = "Applying"
  BY DEF Prepared, Preparing, Doing
<1>2. PICK e : owner' \in {FailPreparation(owner, e), BeginTerminalEvent(gone(e), "ok", e),
                           QuarantineMechanic(unknown, owner.pending, e), running}
  BY DEF Prepared, Handle
<1>3. Single(running, {})
  <2>1. owner.pending.index = 0 BY <1>0, <1>1 DEF Single, Proper
  <2>2. ~owner.settling BY <1>0, <1>1 DEF Orderly, Under, Typed
  <2>3. /\ Fields \subseteq DOMAIN running
        /\ running.receipts = owner.receipts /\ running.deferred = owner.deferred
        /\ running.pending = [owner.pending EXCEPT !.phase = "Signing"]
        /\ running.done = owner.done /\ running.failed = owner.failed
        /\ running.draining = owner.draining /\ running.wait = owner.wait
        /\ running.quarantined = owner.quarantined /\ running.settling = owner.settling
        /\ running.state = "Running"
    BY <1>0 DEF Fields
  <2> HIDE DEF running
  <2>4. QED BY <1>0, <1>1, <2>1, <2>2, <2>3, PhasedSingle
<1>4. Level(owner, unknown) BY <1>0, <1>1 DEF Level, Fields, Fixed
<1>5. Single(unknown, {}) BY <1>0, <1>4, LevelSingle
<1> HIDE DEF running, unknown
<1>6. Single(QuarantineMechanic(unknown, owner.pending, e), {}) BY <1>5, QuarantineMechanicSingle
<1>7. Single(f(e), {}) BY <1>0, <1>1, FailMechanicSingle
<1> HIDE DEF f
<1>8. Level(f(e), gone(e)) BY <1>7, FlagsLevel DEF Single
<1>9. Single(gone(e), {}) BY <1>7, <1>8, LevelSingle
<1> HIDE DEF gone
<1>10. Single(BeginTerminalEvent(gone(e), "ok", e), {}) BY <1>9, BeginTerminalEventSingle
<1>11. Single(FailPreparation(owner, e), {}) BY <1>0, <1>1, FailPreparationSingle
<1>12. QED BY <1>2, <1>3, <1>6, <1>10, <1>11

LEMMA SignedSingle ==
  ASSUME Requesting, Signed PROVE Single(owner', {})
<1> DEFINE op == owner.pending
           r == Receipt(op.pay, op.seq)
           i == Tip(owner) + 1
           n == [owner EXCEPT !.receipts = Append(@, r),
                    !.pending.phase = "AwaitingDurableAck", !.pending.index = i]
<1>0. /\ Single(owner, {}) /\ Fields \subseteq DOMAIN owner
      /\ Typed(owner) /\ Tip(owner) \in Nat
  BY OrderlyTyped, Counts DEF Requesting, OwnerInvariant, Single
<1>1. owner' = Send(n, i) /\ op.phase = "Signing" BY DEF Signed, Handle
<1>2. op # NoOp /\ Proper(owner, op) /\ op.index = 0 BY <1>0, <1>1 DEF NoOp, Single, Proper
<1>3. r.by = op.pay.by BY DEF Receipt
<1>4. i # 0 BY <1>0
<1> HIDE DEF r, i
<1>5. /\ Fields \subseteq DOMAIN n
      /\ n.receipts = Append(owner.receipts, r) /\ n.deferred = owner.deferred
      /\ n.pending = [op EXCEPT !.phase = "AwaitingDurableAck", !.index = i]
      /\ n.done = owner.done /\ n.failed = owner.failed /\ n.draining = owner.draining
      /\ n.wait = owner.wait /\ n.quarantined = owner.quarantined
      /\ n.settling = owner.settling /\ n.state = owner.state /\ n.tree = owner.tree
  BY <1>0 DEF Fields
<1> HIDE DEF n
<1>6. /\ n.pending.pay = op.pay /\ n.pending.respond = op.respond /\ n.pending.index = i
      /\ n.pending.phase = "AwaitingDurableAck" /\ DOMAIN n.pending = DOMAIN op
      /\ n.pending # NoOp
  <2> DEFINE np == [op EXCEPT !.phase = "AwaitingDurableAck", !.index = i]
  <2>1. {"phase", "index", "pay", "respond"} \subseteq DOMAIN op
    BY <1>0, <1>2 DEF Typed, UnderWay
  <2> HIDE DEF op
  <2>2. /\ np.pay = op.pay /\ np.respond = op.respond /\ np.index = i
        /\ np.phase = "AwaitingDurableAck" /\ DOMAIN np = DOMAIN op
    BY <2>1
  <2>3. np # NoOp
    <3>1. NoOp.phase = "None" BY DEF NoOp
    <3>2. QED BY <2>2, <3>1
  <2>4. n.pending = np BY <1>5
  <2>5. QED BY <2>2, <2>3, <2>4
<1>7. /\ Sequence(n.receipts)
      /\ \A by : Bears(n.receipts, by) <=> Bears(owner.receipts, by) \/ r.by = by
      /\ IsRequest(r.by) => ~Marked(owner, r.by)
      /\ Distinct(n.receipts)
  <2> DEFINE s == owner.receipts
  <2>1. Sequence(s) /\ Distinct(s) BY <1>0 DEF Single, Parted
  <2>2. IsRequest(r.by) => ~Marked(owner, r.by) BY <1>2, <1>3 DEF Proper
  <2>3. IsRequest(r.by) => ~Bears(s, r.by) BY <2>2 DEF Marked
  <2> HIDE DEF s
  <2>4. /\ Sequence(Append(s, r)) /\ Distinct(Append(s, r))
        /\ \A by : Bears(Append(s, r), by) <=> Bears(s, by) \/ r.by = by
    BY <2>1, <2>3, AppendBears
  <2>5. QED BY <1>5, <2>2, <2>4 DEF s
<1>8. \A by : Marked(n, by) <=> Marked(owner, by) \/ r.by = by BY <1>5, <1>7 DEF Marked
<1>9. \A by : Replied(n, by) <=> Replied(owner, by) BY <1>5 DEF Replied
<1>10. Responding(n) <=> Responding(owner) BY <1>2, <1>6 DEF Responding
<1>11. \A by : Awaited(n, by) <=> Awaited(owner, by) BY <1>6, <1>10 DEF Awaited
<1>12. IsRequest(r.by) => Awaited(owner, r.by)
  BY <1>2, <1>3 DEF Proper, Awaited, Responding
<1>13. Parted(n) BY <1>0, <1>5, <1>7 DEF Single, Parted, Marked
<1>14. Leading(n) BY <1>0, <1>5 DEF Single, Leading
<1>15. Fresh(n, {}) BY <1>0, <1>5, <1>8, <1>11, <1>12 DEF Single, Fresh
<1>16. Proper(n, n.pending) BY <1>2, <1>4, <1>6 DEF Proper
<1>17. Answering(owner, {}) => Answering(n, {})
  BY <1>8, <1>9, <1>11, <1>12 DEF Answering
<1>18. Fixed(n) <=> Fixed(owner) BY <1>5 DEF Fixed
<1>19. Single(n, {})
  BY <1>0, <1>5, <1>7, <1>10, <1>13, <1>14, <1>15, <1>16, <1>17, <1>18 DEF Single
<1>20. Level(n, Send(n, i)) BY <1>5, SendLevel
<1>21. QED BY <1>1, <1>19, <1>20, LevelSingle

\* The head of a sequence leaves it with the rest.
LEMMA TailBears ==
  ASSUME NEW s, Sequence(s), s # <<>>, Distinct(s)
  PROVE  /\ Sequence(Tail(s)) /\ Distinct(Tail(s)) /\ Bears(s, s[1].by)
         /\ \A by : Bears(s, by) <=> Bears(Tail(s), by) \/ s[1].by = by
         /\ IsRequest(s[1].by) => ~Bears(Tail(s), s[1].by)
<1> DEFINE t == Tail(s)
<1>1. PICK S : s \in Seq(S) BY DEF Sequence
<1>2. /\ t \in Seq(S) /\ Len(t) = Len(s) - 1 /\ Len(s) \in Nat \ {0}
      /\ \A i \in 1 .. Len(t) : t[i] = s[i + 1]
  BY <1>1, EmptySeq
<1> HIDE DEF t
<1>3. \A i \in 1 .. Len(t) : i + 1 \in 1 .. Len(s) /\ i + 1 # 1 BY <1>2
<1>4. \A i \in 1 .. Len(s) : i = 1 \/ (i - 1 \in 1 .. Len(t) /\ (i - 1) + 1 = i) BY <1>2
<1>5. 1 \in 1 .. Len(s) BY <1>2
<1>6. Sequence(t) BY <1>2 DEF Sequence
<1>7. \A i, j \in 1 .. Len(t) : i # j => i + 1 # j + 1 BY <1>2
<1>8. Distinct(t)
  <2> SUFFICES ASSUME NEW i \in 1 .. Len(t), NEW j \in 1 .. Len(t), i # j, IsRequest(t[i].by)
               PROVE  t[i].by # t[j].by
    BY DEF Distinct
  <2>1. i + 1 \in 1 .. Len(s) /\ j + 1 \in 1 .. Len(s) /\ i + 1 # j + 1 BY <1>3, <1>7
  <2>2. t[i] = s[i + 1] /\ t[j] = s[j + 1] BY <1>2
  <2>3. QED BY <2>1, <2>2 DEF Distinct
<1>9. Bears(s, s[1].by) BY <1>5 DEF Bears
<1>10. ASSUME NEW by PROVE Bears(s, by) <=> Bears(t, by) \/ s[1].by = by
  <2>1. ASSUME NEW i \in 1 .. Len(s), s[i].by = by, i # 1 PROVE Bears(t, by)
    <3>1. i - 1 \in 1 .. Len(t) /\ t[i - 1] = s[(i - 1) + 1] /\ (i - 1) + 1 = i
      BY <1>2, <1>4, <2>1
    <3>2. QED BY <2>1, <3>1 DEF Bears
  <2>2. ASSUME NEW i \in 1 .. Len(t), t[i].by = by PROVE Bears(s, by)
    <3>1. i + 1 \in 1 .. Len(s) /\ s[i + 1] = t[i] BY <1>2, <1>3
    <3>2. QED BY <2>2, <3>1 DEF Bears
  <2>3. QED BY <1>9, <2>1, <2>2 DEF Bears
<1>11. IsRequest(s[1].by) => ~Bears(t, s[1].by)
  <2> SUFFICES ASSUME IsRequest(s[1].by), NEW i \in 1 .. Len(t), t[i].by = s[1].by PROVE FALSE
    BY DEF Bears
  <2>1. i + 1 \in 1 .. Len(s) /\ i + 1 # 1 /\ s[i + 1] = t[i] BY <1>2, <1>3
  <2>2. QED BY <1>5, <2>1 DEF Distinct
<1>12. QED BY <1>6, <1>8, <1>9, <1>10, <1>11 DEF t

LEMMA DrainSignedSingle ==
  ASSUME Requesting, DrainSigned PROVE Single(owner', {})
<1> DEFINE d == owner.deferred
           r == Receipt(owner.draining.pay, owner.draining.seq)
           i == Tip(owner) + 1
           n == [owner EXCEPT !.receipts = Append(@, r), !.deferred = Tail(@),
                    !.draining.phase = "AwaitingDurableAck", !.draining.index = i]
<1>0. /\ Single(owner, {}) /\ Fields \subseteq DOMAIN owner /\ Orderly(owner)
      /\ Parted(owner) /\ Sequence(d) /\ Sequence(owner.receipts)
  BY DEF Requesting, OwnerInvariant, Single
<1>1. owner' = Send(n, i) /\ owner.draining.phase = "Signing" BY DEF DrainSigned, Handle
<1>2. d # <<>> /\ owner.draining.pay = d[1] BY <1>0, <1>1 DEF Single, Leading
<1>3. {"phase", "index"} \subseteq DOMAIN owner.draining
  BY <1>0, <1>1 DEF Orderly, Fit, Drains, NoOp
<1>4. r.by = d[1].by BY <1>2 DEF Receipt
<1> HIDE DEF r, i
<1>5. /\ Fields \subseteq DOMAIN n
      /\ n.receipts = Append(owner.receipts, r) /\ n.deferred = Tail(d)
      /\ n.pending = owner.pending /\ n.done = owner.done /\ n.failed = owner.failed
      /\ n.draining.phase = "AwaitingDurableAck"
      /\ n.wait = owner.wait /\ n.quarantined = owner.quarantined
      /\ n.settling = owner.settling /\ n.state = owner.state /\ n.tree = owner.tree
  BY <1>0, <1>3 DEF Fields
<1> HIDE DEF n, d
<1>6. /\ Sequence(Tail(d)) /\ Distinct(Tail(d)) /\ Bears(d, d[1].by)
      /\ \A by : Bears(d, by) <=> Bears(Tail(d), by) \/ d[1].by = by
      /\ IsRequest(d[1].by) => ~Bears(Tail(d), d[1].by)
  BY <1>0, <1>2, TailBears DEF Parted, d
<1>7. /\ Sequence(n.receipts) /\ Distinct(n.receipts)
      /\ \A by : Bears(n.receipts, by) <=> Bears(owner.receipts, by) \/ r.by = by
  <2> DEFINE s == owner.receipts
  <2>1. Sequence(s) /\ Distinct(s) BY <1>0 DEF Parted
  <2>2. IsRequest(r.by) => ~Bears(s, r.by) BY <1>0, <1>4, <1>6 DEF Parted, d
  <2> HIDE DEF s
  <2>3. /\ Sequence(Append(s, r)) /\ Distinct(Append(s, r))
        /\ \A by : Bears(Append(s, r), by) <=> Bears(s, by) \/ r.by = by
    BY <2>1, <2>2, AppendBears
  <2>4. QED BY <1>5, <2>3 DEF s
<1>8. \A by : Marked(n, by) <=> Marked(owner, by)
  BY <1>4, <1>5, <1>6, <1>7 DEF Marked, d
<1>9. \A by : Replied(n, by) <=> Replied(owner, by) BY <1>5 DEF Replied
<1>10. (Responding(n) <=> Responding(owner)) /\ (Fixed(n) <=> Fixed(owner))
  BY <1>5 DEF Responding, Fixed
<1>11. \A by : Awaited(n, by) <=> Awaited(owner, by) BY <1>5, <1>10 DEF Awaited
<1>12. Parted(n) BY <1>0, <1>4, <1>5, <1>6, <1>7 DEF Parted, d
<1>13. Leading(n) BY <1>5 DEF Leading
<1>14. Fresh(n, {}) BY <1>0, <1>5, <1>8, <1>11 DEF Single, Fresh
<1>15. n.pending # NoOp => Proper(n, n.pending) BY <1>0, <1>5, <1>8 DEF Single, Proper
<1>16. Answering(owner, {}) => Answering(n, {}) BY <1>8, <1>9, <1>11 DEF Answering
<1>17. Single(n, {})
  BY <1>0, <1>5, <1>6, <1>7, <1>10, <1>12, <1>13, <1>14, <1>15, <1>16 DEF Single
<1>18. Level(n, Send(n, i)) BY <1>5, SendLevel
<1>19. QED BY <1>1, <1>17, <1>18, LevelSingle

LEMMA OperationSingle ==
  ASSUME Requesting, OperationFails \/ Activated \/ ReceiveAck \/ DrainFails
  PROVE  Single(owner', {})
<1>0. Single(owner, {}) /\ Fields \subseteq DOMAIN owner BY DEF Requesting, Single
<1>1. CASE OperationFails BY <1>0, <1>1, FailReceiptSingle DEF OperationFails, Handle
<1>2. CASE Activated
  <2> DEFINE n == [owner EXCEPT !.channel = "Enabled"]
  <2>1. PICK e : owner' \in {FailReceipt(owner, e), Complete(n, FALSE, e)}
    BY <1>2 DEF Activated, Handle
  <2>2. owner.pending # NoOp BY <1>2 DEF Activated, NoOp
  <2>3. Level(owner, n) BY <1>0, FlagsLevel
  <2> HIDE DEF n
  <2>4. Single(n, {}) /\ n.pending # NoOp BY <1>0, <2>2, <2>3, LevelSingle DEF Level
  <2>5. Single(Complete(n, FALSE, e), {}) BY <2>4, CompleteSingle
  <2>6. Single(FailReceipt(owner, e), {}) BY <1>0, FailReceiptSingle
  <2>7. QED BY <2>1, <2>5, <2>6
<1>3. CASE ReceiveAck
  <2> DEFINE n == [owner EXCEPT !.acks = Tail(@)]
             i == owner.acks[1]
  <2>1. PICK e : owner' \in {n, Acknowledged(n, i, e)} BY <1>3 DEF ReceiveAck, Handle
  <2>2. Level(owner, n) BY <1>0, FlagsLevel
  <2> HIDE DEF n, i
  <2>3. Single(n, {}) BY <1>0, <2>2, LevelSingle
  <2>4. Single(Acknowledged(n, i, e), {}) BY <2>3, AcknowledgedSingle
  <2>5. QED BY <2>1, <2>3, <2>4
<1>4. CASE DrainFails
  <2>1. owner' = FailDraining(owner) BY <1>4 DEF DrainFails, Handle
  <2>2. QED BY <1>0, <2>1, FailDrainingLevel, LevelStep
<1>5. QED BY <1>1, <1>2, <1>3, <1>4

LEMMA ConnectionSingle ==
  ASSUME Requesting, BrokerLost \/ BrokerGraceExpired \/ BrokerReconnected \/ ResponseFails
  PROVE  Single(owner', {})
<1>0. Single(owner, {}) /\ Fields \subseteq DOMAIN owner BY DEF Requesting, Single
<1>1. CASE BrokerLost BY <1>0, <1>1, LoseBrokerSingle DEF BrokerLost
<1>2. CASE BrokerGraceExpired
  BY <1>0, <1>2, GraceExpiredSingle DEF BrokerGraceExpired, Handle
<1>3. CASE BrokerReconnected
  <2> DEFINE n == [owner EXCEPT !.offer = 0]
  <2>1. PICK e : owner' = Reconnected(n, owner.offer, e) BY <1>3 DEF BrokerReconnected, Handle
  <2>2. Level(owner, n) BY <1>0, FlagsLevel
  <2> HIDE DEF n
  <2>3. Single(n, {}) BY <1>0, <2>2, LevelSingle
  <2>4. QED BY <2>1, <2>3, ReconnectedSingle
<1>4. CASE ResponseFails
  <2> DEFINE n(r) == [owner EXCEPT !.replies = @ \ {r}]
  <2>1. PICK r, e : owner' \in {n(r), LoseBroker(n(r), e)} BY <1>4 DEF ResponseFails, Handle
  <2>2. Level(owner, n(r)) BY <1>0, FlagsLevel
  <2> HIDE DEF n
  <2>3. Single(n(r), {}) BY <1>0, <2>2, LevelSingle
  <2>4. Single(LoseBroker(n(r), e), {}) BY <2>3, LoseBrokerSingle
  <2>5. QED BY <2>1, <2>3, <2>4
<1>5. QED BY <1>1, <1>2, <1>3, <1>4

LEMMA EndSingle ==
  ASSUME Requesting,
         ControllerDetached \/ ControllerLossSettled \/ ControllerLossUnsettled
            \/ RunningAgent \/ RelayQuiesced \/ ResponseSent
  PROVE  Single(owner', {})
<1>0. Single(owner, {}) /\ Fields \subseteq DOMAIN owner BY DEF Requesting, Single
<1>1. CASE ControllerDetached
  BY <1>0, <1>1, BeginControllerLossSingle DEF ControllerDetached, Handle
<1>2. CASE ControllerLossSettled
  <2> DEFINE n == [owner EXCEPT !.settling = FALSE]
  <2>1. PICK e : owner' = BeginControllerLossDisposal(n, e)
    BY <1>2 DEF ControllerLossSettled, Handle
  <2>2. Level(owner, n) BY <1>0, FlagsLevel
  <2> HIDE DEF n
  <2>3. ~owner.quarantined => ~Responding(owner) BY <1>0, <1>2 DEF ControllerLossSettled, Single
  <2>4. Mute(n) BY <2>2, <2>3 DEF Level, Mute, Responding
  <2>5. Single(n, {}) BY <1>0, <2>2, LevelSingle
  <2>6. QED BY <2>1, <2>4, <2>5, BeginControllerLossDisposalSingle
<1>3. CASE ControllerLossUnsettled
  <2>1. owner' = [owner EXCEPT !.settling = FALSE, !.blocked = TRUE]
    BY <1>3 DEF ControllerLossUnsettled, Handle
  <2>2. Level(owner, owner') BY <1>0, <2>1 DEF Level, Fields, Fixed
  <2>3. QED BY <1>0, <2>2, LevelStep
<1>4. CASE RunningAgent
  BY <1>0, <1>4, BeginTerminalEventSingle DEF RunningAgent, Handle
<1>5. CASE RelayQuiesced
  <2> DEFINE n(result) == [owner EXCEPT !.relay = result, !.finishQuiet = "none"]
  <2>1. PICK result : owner' = RequestFinish(n(result), owner.finishQuiet)
    BY <1>5 DEF RelayQuiesced, Handle
  <2>2. Level(owner, n(result)) BY <1>0 DEF Level, Fields, Fixed
  <2> HIDE DEF n
  <2>3. Level(owner, owner') BY <2>1, <2>2, LevelFields, RequestFinishLevel, LevelTrans
  <2>4. QED BY <1>0, <2>3, LevelStep
<1>6. CASE ResponseSent
  <2> DEFINE n(r) == [owner EXCEPT !.replies = @ \ {r}]
  <2>1. PICK r, f : owner' \in {n(r), RequestFinish(n(r), f)} BY <1>6 DEF ResponseSent, Handle
  <2>2. Level(owner, n(r)) BY <1>0, FlagsLevel
  <2> HIDE DEF n
  <2>3. Level(owner, owner') BY <2>1, <2>2, LevelFields, RequestFinishLevel, LevelTrans
  <2>4. QED BY <1>0, <2>3, LevelStep
<1>7. QED BY <1>1, <1>2, <1>3, <1>4, <1>5, <1>6

LEMMA AuthoritySingle ==
  ASSUME Requesting, ConformanceLost \/ ConformanceConfirmed \/ KeyWithdrawn \/ WithdrawnEnds
  PROVE  Single(owner', {})
<1>0. /\ Single(owner, {}) /\ Fields \subseteq DOMAIN owner /\ Orderly(owner) /\ Typed(owner)
  BY OrderlyTyped DEF Requesting, OwnerInvariant, Single
<1>1. CASE ConformanceLost
  <2> DEFINE s(c, e) == SuspendConformance(owner, c, e)
  <2>1. PICK c, e : owner' = CancelWait(s(c, e)) BY <1>1 DEF ConformanceLost, Handle
  <2>2. Single(s(c, e), {}) BY <1>0, SuspendConformanceSingle
  <2> HIDE DEF s
  <2>3. Level(s(c, e), CancelWait(s(c, e))) BY <2>2, CancelWaitLevel DEF Single
  <2>4. QED BY <2>1, <2>2, <2>3, LevelSingle
<1>2. CASE ConformanceConfirmed
  <2> DEFINE n == [owner EXCEPT !.wait = NoOp, !.suspended = FALSE]
             q == owner.wait
  <2>1. owner' \in {CancelWait(owner), Applying(n, q)}
    BY <1>2 DEF ConformanceConfirmed, Handle, BeginResume
  <2>2. /\ owner.wait # NoOp /\ owner.state # "Terminal"
    BY <1>2 DEF ConformanceConfirmed, Watched
  <2>3. owner.pending = NoOp /\ ~owner.lost BY <1>0, <2>2 DEF Orderly, Fit, Waits
  <2>4. ~owner.settling BY <1>0, <2>3 DEF Typed
  <2>5. IsRequest(q.id) /\ ~Marked(owner, q.id) BY <1>0, <2>2 DEF Single, Fresh
  <2>6. Level(owner, n) /\ n.wait = NoOp /\ n.settling = owner.settling
    BY <1>0 DEF Level, Fields, Fixed
  <2> HIDE DEF n, q
  <2>7. Single(n, {}) /\ ~Responding(n) /\ Unsettled(n) /\ ~Marked(n, q.id)
    BY <1>0, <2>3, <2>4, <2>5, <2>6, LevelSingle
       DEF Level, Responding, Unsettled, Marked
  <2>8. Single(Applying(n, q), {})
    <3> DEFINE a == Applying(n, q)
    <3>1. a = Applying(n, q) OBVIOUS
    <3> HIDE DEF a
    <3>2. Single(a, {}) BY <2>5, <2>6, <2>7, <3>1, ApplyingSingle
    <3>3. QED BY <3>2 DEF a
  <2>9. Single(CancelWait(owner), {}) BY <1>0, CancelWaitLevel, LevelSingle
  <2>10. QED BY <2>1, <2>8, <2>9
<1>3. CASE KeyWithdrawn
  BY <1>0, <1>3, WithdrawKeyAuthoritySingle DEF KeyWithdrawn, Handle
<1>4. CASE WithdrawnEnds
  <2> DEFINE t(e) == Terminate(owner, e)
  <2>1. PICK e : owner' = [t(e) EXCEPT !.finished = "err"] BY <1>4 DEF WithdrawnEnds, Handle
  <2>2. Level(owner, t(e)) BY <1>0, TerminateLevel
  <2> HIDE DEF t
  <2>3. Level(t(e), owner') BY <2>1, <2>2 DEF Level, Fields, Fixed
  <2>4. QED BY <1>0, <2>2, <2>3, LevelTrans, LevelStep
<1>5. QED BY <1>1, <1>2, <1>3, <1>4

LEMMA BrokerSingle ==
  ASSUME Requesting, BrokerStores \/ BrokerRefuses \/ ChannelBreaks \/ BrokerAnswers
  PROVE  Single(owner', {})
<1>0. Single(owner, {}) /\ Fields \subseteq DOMAIN owner BY DEF Requesting, Single
<1>1. PICK w, a, f : owner' \in {owner, [owner EXCEPT !.wire = w, !.acks = a],
                                 [owner EXCEPT !.wire = w],
                                 [owner EXCEPT !.offer = f, !.wire = w, !.acks = a]}
  BY DEF BrokerStores, BrokerRefuses, ChannelBreaks, BrokerAnswers
<1>2. /\ Fields \subseteq DOMAIN owner'
      /\ owner'.receipts = owner.receipts /\ owner'.deferred = owner.deferred
      /\ owner'.pending = owner.pending /\ owner'.done = owner.done
      /\ owner'.failed = owner.failed /\ owner'.draining = owner.draining
      /\ owner'.wait = owner.wait /\ owner'.quarantined = owner.quarantined
      /\ owner'.settling = owner.settling /\ owner'.state = owner.state
      /\ owner'.tree = owner.tree
  BY <1>0, <1>1 DEF Fields
<1>3. Level(owner, owner') BY <1>2 DEF Level, Fixed
<1>4. QED BY <1>0, <1>3, LevelStep

LEMMA AskSingle == ASSUME Requesting, Ask PROVE Single(owner', {})
  BY DEF Requesting, Ask

\* Only a new request changes what was asked, and it has the identity of one.
LEMMA RequestsAsked ==
  ASSUME Requesting, Next PROVE \A q \in asked' : IsRequest(q.id)
<1>1. CASE Ask
  <2>1. PICK act : asked' = asked \union {[id |-> <<"request", Cardinality(asked)>>, act |-> act,
                                           state |-> owner.state, seq |-> owner.brokerHead]}
    BY <1>1 DEF Ask
  <2>2. IsRequest(<<"request", Cardinality(asked)>>) BY DEF IsRequest
  <2>3. QED BY <2>1, <2>2 DEF Requesting
<1>2. CASE \E q \in asked : Requested(q)
  <2>1. asked' = asked
    BY <1>2 DEF Requested, Repeat, RejectFull, Park, Interrupt, Dispose, Resume, Handle, Outside
  <2>2. QED BY <2>1 DEF Requesting
<1>3. CASE Prepared \/ Signed \/ OperationFails \/ Activated \/ ReceiveAck
              \/ DrainSigned \/ DrainFails
  <2>1. asked' = asked
    BY <1>3 DEF Prepared, Signed, OperationFails, Activated, ReceiveAck, DrainSigned, DrainFails,
                Handle, Outside
  <2>2. QED BY <2>1 DEF Requesting
<1>4. CASE BrokerLost \/ BrokerGraceExpired \/ BrokerReconnected \/ BrokerStores
              \/ BrokerRefuses \/ ChannelBreaks \/ BrokerAnswers
  <2>1. asked' = asked
    BY <1>4 DEF BrokerLost, BrokerGraceExpired, BrokerReconnected, BrokerStores, BrokerRefuses,
                ChannelBreaks, BrokerAnswers, Handle, Outside
  <2>2. QED BY <2>1 DEF Requesting
<1>5. CASE ControllerDetached \/ ControllerLossSettled \/ ControllerLossUnsettled
              \/ RunningAgent \/ RelayQuiesced \/ ResponseSent \/ ResponseFails
  <2>1. asked' = asked
    BY <1>5 DEF ControllerDetached, ControllerLossSettled, ControllerLossUnsettled,
                RunningAgent, RelayQuiesced, ResponseSent, ResponseFails, Handle, Outside
  <2>2. QED BY <2>1 DEF Requesting
<1>6. CASE ConformanceLost \/ ConformanceConfirmed \/ KeyWithdrawn \/ WithdrawnEnds
  <2>1. asked' = asked
    BY <1>6 DEF ConformanceLost, ConformanceConfirmed, KeyWithdrawn, WithdrawnEnds, Handle,
                Outside
  <2>2. QED BY <2>1 DEF Requesting
<1>7. QED BY <1>1, <1>2, <1>3, <1>4, <1>5, <1>6 DEF Next

LEMMA RequestingContinues == ASSUME Requesting, [Next]_vars PROVE Requesting'
<1>1. OwnerInvariant' BY OwnerContinues DEF Requesting
<1>2. CASE UNCHANGED vars BY <1>1, <1>2 DEF Requesting, vars
<1>3. CASE Next
  <2>1. Single(owner', {})
    BY <1>3, AskSingle, RequestedSingle, PreparedSingle, SignedSingle, DrainSignedSingle,
       OperationSingle, ConnectionSingle, EndSingle, AuthoritySingle, BrokerSingle DEF Next
  <2>2. \A q \in asked' : IsRequest(q.id) BY <1>3, RequestsAsked
  <2>3. QED BY <1>1, <2>1, <2>2 DEF Requesting
<1>4. QED BY <1>2, <1>3

LEMMA RequestingStarts == ASSUME Init PROVE Requesting
<1> DEFINE r == Receipt(Payload("Start", "Running", <<"start">>), 1)
<1>1. r.by = <<"start">> /\ ~IsRequest(r.by) BY DEF Receipt, Payload, IsRequest
<1>2. owner.receipts = <<r>> /\ owner.deferred = <<>> BY DEF Init
<1> HIDE DEF r
<1>3. /\ Sequence(owner.receipts) /\ Len(owner.receipts) = 1 /\ owner.receipts[1] = r
      /\ Sequence(owner.deferred) /\ Len(owner.deferred) = 0
  BY <1>2, EmptyHas
<1>4. \A by : IsRequest(by) => ~Marked(owner, by) BY <1>1, <1>3 DEF Marked, Bears
<1>5. Distinct(owner.receipts) /\ Distinct(owner.deferred) BY <1>3 DEF Distinct
<1>6. Parted(owner) BY <1>4, <1>5 DEF Parted, Marked
<1>7. /\ owner.state = "Running" /\ owner.settling = FALSE /\ owner.pending = NoOp
      /\ owner.draining = NoOp /\ owner.wait = NoOp /\ Fields \subseteq DOMAIN owner
  BY DEF Init, Fields
<1>8. Leading(owner) /\ Fresh(owner, {}) BY <1>7 DEF Leading, Fresh, NoOp
<1>9. Single(owner, {}) BY <1>3, <1>4, <1>6, <1>7, <1>8 DEF Single, Answering
<1>10. QED BY <1>9, OwnerStarts DEF Requesting, Init

\* Two histories in a row bear what either bears.
LEMMA ConcatBears ==
  ASSUME NEW a, NEW b, Sequence(a), Sequence(b), Distinct(a), Distinct(b),
         \A by : IsRequest(by) => ~(Bears(a, by) /\ Bears(b, by))
  PROVE  /\ Sequence(a \o b) /\ Distinct(a \o b)
         /\ \A by : Bears(a \o b, by) <=> Bears(a, by) \/ Bears(b, by)
<1> DEFINE c == a \o b
<1>1. PICK A, B : a \in Seq(A) /\ b \in Seq(B) BY DEF Sequence
<1>2. a \in Seq(A \union B) /\ b \in Seq(A \union B) BY <1>1, SeqMonotonic
<1>3. /\ Len(c) = Len(a) + Len(b)
      /\ \A i \in 1 .. Len(a) + Len(b) : c[i] = IF i <= Len(a) THEN a[i] ELSE b[i - Len(a)]
  BY <1>2, ConcatProperties
<1>4. /\ Sequence(c) /\ Len(a) \in Nat /\ Len(b) \in Nat
      /\ \A p : Has(c, p) <=> Has(a, p) \/ Has(b, p)
  BY ConcatHas
<1> HIDE DEF c
<1>5. \A s, by : Bears(s, by) <=> \E p : Has(s, p) /\ p.by = by BY DEF Bears, Has
<1>6. \A by : Bears(c, by) <=> Bears(a, by) \/ Bears(b, by) BY <1>4, <1>5
<1>7. Distinct(c)
  <2> SUFFICES ASSUME NEW i \in 1 .. Len(c), NEW j \in 1 .. Len(c), i # j, IsRequest(c[i].by),
                      c[i].by = c[j].by
               PROVE  FALSE
    BY DEF Distinct
  <2>1. \A k \in 1 .. Len(c) :
           \/ k \in 1 .. Len(a) /\ c[k] = a[k]
           \/ k - Len(a) \in 1 .. Len(b) /\ c[k] = b[k - Len(a)]
    BY <1>3, <1>4
  <2>2. i - Len(a) # j - Len(a) BY <1>3, <1>4
  <2>3. CASE i \in 1 .. Len(a) /\ c[i] = a[i] /\ j \in 1 .. Len(a) /\ c[j] = a[j]
    BY <2>3 DEF Distinct
  <2>4. CASE /\ i - Len(a) \in 1 .. Len(b) /\ c[i] = b[i - Len(a)]
             /\ j - Len(a) \in 1 .. Len(b) /\ c[j] = b[j - Len(a)]
    BY <2>2, <2>4 DEF Distinct
  <2>5. CASE /\ i \in 1 .. Len(a) /\ c[i] = a[i]
             /\ j - Len(a) \in 1 .. Len(b) /\ c[j] = b[j - Len(a)]
    BY <2>5 DEF Bears
  <2>6. CASE /\ i - Len(a) \in 1 .. Len(b) /\ c[i] = b[i - Len(a)]
             /\ j \in 1 .. Len(a) /\ c[j] = a[j]
    BY <2>6 DEF Bears
  <2>7. QED BY <2>1, <2>3, <2>4, <2>5, <2>6
<1>8. QED BY <1>4, <1>6, <1>7 DEF c

\* A history of one record at most repeats nothing.
LEMMA ShortBears ==
  /\ Sequence(<<>>) /\ Distinct(<<>>) /\ \A by : ~Bears(<<>>, by)
  /\ \A x : /\ Sequence(<<x>>) /\ Distinct(<<x>>)
            /\ \A by : Bears(<<x>>, by) <=> x.by = by
<1>1. Sequence(<<>>) /\ Len(<<>>) = 0 BY EmptyHas
<1>2. Distinct(<<>>) /\ \A by : ~Bears(<<>>, by) BY <1>1 DEF Distinct, Bears
<1>3. ASSUME NEW x
      PROVE  /\ Sequence(<<x>>) /\ Distinct(<<x>>)
             /\ \A by : Bears(<<x>>, by) <=> x.by = by
  <2> DEFINE s == <<x>>
  <2>1. Sequence(s) /\ Len(s) = 1 /\ s[1] = x BY EmptyHas
  <2> HIDE DEF s
  <2>2. 1 \in 1 .. Len(s) /\ \A i \in 1 .. Len(s) : i = 1 BY <2>1
  <2>3. Distinct(s) BY <2>2 DEF Distinct
  <2>4. \A by : Bears(s, by) <=> x.by = by BY <2>1, <2>2 DEF Bears
  <2>5. QED BY <2>1, <2>3, <2>4 DEF s
<1>4. QED BY <1>1, <1>2, <1>3

LEMMA EvidenceDistinct ==
  ASSUME NEW o, Single(o, {}), Typed(o) PROVE Distinct(Evidence(o))
<1> DEFINE done == [i \in 1 .. Tip(o) |-> Outcome(o.receipts[i])]
           now == IF o.pending.phase = "Signing" THEN <<o.pending.pay>> ELSE <<>>
           last == IF o.queued # "none"
                   THEN <<Payload("Disposal", "Terminal", <<"event">>)>> ELSE <<>>
           due == o.deferred
           a == done \o now
           b == a \o due
           c == b \o last
<1>1. Evidence(o) = c BY DEF Evidence
<1>2. Tip(o) \in Nat /\ Tip(o) = Len(o.receipts) BY Counts DEF Tip
<1>3. Sequence(done) /\ Len(done) = Tip(o)
  <2> DEFINE R == {Outcome(o.receipts[i]) : i \in 1 .. Tip(o)}
             k == Tip(o)
  <2>1. done \in [1 .. k -> R] /\ k \in Nat BY <1>2
  <2>2. done \in Seq(R)
    <3> HIDE DEF done, R, k
    <3>1. [1 .. k -> R] \in {[1 .. j -> R] : j \in Nat} BY <2>1
    <3>2. QED BY <2>1, <3>1, SeqDef
  <2>3. Len(done) \in Nat /\ DOMAIN done = 1 .. Len(done) BY <2>2, LenProperties
  <2>4. DOMAIN done = 1 .. Tip(o) OBVIOUS
  <2> HIDE DEF done
  <2>5. Len(done) = Tip(o) BY <1>2, <2>3, <2>4
  <2>6. QED BY <2>2, <2>5 DEF Sequence
<1>4. \A i \in 1 .. Tip(o) : done[i].by = o.receipts[i].by BY DEF Outcome, Payload
<1>5. /\ Sequence(now) /\ Distinct(now)
      /\ \A by : Bears(now, by) <=> o.pending.phase = "Signing" /\ by = o.pending.pay.by
  BY ShortBears
<1>6. /\ Sequence(last) /\ Distinct(last)
      /\ \A by : Bears(last, by) => ~IsRequest(by)
  BY ShortBears, CausesAreOwn
<1>7. Sequence(due) /\ due = o.deferred BY DEF Typed
<1> HIDE DEF done, now, last, due
<1>8. \A by : Bears(done, by) <=> Bears(o.receipts, by) BY <1>2, <1>3, <1>4 DEF Bears
<1>9. Distinct(done) BY <1>2, <1>3, <1>4 DEF Single, Parted, Distinct
<1>10. \A by : IsRequest(by) /\ Bears(now, by) => ~Marked(o, by)
  BY <1>5 DEF Single, Proper, NoOp
<1>11. /\ Sequence(a) /\ Distinct(a)
       /\ \A by : Bears(a, by) <=> Bears(done, by) \/ Bears(now, by)
  <2>1. \A by : IsRequest(by) => ~(Bears(done, by) /\ Bears(now, by))
    BY <1>8, <1>10 DEF Marked
  <2>2. QED BY <1>3, <1>5, <1>9, <2>1, ConcatBears
<1> HIDE DEF a
<1>12. Sequence(b) /\ Distinct(b)
  <2>1. Distinct(due) BY <1>7 DEF Single, Parted
  <2>2. \A by : IsRequest(by) => ~(Bears(a, by) /\ Bears(due, by))
    BY <1>7, <1>8, <1>10, <1>11 DEF Marked, Single, Parted
  <2>3. QED BY <1>7, <1>11, <2>1, <2>2, ConcatBears
<1> HIDE DEF b
<1>13. Distinct(c)
  <2>1. \A by : IsRequest(by) => ~(Bears(b, by) /\ Bears(last, by)) BY <1>6
  <2>2. QED BY <1>6, <1>12, <2>1, ConcatBears
<1>14. QED BY <1>1, <1>13

LEMMA RequestingOnce == ASSUME Requesting PROVE RecordedOnce
<1> DEFINE ev == Evidence(owner)
<1>1. Distinct(ev) BY EvidenceDistinct, OrderlyTyped DEF Requesting, OwnerInvariant
<1> HIDE DEF ev
<1>2. \A by \in {q.id : q \in asked} : IsRequest(by) BY DEF Requesting
<1>3. \A i, j \in 1 .. Len(ev) :
         i # j /\ ev[i].by \in {q.id : q \in asked} => ev[i].by # ev[j].by
  BY <1>1, <1>2 DEF Distinct
<1>4. QED BY <1>3 DEF RecordedOnce, ev

\* A request leaves one record at most, among the receipts, the payload being
\* signed and the evidence owed, however often it is sent again and whether it
\* was acknowledged, failed or drained after a loss, whatever goes wrong in the
\* mechanics (begin_park, begin_disposal, fail_receipt_operation,
\* start_deferred_receipt_reconciliation).
THEOREM RequestsRecordedOnce == Spec => []RecordedOnce
<1>1. Init => Requesting BY RequestingStarts
<1>2. Requesting /\ [Next]_vars => Requesting' BY RequestingContinues
<1>3. Requesting => RecordedOnce BY RequestingOnce
<1>4. QED BY <1>1, <1>2, <1>3, PTL DEF Spec

\* Until a Session is given up, no loss and no refusal makes the broker take its
\* history for corrupt: what a reconnect offers is never behind what is stored,
\* and what it sends is the next of a legal chain, of a request not yet on record
\* (handle_broker_reconnected and handle_receipt_acknowledgement; reconnect_failure
\* in broker/reconnect.rs, verify_suffix in launch_receipt.rs).
\* A channel that only the owner gives up is left out: a receipt that is on it
\* may be stored while the reconnect offers an older head, and is refused then.
THEOREM HistoryIsNotRefused ==
  ASSUME Wide, "revoke" \notin Faults, "halfopen" \notin Events, Steady
  PROVE  Spec => [](owner.quarantined \/ NeverRefused)
<1> DEFINE Inv == Requesting /\ Recorded /\ InFlight
           Accepted == owner.quarantined \/ NeverRefused
<1>1. Init => Accepted BY DEF Init, NeverRefused
<1>2. Inv /\ Accepted /\ [Next]_vars => Accepted'
  <2> SUFFICES ASSUME Inv, Accepted, [Next]_vars, ~owner.quarantined PROVE NeverRefused'
    BY StepFollows DEF Requesting, OwnerInvariant, Extends
  <2>0. OwnerInvariant /\ Distinct(owner.receipts) BY DEF Requesting, Single, Parted
  <2>1. Filed(owner) /\ Line(owner) BY DEF Recorded, Records, Legal, Strict, Lax
  <2>2. Heads(owner, stored) /\ Tip(owner) \in Nat /\ stored \in Nat /\ 1 <= stored
    BY <2>0, TipInNat DEF OwnerInvariant, Heads
  <2>3. CASE BrokerRefuses
    <3> SUFFICES ASSUME stored < catchup PROVE FALSE
      BY <2>3 DEF BrokerRefuses, NeverRefused
    <3>1. link = "open" /\ owner.wire # <<>> /\ ~Acceptable(owner.wire[1])
      BY <2>3 DEF BrokerRefuses
    <3>2. owner.wire = <<stored + 1>> BY <3>1 DEF InFlight, Flying
    <3>3. owner.wire[1] = stored + 1 /\ stored + 1 \in 1 .. Tip(owner)
      <4>1. owner.wire \in Seq(1 .. Tip(owner)) /\ Len(owner.wire) = 1
        BY <2>2, <3>2 DEF Heads
      <4>2. 1 \in 1 .. Len(owner.wire) BY <4>1
      <4>3. owner.wire[1] \in 1 .. Tip(owner) BY <4>1, <4>2, ElementOfSeq
      <4>4. QED BY <3>2, <4>3
    <3>4. owner.receipts[stored + 1].seq = stored + 1 BY <2>1, <3>3 DEF Filed, Forms, Tip
    <3>5. ValidTransition(owner.receipts[stored].to, owner.receipts[stored + 1])
      <4>1. stored \in 1 .. Tip(owner) - 1 BY <2>2, <3>3
      <4>2. QED BY <2>1, <4>1 DEF Line
    <3>6. ASSUME owner.receipts[stored + 1].by[1] = "request", NEW j \in 1 .. stored
          PROVE  owner.receipts[j].by # owner.receipts[stored + 1].by
      <4>1. j \in 1 .. Len(owner.receipts) /\ stored + 1 \in 1 .. Len(owner.receipts)
            /\ stored + 1 # j
        BY <2>2, <3>3 DEF Tip
      <4>2. IsRequest(owner.receipts[stored + 1].by) BY <3>6 DEF IsRequest
      <4>3. QED BY <2>0, <4>1, <4>2 DEF Distinct
    <3>7. QED BY <3>1, <3>3, <3>4, <3>5, <3>6 DEF Acceptable
  <2>4. CASE BrokerAnswers
    <3>1. owner.offered \in Nat BY <2>2, <2>0, OrderlyTyped DEF OwnerInvariant, Typed
    <3>2. stored <= owner.offered BY <2>4 DEF BrokerAnswers, InFlight, Flying
    <3>3. link' = "open" BY <2>2, <2>4, <3>1, <3>2 DEF BrokerAnswers
    <3>4. QED BY <3>3 DEF NeverRefused
  <2>5. CASE ~BrokerRefuses /\ ~BrokerAnswers
    <3>1. link' \in {link, "closed"}
      BY <2>5 DEF Next, Ask, Requested, Repeat, RejectFull, Park, Interrupt, Dispose, Resume,
             Prepared, Signed, OperationFails, Activated, ReceiveAck, DrainSigned, DrainFails,
             BrokerLost, BrokerGraceExpired, BrokerReconnected, ControllerDetached,
             ControllerLossSettled, ControllerLossUnsettled, RunningAgent, RelayQuiesced,
             ResponseSent, ResponseFails, ConformanceLost, ConformanceConfirmed, KeyWithdrawn,
             WithdrawnEnds, BrokerStores, ChannelBreaks, Handle, Outside, vars
    <3>2. QED BY <3>1 DEF NeverRefused
  <2>6. QED BY <2>3, <2>4, <2>5
<1>3. Init => Requesting BY RequestingStarts
<1>4. Requesting /\ [Next]_vars => Requesting' BY RequestingContinues
<1>5. QED BY <1>1, <1>2, <1>3, <1>4, EvidenceIsRecorded, OneReceiptOnTheWay, PTL DEF Spec
=============================================================================
