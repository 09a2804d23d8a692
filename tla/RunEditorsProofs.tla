--------------------------- MODULE RunEditorsProofs ---------------------------
(***************************************************************************)
(* Proofs about RunEditors.  Whatever editors and lost messages do, the    *)
(* store below them takes only steps of RunStore, so every theorem of      *)
(* RunStoreProofs carries over; and no late request revives a disposed     *)
(* Run, because the revision a controller has seen while resuming is past  *)
(* as soon as the Run is disposed of.                                      *)
(***************************************************************************)
EXTENDS RunEditors, RunStoreProofs

\* A Park under way is about a Run.
Parking(p) == p.pc # "idle" => p.run \in Runs

\* A revision seen before a disposal is not the revision of the disposed record.
Past(r, revision) ==
    /\ Exists(r) /\ revision <= runs[r].revision
    /\ runs[r].state = "disposed" => revision < runs[r].revision

\* An attempt is about a Run that exists; the record it loads a Session for was
\* resuming when it was read.
Attempting(a) ==
    /\ a.pc # "idle" => a.run \in Runs /\ a.op \in Operations /\ Exists(a.run)
    /\ a.pc = "idle" => a.op = None
    /\ a.pc = "loading" => a.seen \in RunType /\ Past(a.run, a.seen.revision)

Requested(m) == m.kind = "finalize" => Past(m.run, m.expected)

EditorInv ==
    /\ Inv /\ EditorsTypeOK
    /\ \A e \in Editors : Parking(park[e]) /\ Attempting(resume[e])
    /\ \A m \in wire : Requested(m)

(***************************************************************************)
(* A revision once past stays past.                                        *)
(***************************************************************************)
LEMMA PastKept ==
    ASSUME Inv, [Next]_vars, NEW r \in Runs, NEW revision \in Nat, Past(r, revision)
    PROVE  Past(r, revision)'
<1>1. runs[r] \in RunType /\ runs[r].revision \in Nat
    BY RecordAssumption DEF Past, Inv, Records, RunInv, RunType, U64
<1>2. CASE runs'[r] = runs[r]
    BY <1>2 DEF Past, Exists
<1>3. CASE runs'[r] # runs[r]
  <2>1. runs'[r] # NoRun /\ runs'[r].revision = runs[r].revision + 1
      BY <1>3, RecordStep DEF Past
  <2> QED
      BY <1>1, <2>1 DEF Past, Exists
<1> QED
    BY <1>2, <1>3

(***************************************************************************)
(* Every step of editors and socket is a step of the store, or none.       *)
(***************************************************************************)
LEMMA EditorStep ==
    ASSUME EditorInv, [EditorNext]_evars
    PROVE  [Next]_vars
<1>1. ASSUME NEW e \in Editors, Editor(e) PROVE [Next]_vars
  <2>1. ASSUME NEW r \in Runs, NEW s \in Sessions, AttachSession(e, r, s) PROVE Next
      BY <2>1 DEF AttachSession, Next, Mutator
  <2>2. ASSUME NEW r \in Runs, AskPark(e, r) PROVE [Next]_vars
      BY <2>2 DEF AskPark, Next
  <2>3. ASSUME ParkWrite(e) PROVE Next
    <3>1. park[e].run \in Runs
        BY <2>3 DEF ParkWrite, EditorInv, Parking
    <3>2. Mutator(park[e].run)
        BY <2>3 DEF ParkWrite, Mutator
    <3> QED
        BY <3>1, <3>2 DEF Next
  <2>4. Editor(e) => \/ \E r \in Runs, s \in Sessions : AttachSession(e, r, s)
                     \/ \E r \in Runs : AskPark(e, r)
                     \/ ParkWrite(e)
                     \/ UNCHANGED vars
      BY DEF Editor, Observe, ParkDone, ParkAlready, ParkFail, AskResume, ReadBegun, ReadEnded,
             GiveUp, Quit, Load
  <2> QED
      BY <1>1, <2>1, <2>2, <2>3, <2>4
<1>2. ASSUME NEW m \in wire, ServeBegin(m) \/ ServeFinalize(m) PROVE [Next]_vars
  <2>1. m.run \in Runs /\ m.op \in Operations /\ m.expected \in U64 /\ m.succeeded \in BOOLEAN
      BY DEF EditorInv, EditorsTypeOK, Requests
  <2>2. Mutator(m.run) \/ UNCHANGED vars
      BY <1>2, <2>1 DEF ServeBegin, ServeFinalize, Mutator
  <2> QED
      BY <2>1, <2>2 DEF Next
<1>3. CASE Others
    BY <1>3 DEF Others, Next, Mutator
<1>4. CASE UNCHANGED evars
    BY <1>4 DEF evars
<1> QED
    BY <1>1, <1>2, <1>3, <1>4 DEF EditorNext

(***************************************************************************)
(* What a step leaves of the attempts and requests that it does not touch. *)
(***************************************************************************)
LEMMA UntouchedKept ==
    ASSUME EditorInv, [Next]_vars
    PROVE  /\ \A e \in Editors : (resume'[e] = resume[e]) => Attempting(resume[e])'
           /\ \A m \in wire : Requested(m)'
<1>1. \A r \in Runs : Exists(r) => Exists(r)'
    BY RecordStep DEF EditorInv, Exists
<1>2. ASSUME NEW e \in Editors, resume'[e] = resume[e] PROVE Attempting(resume[e])'
  <2>1. Attempting(resume[e])
      BY DEF EditorInv
  <2>2. ASSUME resume[e].pc # "idle"
        PROVE  resume[e].run \in Runs /\ resume[e].op \in Operations /\ Exists(resume[e].run)'
      BY <1>1, <1>2, <2>1, <2>2 DEF Attempting, Exists
  <2>3. ASSUME resume[e].pc = "loading"
        PROVE  resume[e].seen \in RunType /\ Past(resume[e].run, resume[e].seen.revision)'
    <3>0. \A run \in RunType : run.revision \in Nat
        BY RecordAssumption DEF RunType, U64
    <3>1. resume[e].run \in Runs /\ resume[e].seen.revision \in Nat
          /\ Past(resume[e].run, resume[e].seen.revision)
        BY <2>1, <2>3, <3>0 DEF Attempting
    <3>2. \A r \in Runs, revision \in Nat : Past(r, revision) => Past(r, revision)'
        BY PastKept DEF EditorInv
    <3> QED
        BY <1>2, <2>1, <2>3, <3>1, <3>2 DEF Attempting, Past, Exists
  <2> QED
      BY <1>2, <2>1, <2>2, <2>3 DEF Attempting, Past, Exists
<1>3. ASSUME NEW m \in wire PROVE Requested(m)'
  <2>1. m.run \in Runs /\ m.expected \in Nat /\ Requested(m)
      BY RecordAssumption DEF EditorInv, EditorsTypeOK, Requests, U64
  <2> QED
      BY <2>1, PastKept DEF EditorInv, Requested
<1> QED
    BY <1>2, <1>3

\* The store's part, and the editor's parts that are not about the store.
Quiet ==
    /\ hold' \in [Editors -> [Runs -> {"none", "active", "parked"}]]
    /\ worker' \in [Editors -> [Runs -> Sessions \union {None}]]
    /\ park' \in [Editors -> [pc : {"idle", "listed", "written"}, run : Runs \union {None}]]
    /\ \A e \in Editors : Parking(park[e])'
    /\ drawn' \in [Operations -> Editors \union {None}] /\ lost' \subseteq Operations
    /\ breaks' \in 0..MaxBreaks

(***************************************************************************)
(* Each action moves the editors' own state only within its type.          *)
(***************************************************************************)
LEMMA QuietKept ==
    ASSUME EditorInv, [EditorNext]_evars
    PROVE  Quiet
<1> USE DEF Quiet, EditorInv, EditorsTypeOK, Parking
<1>1. ASSUME NEW e \in Editors, Editor(e) PROVE Quiet
  <2>1. CASE \E r \in Runs, s \in Sessions : AttachSession(e, r, s)
      BY <2>1 DEF AttachSession
  <2>2. CASE \E r \in Runs : AskPark(e, r)
    <3>1. PICK r \in Runs : AskPark(e, r)
        BY <2>2
    <3> QED
        BY <3>1 DEF AskPark
  <2>3. CASE \E r \in Runs : Observe(e, r)
      BY <2>3 DEF Observe
  <2>4. CASE ParkWrite(e)
      BY <2>4 DEF ParkWrite
  <2>5. CASE ParkDone(e)
      BY <2>5 DEF ParkDone, NoPark
  <2>6. CASE ParkAlready(e)
      BY <2>6 DEF ParkAlready, NoPark
  <2>7. CASE ParkFail(e)
      BY <2>7, EditorsAssumption DEF ParkFail, NoPark, Break
  <2>8. CASE \E r \in Runs, op \in Operations : AskResume(e, r, op)
      BY <2>8 DEF AskResume
  <2>9. CASE ReadBegun(e)
    <3>1. resume[e].run \in Runs
        BY <2>9 DEF ReadBegun, Attempting
    <3>2. hold' \in [Editors -> [Runs -> {"none", "active", "parked"}]]
        BY <2>9, <3>1 DEF ReadBegun
    <3> QED
        BY <2>9, <3>2 DEF ReadBegun
  <2>10. CASE ReadEnded(e)
    <3>1. resume[e].run \in Runs
        BY <2>10 DEF ReadEnded, Attempting
    <3>2. resume[e].loaded \in Sessions \union {None}
        BY DEF Resumes
    <3>3. PICK r \in Runs, s \in Sessions \union {None} :
              r = resume[e].run /\ s = resume[e].loaded
        BY <3>1, <3>2
    <3>4. hold' = hold \/ hold' = [hold EXCEPT ![e][r] = "active"]
        BY <2>10, <3>3 DEF ReadEnded
    <3>5. worker' = worker \/ worker' = [worker EXCEPT ![e][r] = s]
        BY <2>10, <3>3 DEF ReadEnded
    <3>6. hold' \in [Editors -> [Runs -> {"none", "active", "parked"}]]
        BY <3>4
    <3>7. worker' \in [Editors -> [Runs -> Sessions \union {None}]]
      <4>1. PICK Own : Own = Sessions \union {None}
          OBVIOUS
      <4>2. worker \in [Editors -> [Runs -> Own]] /\ s \in Own
          BY <4>1
      <4>3. worker[e] \in [Runs -> Own]
          BY <4>2
      <4>4. [worker[e] EXCEPT ![r] = s] \in [Runs -> Own]
          BY <4>2, <4>3
      <4>5. worker' \in [Editors -> [Runs -> Own]]
          BY <3>5, <4>2, <4>4
      <4> QED
          BY <4>1, <4>5
    <3> QED
        BY <2>10, <3>6, <3>7 DEF ReadEnded
  <2>11. CASE GiveUp(e)
      BY <2>11, EditorsAssumption DEF GiveUp, Break, Attempting
  <2>12. CASE Quit(e)
    <3>1. park' = [park EXCEPT ![e] = NoPark] /\ \A x \in Editors : Parking(park[x])'
        BY <2>12 DEF Quit, NoPark
    <3> QED
        BY <2>12, <3>1, EditorsAssumption DEF Quit, Break, NoPark
  <2>13. CASE \E loaded \in Sessions \union {None} : Load(e, loaded)
      BY <2>13 DEF Load
  <2> QED
      BY <1>1, <2>1, <2>2, <2>3, <2>4, <2>5, <2>6, <2>7, <2>8, <2>9, <2>10, <2>11, <2>12, <2>13
         DEF Editor
<1>2. ASSUME NEW m \in wire, ServeBegin(m) \/ ServeFinalize(m) PROVE Quiet
    BY <1>2 DEF ServeBegin, ServeFinalize
<1>3. CASE Others
    BY <1>3 DEF Others, editors
<1>4. CASE UNCHANGED evars
    BY <1>4 DEF evars, editors
<1> QED
    BY <1>1, <1>2, <1>3, <1>4 DEF EditorNext

(***************************************************************************)
(* One editor's attempt changes to a good one; the others' stay.           *)
(***************************************************************************)
LEMMA AttemptWritten ==
    ASSUME EditorInv, [Next]_vars, NEW e \in Editors, NEW a \in Resumes,
           resume' = [resume EXCEPT ![e] = a],
           a.pc # "idle" => a.run \in Runs /\ a.op \in Operations /\ Exists(a.run)',
           a.pc = "idle" => a.op = None,
           a.pc = "loading" => a.seen \in RunType /\ Past(a.run, a.seen.revision)'
    PROVE  resume' \in [Editors -> Resumes] /\ \A x \in Editors : Attempting(resume[x])'
<1>1. resume \in [Editors -> Resumes]
    BY DEF EditorInv, EditorsTypeOK
<1>2. resume'[e] = a /\ \A x \in Editors \ {e} : resume'[x] = resume[x]
    BY <1>1
<1>3. Attempting(resume[e])'
    BY <1>2 DEF Attempting, Past, Exists
<1>4. \A x \in Editors \ {e} : Attempting(resume[x])'
    BY <1>2, UntouchedKept
<1> QED
    BY <1>1, <1>3, <1>4

LEMMA IdleAttempt == NoResume \in Resumes /\ NoResume.pc = "idle" /\ NoResume.op = None
    BY DEF NoResume, Resumes

(***************************************************************************)
(* The attempts of the editors stay good.                                  *)
(***************************************************************************)
LEMMA AttemptsKept ==
    ASSUME EditorInv, [EditorNext]_evars
    PROVE  resume' \in [Editors -> Resumes] /\ \A x \in Editors : Attempting(resume[x])'
<1>0. [Next]_vars
    BY EditorStep
<1>a. resume \in [Editors -> Resumes] /\ wire \subseteq Requests
    BY DEF EditorInv, EditorsTypeOK
<1>u. UNCHANGED resume => resume' \in [Editors -> Resumes] /\ \A x \in Editors : Attempting(resume[x])'
    BY <1>0, <1>a, UntouchedKept
<1>x. \A r \in Runs : Exists(r) => Exists(r)' /\ runs[r] \in RunType
    BY <1>0, RecordStep DEF EditorInv, Exists, Inv, Records
<1>1. ASSUME NEW e \in Editors, NEW r \in Runs, NEW op \in Operations, AskResume(e, r, op)
      PROVE  resume' \in [Editors -> Resumes] /\ \A x \in Editors : Attempting(resume[x])'
  <2> DEFINE a == [pc |-> "asked", run |-> r, op |-> op, seen |-> runs[r], loaded |-> None]
  <2>1. a \in Resumes
      BY <1>1, <1>x DEF AskResume, Resumes
  <2>2. resume' = [resume EXCEPT ![e] = a] /\ Exists(r)'
      BY <1>1, <1>x DEF AskResume
  <2>3. a.run = r /\ a.op = op /\ a.pc = "asked"
      OBVIOUS
  <2> HIDE DEF a
  <2> QED
      BY <1>0, <2>1, <2>2, <2>3, AttemptWritten
<1>2. ASSUME NEW e \in Editors, ReadBegun(e)
      PROVE  resume' \in [Editors -> Resumes] /\ \A x \in Editors : Attempting(resume[x])'
  <2>1. /\ resume[e] \in Resumes /\ resume[e].run \in Runs /\ resume[e].op \in Operations
        /\ Exists(resume[e].run) /\ runs' = runs
      BY <1>2, <1>a DEF ReadBegun, EditorInv, Attempting, vars
  <2>2. CASE runs[resume[e].run].state = "resuming"
    <3>0. PICK a : a = [resume[e] EXCEPT !.pc = "loading", !.seen = runs[resume[e].run]]
        OBVIOUS
    <3>1. resume' = [resume EXCEPT ![e] = a]
        BY <1>2, <2>2, <3>0 DEF ReadBegun
    <3>2. a \in Resumes /\ a.run = resume[e].run /\ a.op = resume[e].op
          /\ a.seen = runs[resume[e].run] /\ a.pc = "loading"
        BY <1>x, <2>1, <3>0 DEF Resumes
    <3>3. runs[resume[e].run] \in RunType /\ runs[resume[e].run].revision \in Nat
        BY <1>x, <2>1, RecordAssumption DEF RunType, U64
    <3>4. Exists(a.run)' /\ Past(a.run, a.seen.revision)'
        BY <2>1, <2>2, <3>2, <3>3 DEF Past, Exists
    <3> QED
        BY <1>0, <2>1, <3>1, <3>2, <3>3, <3>4, AttemptWritten
  <2>3. CASE runs[resume[e].run].state # "resuming"
    <3>1. resume' = [resume EXCEPT ![e] = NoResume]
        BY <1>2, <2>3 DEF ReadBegun
    <3> QED
        BY <1>0, <3>1, IdleAttempt, AttemptWritten
  <2> QED
      BY <2>2, <2>3
<1>3. ASSUME NEW e \in Editors, NEW loaded \in Sessions \union {None}, Load(e, loaded)
      PROVE  resume' \in [Editors -> Resumes] /\ \A x \in Editors : Attempting(resume[x])'
  <2>0. PICK a : a = [resume[e] EXCEPT !.pc = "finalizing", !.loaded = loaded]
      OBVIOUS
  <2>1. /\ resume[e] \in Resumes /\ resume[e].run \in Runs /\ resume[e].op \in Operations
        /\ Exists(resume[e].run)
      BY <1>3, <1>a DEF Load, EditorInv, Attempting
  <2>2. resume' = [resume EXCEPT ![e] = a]
      BY <1>3, <2>0 DEF Load
  <2>3. a \in Resumes /\ a.run = resume[e].run /\ a.op = resume[e].op /\ a.pc = "finalizing"
        /\ Exists(a.run)'
      BY <1>x, <2>0, <2>1 DEF Resumes
  <2> QED
      BY <1>0, <2>1, <2>2, <2>3, AttemptWritten
<1>4. ASSUME NEW e \in Editors, ReadEnded(e) \/ GiveUp(e) \/ Quit(e)
      PROVE  resume' \in [Editors -> Resumes] /\ \A x \in Editors : Attempting(resume[x])'
  <2>1. resume' = [resume EXCEPT ![e] = NoResume]
      BY <1>4 DEF ReadEnded, GiveUp, Quit
  <2> QED
      BY <1>0, <2>1, IdleAttempt, AttemptWritten
<1>5. ASSUME NEW m \in wire, NEW pc \in {"idle", "begun", "ended"}, Answered(m, pc)
      PROVE  resume' \in [Editors -> Resumes] /\ \A x \in Editors : Attempting(resume[x])'
  <2>1. m.op \in Operations
      BY <1>a DEF Requests
  <2>2. ASSUME NEW x \in Editors PROVE resume'[x] \in Resumes /\ Attempting(resume[x])'
    <3>1. resume[x] \in Resumes /\ Attempting(resume[x])
        BY <1>a DEF EditorInv
    <3>2. CASE resume[x].op # m.op
        BY <1>0, <1>5, <3>1, <3>2, UntouchedKept DEF Answered
    <3>3. CASE pc = "idle" /\ resume[x].op = m.op
        BY <1>5, <3>3, IdleAttempt DEF Answered, Attempting
    <3>4. CASE pc # "idle" /\ resume[x].op = m.op
      <4>1. resume'[x] = [resume[x] EXCEPT !.pc = pc]
          BY <1>5, <3>4 DEF Answered
      <4>2. resume'[x] \in Resumes /\ resume'[x].pc = pc
            /\ resume'[x].run = resume[x].run /\ resume'[x].op = resume[x].op
          BY <3>1, <4>1 DEF Resumes
      <4>3. CASE resume[x].pc # "idle"
          BY <1>x, <3>1, <3>4, <4>2, <4>3 DEF Attempting, Exists
      <4>4. CASE resume[x].pc = "idle"
          BY <2>1, <3>1, <3>4, <4>4, EditorsAssumption DEF Attempting
      <4> QED
          BY <4>3, <4>4
    <3> QED
        BY <3>2, <3>3, <3>4
  <2> QED
      BY <1>5, <2>2 DEF Answered
<1>6. ASSUME NEW m \in wire, ServeBegin(m) \/ ServeFinalize(m)
      PROVE  \E pc \in {"idle", "begun", "ended"} : Answered(m, pc)
    BY <1>6 DEF ServeBegin, ServeFinalize
<1>7. ASSUME NEW e \in Editors, Editor(e)
      PROVE  \/ \E r \in Runs, op \in Operations : AskResume(e, r, op)
             \/ ReadBegun(e) \/ ReadEnded(e) \/ GiveUp(e) \/ Quit(e)
             \/ \E loaded \in Sessions \union {None} : Load(e, loaded)
             \/ UNCHANGED resume
    BY <1>7 DEF Editor, AttachSession, AskPark, Observe, ParkWrite, ParkDone, ParkAlready, ParkFail
<1>8. [EditorNext]_evars => \/ \E e \in Editors : Editor(e)
                            \/ \E m \in wire : ServeBegin(m) \/ ServeFinalize(m)
                            \/ UNCHANGED resume
    BY DEF EditorNext, Others, editors, evars
<1> QED
    BY <1>u, <1>1, <1>2, <1>3, <1>4, <1>5, <1>6, <1>7, <1>8

(***************************************************************************)
(* A new request is well formed; a new finalize names a revision that was  *)
(* seen while its Run was resuming.                                        *)
(***************************************************************************)
LEMMA WireKept ==
    ASSUME EditorInv, [EditorNext]_evars
    PROVE  wire' \subseteq Requests /\ \A m \in wire' : Requested(m)'
<1>0. /\ wire \subseteq Requests /\ resume \in [Editors -> Resumes]
      /\ \A m \in wire : Requested(m)'
      /\ \A r \in Runs : Exists(r) => runs[r] \in RunType
    BY EditorStep, UntouchedKept DEF EditorInv, EditorsTypeOK, Inv, Records, Exists
<1>1. wire' \subseteq wire => wire' \subseteq Requests /\ \A m \in wire' : Requested(m)'
    BY <1>0
<1>2. ASSUME NEW e \in Editors, NEW r \in Runs, NEW op \in Operations, AskResume(e, r, op)
      PROVE  wire' \subseteq Requests /\ \A m \in wire' : Requested(m)'
  <2>1. PICK q : q = [run |-> r, op |-> op, expected |-> runs[r].revision,
                      kind |-> "begin", succeeded |-> FALSE]
      OBVIOUS
  <2>2. wire' = wire \union {q} /\ Exists(r)
      BY <1>2, <2>1 DEF AskResume
  <2>3. runs[r].revision \in U64
      BY <1>0, <2>2 DEF RunType
  <2>4. q \in Requests /\ q.kind # "finalize"
      BY <2>1, <2>3 DEF Requests
  <2> QED
      BY <1>0, <2>2, <2>4 DEF Requested
<1>3. ASSUME NEW e \in Editors, NEW loaded \in Sessions \union {None}, Load(e, loaded)
      PROVE  wire' \subseteq Requests /\ \A m \in wire' : Requested(m)'
  <2>1. PICK q : q = [run |-> resume[e].run, op |-> resume[e].op,
                      expected |-> resume[e].seen.revision,
                      kind |-> "finalize", succeeded |-> loaded # None]
      OBVIOUS
  <2>2. wire' = wire \union {q} /\ runs' = runs
      BY <1>3, <2>1 DEF Load, vars
  <2>3. /\ resume[e].run \in Runs /\ resume[e].op \in Operations
        /\ resume[e].seen \in RunType /\ Past(resume[e].run, resume[e].seen.revision)
      BY <1>3 DEF Load, EditorInv, Attempting
  <2>4. resume[e].seen.revision \in U64
      BY <2>3 DEF RunType
  <2>5. q \in Requests
      BY <2>1, <2>3, <2>4 DEF Requests
  <2>6. q.run = resume[e].run /\ q.expected = resume[e].seen.revision
      BY <2>1
  <2>7. Past(q.run, q.expected)'
      BY <2>2, <2>3, <2>6 DEF Past, Exists
  <2> QED
      BY <1>0, <2>2, <2>5, <2>7 DEF Requested
<1>4. ASSUME NEW e \in Editors, Editor(e)
      PROVE  \/ \E r \in Runs, op \in Operations : AskResume(e, r, op)
             \/ \E loaded \in Sessions \union {None} : Load(e, loaded)
             \/ wire' \subseteq wire
    BY <1>4 DEF Editor, AttachSession, AskPark, Observe, ParkWrite, ParkDone, ParkAlready, ParkFail,
                ReadBegun, ReadEnded, GiveUp, Quit
<1>5. [EditorNext]_evars => wire' \subseteq wire \/ \E e \in Editors : Editor(e)
    BY DEF EditorNext, Others, ServeBegin, ServeFinalize, editors, evars
<1> QED
    BY <1>1, <1>2, <1>3, <1>4, <1>5

LEMMA EditorInitInv == EditorInit => EditorInv
<1> SUFFICES ASSUME EditorInit PROVE EditorInv
    OBVIOUS
<1>1. Inv
    BY InitInv DEF EditorInit
<1>2. NoPark.pc = "idle" /\ NoPark \in [pc : {"idle", "listed", "written"}, run : Runs \union {None}]
    BY DEF NoPark
<1>3. EditorsTypeOK
    BY <1>2, IdleAttempt, EditorsAssumption DEF EditorInit, EditorsTypeOK
<1>4. \A e \in Editors : Parking(park[e]) /\ Attempting(resume[e])
    BY <1>2, IdleAttempt DEF EditorInit, Parking, Attempting
<1> QED
    BY <1>1, <1>3, <1>4 DEF EditorInv, EditorInit

LEMMA EditorNextInv == EditorInv /\ [EditorNext]_evars => EditorInv'
<1> SUFFICES ASSUME EditorInv, [EditorNext]_evars PROVE EditorInv'
    OBVIOUS
<1>1. Inv'
    BY EditorStep, NextInv DEF EditorInv
<1>2. Quiet
    BY QuietKept
<1>3. resume' \in [Editors -> Resumes] /\ \A x \in Editors : Attempting(resume[x])'
    BY AttemptsKept
<1>4. wire' \subseteq Requests /\ \A m \in wire' : Requested(m)'
    BY WireKept
<1>5. EditorsTypeOK'
    BY <1>2, <1>3, <1>4 DEF Quiet, EditorsTypeOK
<1> QED
    BY <1>1, <1>2, <1>3, <1>4, <1>5 DEF Quiet, EditorInv

(***************************************************************************)
(* The editors keep their shape: attempts, requests and local Runs.        *)
(***************************************************************************)
THEOREM EditorsTypeCorrect == EditorSpec => []EditorsTypeOK
<1>1. EditorInv => EditorsTypeOK
    BY DEF EditorInv
<1> QED
    BY <1>1, EditorInitInv, EditorNextInv, PTL DEF EditorSpec

(***************************************************************************)
(* Editors, sockets and lost messages implement the store: every behaviour *)
(* of theirs is one of RunStore, whose theorems therefore hold of it.      *)
(***************************************************************************)
THEOREM EditorsImplementStore == EditorSpec => ImplementsStore
<1>1. EditorInit => Init
    BY DEF EditorInit
<1>2. EditorInv /\ [EditorNext]_evars => [Next]_vars
    BY EditorStep
<1> QED
    BY <1>1, <1>2, EditorInitInv, EditorNextInv, PTL DEF EditorSpec, ImplementsStore, Spec

\* The ceiling holds whatever the editors do: by refinement.
THEOREM EditorsKeepBudget == EditorSpec => []WithinBudget
    BY EditorsImplementStore, BudgetKept, PTL DEF ImplementsStore

\* The reaper may release what the journal says is left: by refinement.
THEOREM EditorsKeepJournal == EditorSpec => []JournalledWasReleased
    BY EditorsImplementStore, JournalIsTrue, PTL DEF ImplementsStore

(***************************************************************************)
(* No step brings a disposed Run back.  Only a finalize does not ask for   *)
(* the state, and it names a revision that is past.                        *)
(***************************************************************************)
THEOREM DisposedStaysDisposed == EditorSpec => DisposedIsFinal
<1>1. ASSUME EditorInv, [EditorNext]_evars, NEW r \in Runs,
             Exists(r), runs[r].state = "disposed"
      PROVE  runs'[r].state = "disposed"
  <2>1. runs \in [Runs -> RunType \union {NoRun}] /\ runs[r] \in RunType
      BY <1>1 DEF EditorInv, Inv, Records, Exists
  <2>2. ASSUME NEW q \in Runs, NEW run, Write(q, run), q = r => run.state = "disposed"
        PROVE  runs'[r].state = "disposed"
      BY <1>1, <2>1, <2>2 DEF Write
  <2>3. ASSUME NEW q \in Runs, NEW now \in Captured, NEW op \in Operations, NEW expected \in U64,
               BeginResume(q, expected, op, now)
        PROVE  runs'[r].state = "disposed"
      BY <1>1, <2>2, <2>3 DEF BeginResume, WriteOnly, CanBeginResume, Parked
  <2>4. ASSUME NEW m \in wire, ServeFinalize(m)
        PROVE  runs'[r].state = "disposed"
    <3>1. m.run \in Runs /\ m.kind = "finalize" /\ Past(m.run, m.expected) /\ m.expected \in Nat
        BY <1>1, <2>4, RecordAssumption DEF ServeFinalize, EditorInv, EditorsTypeOK, Requests, Requested, U64
    <3>2. CASE FinalizeResume(m.run, m.expected, m.op, m.succeeded)
      <4>1. runs[m.run].revision = m.expected /\ WriteOnly(m.run, ResumeFinalized(runs[m.run], m.succeeded))
          BY <3>2 DEF FinalizeResume, CanFinalizeResume
      <4>2. m.run # r
          BY <1>1, <3>1, <4>1 DEF Past
      <4> QED
          BY <2>2, <3>1, <4>1, <4>2 DEF WriteOnly
    <3>3. CASE UNCHANGED vars
        BY <1>1, <3>3 DEF vars
    <3> QED
        BY <2>4, <3>2, <3>3 DEF ServeFinalize
  <2>5. ASSUME NEW q \in Runs,
               \/ \E ttl \in Ttls, ceiling \in Ceilings : Admit(q, ttl, ceiling)
               \/ \E s \in Sessions : Attach(q, s)
               \/ \E m \in Mutations, units \in 1..MaxUnits, now \in Captured :
                     ReserveGeneratedWork(q, m, units, now)
               \/ \E s \in Sessions, now \in Captured : \E claims : ParkCold(q, s, claims, now)
               \/ \E ceiling \in Ceilings, expected \in U64 :
                     RaiseGeneratedWorkCeiling(q, expected, ceiling)
        PROVE  runs'[r].state = "disposed"
    <3>1. q # r /\ \E run : Write(q, run)
        BY <1>1, <2>5 DEF Admit, Attach, CanAttach, ReserveGeneratedWork, CanReserve, CanExhaust,
              ParkCold, CanParkCold, RaiseGeneratedWorkCeiling, CanRaise, Parked, WriteOnly
    <3> QED
        BY <2>2, <3>1
  <2>6. ASSUME NEW q \in Runs, NEW m \in Mutations,
               \/ \E issue \in Issues : ConfirmGeneratedWork(q, m, issue)
               \/ ReleaseGeneratedWork(q, m)
        PROVE  runs'[r].state = "disposed"
    <3>1. ASSUME NEW issue \in Issues, ConfirmGeneratedWork(q, m, issue)
          PROVE  runs'[r].state = "disposed"
      <4>1. Write(q, Confirmed(runs[q], m, issue)) /\ Exists(q)
          BY <3>1 DEF ConfirmGeneratedWork, WriteOnly
      <4>2. q = r => Confirmed(runs[q], m, issue).state = "disposed"
          BY <1>1, <2>1 DEF Confirmed, RunType
      <4> QED
          BY <2>2, <4>1, <4>2
    <3>2. CASE ReleaseGeneratedWork(q, m)
      <4>1. Write(q, Released(runs[q], m))
          BY <3>2 DEF ReleaseGeneratedWork, WriteOnly
      <4>2. q = r => Released(runs[q], m).state = "disposed"
          BY <1>1, <2>1 DEF Released, RunType
      <4> QED
          BY <2>2, <4>1, <4>2
    <3> QED
        BY <2>6, <3>1, <3>2
  <2>7. ASSUME NEW q \in Runs, Reaper(q) PROVE runs'[r].state = "disposed"
    <3>1. CASE ReapJournal(q)
      <4>1. PICK i : runs' = [runs EXCEPT ![q] = Journaled(runs[q], i)]
          BY <3>1 DEF ReapJournal
      <4>2. q = r => Journaled(runs[q], i).state = "disposed"
          BY <1>1, <2>1 DEF Journaled, RunType
      <4> QED
          BY <1>1, <2>1, <2>7, <4>1, <4>2
    <3>2. CASE ReapDispose(q)
      <4>1. runs' = [runs EXCEPT ![q] = Disposed(runs[q])]
          BY <3>2 DEF ReapDispose
      <4>2. q = r => Disposed(runs[q]).state = "disposed"
          BY <2>1 DEF Disposed, RunType
      <4> QED
          BY <1>1, <2>1, <4>1, <4>2
    <3> QED
        BY <1>1, <2>7, <3>1, <3>2 DEF Reaper, ReapSkip, ReapVisit, ReapRelease, ReapFail, ReapOverflow
  <2>8. ASSUME NEW e \in Editors, Editor(e) PROVE runs'[r].state = "disposed"
    <3>1. CASE \E q \in Runs, s \in Sessions : AttachSession(e, q, s)
        BY <2>5, <3>1 DEF AttachSession
    <3>2. CASE ParkWrite(e)
      <4>1. park[e].run \in Runs
          BY <1>1, <3>2 DEF ParkWrite, EditorInv, Parking
      <4>2. \E s \in Sessions, now \in Captured : \E claims : ParkCold(park[e].run, s, claims, now)
          BY <3>2 DEF ParkWrite
      <4> QED
          BY <2>5, <4>1, <4>2
    <3>3. CASE runs' = runs
        BY <1>1, <3>3
    <3>4. Editor(e) => \/ \E q \in Runs, s \in Sessions : AttachSession(e, q, s)
                       \/ ParkWrite(e) \/ runs' = runs
        BY DEF Editor, AskPark, ListClaims, Observe, ParkDone, ParkAlready, ParkFail, AskResume,
               ReadBegun, ReadEnded, GiveUp, Quit, Load, vars
    <3> QED
        BY <2>8, <3>1, <3>2, <3>3, <3>4
  <2>9. ASSUME NEW m \in wire, ServeBegin(m) PROVE runs'[r].state = "disposed"
    <3>1. m.run \in Runs /\ m.op \in Operations /\ m.expected \in U64
        BY <1>1 DEF EditorInv, EditorsTypeOK, Requests
    <3> QED
        BY <1>1, <2>3, <2>9, <3>1 DEF ServeBegin, vars
  <2>10. CASE Others
    <3>1. CASE \E q \in Runs : Reaper(q)
        BY <2>7, <3>1
    <3>2. CASE \E q \in Runs, m \in Mutations :
                  (\E issue \in Issues : ConfirmGeneratedWork(q, m, issue)) \/ ReleaseGeneratedWork(q, m)
        BY <2>6, <3>2
    <3>3. CASE \E q \in Runs :
                  \/ \E ttl \in Ttls, ceiling \in Ceilings : Admit(q, ttl, ceiling)
                  \/ \E m \in Mutations, units \in 1..MaxUnits, now \in Captured :
                        ReserveGeneratedWork(q, m, units, now)
                  \/ \E ceiling \in Ceilings, expected \in U64 :
                        RaiseGeneratedWorkCeiling(q, expected, ceiling)
        BY <2>5, <3>3
    <3>4. CASE runs' = runs
        BY <1>1, <3>4
    <3> QED
        BY <2>10, <3>1, <3>2, <3>3, <3>4 DEF Others, ReapBegin, ReapEnd, Crash, Tick, Claim
  <2> QED
      BY <1>1, <2>4, <2>8, <2>9, <2>10 DEF EditorNext, evars, vars
<1>2. EditorInv /\ [EditorNext]_evars =>
          [\A r \in Runs : Exists(r) /\ runs[r].state = "disposed" => runs'[r].state = "disposed"]_evars
    BY <1>1
<1> QED
    BY <1>2, EditorInitInv, EditorNextInv, PTL DEF EditorSpec, DisposedIsFinal

-----------------------------------------------------------------------------
(* Attempts, requests and answers: which request an attempt waits for.     *)

\* Every operation id in use was drawn, that of an attempt by its editor.
Drawn ==
    /\ \A e \in Editors : resume[e].op # None => drawn[resume[e].op] = e
    /\ \A m \in wire : drawn[m.op] # None

\* The attempt a request belongs to is waiting for exactly that request.
WaitsFor(a, m) ==
    /\ m.run = a.run /\ m.expected = a.seen.revision
    /\ \/ m.kind = "begin" /\ a.pc = "asked" /\ ~m.succeeded
       \/ m.kind = "finalize" /\ a.pc = "finalizing" /\ m.succeeded = (a.loaded # None)

Answerable == \A m \in wire, e \in Editors : resume[e].op = m.op => WaitsFor(resume[e], m)

\* A finalize nobody waits for any more is one whose editor gave up.
Awaited ==
    \A m \in wire :
        m.kind = "finalize" /\ m.op \notin lost => \E e \in Editors : resume[e].op = m.op

Waiting == Drawn /\ Answerable /\ Awaited

(***************************************************************************)
(* An attempt waits for one request at a time.                             *)
(***************************************************************************)
LEMMA OneRequest ==
    ASSUME EditorInv, Waiting, NEW m \in wire, NEW n \in wire, NEW e \in Editors,
           resume[e].op = m.op, resume[e].op = n.op
    PROVE  m = n
<1>1. WaitsFor(resume[e], m) /\ WaitsFor(resume[e], n)
    BY DEF Waiting, Answerable
<1>2. m \in Requests /\ n \in Requests
    BY DEF EditorInv, EditorsTypeOK
<1>3. m.run = n.run /\ m.expected = n.expected /\ m.kind = n.kind /\ m.op = n.op
    BY <1>1 DEF WaitsFor
<1>4. m.succeeded = n.succeeded
    BY <1>1, <1>2, <1>3 DEF WaitsFor, Requests
<1> QED
    BY <1>2, <1>3, <1>4 DEF Requests

(***************************************************************************)
(* What moves an attempt, a request or the ids.                            *)
(***************************************************************************)
LEMMA ControllerStep ==
    ASSUME [EditorNext]_evars
    PROVE  \/ \E e \in Editors, r \in Runs, op \in Operations : AskResume(e, r, op)
           \/ \E e \in Editors : ReadBegun(e) \/ ReadEnded(e) \/ GiveUp(e) \/ Quit(e)
           \/ \E e \in Editors, loaded \in Sessions \union {None} : Load(e, loaded)
           \/ \E m \in wire : ServeBegin(m) \/ ServeFinalize(m)
           \/ UNCHANGED <<resume, wire, drawn, lost>>
<1>1. ASSUME NEW e \in Editors, Editor(e)
      PROVE  \/ \E r \in Runs, op \in Operations : AskResume(e, r, op)
             \/ ReadBegun(e) \/ ReadEnded(e) \/ GiveUp(e) \/ Quit(e)
             \/ \E loaded \in Sessions \union {None} : Load(e, loaded)
             \/ UNCHANGED <<resume, wire, drawn, lost>>
    BY <1>1 DEF Editor, AttachSession, AskPark, Observe, ParkWrite, ParkDone, ParkAlready, ParkFail
<1>2. Others \/ UNCHANGED evars => UNCHANGED <<resume, wire, drawn, lost>>
    BY DEF Others, evars, editors
<1> QED
    BY <1>1, <1>2 DEF EditorNext

(***************************************************************************)
(* An attempt that no request belongs to may be dropped, or changed under  *)
(* its id, by its editor alone.                                            *)
(***************************************************************************)
LEMMA SilentAttemptKept ==
    ASSUME EditorInv, Waiting, NEW e \in Editors, NEW a,
           resume' = [resume EXCEPT ![e] = a], a.op = resume[e].op \/ a.op = None,
           \A m \in wire' : m.op = resume[e].op => m.op \in lost' /\ a.op = None,
           wire' \subseteq wire, drawn' = drawn, lost \subseteq lost'
    PROVE  Waiting'
<1>1. resume \in [Editors -> Resumes] /\ \A m \in wire : m.op # None
    BY EditorsAssumption DEF EditorInv, EditorsTypeOK, Requests
<1>2. resume'[e] = a /\ \A x \in Editors \ {e} : resume'[x] = resume[x]
    BY <1>1
<1>3. Drawn'
    BY <1>2 DEF Waiting, Drawn
<1>4. Answerable'
    BY <1>1, <1>2 DEF Waiting, Answerable, WaitsFor
<1>5. Awaited'
  <2> SUFFICES ASSUME NEW m \in wire', m.kind = "finalize", m.op \notin lost'
               PROVE  \E x \in Editors : resume'[x].op = m.op
      BY DEF Awaited
  <2>1. PICK x \in Editors : resume[x].op = m.op
      BY DEF Waiting, Awaited
  <2>2. x # e
      BY <2>1
  <2> QED
      BY <1>2, <2>1, <2>2
<1> QED
    BY <1>3, <1>4, <1>5 DEF Waiting

(***************************************************************************)
(* A request that is handled was the only one its attempt waited for.      *)
(***************************************************************************)
LEMMA AnsweredKept ==
    ASSUME EditorInv, Waiting, NEW m \in wire, NEW pc \in {"idle", "begun", "ended"},
           Answered(m, pc), wire' = wire \ {m}, UNCHANGED <<drawn, lost>>
    PROVE  Waiting'
<1>1. resume \in [Editors -> Resumes] /\ \A n \in wire : n.op # None
    BY EditorsAssumption DEF EditorInv, EditorsTypeOK, Requests
<1>2. \A x \in Editors : resume[x].op # m.op => resume'[x] = resume[x]
    BY DEF Answered
<1>3. \A x \in Editors : resume[x].op = m.op => resume'[x].op \in {m.op, None}
  <2> SUFFICES ASSUME NEW x \in Editors, resume[x].op = m.op
               PROVE  resume'[x].op \in {m.op, None}
      OBVIOUS
  <2>1. resume'[x] = IF pc = "idle" THEN NoResume ELSE [resume[x] EXCEPT !.pc = pc]
      BY DEF Answered
  <2> QED
      BY <1>1, <2>1, IdleAttempt DEF Resumes
<1>4. \A n \in wire', x \in Editors : resume[x].op = m.op => n.op # m.op
    BY OneRequest
<1>5. Drawn'
  <2>1. \A x \in Editors : resume'[x].op = resume[x].op \/ resume'[x].op = None
      BY <1>2, <1>3
  <2> QED
      BY <2>1 DEF Waiting, Drawn
<1>6. Answerable'
    BY <1>1, <1>2, <1>3, <1>4 DEF Waiting, Answerable, WaitsFor
<1>7. Awaited'
    BY <1>2, <1>4 DEF Waiting, Awaited
<1> QED
    BY <1>5, <1>6, <1>7 DEF Waiting

LEMMA WaitingKept ==
    ASSUME EditorInv, Waiting, [EditorNext]_evars
    PROVE  Waiting'
<1>0. /\ resume \in [Editors -> Resumes]
      /\ \A m \in wire : m.op \in Operations
      /\ \A e \in Editors : Attempting(resume[e])
      /\ drawn \in [Operations -> Editors \union {None}]
      /\ None \notin Operations /\ None \notin Editors
    BY EditorsAssumption DEF EditorInv, EditorsTypeOK, Requests
<1>1. ASSUME NEW e \in Editors, NEW r \in Runs, NEW op \in Operations, AskResume(e, r, op)
      PROVE  Waiting'
  <2>1. PICK a : a = [pc |-> "asked", run |-> r, op |-> op, seen |-> runs[r], loaded |-> None]
      OBVIOUS
  <2>2. PICK q : q = [run |-> r, op |-> op, expected |-> runs[r].revision,
                      kind |-> "begin", succeeded |-> FALSE]
      OBVIOUS
  <2>3. /\ resume'[e] = a /\ \A x \in Editors \ {e} : resume'[x] = resume[x]
        /\ wire' = wire \union {q} /\ drawn' = [drawn EXCEPT ![op] = e] /\ drawn[op] = None
        /\ resume[e].op = None /\ lost' = lost
      BY <1>0, <1>1, <2>1, <2>2 DEF AskResume, Attempting
  <2>4. a.op = op /\ q.op = op /\ q.kind # "finalize" /\ WaitsFor(a, q)
      BY <2>1, <2>2 DEF WaitsFor
  <2>5. Drawn'
      BY <1>0, <2>3, <2>4 DEF Waiting, Drawn
  <2>6. Answerable'
      BY <1>0, <2>3, <2>4 DEF Waiting, Drawn, Answerable, WaitsFor
  <2>7. Awaited'
      BY <1>0, <2>3, <2>4 DEF Waiting, Awaited
  <2> QED
      BY <2>5, <2>6, <2>7 DEF Waiting
<1>2. ASSUME NEW e \in Editors, NEW loaded \in Sessions \union {None}, Load(e, loaded)
      PROVE  Waiting'
  <2>1. PICK a : a = [resume[e] EXCEPT !.pc = "finalizing", !.loaded = loaded]
      OBVIOUS
  <2>2. PICK q : q = [run |-> resume[e].run, op |-> resume[e].op,
                      expected |-> resume[e].seen.revision,
                      kind |-> "finalize", succeeded |-> loaded # None]
      OBVIOUS
  <2>3. /\ resume'[e] = a /\ \A x \in Editors \ {e} : resume'[x] = resume[x]
        /\ wire' = wire \union {q} /\ UNCHANGED <<drawn, lost>> /\ resume[e].pc = "loading"
        /\ resume[e].op \in Operations
      BY <1>0, <1>2, <2>1, <2>2 DEF Load, Attempting
  <2>4. a.op = resume[e].op /\ q.op = resume[e].op /\ WaitsFor(a, q)
      BY <1>0, <2>1, <2>2 DEF WaitsFor, Resumes
  <2>5. \A m \in wire : m.op # resume[e].op
      BY <2>3 DEF Waiting, Answerable, WaitsFor
  <2>6. Drawn'
      BY <1>0, <2>3, <2>4 DEF Waiting, Drawn
  <2>7. Answerable'
      BY <1>0, <2>3, <2>4, <2>5 DEF Waiting, Drawn, Answerable, WaitsFor
  <2>8. Awaited'
      BY <1>0, <2>3, <2>4, <2>5 DEF Waiting, Awaited
  <2> QED
      BY <2>6, <2>7, <2>8 DEF Waiting
<1>3. ASSUME NEW e \in Editors, ReadBegun(e) \/ ReadEnded(e)
      PROVE  Waiting'
  <2>1. PICK a : /\ resume' = [resume EXCEPT ![e] = a]
                 /\ a.op = resume[e].op \/ a.op = None
    <3>1. CASE ReadBegun(e)
      <4>1. PICK b : b = [resume[e] EXCEPT !.pc = "loading", !.seen = runs[resume[e].run]]
          OBVIOUS
      <4>2. b.op = resume[e].op /\ NoResume.op = None
          BY <1>0, <4>1, IdleAttempt DEF Resumes
      <4>3. resume' = [resume EXCEPT ![e] = b] \/ resume' = [resume EXCEPT ![e] = NoResume]
          BY <3>1, <4>1 DEF ReadBegun
      <4> QED
          BY <4>2, <4>3
    <3>2. CASE ReadEnded(e)
        BY <3>2, IdleAttempt DEF ReadEnded
    <3> QED
        BY <1>3, <3>1, <3>2
  <2>2. UNCHANGED <<wire, drawn, lost>> /\ resume[e].pc \in {"begun", "ended"}
      BY <1>3 DEF ReadBegun, ReadEnded
  <2>3. \A m \in wire : m.op # resume[e].op
      BY <2>2 DEF Waiting, Answerable, WaitsFor
  <2>4. wire' \subseteq wire /\ drawn' = drawn /\ lost \subseteq lost'
        /\ \A m \in wire' : m.op # resume[e].op
      BY <2>2, <2>3
  <2> QED
      BY <2>1, <2>4, SilentAttemptKept
<1>4. ASSUME NEW e \in Editors, GiveUp(e) \/ Quit(e)
      PROVE  Waiting'
  <2>1. resume' = [resume EXCEPT ![e] = NoResume] /\ drawn' = drawn /\ lost \subseteq lost'
        /\ wire' \subseteq wire
      BY <1>4 DEF GiveUp, Quit
  <2>2. resume[e].op # None => resume[e].op \in lost'
    <3>1. CASE GiveUp(e)
        BY <3>1 DEF GiveUp
    <3>2. CASE Quit(e)
      <4>1. lost' = lost \union {op \in Operations : drawn[op] = e}
          BY <3>2 DEF Quit
      <4>2. resume[e].op # None => resume[e].op \in Operations /\ drawn[resume[e].op] = e
          BY <1>0 DEF Waiting, Drawn, Attempting
      <4> QED
          BY <4>1, <4>2
    <3> QED
        BY <1>4, <3>1, <3>2
  <2>3. \A m \in wire' : m.op = resume[e].op => m.op \in lost' /\ NoResume.op = None
      BY <1>0, <2>1, <2>2, IdleAttempt
  <2> QED
      BY <2>1, <2>3, IdleAttempt, SilentAttemptKept
<1>5. ASSUME NEW m \in wire, ServeBegin(m) \/ ServeFinalize(m)
      PROVE  Waiting'
  <2>1. PICK pc \in {"idle", "begun", "ended"} : Answered(m, pc)
      BY <1>5 DEF ServeBegin, ServeFinalize
  <2>2. wire' = wire \ {m} /\ UNCHANGED <<drawn, lost>>
      BY <1>5 DEF ServeBegin, ServeFinalize
  <2> QED
      BY <2>1, <2>2, AnsweredKept
<1>6. CASE UNCHANGED <<resume, wire, drawn, lost>>
    BY <1>6 DEF Waiting, Drawn, Answerable, Awaited
<1> QED
    BY <1>1, <1>2, <1>3, <1>4, <1>5, <1>6, ControllerStep

-----------------------------------------------------------------------------
(* A resume begins on the record that was observed.                        *)

\* An attempt that asked has seen the record of its revision.
Seen(a) ==
    a.pc = "asked" =>
        /\ a.seen \in RunType /\ a.seen.revision <= runs[a.run].revision
        /\ a.seen.revision = runs[a.run].revision => a.seen = runs[a.run]

SeenInv == \A e \in Editors : Seen(resume[e])

LEMMA SeenKept ==
    ASSUME EditorInv, SeenInv, [EditorNext]_evars
    PROVE  SeenInv'
<1> SUFFICES ASSUME NEW e \in Editors PROVE Seen(resume[e])'
    BY DEF SeenInv
<1>0. /\ resume \in [Editors -> Resumes] /\ Attempting(resume[e]) /\ Seen(resume[e])
      /\ \A r \in Runs : Exists(r) => runs[r] \in RunType
      /\ [Next]_vars
    BY EditorStep DEF EditorInv, EditorsTypeOK, SeenInv, Inv, Records, Exists
<1>1. CASE resume'[e] = resume[e] /\ resume[e].pc = "asked"
  <2>1. resume[e].run \in Runs /\ Exists(resume[e].run)
      BY <1>0, <1>1 DEF Attempting
  <2>2. resume[e].seen.revision \in Nat /\ runs[resume[e].run].revision \in Nat
      BY <1>0, <1>1, <2>1, RecordAssumption DEF Seen, RunType, U64
  <2>3. CASE runs'[resume[e].run] = runs[resume[e].run]
      BY <1>0, <1>1, <2>3 DEF Seen
  <2>4. CASE runs'[resume[e].run] # runs[resume[e].run]
    <3>1. runs'[resume[e].run].revision = runs[resume[e].run].revision + 1
        BY <1>0, <2>1, <2>4, RecordStep DEF EditorInv, Exists
    <3> QED
        BY <1>0, <1>1, <2>2, <3>1 DEF Seen
  <2> QED
      BY <2>3, <2>4
<1>2. ASSUME NEW r \in Runs, NEW op \in Operations, NEW x \in Editors, AskResume(x, r, op)
      PROVE  resume'[e] = resume[e] \/ Seen(resume[e])'
  <2>1. runs' = runs /\ runs[r] \in RunType
      BY <1>0, <1>2 DEF AskResume, vars
  <2>2. x = e => resume'[e] = [pc |-> "asked", run |-> r, op |-> op, seen |-> runs[r],
                               loaded |-> None]
      BY <1>0, <1>2 DEF AskResume
  <2>3. runs[r].revision <= runs[r].revision
      BY <2>1, RecordAssumption DEF RunType, U64
  <2>4. CASE x = e
      BY <2>1, <2>2, <2>3, <2>4 DEF Seen
  <2> QED
      BY <1>0, <1>2, <2>4 DEF AskResume
<1>3. ASSUME NEW x \in Editors, ReadBegun(x) \/ ReadEnded(x) \/ GiveUp(x) \/ Quit(x)
      PROVE  resume'[e] = resume[e] \/ resume'[e].pc # "asked"
  <2>1. [resume[x] EXCEPT !.pc = "loading", !.seen = runs[resume[x].run]].pc = "loading"
      BY <1>0 DEF Resumes
  <2> QED
      BY <1>0, <1>3, <2>1, IdleAttempt DEF ReadBegun, ReadEnded, GiveUp, Quit
<1>4. ASSUME NEW x \in Editors, NEW loaded \in Sessions \union {None}, Load(x, loaded)
      PROVE  resume'[e] = resume[e] \/ resume'[e].pc # "asked"
  <2>1. [resume[x] EXCEPT !.pc = "finalizing", !.loaded = loaded].pc = "finalizing"
      BY <1>0 DEF Resumes
  <2> QED
      BY <1>0, <1>4, <2>1 DEF Load
<1>5. ASSUME NEW m \in wire, ServeBegin(m) \/ ServeFinalize(m)
      PROVE  resume'[e] = resume[e] \/ resume'[e].pc # "asked"
  <2>1. PICK pc \in {"idle", "begun", "ended"} : Answered(m, pc)
      BY <1>5 DEF ServeBegin, ServeFinalize
  <2>2. [resume[e] EXCEPT !.pc = pc].pc = pc
      BY <1>0 DEF Resumes
  <2> QED
      BY <2>1, <2>2, IdleAttempt DEF Answered
<1>6. resume'[e].pc # "asked" => Seen(resume[e])'
    BY DEF Seen
<1>7. resume'[e] = resume[e] => Seen(resume[e])'
    BY <1>1, <1>6
<1> QED
    BY <1>2, <1>3, <1>4, <1>5, <1>6, <1>7, ControllerStep

\* What holds of editors and their requests in every reachable state.
ResumeInv == EditorInv /\ Waiting /\ SeenInv

LEMMA ResumeInitInv == EditorInit => ResumeInv
<1> SUFFICES ASSUME EditorInit PROVE ResumeInv
    OBVIOUS
<1>1. \A e \in Editors : resume[e].op = None /\ resume[e].pc = "idle"
    BY IdleAttempt DEF EditorInit
<1>2. wire = {}
    BY DEF EditorInit
<1> QED
    BY <1>1, <1>2, EditorInitInv
       DEF ResumeInv, Waiting, Drawn, Answerable, Awaited, SeenInv, Seen

LEMMA ResumeNextInv == ResumeInv /\ [EditorNext]_evars => ResumeInv'
    BY EditorNextInv, WaitingKept, SeenKept DEF ResumeInv

(***************************************************************************)
(* A resume that begins finds its Run exactly as the editor's snapshot had *)
(* it: the answer an attempt takes is the one to its own request, which    *)
(* names the revision of that snapshot (runs.rs: require_revision;         *)
(* run_client.lua: pending requests by id).                                *)
(***************************************************************************)
THEOREM ResumeIsOnWhatWasObserved == EditorSpec => ResumesWhatWasObserved
<1>1. ASSUME ResumeInv, [EditorNext]_evars, NEW e \in Editors,
             resume[e].pc = "asked", resume'[e].pc = "begun"
      PROVE  runs[resume[e].run] = resume[e].seen
  <2>0. resume \in [Editors -> Resumes]
      BY <1>1 DEF ResumeInv, EditorInv, EditorsTypeOK
  <2>1. PICK m \in wire : ServeBegin(m) \/ ServeFinalize(m)
    <3>1. ~ \E x \in Editors, r \in Runs, op \in Operations : AskResume(x, r, op)
        BY <1>1, <2>0 DEF AskResume
    <3>2. ~ \E x \in Editors : ReadBegun(x) \/ ReadEnded(x) \/ GiveUp(x) \/ Quit(x)
      <4>1. \A x \in Editors :
                [resume[x] EXCEPT !.pc = "loading", !.seen = runs[resume[x].run]].pc = "loading"
          BY <2>0 DEF Resumes
      <4> QED
          BY <1>1, <2>0, <4>1, IdleAttempt DEF ReadBegun, ReadEnded, GiveUp, Quit
    <3>3. ~ \E x \in Editors, loaded \in Sessions \union {None} : Load(x, loaded)
      <4>1. \A x \in Editors, loaded \in Sessions \union {None} :
                [resume[x] EXCEPT !.pc = "finalizing", !.loaded = loaded].pc = "finalizing"
          BY <2>0 DEF Resumes
      <4> QED
          BY <1>1, <2>0, <4>1 DEF Load
    <3> QED
        BY <1>1, <3>1, <3>2, <3>3, ControllerStep
  <2>2. \A pc : [resume[e] EXCEPT !.pc = pc].pc = pc
      BY <2>0 DEF Resumes
  <2>3. resume[e].op = m.op
      BY <1>1, <2>1 DEF ServeBegin, ServeFinalize, Answered
  <2>4. ServeBegin(m)
    <3>1. m.kind = "begin"
        BY <1>1, <2>3 DEF ResumeInv, Waiting, Answerable, WaitsFor
    <3> QED
        BY <2>1, <3>1 DEF ServeFinalize
  <2>5. ~Answered(m, "idle")
      BY <1>1, <2>3, IdleAttempt DEF Answered
  <2>6. PICK now : BeginResume(m.run, m.expected, m.op, now)
      BY <2>4, <2>5 DEF ServeBegin
  <2>7. runs[m.run].revision = m.expected
      BY <2>6 DEF BeginResume, CanBeginResume
  <2>8. m.run = resume[e].run /\ m.expected = resume[e].seen.revision
      BY <1>1, <2>3 DEF ResumeInv, Waiting, Answerable, WaitsFor
  <2> QED
      BY <1>1, <2>7, <2>8 DEF ResumeInv, SeenInv, Seen
<1>2. ResumeInv /\ [EditorNext]_evars =>
          [\A e \in Editors : resume[e].pc = "asked" /\ resume'[e].pc = "begun" =>
               runs[resume[e].run] = resume[e].seen]_evars
    BY <1>1
<1> QED
    BY <1>2, ResumeInitInv, ResumeNextInv, PTL DEF EditorSpec, ResumesWhatWasObserved

-----------------------------------------------------------------------------
(* What editors own of a Run is the Session of its record.                 *)

OwnedWorker(e, r) ==
    Holds(e, r) => /\ Exists(r) /\ runs[r].session # None
                   /\ worker[e][r] = runs[r].session

OwnedAttempt(a) ==
    /\ a.pc = "loading" => /\ runs[a.run].session # None
                           /\ a.seen.session = runs[a.run].session
    /\ a.loaded # None => /\ a.pc \in {"finalizing", "ended"}
                          /\ a.loaded = runs[a.run].session

OwnedInv ==
    /\ \A e \in Editors, r \in Runs : OwnedWorker(e, r)
    /\ \A e \in Editors : OwnedAttempt(resume[e])
    /\ \A e \in Editors : park[e].pc # "idle" => Holds(e, park[e].run)

LEMMA OwnedInit == EditorInit => OwnedInv
BY DEF EditorInit, OwnedInv, OwnedWorker, OwnedAttempt, Holds, NoResume, NoPark

(***************************************************************************)
(* What a step leaves alone stays the Session of its Run.                  *)
(***************************************************************************)
LEMMA OwnedUntouched ==
    ASSUME EditorInv, OwnedInv, [EditorNext]_evars, NEW e \in Editors
    PROVE  /\ \A r \in Runs : hold'[e][r] # "none" /\ Holds(e, r) /\ worker'[e][r] = worker[e][r]
                                => OwnedWorker(e, r)'
           /\ resume'[e] = resume[e] => OwnedAttempt(resume[e])'
<1>0. /\ [Next]_vars /\ Inv /\ Attempting(resume[e]) /\ resume[e] \in Resumes
      /\ \A r \in Runs : Exists(r) => runs[r] \in RunType /\ Exists(r)'
    BY EditorStep, RecordStep DEF EditorInv, EditorsTypeOK, Inv, Records, Exists
<1>1. ASSUME NEW r \in Runs, hold'[e][r] # "none", Holds(e, r), worker'[e][r] = worker[e][r]
      PROVE  OwnedWorker(e, r)'
  <2>1. Exists(r) /\ runs[r].session # None /\ worker[e][r] = runs[r].session
      BY <1>1 DEF OwnedInv, OwnedWorker
  <2>2. runs'[r].session = runs[r].session /\ Exists(r)'
      BY <1>0, <2>1, SessionFixed
  <2> QED
      BY <1>1, <2>1, <2>2 DEF OwnedWorker, Exists
<1>2. ASSUME resume'[e] = resume[e] PROVE OwnedAttempt(resume[e])'
  <2>1. OwnedAttempt(resume[e])
      BY DEF OwnedInv
  <2>2. ASSUME resume[e].pc = "loading" \/ resume[e].loaded # None
        PROVE  runs'[resume[e].run].session = runs[resume[e].run].session
    <3>1. resume[e].run \in Runs /\ Exists(resume[e].run)
        BY <1>0, <2>1, <2>2 DEF Attempting, OwnedAttempt
    <3>2. runs[resume[e].run].session # None
        BY <1>0, <2>1, <2>2 DEF OwnedAttempt
    <3> QED
        BY <1>0, <3>1, <3>2, SessionFixed
  <2> QED
      BY <1>2, <2>1, <2>2 DEF OwnedAttempt
<1> QED
    BY <1>1, <1>2

LEMMA ParkingHeld ==
    ASSUME EditorInv, OwnedInv, [EditorNext]_evars, NEW e \in Editors, park'[e].pc # "idle"
    PROVE  Holds(e, park[e].run)'
<1>0. /\ hold \in [Editors -> [Runs -> {"none", "active", "parked"}]]
      /\ park \in [Editors -> [pc : {"idle", "listed", "written"}, run : Runs \union {None}]]
      /\ \A x \in Editors : Attempting(resume[x])
      /\ \A x \in Editors : park[x].pc # "idle" => park[x].run \in Runs /\ Holds(x, park[x].run)
    BY DEF EditorInv, EditorsTypeOK, OwnedInv, Parking
<1>1. ASSUME park'[e] = park[e], \A r \in Runs : Holds(e, r) => hold'[e][r] # "none"
      PROVE  Holds(e, park[e].run)'
    BY <1>0, <1>1 DEF Holds
<1>2. ASSUME NEW x \in Editors, Editor(x) PROVE Holds(e, park[e].run)'
  <2>1. CASE \E r \in Runs, s \in Sessions : AttachSession(x, r, s)
      BY <1>0, <1>1, <2>1 DEF AttachSession, Holds
  <2>2. CASE \E r \in Runs : AskPark(x, r)
    <3>1. PICK r \in Runs : AskPark(x, r)
        BY <2>2
    <3>2. hold' = hold /\ Holds(x, r)
          /\ park' = [park EXCEPT ![x] = [pc |-> "listed", run |-> r]]
        BY <3>1 DEF AskPark
    <3>3. CASE x = e
        BY <1>0, <3>2, <3>3 DEF Holds
    <3>4. CASE x # e
        BY <1>0, <1>1, <3>2, <3>4 DEF Holds
    <3> QED
        BY <3>3, <3>4
  <2>3. CASE \E r \in Runs : Observe(x, r)
      BY <1>0, <1>1, <2>3 DEF Observe, Holds
  <2>4. CASE ParkWrite(x)
    <3>1. hold' = hold /\ park' = [park EXCEPT ![x].pc = "written"] /\ park[x].pc = "listed"
        BY <2>4 DEF ParkWrite
    <3>2. park'[e].run = park[e].run /\ park[e].pc # "idle"
        BY <1>0, <3>1
    <3> QED
        BY <1>0, <3>1, <3>2 DEF Holds
  <2>5. CASE ParkDone(x) \/ ParkAlready(x) \/ ParkFail(x)
    <3>1. park' = [park EXCEPT ![x] = NoPark]
        BY <2>5 DEF ParkDone, ParkAlready, ParkFail
    <3>2. x # e /\ park'[e] = park[e]
        BY <1>0, <3>1 DEF NoPark
    <3>3. hold'[e] = hold[e]
        BY <1>0, <2>5, <3>2 DEF ParkDone, ParkAlready, ParkFail
    <3> QED
        BY <1>1, <3>2, <3>3 DEF Holds
  <2>6. CASE \/ \E r \in Runs, op \in Operations : AskResume(x, r, op)
             \/ \E loaded \in Sessions \union {None} : Load(x, loaded)
             \/ GiveUp(x)
    <3>1. hold' = hold /\ park' = park
        BY <2>6 DEF AskResume, Load, GiveUp
    <3> QED
        BY <1>1, <3>1 DEF Holds
  <2>7. CASE ReadBegun(x) \/ ReadEnded(x)
    <3>1. park' = park /\ resume[x].run \in Runs
        BY <1>0, <2>7 DEF ReadBegun, ReadEnded, Attempting
    <3>2. PICK q \in Runs : hold' = hold \/ hold' = [hold EXCEPT ![x][q] = "active"]
        BY <2>7, <3>1 DEF ReadBegun, ReadEnded
    <3>3. \A r \in Runs : Holds(e, r) => hold'[e][r] # "none"
        BY <1>0, <3>2 DEF Holds
    <3> QED
        BY <1>1, <3>1, <3>3
  <2>8. CASE Quit(x)
    <3>1. park' = [park EXCEPT ![x] = NoPark]
        BY <2>8 DEF Quit
    <3>2. x # e /\ park'[e] = park[e]
        BY <1>0, <3>1 DEF NoPark
    <3> QED
        BY <1>0, <1>1, <2>8, <3>2 DEF Quit, Holds
  <2> QED
      BY <1>2, <2>1, <2>2, <2>3, <2>4, <2>5, <2>6, <2>7, <2>8 DEF Editor
<1>3. CASE \/ \E m \in wire : ServeBegin(m) \/ ServeFinalize(m)
           \/ Others \/ UNCHANGED evars
    BY <1>1, <1>3 DEF ServeBegin, ServeFinalize, Others, evars, editors, Holds
<1> QED
    BY <1>2, <1>3 DEF EditorNext

LEMMA OwnedKept ==
    ASSUME EditorInv, OwnedInv, Waiting, [EditorNext]_evars
    PROVE  OwnedInv'
<1> DEFINE Kept == /\ \A e \in Editors, r \in Runs : OwnedWorker(e, r)'
                  /\ \A e \in Editors : OwnedAttempt(resume[e])'
<1>0. /\ hold \in [Editors -> [Runs -> {"none", "active", "parked"}]]
      /\ worker \in [Editors -> [Runs -> Sessions \union {None}]]
      /\ resume \in [Editors -> Resumes] /\ runs \in [Runs -> RunType \union {NoRun}]
      /\ \A r \in Runs : Exists(r) => runs[r] \in RunType /\ Lifecycle(runs[r])
      /\ \A e \in Editors : Attempting(resume[e])
    BY DEF EditorInv, EditorsTypeOK, Inv, Records, RunInv, Exists
<1>1. /\ \A e \in Editors, r \in Runs :
            hold'[e][r] # "none" /\ Holds(e, r) /\ worker'[e][r] = worker[e][r] => OwnedWorker(e, r)'
      /\ \A e \in Editors : resume'[e] = resume[e] => OwnedAttempt(resume[e])'
    BY OwnedUntouched
<1>2. \A e \in Editors, r \in Runs : hold'[e][r] = "none" => OwnedWorker(e, r)'
    BY DEF OwnedWorker, Holds
<1>3. \A e \in Editors : resume'[e] = NoResume => OwnedAttempt(resume[e])'
    BY DEF OwnedAttempt, NoResume
<1>4. ASSUME \A e \in Editors : worker'[e] = worker[e],
             \A e \in Editors, r \in Runs : ~Holds(e, r) => hold'[e][r] = "none"
      PROVE  \A e \in Editors, r \in Runs : OwnedWorker(e, r)'
    BY <1>1, <1>2, <1>4
<1>5. ASSUME NEW e \in Editors, NEW r \in Runs, NEW s \in Sessions, AttachSession(e, r, s)
      PROVE  Kept
  <2>1. /\ hold' = [hold EXCEPT ![e][r] = "active"] /\ worker' = [worker EXCEPT ![e][r] = s]
        /\ resume' = resume /\ Exists(r) /\ runs' = [runs EXCEPT ![r] = Attached(runs[r], s)]
      BY <1>5 DEF AttachSession, Attach, WriteOnly, Write
  <2>2. Attached(runs[r], s).session = s /\ Attached(runs[r], s) \in RunType \union {runs'[r]}
      BY <1>0, <2>1 DEF Attached, RunType
  <2>3. OwnedWorker(e, r)'
    <3>1. runs'[r].session = s /\ worker'[e][r] = s /\ s # None
        BY <1>0, <2>1, <2>2, RecordAssumption
    <3>2. Exists(r)'
        BY <2>1, EditorStep, RecordStep DEF EditorInv, Exists
    <3> QED
        BY <3>1, <3>2 DEF OwnedWorker
  <2>4. \A x \in Editors, q \in Runs : x # e \/ q # r =>
            hold'[x][q] = hold[x][q] /\ worker'[x][q] = worker[x][q]
      BY <1>0, <2>1
  <2>5. \A x \in Editors, q \in Runs : OwnedWorker(x, q)'
      BY <1>1, <1>2, <2>3, <2>4 DEF Holds
  <2> QED
      BY <1>1, <2>1, <2>5
<1>6. ASSUME NEW e \in Editors,
             \/ \E r \in Runs : AskPark(e, r) \/ Observe(e, r)
             \/ ParkWrite(e) \/ ParkDone(e) \/ ParkAlready(e) \/ ParkFail(e)
      PROVE  Kept
  <2>1. UNCHANGED <<worker, resume>>
      BY <1>6 DEF AskPark, Observe, ParkWrite, ParkDone, ParkAlready, ParkFail
  <2>2. ASSUME NEW x \in Editors, NEW r \in Runs PROVE OwnedWorker(x, r)'
    <3>1. CASE hold' = hold
        BY <1>4, <2>1, <3>1 DEF Holds
    <3>2. CASE ParkDone(e)
      <4>1. hold' = [hold EXCEPT ![e][park[e].run] = "parked"]
          BY <3>2 DEF ParkDone
      <4>2. CASE Holds(x, r)
          BY <1>0, <1>1, <1>2, <2>1, <4>2
      <4>3. CASE ~Holds(x, r)
        <5>1. CASE x = e /\ r = park[e].run
            BY <3>2, <4>3, <5>1 DEF OwnedInv, ParkDone
        <5>2. CASE ~(x = e /\ r = park[e].run)
            BY <1>0, <1>2, <4>1, <4>3, <5>2 DEF Holds
        <5> QED
            BY <5>1, <5>2
      <4> QED
          BY <4>2, <4>3
    <3>3. CASE \E q \in Runs : Observe(e, q)
      <4>1. PICK q \in Runs : Observe(e, q)
          BY <3>3
      <4> QED
          BY <1>0, <1>1, <1>2, <2>1, <4>1 DEF Observe, Holds
    <3> QED
        BY <1>6, <3>1, <3>2, <3>3 DEF AskPark, ParkWrite, ParkAlready, ParkFail
  <2> QED
      BY <1>1, <2>1, <2>2
<1>7. ASSUME NEW e \in Editors, NEW r \in Runs, NEW op \in Operations, AskResume(e, r, op)
      PROVE  Kept
  <2>1. /\ UNCHANGED <<hold, worker>>
        /\ resume' = [resume EXCEPT ![e] = [pc |-> "asked", run |-> r, op |-> op,
                                            seen |-> runs[r], loaded |-> None]]
      BY <1>7 DEF AskResume
  <2>2. resume'[e].pc = "asked" /\ resume'[e].loaded = None
      BY <1>0, <2>1
  <2>3. OwnedAttempt(resume[e])'
      BY <2>2 DEF OwnedAttempt
  <2> QED
      BY <1>0, <1>1, <1>4, <2>1, <2>3 DEF Holds
<1>8. ASSUME NEW e \in Editors, ReadBegun(e)
      PROVE  Kept
  <2>1. /\ UNCHANGED <<vars, worker>> /\ resume[e].pc = "begun" /\ resume[e].run \in Runs
        /\ Exists(resume[e].run) /\ resume[e].loaded = None
        /\ hold' = IF runs[resume[e].run].state = "active" /\ Holds(e, resume[e].run)
                   THEN [hold EXCEPT ![e][resume[e].run] = "active"] ELSE hold
      BY <1>0, <1>8 DEF ReadBegun, Attempting, OwnedInv, OwnedAttempt
  <2>2. \A x \in Editors, r \in Runs : ~Holds(x, r) => hold'[x][r] = "none"
      BY <1>0, <2>1 DEF Holds
  <2>3. OwnedAttempt(resume[e])'
    <3>1. CASE runs[resume[e].run].state = "resuming"
      <4>1. PICK a : a = [resume[e] EXCEPT !.pc = "loading", !.seen = runs[resume[e].run]]
          OBVIOUS
      <4>2. resume'[e] = a
          BY <1>0, <1>8, <3>1, <4>1 DEF ReadBegun
      <4>3. a.pc = "loading" /\ a.run = resume[e].run /\ a.seen = runs[resume[e].run]
            /\ a.loaded = None
          BY <1>0, <2>1, <4>1 DEF Resumes
      <4>4. runs[resume[e].run].session # None
          BY <1>0, <2>1, <3>1 DEF Lifecycle
      <4>5. runs' = runs
          BY <2>1 DEF vars
      <4> QED
          BY <4>2, <4>3, <4>4, <4>5 DEF OwnedAttempt
    <3>2. CASE runs[resume[e].run].state # "resuming"
        BY <1>0, <1>3, <1>8, <3>2 DEF ReadBegun
    <3> QED
        BY <3>1, <3>2
  <2>4. \A x \in Editors \ {e} : resume'[x] = resume[x]
      BY <1>0, <1>8 DEF ReadBegun
  <2> QED
      BY <1>1, <1>4, <2>1, <2>2, <2>3, <2>4
<1>9. ASSUME NEW e \in Editors, NEW loaded \in Sessions \union {None}, Load(e, loaded)
      PROVE  Kept
  <2>1. /\ UNCHANGED <<vars, hold, worker>> /\ resume[e].pc = "loading" /\ resume[e].run \in Runs
        /\ runs[resume[e].run].session # None
        /\ resume[e].seen.session = runs[resume[e].run].session
        /\ \A x \in Editors \ {e} : resume'[x] = resume[x]
      BY <1>0, <1>9 DEF Load, Attempting, OwnedInv, OwnedAttempt
  <2>2. Reconstructed(e) = {runs[resume[e].run].session}
      BY <2>1 DEF Reconstructed, OwnedInv, OwnedWorker, Holds
  <2>3. PICK a : a = [resume[e] EXCEPT !.pc = "finalizing", !.loaded = loaded]
      OBVIOUS
  <2>4. resume'[e] = a /\ a.pc = "finalizing" /\ a.loaded = loaded /\ a.run = resume[e].run
      BY <1>0, <1>9, <2>3 DEF Load, Resumes
  <2>5. OwnedAttempt(resume[e])'
    <3>1. runs' = runs /\ loaded \in {runs[resume[e].run].session, None}
        BY <1>9, <2>1, <2>2 DEF Load, vars
    <3> QED
        BY <2>4, <3>1 DEF OwnedAttempt
  <2> QED
      BY <1>1, <1>4, <2>1, <2>5 DEF Holds
<1>10. ASSUME NEW e \in Editors, ReadEnded(e)
       PROVE  Kept
  <2>1. /\ UNCHANGED vars /\ resume[e].pc = "ended" /\ resume[e].run \in Runs
        /\ Exists(resume[e].run) /\ resume' = [resume EXCEPT ![e] = NoResume]
        /\ resume[e].loaded # None => resume[e].loaded = runs[resume[e].run].session
      BY <1>0, <1>10 DEF ReadEnded, Attempting, OwnedInv, OwnedAttempt
  <2>2. ASSUME NEW x \in Editors, NEW r \in Runs PROVE OwnedWorker(x, r)'
    <3>1. CASE resume[e].loaded = None \/ x # e \/ r # resume[e].run
      <4>1. hold'[x][r] = hold[x][r] /\ worker'[x][r] = worker[x][r]
          BY <1>0, <1>10, <2>1, <3>1 DEF ReadEnded
      <4> QED
          BY <1>1, <1>2, <4>1 DEF Holds
    <3>2. CASE resume[e].loaded # None /\ x = e /\ r = resume[e].run
      <4>1. worker'[x][r] = resume[e].loaded
          BY <1>0, <1>10, <2>1, <3>2 DEF ReadEnded
      <4>2. runs' = runs
          BY <2>1 DEF vars
      <4> QED
          BY <2>1, <3>2, <4>1, <4>2 DEF OwnedWorker, Exists
    <3> QED
        BY <3>1, <3>2
  <2> QED
      BY <1>0, <1>1, <1>3, <2>1, <2>2
<1>11. ASSUME NEW e \in Editors, GiveUp(e) \/ Quit(e)
       PROVE  Kept
  <2>1. resume' = [resume EXCEPT ![e] = NoResume]
      BY <1>11 DEF GiveUp, Quit
  <2>2. ASSUME NEW x \in Editors, NEW r \in Runs PROVE OwnedWorker(x, r)'
    <3>1. \/ hold'[x][r] = "none"
          \/ hold'[x][r] = hold[x][r] /\ worker'[x][r] = worker[x][r]
      <4>1. CASE GiveUp(e)
          BY <4>1 DEF GiveUp
      <4>2. CASE Quit(e)
        <5>1. /\ hold' = [hold EXCEPT ![e] = [q \in Runs |-> "none"]]
              /\ worker' = [worker EXCEPT ![e] = [q \in Runs |-> None]]
            BY <4>2 DEF Quit
        <5>2. CASE x = e
            BY <1>0, <5>1, <5>2
        <5>3. CASE x # e
            BY <1>0, <5>1, <5>3
        <5> QED
            BY <5>2, <5>3
      <4> QED
          BY <1>11, <4>1, <4>2
    <3> QED
        BY <1>1, <1>2, <3>1 DEF Holds
  <2> QED
      BY <1>0, <1>1, <1>3, <2>1, <2>2
<1>12. ASSUME NEW m \in wire, ServeBegin(m) \/ ServeFinalize(m)
       PROVE  Kept
  <2>1. UNCHANGED <<hold, worker>>
      BY <1>12 DEF ServeBegin, ServeFinalize
  <2>2. ASSUME NEW x \in Editors PROVE OwnedAttempt(resume[x])'
    <3>1. CASE resume'[x] = resume[x] \/ resume'[x] = NoResume
        BY <1>1, <1>3, <3>1
    <3>2. ASSUME NEW pc \in {"begun", "ended"}, Answered(m, pc), resume[x].op = m.op
          PROVE  OwnedAttempt(resume[x])'
      <4>1. resume'[x] = [resume[x] EXCEPT !.pc = pc]
          BY <3>2 DEF Answered
      <4>2. /\ resume'[x].pc = pc /\ resume'[x].run = resume[x].run
            /\ resume'[x].loaded = resume[x].loaded
          BY <1>0, <4>1 DEF Resumes
      <4>3. WaitsFor(resume[x], m)
          BY <3>2 DEF Waiting, Answerable
      <4>4. CASE resume[x].loaded = None
          BY <3>2, <4>2, <4>4 DEF OwnedAttempt
      <4>5. CASE resume[x].loaded # None
        <5>1. /\ resume[x].loaded = runs[resume[x].run].session
              /\ resume[x].pc = "finalizing"
            BY <4>3, <4>5 DEF OwnedInv, OwnedAttempt, WaitsFor
        <5>2. resume[x].run \in Runs /\ Exists(resume[x].run)
            BY <1>0, <5>1 DEF Attempting
        <5>3. runs'[resume[x].run].session = runs[resume[x].run].session
            BY <4>5, <5>1, <5>2, EditorStep, SessionFixed DEF EditorInv
        <5>4. pc = "ended"
          <6>1. m.kind = "finalize"
              BY <4>3, <5>1 DEF WaitsFor
          <6>2. Answered(m, "ended") \/ Answered(m, "idle")
              BY <1>12, <6>1 DEF ServeBegin, ServeFinalize
          <6>3. CASE Answered(m, "ended")
            <7>1. resume'[x] = [resume[x] EXCEPT !.pc = "ended"]
                BY <3>2, <6>3 DEF Answered
            <7>2. resume'[x].pc = "ended"
                BY <1>0, <7>1 DEF Resumes
            <7> QED
                BY <4>2, <7>2
          <6>4. CASE Answered(m, "idle")
            <7>1. resume'[x] = NoResume
                BY <3>2, <6>4 DEF Answered
            <7> QED
                BY <4>2, <4>5, <7>1 DEF NoResume
          <6> QED
              BY <6>2, <6>3, <6>4
        <5> QED
            BY <4>2, <4>5, <5>1, <5>3, <5>4 DEF OwnedAttempt
      <4> QED
          BY <4>4, <4>5
    <3>3. PICK pc \in {"idle", "begun", "ended"} : Answered(m, pc)
        BY <1>12 DEF ServeBegin, ServeFinalize
    <3> QED
        BY <3>1, <3>2, <3>3 DEF Answered
  <2> QED
      BY <1>4, <2>1, <2>2 DEF Holds
<1>13. ASSUME Others \/ UNCHANGED evars
       PROVE  Kept
  <2>1. UNCHANGED <<hold, worker, resume>>
      BY <1>13 DEF Others, evars, editors
  <2> QED
      BY <1>1, <1>4, <2>1 DEF Holds
<1> HIDE DEF Kept
<1>14. ASSUME NEW e \in Editors, Editor(e)
       PROVE  Kept
    BY <1>5, <1>6, <1>7, <1>8, <1>9, <1>10, <1>11, <1>14 DEF Editor
<1>15. Kept
    BY <1>12, <1>13, <1>14 DEF EditorNext
<1>16. \A e \in Editors : park'[e].pc # "idle" => Holds(e, park[e].run)'
    BY ParkingHeld
<1> QED
    BY <1>15, <1>16 DEF OwnedInv, Kept

-----------------------------------------------------------------------------
(* A cold resume leaves its Session open in the editor that loaded it.     *)

\* Where the Session of a cold resumed Run is, by the editor of its operation.
Survives(r) ==
    Exists(r) /\ ColdResumed(r) /\ runs[r].attempt.operation \notin lost =>
        \E e \in Editors :
           /\ drawn[runs[r].attempt.operation] = e
           /\ \/ Holds(e, r)
              \/ /\ resume[e].op = runs[r].attempt.operation /\ resume[e].run = r
                 /\ resume[e].pc = "ended" /\ resume[e].loaded # None

SurvivesInv == \A r \in Runs : Survives(r)

\* A step that does not make r cold resumed: it was so before, by the same operation.
Came(r) ==
    Exists(r)' /\ ColdResumed(r)' =>
        Exists(r) /\ ColdResumed(r) /\ runs'[r].attempt = runs[r].attempt

LEMMA CameUnwritten ==
    ASSUME NEW r \in Runs, runs'[r] = runs[r]
    PROVE  Came(r)
BY DEF Came, Exists, ColdResumed

(***************************************************************************)
(* Of the writes of Agents, operators and the reaper none makes a Run cold *)
(* resumed.                                                                *)
(***************************************************************************)
LEMMA OthersCame ==
    ASSUME EditorInv, Others, NEW r \in Runs
    PROVE  Came(r)
<1>0. /\ runs \in [Runs -> RunType \union {NoRun}]
      /\ \A q \in Runs : Exists(q) => runs[q] \in RunType
    BY DEF EditorInv, Inv, Records, Exists
<1>a. ASSUME NEW q \in Runs, NEW run, runs' = [runs EXCEPT ![q] = run], run.state # "active"
      PROVE  Came(r)
  <2>1. CASE q = r
    <3>1. runs'[r].state # "active"
        BY <1>0, <1>a, <2>1
    <3> QED
        BY <3>1 DEF Came, ColdResumed
  <2>2. CASE q # r
      BY <1>0, <1>a, <2>2, CameUnwritten
  <2> QED
      BY <2>1, <2>2
<1>1. ASSUME NEW q \in Runs, NEW run, runs' = [runs EXCEPT ![q] = run], Exists(q),
             run.state = runs[q].state, run.attempt = runs[q].attempt,
             run.expires = runs[q].expires
      PROVE  Came(r)
  <2>1. CASE q = r
    <3>1. runs'[r] = run
        BY <1>0, <1>1, <2>1
    <3> QED
        BY <1>1, <2>1, <3>1 DEF Came, ColdResumed, Exists
  <2>2. CASE q # r
      BY <1>0, <1>1, <2>2, CameUnwritten
  <2> QED
      BY <2>1, <2>2
<1>2. ASSUME NEW q \in Runs, NEW ttl \in Ttls, NEW ceiling \in Ceilings, Admit(q, ttl, ceiling)
      PROVE  Came(r)
  <2>1. runs' = [runs EXCEPT ![q] = AdmittedRun(ttl, ceiling)]
      BY <1>2 DEF Admit, WriteOnly, Write
  <2>2. AdmittedRun(ttl, ceiling).state # "active"
      BY DEF AdmittedRun
  <2> QED
      BY <1>a, <2>1, <2>2
<1>3. ASSUME NEW q \in Runs, NEW m \in Mutations, NEW units \in 1..MaxUnits, NEW now \in Captured,
             ReserveGeneratedWork(q, m, units, now)
      PROVE  Came(r)
  <2>1. Exists(q) /\ runs[q] \in RunType
      BY <1>0, <1>3 DEF ReserveGeneratedWork
  <2>2. CASE runs' = [runs EXCEPT ![q] = Reserved(runs[q], m, units)]
    <3>1. /\ Reserved(runs[q], m, units).state = runs[q].state
          /\ Reserved(runs[q], m, units).attempt = runs[q].attempt
          /\ Reserved(runs[q], m, units).expires = runs[q].expires
        BY <2>1 DEF Reserved, RunType
    <3> QED
        BY <1>1, <2>1, <2>2, <3>1
  <2>3. CASE runs' = [runs EXCEPT ![q] = Exhausted(runs[q], m, now)]
    <3>1. Exhausted(runs[q], m, now).state # "active"
        BY <2>1 DEF Exhausted, RunType
    <3> QED
        BY <1>a, <2>3, <3>1
  <2> QED
      BY <1>3, <2>2, <2>3 DEF ReserveGeneratedWork, WriteOnly, Write
<1>4. ASSUME NEW q \in Runs, NEW m \in Mutations, NEW issue \in Issues,
             ConfirmGeneratedWork(q, m, issue)
      PROVE  Came(r)
  <2>1. Exists(q) /\ runs[q] \in RunType /\ runs' = [runs EXCEPT ![q] = Confirmed(runs[q], m, issue)]
      BY <1>0, <1>4 DEF ConfirmGeneratedWork, WriteOnly, Write
  <2>2. /\ Confirmed(runs[q], m, issue).state = runs[q].state
        /\ Confirmed(runs[q], m, issue).attempt = runs[q].attempt
        /\ Confirmed(runs[q], m, issue).expires = runs[q].expires
      BY <2>1 DEF Confirmed, RunType
  <2> QED
      BY <1>1, <2>1, <2>2
<1>5. ASSUME NEW q \in Runs, NEW m \in Mutations, ReleaseGeneratedWork(q, m)
      PROVE  Came(r)
  <2>1. Exists(q) /\ runs[q] \in RunType /\ runs' = [runs EXCEPT ![q] = Released(runs[q], m)]
      BY <1>0, <1>5 DEF ReleaseGeneratedWork, WriteOnly, Write
  <2>2. /\ Released(runs[q], m).state = runs[q].state
        /\ Released(runs[q], m).attempt = runs[q].attempt
        /\ Released(runs[q], m).expires = runs[q].expires
      BY <2>1 DEF Released, RunType
  <2> QED
      BY <1>1, <2>1, <2>2
<1>6. ASSUME NEW q \in Runs, NEW ceiling \in Ceilings, NEW expected \in U64,
             RaiseGeneratedWorkCeiling(q, expected, ceiling)
      PROVE  Came(r)
  <2>1. Exists(q) /\ runs[q] \in RunType /\ runs' = [runs EXCEPT ![q] = Raised(runs[q], ceiling)]
      BY <1>0, <1>6 DEF RaiseGeneratedWorkCeiling, WriteOnly, Write
  <2>2. /\ Raised(runs[q], ceiling).state = runs[q].state
        /\ Raised(runs[q], ceiling).attempt = runs[q].attempt
        /\ Raised(runs[q], ceiling).expires = runs[q].expires
      BY <2>1 DEF Raised, RunType
  <2> QED
      BY <1>1, <2>1, <2>2
<1>7. ASSUME NEW q \in Runs, Reaper(q) PROVE Came(r)
  <2>1. CASE ReapJournal(q)
    <3>1. CASE Exists(q)
      <4>1. PICK i : runs' = [runs EXCEPT ![q] = Journaled(runs[q], i)]
          BY <2>1 DEF ReapJournal
      <4>2. /\ Journaled(runs[q], i).state = runs[q].state
            /\ Journaled(runs[q], i).attempt = runs[q].attempt
            /\ Journaled(runs[q], i).expires = runs[q].expires
          BY <1>0, <3>1 DEF Journaled, RunType
      <4> QED
          BY <1>1, <3>1, <4>1, <4>2
    <3>2. Exists(q)
        BY <2>1 DEF ReapJournal, EditorInv, Inv, Pass
    <3> QED
        BY <3>1, <3>2
  <2>2. CASE ReapDispose(q)
    <3>1. runs' = [runs EXCEPT ![q] = Disposed(runs[q])]
        BY <2>2 DEF ReapDispose
    <3>2. Exists(q)
      <4>1. reaper.current = q /\ q # None
          BY <2>2, StoreAssumption DEF ReapDispose, Visiting
      <4> QED
          BY <4>1 DEF EditorInv, Inv, Pass
    <3>3. Disposed(runs[q]).state # "active"
        BY <1>0, <3>2 DEF Disposed, RunType
    <3> QED
        BY <1>a, <3>1, <3>3
  <2>3. CASE UNCHANGED runs
      BY <2>3, CameUnwritten
  <2> QED
      BY <1>7, <2>1, <2>2, <2>3
         DEF Reaper, ReapSkip, ReapVisit, ReapRelease, ReapFail, ReapOverflow
<1>8. CASE UNCHANGED runs
    BY <1>8, CameUnwritten
<1> QED
    BY <1>2, <1>3, <1>4, <1>5, <1>6, <1>7, <1>8
       DEF Others, ReapBegin, ReapEnd, Crash, Tick, Claim

(***************************************************************************)
(* A finalize that works leaves the Session with the attempt that loaded   *)
(* it, which still waits unless its editor gave up.                        *)
(***************************************************************************)
LEMMA FinalizeSurvives ==
    ASSUME ResumeInv, SurvivesInv, NEW m \in wire, ServeFinalize(m), NEW r \in Runs
    PROVE  Survives(r)'
<1>0. /\ runs \in [Runs -> RunType \union {NoRun}] /\ resume \in [Editors -> Resumes]
      /\ m.run \in Runs /\ m.kind = "finalize" /\ UNCHANGED <<lost, hold, drawn>>
      /\ m.op # None /\ \A q \in Runs : Exists(q) => runs[q] \in RunType
    BY EditorsAssumption
       DEF ResumeInv, EditorInv, EditorsTypeOK, Requests, Inv, Records, ServeFinalize, Exists
<1>1. PICK pc \in {"idle", "ended"} : Answered(m, pc)
    BY DEF ServeFinalize
<1>2. ASSUME NEW e \in Editors, resume[e].pc = "ended" PROVE resume'[e] = resume[e]
  <2>1. resume[e].op # m.op
      BY <1>2 DEF ResumeInv, Waiting, Answerable, WaitsFor
  <2> QED
      BY <1>1, <2>1 DEF Answered
<1>3. CASE Came(r)
  <2> SUFFICES ASSUME Exists(r)', ColdResumed(r)', runs'[r].attempt.operation \notin lost'
               PROVE  \E e \in Editors :
                         /\ drawn'[runs'[r].attempt.operation] = e
                         /\ \/ Holds(e, r)'
                            \/ /\ resume'[e].op = runs'[r].attempt.operation
                               /\ resume'[e].run = r
                               /\ resume'[e].pc = "ended" /\ resume'[e].loaded # None
      BY DEF Survives, Exists, ColdResumed, Holds
  <2>1. Exists(r) /\ ColdResumed(r) /\ runs'[r].attempt = runs[r].attempt
      BY <1>3 DEF Came
  <2>2. PICK e \in Editors :
           /\ drawn[runs[r].attempt.operation] = e
           /\ \/ Holds(e, r)
              \/ /\ resume[e].op = runs[r].attempt.operation /\ resume[e].run = r
                 /\ resume[e].pc = "ended" /\ resume[e].loaded # None
      BY <1>0, <2>1 DEF SurvivesInv, Survives
  <2> QED
      BY <1>0, <1>2, <2>1, <2>2 DEF Holds
<1>4. CASE FinalizeResume(m.run, m.expected, m.op, m.succeeded) /\ Answered(m, "ended")
  <2>1. /\ runs[m.run] \in RunType /\ Exists(m.run) /\ runs[m.run].attempt # None
        /\ runs[m.run].attempt.operation = m.op
        /\ runs' = [runs EXCEPT ![m.run] = ResumeFinalized(runs[m.run], m.succeeded)]
      BY <1>0, <1>4 DEF FinalizeResume, CanFinalizeResume, SameOperation, WriteOnly, Write
  <2>2. CASE r # m.run
      BY <1>0, <1>3, <2>1, <2>2, CameUnwritten
  <2>3. CASE r = m.run
    <3>1. runs'[r] = ResumeFinalized(runs[r], m.succeeded)
        BY <1>0, <2>1, <2>3
    <3>2. runs[r].attempt \in Attempts
        BY <2>1, <2>3 DEF RunType
    <3>3. runs'[r].attempt.operation = m.op
        BY <2>1, <2>3, <3>1, <3>2 DEF ResumeFinalized, RunType, Attempts
    <3>4. ColdResumed(r)' => m.succeeded
      <4>1. CASE ~m.succeeded
        <5>1. ResumeFinalized(runs[r], m.succeeded).state = "cold_parked"
            BY <2>1, <2>3, <4>1 DEF ResumeFinalized, RunType
        <5> QED
            BY <3>1, <5>1 DEF ColdResumed
      <4> QED
          BY <4>1
    <3> SUFFICES ASSUME ColdResumed(r)', m.op \notin lost
                 PROVE  \E e \in Editors :
                           /\ drawn[m.op] = e /\ resume'[e].op = m.op /\ resume'[e].run = r
                           /\ resume'[e].pc = "ended" /\ resume'[e].loaded # None
        BY <1>0, <3>3 DEF Survives, Exists, ColdResumed, Holds
    <3>5. PICK e \in Editors : resume[e].op = m.op /\ drawn[m.op] = e
        BY <1>0 DEF ResumeInv, Waiting, Awaited, Drawn
    <3>6. m.run = resume[e].run /\ m.succeeded = (resume[e].loaded # None)
        BY <1>0, <3>5 DEF ResumeInv, Waiting, Answerable, WaitsFor
    <3>7. resume'[e] = [resume[e] EXCEPT !.pc = "ended"]
        BY <1>4, <3>5 DEF Answered
    <3>8. resume'[e].op = m.op /\ resume'[e].run = r /\ resume'[e].pc = "ended"
          /\ resume'[e].loaded = resume[e].loaded
        BY <1>0, <2>3, <3>5, <3>6, <3>7 DEF Resumes
    <3> QED
        BY <3>4, <3>5, <3>6, <3>8
  <2> QED
      BY <2>2, <2>3
<1>5. CASE UNCHANGED vars
    BY <1>3, <1>5, CameUnwritten DEF vars
<1> QED
    BY <1>4, <1>5 DEF ServeFinalize

(***************************************************************************)
(* A begin makes a budget-parked Run active, but not without an expiry.    *)
(***************************************************************************)
LEMMA BeginCame ==
    ASSUME EditorInv, NEW m \in wire, ServeBegin(m), NEW r \in Runs
    PROVE  Came(r)
<1>0. /\ runs \in [Runs -> RunType \union {NoRun}] /\ m.run \in Runs /\ m.op \in Operations
      /\ \A q \in Runs : Exists(q) => runs[q] \in RunType /\ RunInv(runs[q])
    BY DEF EditorInv, EditorsTypeOK, Requests, Inv, Records, Exists
<1>1. CASE UNCHANGED vars
    BY <1>1, CameUnwritten DEF vars
<1>2. ASSUME NEW now \in Captured, BeginResume(m.run, m.expected, m.op, now) PROVE Came(r)
  <2>1. /\ runs[m.run] \in RunType /\ RunInv(runs[m.run])
        /\ runs[m.run].state \in Parked
        /\ runs' = [runs EXCEPT ![m.run] = ResumeBegun(runs[m.run], m.op, now, Lease)]
      BY <1>0, <1>2 DEF BeginResume, CanBeginResume, WriteOnly, Write
  <2>2. CASE r # m.run
      BY <1>0, <2>1, <2>2, CameUnwritten
  <2>3. CASE r = m.run
    <3>1. runs'[r] = ResumeBegun(runs[r], m.op, now, Lease)
        BY <1>0, <2>1, <2>3
    <3>2. ~ColdResumed(r)'
      <4>1. CASE runs[r].state = "cold_parked"
        <5>1. ResumeBegun(runs[r], m.op, now, Lease).state = "resuming"
            BY <2>1, <2>3, <4>1 DEF ResumeBegun, RunType
        <5> QED
            BY <3>1, <5>1 DEF ColdResumed
      <4>2. CASE runs[r].state = "parked"
        <5>1. ResumeBegun(runs[r], m.op, now, Lease).expires = runs[r].expires
            BY <2>1, <2>3, <4>2 DEF ResumeBegun, RunType
        <5>2. runs[r].expires > 0
            BY <2>1, <2>3, <4>2 DEF RunInv, Lifecycle, Parked
        <5> QED
            BY <3>1, <5>1, <5>2 DEF ColdResumed
      <4> QED
          BY <2>1, <2>3, <4>1, <4>2 DEF Parked
    <3> QED
        BY <3>2 DEF Came
  <2> QED
      BY <2>2, <2>3
<1> QED
    BY <1>1, <1>2 DEF ServeBegin

(***************************************************************************)
(* An operation id belongs to one editor for good.                         *)
(***************************************************************************)
LEMMA DrawnKept ==
    ASSUME EditorInv, [EditorNext]_evars, NEW op \in Operations, drawn[op] # None
    PROVE  drawn'[op] = drawn[op]
<1>1. ASSUME NEW e \in Editors, NEW r \in Runs, NEW o \in Operations, AskResume(e, r, o)
      PROVE  drawn'[op] = drawn[op]
  <2>1. drawn[o] = None /\ drawn' = [drawn EXCEPT ![o] = e]
      BY <1>1 DEF AskResume
  <2> QED
      BY <2>1 DEF EditorInv, EditorsTypeOK
<1>2. drawn' = drawn \/ \E e \in Editors, r \in Runs, o \in Operations : AskResume(e, r, o)
    BY ControllerStep DEF ReadBegun, ReadEnded, GiveUp, Quit, Load, ServeBegin, ServeFinalize
<1> QED
    BY <1>1, <1>2

LEMMA SurvivesKept ==
    ASSUME ResumeInv, SurvivesInv, [EditorNext]_evars
    PROVE  SurvivesInv'
<1> SUFFICES ASSUME NEW r \in Runs PROVE Survives(r)'
    BY DEF SurvivesInv
<1>0. /\ EditorInv /\ EditorsTypeOK
      /\ runs \in [Runs -> RunType \union {NoRun}]
      /\ hold \in [Editors -> [Runs -> {"none", "active", "parked"}]]
      /\ resume \in [Editors -> Resumes]
      /\ \A e \in Editors : Attempting(resume[e])
    BY DEF ResumeInv, EditorInv, EditorsTypeOK, Inv, Records
<1>1. ASSUME Came(r), lost \subseteq lost',
             \A e \in Editors : Holds(e, r) =>
                Holds(e, r)' \/ {op \in Operations : drawn[op] = e} \subseteq lost',
             \A e \in Editors :
                resume[e].pc = "ended" /\ resume[e].loaded # None /\ resume[e].run = r =>
                    resume'[e] = resume[e] \/ resume[e].op \in lost' \/ Holds(e, r)'
      PROVE  Survives(r)'
  <2> SUFFICES ASSUME Exists(r)', ColdResumed(r)', runs'[r].attempt.operation \notin lost'
               PROVE  \E e \in Editors :
                         /\ drawn'[runs'[r].attempt.operation] = e
                         /\ \/ Holds(e, r)'
                            \/ /\ resume'[e].op = runs'[r].attempt.operation
                               /\ resume'[e].run = r
                               /\ resume'[e].pc = "ended" /\ resume'[e].loaded # None
      BY DEF Survives, Exists, ColdResumed, Holds
  <2>1. Exists(r) /\ ColdResumed(r) /\ runs'[r].attempt = runs[r].attempt
      BY <1>1 DEF Came
  <2>2. PICK e \in Editors :
           /\ drawn[runs[r].attempt.operation] = e
           /\ \/ Holds(e, r)
              \/ /\ resume[e].op = runs[r].attempt.operation /\ resume[e].run = r
                 /\ resume[e].pc = "ended" /\ resume[e].loaded # None
      BY <1>1, <2>1 DEF SurvivesInv, Survives
  <2>a. runs[r].attempt.operation \in Operations
      BY <1>0, <2>1 DEF RunType, Attempts, Exists, ColdResumed
  <2>b. drawn'[runs'[r].attempt.operation] = e
      BY <1>0, <2>1, <2>2, <2>a, DrawnKept, EditorsAssumption
  <2>3. CASE Holds(e, r)
      BY <1>1, <2>1, <2>2, <2>3, <2>a, <2>b
  <2>4. CASE resume[e].op = runs[r].attempt.operation /\ resume[e].run = r
             /\ resume[e].pc = "ended" /\ resume[e].loaded # None
    <3>1. CASE resume'[e] = resume[e]
        BY <2>1, <2>4, <2>b, <3>1
    <3>2. CASE resume[e].op \in lost'
        BY <2>1, <2>4, <3>2
    <3>3. CASE Holds(e, r)'
        BY <2>b, <3>3
    <3> QED
        BY <1>1, <2>4, <3>1, <3>2, <3>3
  <2> QED
      BY <2>2, <2>3, <2>4
<1>2. ASSUME NEW e \in Editors, NEW q \in Runs, NEW s \in Sessions, AttachSession(e, q, s)
      PROVE  Survives(r)'
  <2>1. hold' = [hold EXCEPT ![e][q] = "active"] /\ UNCHANGED <<resume, lost>>
      BY <1>2 DEF AttachSession
  <2>2. CASE q = r
    <3>1. /\ runs[r] \in RunType /\ RunInv(runs[r]) /\ runs[r].state = "admitted"
          /\ runs' = [runs EXCEPT ![r] = Attached(runs[r], s)]
        BY <1>0, <1>2, <2>2
           DEF AttachSession, Attach, CanAttach, WriteOnly, Write, ResumeInv, EditorInv, Inv,
               Records, RunInv, Exists
    <3>2. runs[r].attempt = None /\ Attached(runs[r], s).attempt = runs[r].attempt
        BY <3>1 DEF RunInv, Lifecycle, Attached, RunType
    <3>3. runs'[r].attempt = None
        BY <1>0, <3>1, <3>2
    <3> QED
        BY <3>3 DEF Survives, ColdResumed
  <2>3. CASE q # r
    <3>1. runs'[r] = runs[r]
        BY <1>0, <1>2, <2>3 DEF AttachSession, Attach, WriteOnly, Write
    <3> QED
        BY <1>0, <1>1, <2>1, <3>1, CameUnwritten DEF Holds
  <2> QED
      BY <2>2, <2>3
<1>3. ASSUME NEW e \in Editors, ParkWrite(e) PROVE Survives(r)'
  <2>0. PICK claims : \E now \in Captured :
            /\ Exists(park[e].run)
            /\ runs' = [runs EXCEPT ![park[e].run] = ColdParked(runs[park[e].run], claims, now)]
      BY <1>3 DEF ParkWrite, ParkCold, Write
  <2>1. PICK now \in Captured :
            /\ Exists(park[e].run)
            /\ runs' = [runs EXCEPT ![park[e].run] = ColdParked(runs[park[e].run], claims, now)]
      BY <2>0
  <2>2. park[e].run \in Runs
      BY <1>0, <1>3 DEF ParkWrite, EditorInv, Parking
  <2>3. ColdParked(runs[park[e].run], claims, now).state = "cold_parked"
      BY <1>0, <2>1, <2>2 DEF ColdParked, RunType, Exists
  <2>4. Came(r)
    <3>1. CASE park[e].run = r
      <4>1. runs'[r].state = "cold_parked"
          BY <1>0, <2>1, <2>3, <3>1
      <4> QED
          BY <4>1 DEF Came, ColdResumed
    <3>2. CASE park[e].run # r
        BY <1>0, <2>1, <3>2, CameUnwritten
    <3> QED
        BY <3>1, <3>2
  <2> QED
      BY <1>1, <1>3, <2>4 DEF ParkWrite, Holds
<1>4. ASSUME NEW e \in Editors,
             \/ \E q \in Runs : AskPark(e, q) \/ Observe(e, q)
             \/ ParkDone(e) \/ ParkAlready(e) \/ ParkFail(e)
      PROVE  Survives(r)'
  <2>1. Came(r)
      BY <1>4, CameUnwritten
         DEF AskPark, ListClaims, Observe, ParkDone, ParkAlready, ParkFail, vars
  <2>2. UNCHANGED <<resume, lost>>
      BY <1>4 DEF AskPark, Observe, ParkDone, ParkAlready, ParkFail
  <2>3. ASSUME NEW x \in Editors, Holds(x, r) PROVE Holds(x, r)'
    <3>1. CASE hold' = hold
        BY <2>3, <3>1 DEF Holds
    <3>2. CASE ParkDone(e)
        BY <1>0, <2>3, <3>2 DEF Holds, ParkDone
    <3>3. CASE \E q \in Runs : Observe(e, q)
        BY <1>0, <2>3, <3>3 DEF Holds, Observe
    <3> QED
        BY <1>4, <3>1, <3>2, <3>3 DEF AskPark, ParkAlready, ParkFail
  <2> QED
      BY <1>1, <2>1, <2>2, <2>3
<1>5. ASSUME NEW e \in Editors,
             \/ \E q \in Runs, op \in Operations : AskResume(e, q, op)
             \/ \E loaded \in Sessions \union {None} : Load(e, loaded)
      PROVE  Survives(r)'
  <2>1. Came(r)
      BY <1>5, CameUnwritten DEF AskResume, Load, vars
  <2>2. UNCHANGED <<hold, lost>> /\ resume[e].pc \in {"idle", "loading"}
        /\ \A x \in Editors \ {e} : resume'[x] = resume[x]
      BY <1>0, <1>5 DEF AskResume, Load
  <2> QED
      BY <1>1, <2>1, <2>2 DEF Holds
<1>6. ASSUME NEW e \in Editors, ReadBegun(e) PROVE Survives(r)'
  <2>1. Came(r)
      BY <1>6, CameUnwritten DEF ReadBegun, vars
  <2>2. /\ lost' = lost /\ resume[e].pc = "begun"
        /\ \A x \in Editors \ {e} : resume'[x] = resume[x]
        /\ hold' = hold \/ hold' = [hold EXCEPT ![e][resume[e].run] = "active"]
      BY <1>0, <1>6 DEF ReadBegun
  <2>3. resume[e].run \in Runs
      BY <1>0, <2>2 DEF Attempting
  <2>4. \A x \in Editors : Holds(x, r) => Holds(x, r)'
      BY <1>0, <2>2, <2>3 DEF Holds
  <2> QED
      BY <1>1, <2>1, <2>2, <2>4
<1>7. ASSUME NEW e \in Editors, ReadEnded(e) PROVE Survives(r)'
  <2>1. Came(r)
      BY <1>7, CameUnwritten DEF ReadEnded, vars
  <2>2. /\ lost' = lost /\ resume[e].pc = "ended"
        /\ \A x \in Editors \ {e} : resume'[x] = resume[x]
        /\ hold' = IF resume[e].loaded # None
                   THEN [hold EXCEPT ![e][resume[e].run] = "active"] ELSE hold
      BY <1>0, <1>7 DEF ReadEnded
  <2>3. resume[e].run \in Runs
      BY <1>0, <2>2 DEF Attempting
  <2>4. \A x \in Editors : Holds(x, r) => Holds(x, r)'
      BY <1>0, <2>2, <2>3 DEF Holds
  <2>5. resume[e].loaded # None /\ resume[e].run = r => Holds(e, r)'
      BY <1>0, <2>2, <2>3 DEF Holds
  <2> QED
      BY <1>1, <2>1, <2>2, <2>4, <2>5
<1>8. ASSUME NEW e \in Editors, GiveUp(e) PROVE Survives(r)'
  <2>1. Came(r)
      BY <1>8, CameUnwritten DEF GiveUp, vars
  <2>2. /\ lost' = lost \union {resume[e].op} /\ hold' = hold
        /\ \A x \in Editors \ {e} : resume'[x] = resume[x]
      BY <1>0, <1>8 DEF GiveUp
  <2> QED
      BY <1>1, <2>1, <2>2 DEF Holds
<1>9. ASSUME NEW e \in Editors, Quit(e) PROVE Survives(r)'
  <2>1. Came(r)
      BY <1>9, CameUnwritten DEF Quit, vars
  <2>2. /\ lost' = lost \union {op \in Operations : drawn[op] = e}
        /\ \A x \in Editors \ {e} : resume'[x] = resume[x] /\ hold'[x] = hold[x]
      BY <1>0, <1>9 DEF Quit
  <2>3. {op \in Operations : drawn[op] = e} \subseteq lost'
      BY <2>2
  <2>4. resume[e].pc = "ended" => resume[e].op \in lost'
      BY <1>0, <2>2, EditorsAssumption DEF Attempting, ResumeInv, Waiting, Drawn
  <2>5. \A x \in Editors \ {e} : Holds(x, r) => Holds(x, r)'
      BY <2>2 DEF Holds
  <2>6. lost \subseteq lost'
      BY <2>2
  <2> QED
      BY <1>1, <2>1, <2>2, <2>3, <2>4, <2>5, <2>6
<1>10. ASSUME NEW m \in wire, ServeBegin(m) PROVE Survives(r)'
  <2>1. Came(r)
      BY <1>0, <1>10, BeginCame
  <2>2. PICK pc \in {"idle", "begun"} : Answered(m, pc)
      BY <1>10 DEF ServeBegin
  <2>3. UNCHANGED <<hold, lost>>
      BY <1>10 DEF ServeBegin
  <2>4. ASSUME NEW e \in Editors, resume[e].pc = "ended" PROVE resume'[e] = resume[e]
    <3>1. resume[e].op # m.op
        BY <2>4 DEF ResumeInv, Waiting, Answerable, WaitsFor
    <3> QED
        BY <2>2, <3>1 DEF Answered
  <2> QED
      BY <1>1, <2>1, <2>3, <2>4 DEF Holds
<1>11. ASSUME NEW m \in wire, ServeFinalize(m) PROVE Survives(r)'
    BY <1>11, FinalizeSurvives
<1>12. CASE Others
    BY <1>0, <1>1, <1>12, OthersCame DEF Others, editors, Holds
<1>13. CASE UNCHANGED evars
    BY <1>1, <1>13, CameUnwritten DEF evars, vars, editors, Holds
<1>14. ASSUME NEW e \in Editors, Editor(e) PROVE Survives(r)'
    BY <1>2, <1>3, <1>4, <1>5, <1>6, <1>7, <1>8, <1>9, <1>14 DEF Editor
<1> QED
    BY <1>10, <1>11, <1>12, <1>13, <1>14 DEF EditorNext

(***************************************************************************)
(* A Run made active by a cold resume keeps its Session: the editor whose  *)
(* operation the record names owns the recorded Session, or its attempt    *)
(* that loaded that Session is about to, whatever other editors resume and *)
(* whatever they loaded, unless that editor quit or lost the answer        *)
(* (resume_controller.lua: Controller:resume, finalize; runs.rs:           *)
(* finalize_resume, attach).                                               *)
(***************************************************************************)
THEOREM SessionKeptOnResume == EditorSpec => []SessionSurvivesResume
<1>1. EditorInit => ResumeInv /\ OwnedInv /\ SurvivesInv
  <2>1. EditorInit => \A r \in Runs : ~Exists(r)
      BY DEF EditorInit, Init, Exists
  <2> QED
      BY <2>1, ResumeInitInv, OwnedInit DEF SurvivesInv, Survives
<1>2. ResumeInv /\ OwnedInv /\ SurvivesInv /\ [EditorNext]_evars
          => ResumeInv' /\ OwnedInv' /\ SurvivesInv'
    BY ResumeNextInv, OwnedKept, SurvivesKept DEF ResumeInv
<1>3. OwnedInv /\ SurvivesInv => SessionSurvivesResume
  <2> SUFFICES ASSUME OwnedInv, SurvivesInv, NEW r \in Runs, Exists(r), ColdResumed(r),
                      runs[r].attempt.operation \notin lost
               PROVE  LET op == runs[r].attempt.operation
                          e  == drawn[op]
                      IN  /\ e \in Editors
                          /\ \/ Holds(e, r) /\ worker[e][r] = runs[r].session
                             \/ /\ resume[e].op = op /\ resume[e].pc = "ended"
                                /\ resume[e].loaded = runs[r].session
      BY DEF SessionSurvivesResume
  <2>1. PICK e \in Editors :
           /\ drawn[runs[r].attempt.operation] = e
           /\ \/ Holds(e, r)
              \/ /\ resume[e].op = runs[r].attempt.operation /\ resume[e].run = r
                 /\ resume[e].pc = "ended" /\ resume[e].loaded # None
      BY DEF SurvivesInv, Survives
  <2>2. Holds(e, r) => worker[e][r] = runs[r].session
      BY DEF OwnedInv, OwnedWorker
  <2>3. resume[e].run = r /\ resume[e].loaded # None => resume[e].loaded = runs[r].session
      BY DEF OwnedInv, OwnedAttempt
  <2> QED
      BY <2>1, <2>2, <2>3
<1> QED
    BY <1>1, <1>2, <1>3, PTL DEF EditorSpec
=============================================================================
