------------------------------ MODULE RunEditors ------------------------------
(***************************************************************************)
(* Editors over the store of durable Runs: the Run socket of the daemon    *)
(* (capture-service/src/run_socket.rs) and, in each Neovim, the local Run, *)
(* its ParkObserver, its RunClient and its ResumeController                *)
(* (lua/louiselm/workflow/{run,park_observer,run_client,resume_controller, *)
(* recovery}.lua).  A Park and a resume take several messages, several     *)
(* editors may ask for them at once, requests outlive lost connections,    *)
(* and the reaper and the Agents' generated work go on in between.         *)
(***************************************************************************)
EXTENDS RunStore

CONSTANTS
    Editors,    \* Neovim instances
    MaxBreaks   \* bound: lost connections, killed commands, editors that quit

ASSUME EditorsAssumption == MaxBreaks \in Nat /\ None \notin Operations \union Editors

VARIABLES
    hold,     \* editor -> Run -> its local Run: "none", "active" or "parked"
    worker,   \* editor -> Run -> the Session that its local Run owns, or None
    park,     \* editor -> the Park being made: where it is, and of which Run
    resume,   \* editor -> the attempt of its ResumeController
    wire,     \* requests written to the Run socket and not yet handled
    drawn,    \* operation id -> the editor that drew it, or None: ids never repeat
    lost,     \* history: operations whose editor gave up waiting, or quit
    breaks    \* breaks so far

editors == <<hold, worker, park, resume, wire, drawn, lost, breaks>>
evars == <<vars, editors>>

NoPark == [pc |-> "idle", run |-> None]
NoResume == [pc |-> "idle", run |-> None, op |-> None, seen |-> NoRun, loaded |-> None]

Requests == [ run : Runs, op : Operations, expected : U64, kind : {"begin", "finalize"},
              succeeded : BOOLEAN ]

Resumes == [ pc : {"idle", "asked", "begun", "loading", "finalizing", "ended"},
             run : Runs \union {None}, op : Operations \union {None},
             seen : RunType \union {NoRun}, loaded : Sessions \union {None} ]

EditorInit ==
    /\ Init
    /\ hold = [e \in Editors |-> [r \in Runs |-> "none"]]
    /\ worker = [e \in Editors |-> [r \in Runs |-> None]]
    /\ park = [e \in Editors |-> NoPark]
    /\ resume = [e \in Editors |-> NoResume]
    /\ drawn = [op \in Operations |-> None]
    /\ wire = {} /\ lost = {} /\ breaks = 0

Holds(e, r) == hold[e][r] # "none"
Break == breaks < MaxBreaks /\ breaks' = breaks + 1

-----------------------------------------------------------------------------
(* Attaching and Parking.                                                  *)

\* recovery.park of a Session without a Run: attach, then adopt it locally.
AttachSession(e, r, s) ==
    /\ ~Holds(e, r)
    /\ Attach(r, s)
    /\ hold' = [hold EXCEPT ![e][r] = "active"]
    /\ worker' = [worker EXCEPT ![e][r] = s]
    /\ UNCHANGED <<park, resume, wire, drawn, lost, breaks>>

\* recovery.park lists the Session's claims, whatever the Run's state.
AskPark(e, r) ==
    /\ park[e].pc = "idle" /\ Holds(e, r)
    /\ park' = [park EXCEPT ![e] = [pc |-> "listed", run |-> r]]
    /\ \/ \E s \in Sessions : runs[r].session = s /\ ListClaims(s)
       \/ UNCHANGED vars
    /\ UNCHANGED <<hold, worker, resume, wire, drawn, lost, breaks>>

\* Mutant: the Park is written with claims nobody listed.
ParkWriteUnlisted(e) ==
    /\ park[e].pc = "listed" /\ hold[e][park[e].run] = "active"
    /\ ParkCold(park[e].run, runs[park[e].run].session, <<>>, clock)
    /\ park' = [park EXCEPT ![e].pc = "written"]
    /\ UNCHANGED <<hold, worker, resume, wire, drawn, lost, breaks>>

\* Run:park_cold of a local Run that is not Parked: `run park' writes the record.
ParkWrite(e) ==
    /\ park[e].pc = "listed" /\ hold[e][park[e].run] = "active"
    /\ \E s \in Sessions, now \in Captured :
          \E held \in listed[s] : \E claims \in Orders(held) :
              ParkCold(park[e].run, s, claims, now)
    /\ park' = [park EXCEPT ![e].pc = "written"]
    /\ UNCHANGED <<hold, worker, resume, wire, drawn, lost, breaks>>

\* The command answers: transition_parked.
ParkDone(e) ==
    /\ park[e].pc = "written"
    /\ hold' = [hold EXCEPT ![e][park[e].run] = "parked"]
    /\ park' = [park EXCEPT ![e] = NoPark]
    /\ UNCHANGED <<vars, worker, resume, wire, drawn, lost, breaks>>

\* Run:park of a local Run that is Parked already answers at once.
ParkAlready(e) ==
    /\ park[e].pc = "listed" /\ hold[e][park[e].run] = "parked"
    /\ park' = [park EXCEPT ![e] = NoPark]
    /\ UNCHANGED <<vars, hold, worker, resume, wire, drawn, lost, breaks>>

\* The listing or the command fails, the latter perhaps after its write.
ParkFail(e) ==
    /\ \/ park[e].pc = "listed" /\ UNCHANGED breaks
       \/ park[e].pc = "written" /\ Break
    /\ park' = [park EXCEPT ![e] = NoPark]
    /\ UNCHANGED <<vars, hold, worker, resume, wire, drawn, lost>>

\* ParkObserver: a snapshot with a Parked Run Parks the local Run, any time after.
Observe(e, r) ==
    /\ hold[e][r] = "active" /\ runs[r].state \in Parked
    /\ hold' = [hold EXCEPT ![e][r] = "parked"]
    /\ UNCHANGED <<vars, worker, park, resume, wire, drawn, lost, breaks>>

-----------------------------------------------------------------------------
(* Resuming: the ResumeController and, over the socket, handle_mutation.   *)

\* Recovery:resume sends the revision of the editor's newest snapshot, however old.
AskResume(e, r, op) ==
    /\ resume[e].pc = "idle" /\ drawn[op] = None
    /\ Exists(r) /\ runs[r].state \in Parked
    /\ resume' = [resume EXCEPT ![e] =
                     [pc |-> "asked", run |-> r, op |-> op, seen |-> runs[r], loaded |-> None]]
    /\ wire' = wire \union {[run |-> r, op |-> op, expected |-> runs[r].revision,
                             kind |-> "begin", succeeded |-> FALSE]}
    /\ drawn' = [drawn EXCEPT ![op] = e]
    /\ UNCHANGED <<vars, hold, worker, park, lost, breaks>>

\* The answer to a request reaches the attempt that waits for it, if one does.
Answered(m, pc) ==
    resume' = [e \in Editors |->
                  IF resume[e].op # m.op THEN resume[e]
                  ELSE IF pc = "idle" THEN NoResume ELSE [resume[e] EXCEPT !.pc = pc]]

ServeBegin(m) ==
    /\ m.kind = "begin" /\ Unlocked
    /\ \E now \in Captured :
          \/ BeginResume(m.run, m.expected, m.op, now) /\ Answered(m, "begun")
          \/ /\ ~CanBeginResume(runs[m.run], m.expected, m.op, now, Lease)
             /\ UNCHANGED vars /\ Answered(m, "idle")
    /\ wire' = wire \ {m}
    /\ UNCHANGED <<hold, worker, park, drawn, lost, breaks>>

\* The view sent back is read after the lock is dropped.
ReadBegun(e) ==
    /\ resume[e].pc = "begun"
    /\ LET r == resume[e].run
       IN  /\ resume' = [resume EXCEPT ![e] =
                            IF runs[r].state = "resuming"
                            THEN [@ EXCEPT !.pc = "loading", !.seen = runs[r]] ELSE NoResume]
           /\ hold' = IF runs[r].state = "active" /\ Holds(e, r)
                      THEN [hold EXCEPT ![e][r] = "active"] ELSE hold
    /\ UNCHANGED <<vars, worker, park, wire, drawn, lost, breaks>>

\* The Session to reopen: the retained one of a Parked local Run, or the recorded one.
Reconstructed(e) ==
    {resume[e].seen.session} \union
        (IF hold[e][resume[e].run] = "parked" THEN {worker[e][resume[e].run]} ELSE {})

\* Mutant: a failed load is finalized like a successful one.
LoadAnyhow(e, loaded) ==
    /\ resume[e].pc = "loading" /\ loaded \in Reconstructed(e) \union {None}
    /\ resume' = [resume EXCEPT ![e] = [@ EXCEPT !.pc = "finalizing", !.loaded = loaded]]
    /\ wire' = wire \union {[run |-> resume[e].run, op |-> resume[e].op,
                             expected |-> resume[e].seen.revision,
                             kind |-> "finalize", succeeded |-> TRUE]}
    /\ UNCHANGED <<vars, hold, worker, park, drawn, lost, breaks>>

\* A retained Session is ready or not; ACP session/load works or does not.
Load(e, loaded) ==
    /\ resume[e].pc = "loading" /\ loaded \in Reconstructed(e) \union {None}
    /\ resume' = [resume EXCEPT ![e] = [@ EXCEPT !.pc = "finalizing", !.loaded = loaded]]
    /\ wire' = wire \union {[run |-> resume[e].run, op |-> resume[e].op,
                             expected |-> resume[e].seen.revision,
                             kind |-> "finalize", succeeded |-> loaded # None]}
    /\ UNCHANGED <<vars, hold, worker, park, drawn, lost, breaks>>

ServeFinalize(m) ==
    /\ m.kind = "finalize" /\ Unlocked
    /\ \/ FinalizeResume(m.run, m.expected, m.op, m.succeeded) /\ Answered(m, "ended")
       \/ /\ ~CanFinalizeResume(runs[m.run], m.expected, m.op)
          /\ UNCHANGED vars /\ Answered(m, "idle")
    /\ wire' = wire \ {m}
    /\ UNCHANGED <<hold, worker, park, drawn, lost, breaks>>

\* A loaded Session is kept; the state of the view that comes back is not read.
ReadEnded(e) ==
    /\ resume[e].pc = "ended"
    /\ LET r == resume[e].run
       IN  IF resume[e].loaded # None
           THEN /\ hold' = [hold EXCEPT ![e][r] = "active"]
                /\ worker' = [worker EXCEPT ![e][r] = resume[e].loaded]
           ELSE UNCHANGED <<hold, worker>>
    /\ resume' = [resume EXCEPT ![e] = NoResume]
    /\ UNCHANGED <<vars, park, wire, drawn, lost, breaks>>

\* The connection or the controller goes: pending callbacks fail and a loaded
\* Session is disposed.  A request already written may be handled all the same.
GiveUp(e) ==
    /\ resume[e].pc # "idle" /\ Break
    /\ resume' = [resume EXCEPT ![e] = NoResume]
    /\ lost' = lost \union {resume[e].op}
    /\ wire' \in {wire, {m \in wire : m.op # resume[e].op}}
    /\ UNCHANGED <<vars, hold, worker, park, drawn>>

\* Neovim quits: its Sessions end with it, those it resumed among them.
Quit(e) ==
    /\ Break
    /\ hold' = [hold EXCEPT ![e] = [r \in Runs |-> "none"]]
    /\ worker' = [worker EXCEPT ![e] = [r \in Runs |-> None]]
    /\ park' = [park EXCEPT ![e] = NoPark]
    /\ resume' = [resume EXCEPT ![e] = NoResume]
    /\ lost' = lost \union {op \in Operations : drawn[op] = e}
    /\ UNCHANGED <<vars, wire, drawn>>

Editor(e) ==
    \/ \E r \in Runs, s \in Sessions : AttachSession(e, r, s)
    \/ \E r \in Runs : AskPark(e, r) \/ Observe(e, r)
    \/ ParkWrite(e) \/ ParkDone(e) \/ ParkAlready(e) \/ ParkFail(e)
    \/ \E r \in Runs, op \in Operations : AskResume(e, r, op)
    \/ ReadBegun(e) \/ ReadEnded(e) \/ GiveUp(e) \/ Quit(e)
    \/ \E loaded \in Sessions \union {None} : Load(e, loaded)

\* What Agents, command-line calls, the operator's raise and the daemon do.
Others ==
    /\ \/ \E r \in Runs, ttl \in Ttls, ceiling \in Ceilings : Admit(r, ttl, ceiling)
       \/ \E r \in Runs, m \in Mutations, units \in 1..MaxUnits, now \in Captured :
             ReserveGeneratedWork(r, m, units, now)
       \/ \E r \in Runs, m \in Mutations, issue \in Issues : ConfirmGeneratedWork(r, m, issue)
       \/ \E r \in Runs, m \in Mutations : ReleaseGeneratedWork(r, m)
       \/ \E r \in Runs, ceiling \in Ceilings, expected \in U64 :
             RaiseGeneratedWorkCeiling(r, expected, ceiling)
       \/ \E r \in Runs : Reaper(r)
       \/ \E now \in Captured : ReapBegin(now)
       \/ ReapEnd \/ Crash \/ Tick
       \/ \E a \in Actors, issue \in Issues : Claim(a, issue)
    /\ UNCHANGED editors

EditorNext ==
    \/ \E e \in Editors : Editor(e)
    \/ \E m \in wire : ServeBegin(m) \/ ServeFinalize(m)
    \/ Others

EditorSpec == EditorInit /\ [][EditorNext]_evars

-----------------------------------------------------------------------------
(* Properties.                                                             *)

\* Editors, attempts and requests keep their shape (resume_controller.lua, run_client.lua).
EditorsTypeOK ==
    /\ hold \in [Editors -> [Runs -> {"none", "active", "parked"}]]
    /\ worker \in [Editors -> [Runs -> Sessions \union {None}]]
    /\ park \in [Editors -> [pc : {"idle", "listed", "written"}, run : Runs \union {None}]]
    /\ resume \in [Editors -> Resumes]
    /\ wire \subseteq Requests
    /\ drawn \in [Operations -> Editors \union {None}] /\ lost \subseteq Operations
    /\ breaks \in 0..MaxBreaks

\* Editors, however many and however their messages are lost, make the store do
\* only what RunStore allows, so all it guarantees holds with them; above all, the
\* claims a Park writes were listed for its Session (recovery.lua: Recovery:park;
\* run_socket.rs: handle_mutation).
ImplementsStore == Spec

\* Disposal is final: no late request of any editor revives a disposed Run,
\* although finalize_resume does not look at the state (runs.rs: finalize_resume,
\* reap_expired; resume_controller.lua: "late reconstruction results cannot revive a Run").
DisposedIsFinal ==
    [][\A r \in Runs :
          Exists(r) /\ runs[r].state = "disposed" => runs'[r].state = "disposed"]_evars

\* Only a successful finalize leaves an active Run without any expiry.
ColdResumed(r) ==
    runs[r].state = "active" /\ runs[r].attempt # None /\ runs[r].expires = 0

\* A Run made active by a cold resume has its own Session open in the editor
\* whose operation the record names, or in that editor's attempt whose answer is
\* on its way, whatever other editors resume, load or Park meanwhile; unless that
\* editor quit or lost the answer (resume_controller.lua: Controller:resume, finalize).
SessionSurvivesResume ==
    \A r \in Runs :
        Exists(r) /\ ColdResumed(r) /\ runs[r].attempt.operation \notin lost =>
            LET op == runs[r].attempt.operation
                e  == drawn[op]
            IN  /\ e \in Editors
                /\ \/ Holds(e, r) /\ worker[e][r] = runs[r].session
                   \/ /\ resume[e].op = op /\ resume[e].pc = "ended"
                      /\ resume[e].loaded = runs[r].session

\* A resume begins on exactly the record of the snapshot its revision was taken
\* from: no raise, reservation, confirmation, release or other operator came in
\* between (runs.rs: require_revision; recovery.lua: resume_revisions).
ResumesWhatWasObserved ==
    [][\A e \in Editors :
          resume[e].pc = "asked" /\ resume'[e].pc = "begun" =>
              runs[resume[e].run] = resume[e].seen]_evars
=============================================================================
