------------------------ MODULE ClearanceRecordProofs ------------------------
(***************************************************************************)
(* The safety of ClearanceRecord and of the AnalysisRun it extends, for    *)
(* every set of cases, requests, runs, workers and operations and every    *)
(* bound.                                                                  *)
(*                                                                         *)
(* Saves write whole documents, so the inductive invariant speaks of every *)
(* copy of the document there is: the two of the repository (what it reads *)
(* and what it keeps), each run's and each handler's.  A stale copy can    *)
(* undo what happened since it was loaded, but whichever copy is saved     *)
(* last is in order by itself.                                             *)
(***************************************************************************)
EXTENDS ClearanceRecord, DispositionProofs

\* A copy of the document whose log and whose every case is in order.
SoundProject(p) ==
  /\ IsProject(p)
  /\ ExportedOnce(p)
  /\ \A c \in DOMAIN p.items : Sound(p.items[c])

SoundRun(x) ==
  /\ IsRun(x)
  /\ SoundProject(x.mem)

RunInv ==
  /\ SoundProject(store) /\ SoundProject(kept)
  /\ run = [r \in Runs |-> run[r]]
  /\ \A r \in Runs : SoundRun(run[r])
  /\ server \in {"down", "booting", "up"}
  /\ bounds \in [creates : Nat, crashes : Nat, faults : Nat]
  /\ lone \in BOOLEAN

SoundRequest(x) ==
  /\ x \in [pc : {"new", "loaded", "watching", "done"}, op : Op \cup {NoOp},
            mem : {x.mem}]
  /\ x.pc \in {"loaded", "watching"} => x.op \in Op
  /\ SoundProject(x.mem)

\* The inductive invariant.
IInv ==
  /\ RunInv
  /\ req = [q \in Requests |-> req[q]]
  /\ \A q \in Requests : SoundRequest(req[q])
  /\ monitored \subseteq Cases
  /\ sealed \subseteq Requests

-----------------------------------------------------------------------------
(***************************************************************************)
(* Documents                                                               *)
(***************************************************************************)

\* The fields of a document.
LEMMA ProjectFields ==
  ASSUME NEW p, IsProject(p)
  PROVE  /\ p.phase \in Phases
         /\ DOMAIN p.items \subseteq Cases
         /\ p.items \in [DOMAIN p.items -> Case]
         /\ p.revised \in BOOLEAN
         /\ p.archived \in BOOLEAN
         /\ p.log \in Seq(LogEntry)
  BY DEF IsProject

\* The absence of a document is in order.
LEMMA NoProjectSound == SoundProject(NoProject)
<1>1. NoProject.items \in [{} -> Case]
  BY DEF NoProject
<1>2. NoProject \in [phase : Phases, items : [{} -> Case], revised : BOOLEAN,
                     archived : BOOLEAN, log : Seq(LogEntry)]
  BY <1>1 DEF NoProject, Phases
<1>3. DOMAIN NoProject.items = {}
  BY <1>1
<1>4. ExportedOnce(NoProject)
  BY DEF NoProject, ExportedOnce
<1>5. QED
  BY <1>2, <1>3, <1>4 DEF SoundProject, IsProject

\* So is a document whose phase moved.
LEMMA PhaseSound ==
  ASSUME NEW p, SoundProject(p), NEW phase \in Phases
  PROVE  SoundProject([p EXCEPT !.phase = phase])
  BY DEF SoundProject, IsProject, ExportedOnce

\* So is a document that became ready with its first revision.
LEMMA ReadySound ==
  ASSUME NEW p, SoundProject(p)
  PROVE  SoundProject([p EXCEPT !.phase = "ready", !.revised = TRUE])
  BY DEF SoundProject, IsProject, ExportedOnce, Phases

\* So is a document in which one case was replaced by a sound one.
LEMMA CaseEditSound ==
  ASSUME NEW p, SoundProject(p), NEW c, NEW x,
         c \in DOMAIN p.items => Sound(x)
  PROVE  SoundProject([p EXCEPT !.items[c] = x])
<1> DEFINE items == [p.items EXCEPT ![c] = x]
<1>1. PICK S \in SUBSET Cases :
        p \in [phase : Phases, items : [S -> Case], revised : BOOLEAN,
               archived : BOOLEAN, log : Seq(LogEntry)]
  BY DEF SoundProject, IsProject, ExportedOnce
<1>2. DOMAIN p.items = S /\ p.items \in [S -> Case]
  BY <1>1
<1>3. items \in [S -> Case] /\ \A d \in S : Sound(items[d])
  BY <1>2 DEF SoundProject, Sound
<1>4. [p EXCEPT !.items[c] = x] = [p EXCEPT !.items = items]
  OBVIOUS
<1> HIDE DEF items
<1>5. SoundProject([p EXCEPT !.items = items])
  BY <1>1, <1>3 DEF SoundProject, IsProject, ExportedOnce
<1>6. QED
  BY <1>4, <1>5

\* So is a document whose cases were rebuilt by reconciliation.
LEMMA RebuiltSound ==
  ASSUME NEW p, SoundProject(p), NEW found \in SUBSET Cases
  PROVE  SoundProject([p EXCEPT !.items = [c \in found |-> NewCase]])
<1> DEFINE items == [c \in found |-> NewCase]
<1>1. items \in [found -> Case] /\ \A c \in found : Sound(items[c])
  BY NewCaseSound DEF Sound
<1> HIDE DEF items
<1>2. SoundProject([p EXCEPT !.items = items])
  BY <1>1 DEF SoundProject, IsProject, ExportedOnce
<1>3. QED
  BY <1>2 DEF items

-----------------------------------------------------------------------------
(***************************************************************************)
(* What a run does to its copy                                             *)
(***************************************************************************)

\* The statuses the pipeline sets are open to an agent.
LEMMA AgentSetsSound ==
  ASSUME NEW case, Sound(case),
         NEW status \in {"researching", "evidence_ready", "unresolved"}
  PROVE  Sound(AgentSets(case, status))
<1> DEFINE change == [by |-> Pipeline, actor |-> "agent", status |-> status,
                      rationale |-> TRUE, docs |-> {}]
<1>1. status \in Statuses /\ status \notin HumanOwned
      /\ status # "counsel_approved" /\ status # "documented_permission"
  BY DEF Statuses, HumanOwned
<1>2. "agent" \in Actors /\ "agent" \notin Humans
  BY DEF Actors, Machines, Humans
<1>3. change \in Change
  BY <1>1, <1>2 DEF Change
<1>4. change.actor = "agent" /\ change.status = status
  OBVIOUS
<1> HIDE DEF change
<1>5. ~Refused(case, change)
  BY <1>1, <1>2, <1>4 DEF Refused, CanActorSet
<1>6. Sound(ApplyDisposition(case, change))
  BY <1>3, <1>5, DispositionSound
<1>7. QED
  BY <1>6 DEF AgentSets, change

\* A run with another copy, program counter, work list or workers.
LEMMA RunPcSound ==
  ASSUME NEW x, SoundRun(x), NEW pc \in Labels
  PROVE  SoundRun([x EXCEPT !.pc = pc])
  BY DEF SoundRun, IsRun, SoundProject

\* A run that goes on with a sound copy is in order.
LEMMA RunMemSound ==
  ASSUME NEW x, SoundRun(x), NEW pc \in Labels, NEW mem, SoundProject(mem)
  PROVE  /\ SoundRun([x EXCEPT !.mem = mem, !.pc = pc])
         /\ [x EXCEPT !.mem = mem, !.pc = pc].mem = mem
  BY DEF SoundRun, IsRun, SoundProject

\* So is one whose work list changed.
LEMMA RunTodoSound ==
  ASSUME NEW x, SoundRun(x), NEW pc \in Labels, NEW todo \in SUBSET Cases
  PROVE  SoundRun([x EXCEPT !.pc = pc, !.todo = todo])
  BY DEF SoundRun, IsRun, SoundProject

\* So is one whose workers moved.
LEMMA RunWorkSound ==
  ASSUME NEW x, SoundRun(x), NEW work \in [Cases -> WorkStates]
  PROVE  SoundRun([x EXCEPT !.work = work])
  BY DEF SoundRun, IsRun, SoundProject

\* So is a free slot.
LEMMA IdleSound == SoundRun(Idle)
  BY NoProjectSound DEF SoundRun, IsRun, Idle, Labels, WorkStates, SoundProject

-----------------------------------------------------------------------------
\* A step of one run that leaves it, and what it saves, in order.
LEMMA RunStep ==
  ASSUME RunInv, NEW r \in Runs, NEW x, SoundRun(x),
         run' = [run EXCEPT ![r] = x], SoundProject(store'), SoundProject(kept'),
         server' \in {"down", "booting", "up"},
         bounds' \in [creates : Nat, crashes : Nat, faults : Nat],
         lone' \in BOOLEAN
  PROVE  RunInv'
  BY DEF RunInv

\* Whatever a rejected save left behind is in order if the save was.
LEMMA RejectedSound ==
  ASSUME SoundProject(store), SoundProject(kept), NEW p, SoundProject(p), Rejected(p)
  PROVE  SoundProject(store') /\ SoundProject(kept')
  BY NoProjectSound DEF Rejected, Answered

\* A fault is counted.
LEMMA FaultCounts ==
  ASSUME bounds \in [creates : Nat, crashes : Nat, faults : Nat], Fault
  PROVE  bounds' \in [creates : Nat, crashes : Nat, faults : Nat]
  BY DEF Fault

\* A save of a run that is in order, whether or not the repository takes it.
LEMMA SavesSound ==
  ASSUME RunInv, NEW r \in Runs, NEW mem, SoundProject(mem),
         NEW next, SoundRun(next), NEW thrown, SoundRun(thrown),
         Saves(r, mem, next, thrown)
  PROVE  RunInv'
<1>1. /\ SoundProject(store) /\ SoundProject(kept)
      /\ server \in {"down", "booting", "up"} /\ lone \in BOOLEAN
      /\ bounds \in [creates : Nat, crashes : Nat, faults : Nat]
  BY DEF RunInv
<1>2. server' = server /\ lone' = lone
  BY DEF Saves
<1>3. CASE Answered(mem) /\ run' = [run EXCEPT ![r] = next] /\ bounds' = bounds
  BY <1>1, <1>2, <1>3, RunStep DEF Answered
<1>4. CASE Fault /\ Rejected(mem) /\ run' = [run EXCEPT ![r] = thrown]
  BY <1>1, <1>2, <1>4, FaultCounts, RejectedSound, RunStep
<1>5. QED
  BY <1>3, <1>4 DEF Saves

\* A load of a run that is in order, whether or not the repository answers.
LEMMA LoadsSound ==
  ASSUME RunInv, NEW r \in Runs, NEW next, SoundRun(next), Loads(r, next),
         UNCHANGED <<store, kept>>, server' \in {"down", "booting", "up"},
         lone' \in BOOLEAN
  PROVE  RunInv'
<1>1. SoundRun([run[r] EXCEPT !.pc = "lost"])
  BY RunPcSound DEF RunInv, Labels
<1>2. bounds' \in [creates : Nat, crashes : Nat, faults : Nat]
  BY FaultCounts DEF Loads, RunInv
<1>3. CASE run' = [run EXCEPT ![r] = next]
  BY <1>2, <1>3, RunStep DEF RunInv
<1>4. CASE run' = [run EXCEPT ![r].pc = "lost"]
  <2>1. run' = [run EXCEPT ![r] = [run[r] EXCEPT !.pc = "lost"]]
    BY <1>4
  <2>2. QED
    BY <1>1, <1>2, <2>1, RunStep DEF RunInv
<1>5. QED
  BY <1>3, <1>4 DEF Loads

-----------------------------------------------------------------------------
(***************************************************************************)
(* The actions of the analysis run                                         *)
(***************************************************************************)

\* POST /api/projects and from-assets keep the run's invariant.
LEMMA CreateInv ==
  ASSUME RunInv, NEW r \in Runs, Create(r)
  PROVE  RunInv'
<1>1. SoundProject(NewProject)
  BY NoProjectSound, PhaseSound DEF NewProject, Phases
<1>2. SoundProject(store') /\ SoundProject(kept')
  BY <1>1, RejectedSound DEF Create, Answered, RunInv
<1>3. PICK pc \in {"queued", "lost"} : run' = [run EXCEPT ![r].pc = pc]
  BY DEF Create
<1>4. SoundRun([run[r] EXCEPT !.pc = pc])
  BY RunPcSound DEF RunInv, Labels
<1>5. run' = [run EXCEPT ![r] = [run[r] EXCEPT !.pc = pc]]
  BY <1>3
<1>6. bounds' \in [creates : Nat, crashes : Nat, faults : Nat]
  <2>1. bounds \in [creates : Nat, crashes : Nat, faults : Nat]
    BY DEF RunInv
  <2>2. \/ bounds' = [bounds EXCEPT !.creates = @ + 1]
        \/ bounds' = [bounds EXCEPT !.creates = @ + 1, !.faults = @ + 1]
    BY DEF Create
  <2>3. CASE bounds' = [bounds EXCEPT !.creates = @ + 1]
    BY <2>1, <2>3
  <2>4. ASSUME NEW more, more = [bounds EXCEPT !.creates = @ + 1]
        PROVE  [more EXCEPT !.faults = @ + 1]
                 \in [creates : Nat, crashes : Nat, faults : Nat]
    <3>1. more \in [creates : Nat, crashes : Nat, faults : Nat]
      BY <2>1, <2>4
    <3> HIDE <2>4
    <3> QED BY <3>1
  <2>5. [bounds EXCEPT !.creates = @ + 1, !.faults = @ + 1]
          \in [creates : Nat, crashes : Nat, faults : Nat]
    BY <2>4
  <2> QED BY <2>2, <2>3, <2>5
<1>7. server' \in {"down", "booting", "up"} /\ lone' \in BOOLEAN
  BY DEF Create, RunInv, NoteLone
<1>8. QED
  BY <1>2, <1>4, <1>5, <1>6, <1>7, RunStep

\* run() loads a document that is in order.
LEMMA BeginInv ==
  ASSUME RunInv, NEW r \in Runs, Begin(r)
  PROVE  RunInv'
<1> DEFINE x == IF Present(store)
                THEN [run[r] EXCEPT !.mem = store, !.pc = "announce"]
                ELSE Idle
<1>1. SoundRun(run[r]) /\ SoundProject(store)
  BY DEF RunInv
<1>2. SoundRun([run[r] EXCEPT !.mem = store, !.pc = "announce"])
  BY <1>1, RunMemSound DEF Labels
<1>3. SoundRun(x)
  BY <1>2, IdleSound
<1>4. Loads(r, x) /\ UNCHANGED <<store, kept, server, lone>>
  BY DEF Begin
<1> HIDE DEF x
<1>5. QED
  BY <1>3, <1>4, LoadsSound DEF RunInv

\* #progress, and every other save that only moves the phase.
LEMMA ProgressInv ==
  ASSUME RunInv, NEW r \in Runs, NEW phase \in Phases, NEW pc \in Labels,
         Progress(r, phase, pc)
  PROVE  RunInv'
<1> DEFINE mem  == [run[r].mem EXCEPT !.phase = phase]
           next == [run[r] EXCEPT !.mem = mem, !.pc = pc]
           fail == [next EXCEPT !.pc = "failing"]
<1>1. SoundRun(run[r]) /\ SoundProject(run[r].mem)
  BY DEF RunInv, SoundRun
<1>2. SoundProject(mem)
  BY <1>1, PhaseSound
<1>3. Saves(r, next.mem, next, fail)
  BY DEF Progress
<1> HIDE DEF mem
<1>4. SoundRun(next) /\ next.mem = mem
  BY <1>1, <1>2, RunMemSound
<1> HIDE DEF next
<1>5. SoundRun(fail)
  BY <1>4, RunPcSound DEF Labels
<1> HIDE DEF fail
<1>6. QED
  BY <1>2, <1>3, <1>4, <1>5, SavesSound

\* Reconciliation saves fresh cases.
LEMMA ReconcileInv ==
  ASSUME RunInv, NEW r \in Runs, NEW found \in SUBSET Cases,
         Reconcile(r, found)
  PROVE  RunInv'
<1> DEFINE mem  == [run[r].mem EXCEPT !.items = [c \in found |-> NewCase]]
           pc   == IF found = {} THEN "finish" ELSE "open"
           next == [run[r] EXCEPT !.mem = mem, !.todo = found, !.pc = pc]
           fail == [next EXCEPT !.pc = "failing", !.todo = {}]
<1>1. SoundRun(run[r]) /\ SoundProject(run[r].mem)
  BY DEF RunInv, SoundRun
<1>2. SoundProject(mem)
  BY <1>1, RebuiltSound
<1>3. pc \in Labels /\ "failing" \in Labels
  BY DEF Labels
<1>4. Saves(r, next.mem, next, fail)
  BY DEF Reconcile
<1> HIDE DEF mem, pc
<1>5. SoundRun(next) /\ next.mem = mem
  BY <1>1, <1>2, <1>3 DEF SoundRun, IsRun, SoundProject
<1> HIDE DEF next
<1>6. SoundRun(fail)
  BY <1>3, <1>5, RunTodoSound
<1> HIDE DEF fail
<1>7. QED
  BY <1>2, <1>4, <1>5, <1>6, SavesSound

\* The save that opens research keeps the invariant.
LEMMA OpenResearchInv ==
  ASSUME RunInv, NEW r \in Runs, OpenResearch(r)
  PROVE  RunInv'
<1> DEFINE mem  == [run[r].mem EXCEPT !.phase = "researching"]
           next == [run[r] EXCEPT !.mem = mem, !.pc = "research"]
           fail == [next EXCEPT !.pc = "failing", !.todo = {}]
<1>1. SoundRun(run[r]) /\ SoundProject(run[r].mem)
  BY DEF RunInv, SoundRun
<1>2. SoundProject(mem)
  BY <1>1, PhaseSound DEF Phases
<1>3. {"research", "failing"} \subseteq Labels
  BY DEF Labels
<1>4. Saves(r, next.mem, next, fail)
  BY DEF OpenResearch
<1> HIDE DEF mem
<1>5. SoundRun(next) /\ next.mem = mem
  BY <1>1, <1>2, <1>3, RunMemSound
<1> HIDE DEF next
<1>6. SoundRun(fail)
  BY <1>3, <1>5, RunTodoSound
<1> HIDE DEF fail
<1>7. QED
  BY <1>2, <1>4, <1>5, <1>6, SavesSound

\* A step that only moves the program counter of a run.
LEMMA PcInv ==
  ASSUME RunInv, NEW r \in Runs, NEW pc \in Labels,
         run' = [run EXCEPT ![r].pc = pc],
         UNCHANGED <<store, kept, server, bounds, lone>>
  PROVE  RunInv'
<1>1. SoundRun([run[r] EXCEPT !.pc = pc])
  BY RunPcSound DEF RunInv
<1>2. run' = [run EXCEPT ![r] = [run[r] EXCEPT !.pc = pc]]
  OBVIOUS
<1>3. QED
  BY <1>1, <1>2, RunStep DEF RunInv

\* A worker that takes a case keeps the invariant, saved or rejected.
LEMMA TakeInv ==
  ASSUME RunInv, NEW r \in Runs, NEW c \in Cases, Take(r, c)
  PROVE  RunInv'
<1> DEFINE todo  == run[r].todo \ {c}
           work  == [run[r].work EXCEPT ![c] = "search"]
           taken == [run[r] EXCEPT !.todo = todo, !.work = work]
           case  == AgentSets(run[r].mem.items[c], "researching")
           mem   == [run[r].mem EXCEPT !.items[c] = case]
           next  == [taken EXCEPT !.mem = mem]
           dead  == [work EXCEPT ![c] = "dead"]
           fail  == [next EXCEPT !.work = dead, !.pc = Rejects(r)]
<1>1. SoundRun(run[r]) /\ SoundProject(run[r].mem)
  BY DEF RunInv, SoundRun
<1>2. /\ run[r].pc \in Labels /\ todo \in SUBSET Cases
      /\ work \in [Cases -> WorkStates] /\ dead \in [Cases -> WorkStates]
      /\ Rejects(r) \in Labels
  BY <1>1 DEF SoundRun, IsRun, WorkStates, Rejects, Labels
<1>3. SoundProject(mem)
  BY <1>1, AgentSetsSound, CaseEditSound DEF SoundProject
<1>4. taken = [run[r] EXCEPT !.todo = @ \ {c}, !.work[c] = "search"]
  OBVIOUS
<1>5. next = [taken EXCEPT !.mem.items[c] = AgentSets(@, "researching")]
  BY <1>1 DEF SoundRun, IsRun
<1>6. next.work = work /\ next.mem = mem
  BY <1>1 DEF SoundRun, IsRun
<1>7. fail = [next EXCEPT !.work[c] = "dead", !.pc = Rejects(r)]
  BY <1>6
<1>8. \/ /\ run' = [run EXCEPT ![r] = taken]
         /\ UNCHANGED <<store, kept, server, bounds, lone>>
      \/ Saves(r, next.mem, next, fail)
  BY <1>4, <1>5, <1>7 DEF Take
<1> HIDE DEF todo, work, mem, dead
<1>9. SoundRun(taken)
  BY <1>1, <1>2 DEF SoundRun, IsRun, SoundProject
<1>10. SoundRun(next) /\ SoundRun(fail)
  BY <1>1, <1>2, <1>3 DEF SoundRun, IsRun, SoundProject
<1> HIDE DEF taken, next, fail
<1>11. QED
  BY <1>3, <1>6, <1>8, <1>9, <1>10, RunStep, SavesSound DEF RunInv

\* A search that answers or fails keeps the invariant.
LEMMA SearchReturnsInv ==
  ASSUME RunInv, NEW r \in Runs, NEW c \in Cases, SearchReturns(r, c)
  PROVE  RunInv'
<1> DEFINE work == [run[r].work EXCEPT ![c] = "assemble"]
           next == [run[r] EXCEPT !.work = work]
<1>1. SoundRun(run[r])
  BY DEF RunInv
<1>2. work \in [Cases -> WorkStates]
  BY <1>1 DEF SoundRun, IsRun, WorkStates
<1>3. run' = [run EXCEPT ![r] = next]
  BY DEF SearchReturns
<1> HIDE DEF work
<1>4. SoundRun(next)
  BY <1>1, <1>2, RunWorkSound
<1> HIDE DEF next
<1>5. QED
  BY <1>3, <1>4, RunStep DEF SearchReturns, RunInv

\* A case concluded by its dossier or its deadline stays in order.
LEMMA ConcludeInv ==
  ASSUME RunInv, NEW r \in Runs, NEW c \in Cases,
         NEW status \in {"evidence_ready", "unresolved"},
         Conclude(r, c, status)
  PROVE  RunInv'
<1> DEFINE work == [run[r].work EXCEPT ![c] = "free"]
           case == AgentSets(run[r].mem.items[c], status)
           mem  == [run[r].mem EXCEPT !.items[c] = case]
           next == [run[r] EXCEPT !.work = work, !.mem = mem]
           dead == [work EXCEPT ![c] = "dead"]
           fail == [next EXCEPT !.work = dead, !.pc = Rejects(r)]
<1>1. SoundRun(run[r]) /\ SoundProject(run[r].mem)
  BY DEF RunInv, SoundRun
<1>2. /\ work \in [Cases -> WorkStates] /\ dead \in [Cases -> WorkStates]
      /\ Rejects(r) \in Labels
  BY <1>1 DEF SoundRun, IsRun, WorkStates, Rejects, Labels
<1>3. SoundProject(mem)
  BY <1>1, AgentSetsSound, CaseEditSound DEF SoundProject
<1>4. next = [run[r] EXCEPT !.work[c] = "free",
                            !.mem.items[c] = AgentSets(@, status)]
  OBVIOUS
<1>5. next.work = work /\ next.mem = mem
  BY <1>1 DEF SoundRun, IsRun
<1>6. fail = [next EXCEPT !.work[c] = "dead", !.pc = Rejects(r)]
  BY <1>5
<1>7. Saves(r, next.mem, next, fail)
  BY <1>4, <1>6 DEF Conclude
<1> HIDE DEF work, mem, dead
<1>8. SoundRun(next) /\ SoundRun(fail)
  BY <1>1, <1>2, <1>3 DEF SoundRun, IsRun, SoundProject
<1> HIDE DEF next, fail
<1>9. QED
  BY <1>3, <1>5, <1>7, <1>8, SavesSound

\* The ready save keeps the invariant.
LEMMA FinishInv ==
  ASSUME RunInv, NEW r \in Runs, Finish(r)
  PROVE  RunInv'
<1> DEFINE mem  == [run[r].mem EXCEPT !.phase = "ready", !.revised = TRUE]
           fail == [run[r] EXCEPT !.mem = mem, !.pc = "failing"]
<1>1. SoundRun(run[r]) /\ SoundProject(run[r].mem)
  BY DEF RunInv, SoundRun
<1>2. SoundProject(mem)
  BY <1>1, ReadySound
<1>3. Saves(r, mem, Idle, fail)
  BY DEF Finish
<1> HIDE DEF mem
<1>4. SoundRun(fail)
  BY <1>1, <1>2, RunMemSound DEF Labels
<1> HIDE DEF fail
<1>5. QED
  BY <1>2, <1>3, <1>4, IdleSound, SavesSound

\* The catch block keeps the invariant, whether or not its save does.
LEMMA FailInv ==
  ASSUME RunInv, NEW r \in Runs, Fail(r)
  PROVE  RunInv'
<1> DEFINE mem  == [run[r].mem EXCEPT !.phase = "failed"]
           next == [run[r] EXCEPT !.mem = mem, !.pc = "over"]
           fail == [next EXCEPT !.pc = "lost"]
<1>1. SoundRun(run[r]) /\ SoundProject(run[r].mem)
  BY DEF RunInv, SoundRun
<1>2. SoundProject(mem)
  BY <1>1, PhaseSound DEF Phases
<1>3. {"over", "lost"} \subseteq Labels
  BY DEF Labels
<1>4. Saves(r, next.mem, next, fail)
  BY DEF Fail
<1> HIDE DEF mem
<1>5. SoundRun(next) /\ next.mem = mem
  BY <1>1, <1>2, <1>3, RunMemSound
<1> HIDE DEF next
<1>6. SoundRun(fail)
  BY <1>3, <1>5, RunPcSound
<1> HIDE DEF fail
<1>7. QED
  BY <1>2, <1>4, <1>5, <1>6, SavesSound

\* resume() loads a document that is in order.
LEMMA ResumeInv ==
  ASSUME RunInv, NEW r \in Runs, Resume(r)
  PROVE  RunInv'
<1> DEFINE owed == {c \in DOMAIN store.items : AwaitsResearch(store.items[c])}
           pc   == IF owed = {} THEN "finish" ELSE "open"
           load == [run[r] EXCEPT !.mem = store, !.todo = owed, !.pc = pc]
           over == [run[r] EXCEPT !.pc = "queued"]
<1>1. SoundRun(run[r]) /\ SoundProject(store)
  BY DEF RunInv
<1>2. owed \in SUBSET Cases
  BY <1>1, ProjectFields DEF SoundProject
<1>3. pc \in Labels /\ "queued" \in Labels
  BY DEF Labels
<1>4. /\ \E x \in {Idle, over, load} : Loads(r, x)
      /\ UNCHANGED <<store, kept, server, lone>>
  BY DEF Resume
<1>5. SoundRun(over)
  BY <1>1, <1>3, RunPcSound
<1> HIDE DEF owed, pc
<1>6. SoundRun(load)
  BY <1>1, <1>2, <1>3 DEF SoundRun, IsRun, SoundProject
<1> HIDE DEF load, over
<1>7. QED
  BY <1>4, <1>5, <1>6, IdleSound, LoadsSound DEF RunInv

\* Every step of run() and resume() keeps the invariant.
LEMMA OrchestrateInv ==
  ASSUME RunInv, NEW r \in Runs, Orchestrate(r)
  PROVE  RunInv'
<1>1. {"scanning", "reconciling"} \subseteq Phases
  BY DEF Phases
<1>2. {"scan", "report", "compare", "reconcile", "failing"} \subseteq Labels
  BY DEF Labels
<1>3. CASE Begin(r)
  BY <1>3, BeginInv
<1>4. CASE Resume(r)
  BY <1>4, ResumeInv
<1>5. CASE Announce(r)
  BY <1>1, <1>2, <1>5, ProgressInv DEF Announce
<1>6. CASE Scan(r)
  BY <1>2, <1>6, PcInv DEF Scan
<1>7. CASE Report(r)
  BY <1>1, <1>2, <1>7, ProgressInv DEF Report
<1>8. CASE Compare(r)
  BY <1>1, <1>2, <1>8, ProgressInv DEF Compare
<1>9. CASE \E found \in SUBSET Cases : Reconcile(r, found)
  BY <1>9, ReconcileInv
<1>10. CASE StageThrows(r)
  BY <1>2, <1>10, PcInv DEF StageThrows
<1>11. CASE OpenResearch(r)
  BY <1>11, OpenResearchInv
<1>12. CASE Finish(r)
  BY <1>12, FinishInv
<1>13. CASE Fail(r)
  BY <1>13, FailInv
<1>14. QED
  BY <1>3, <1>4, <1>5, <1>6, <1>7, <1>8, <1>9, <1>10, <1>11, <1>12, <1>13
     DEF Orchestrate, Stage, Proceed

\* Every step of a research worker keeps the invariant.
LEMMA ResearchInv ==
  ASSUME RunInv, NEW r \in Runs, Research(r)
  PROVE  RunInv'
<1>1. PICK c \in Cases :
        \/ Take(r, c)
        \/ SearchReturns(r, c)
        \/ DossierReturns(r, c)
        \/ DeadlineExpires(r, c)
  BY DEF Research
<1>2. CASE Take(r, c)
  BY <1>2, TakeInv
<1>3. CASE SearchReturns(r, c)
  BY <1>3, SearchReturnsInv
<1>4. CASE DossierReturns(r, c)
  BY <1>4, ConcludeInv DEF DossierReturns
<1>5. CASE DeadlineExpires(r, c)
  BY <1>5, ConcludeInv DEF DeadlineExpires
<1>6. QED
  BY <1>1, <1>2, <1>3, <1>4, <1>5

\* recoverInterrupted keeps the invariant.
LEMMA RecoverInv ==
  ASSUME RunInv, NEW r \in Runs, Recover(r)
  PROVE  RunInv'
<1> DEFINE x == IF Present(store) /\ store.phase \notin Settled
                THEN [run[r] EXCEPT !.pc = "resuming"]
                ELSE run[r]
<1>1. SoundRun([run[r] EXCEPT !.pc = "resuming"]) /\ SoundRun(run[r])
  BY RunPcSound DEF RunInv, Labels
<1>2. SoundRun(x)
  BY <1>1
<1>3. Loads(r, x) /\ UNCHANGED <<store, kept>> /\ server' = "up"
  BY DEF Recover
<1>4. lone' \in BOOLEAN
  BY DEF Recover, RunInv, NoteLone
<1> HIDE DEF x
<1>5. QED
  BY <1>2, <1>3, <1>4, LoadsSound

\* A crash loses runs, and leaves the store in order.
LEMMA CrashInv ==
  ASSUME RunInv, Crash
  PROVE  RunInv'
<1>1. bounds' \in [creates : Nat, crashes : Nat, faults : Nat]
  BY DEF Crash, RunInv
<1>2. run' = [r \in Runs |-> Idle]
  BY DEF Crash
<1>3. QED
  BY <1>1, <1>2, IdleSound DEF Crash, RunInv

-----------------------------------------------------------------------------
(***************************************************************************)
(* The handlers                                                            *)
(***************************************************************************)

\* A handler that holds no copy is in order.
LEMMA NoRequestSound ==
  ASSUME NEW pc \in {"new", "done"}
  PROVE  SoundRequest(NoRequest(pc))
  BY NoProjectSound DEF SoundRequest, NoRequest

\* An accepted operation on a case keeps it sound.
LEMMA EditCaseSound ==
  ASSUME NEW case, Sound(case), NEW q \in Requests, NEW op \in Op,
         op.kind \in CaseKinds, AcceptsCase(case, q, op)
  PROVE  Sound(EditCase(case, q, op))
<1>1. op.docs \in SUBSET Requests
  BY DEF Op
<1>2. CASE op.kind = "status"
  <2>1. ChangeOf(q, op) \in Change
    BY DEF ChangeOf, Change, Op
  <2>2. ~Refused(case, ChangeOf(q, op))
    BY <1>2 DEF AcceptsCase
  <2>3. QED
    BY <1>2, <2>1, <2>2, DispositionSound DEF EditCase
<1>3. CASE op.kind = "assign"
  <2>1. "assignment_changed" \in Actions
    BY DEF Actions
  <2>2. QED
    BY <1>3, <2>1, AnnotateSound DEF EditCase
<1>4. CASE op.kind = "watch"
  <2>1. "monitor_opened" \in Actions
    BY DEF Actions
  <2>2. QED
    BY <1>4, <2>1, AnnotateSound DEF EditCase
<1>5. CASE op.kind = "describe"
  <2>1. "document_metadata_updated" \in Actions
    BY DEF Actions
  <2>2. QED
    BY <1>1, <1>5, <2>1, AnnotateSound DEF EditCase
<1>6. CASE op.kind = "attach"
  BY <1>6, AttachSound DEF EditCase
<1>7. CASE op.kind = "detach"
  <2>1. PICK d \in case.docs : op.docs = {d}
    BY <1>7 DEF AcceptsCase
  <2>2. (CHOOSE x \in op.docs : TRUE) = d
    BY <2>1
  <2>3. Sound(RemoveDocument(case, q, d))
    BY RemoveSound
  <2>4. QED
    BY <1>7, <2>2, <2>3 DEF EditCase
<1>8. CASE op.kind = "reopen"
  BY <1>8, ReopenSound DEF EditCase
<1>9. QED
  BY <1>2, <1>3, <1>4, <1>5, <1>6, <1>7, <1>8 DEF CaseKinds

\* An entry in the production's log touches no case, and repeats no export
\* if it is not one or if its request id is new.
LEMMA LoggedSound ==
  ASSUME NEW p, SoundProject(p), NEW q \in Requests,
         NEW action \in {"project_archived", "project_restored",
                         "project_renamed", "intended_use_updated",
                         "packet_exported"},
         NEW id \in ExportIds \cup {None},
         \/ action # "packet_exported"
         \/ \A i \in 1 .. Len(p.log) :
              ~(p.log[i].action = "packet_exported" /\ p.log[i].id = id)
  PROVE  SoundProject(Logged(p, q, action, id))
<1> DEFINE e   == [by |-> q, id |-> id, action |-> action]
           log == Append(p.log, e)
           new == [p EXCEPT !.log = log]
<1>1. e \in LogEntry /\ p.log \in Seq(LogEntry)
  BY ProjectFields DEF LogEntry, SoundProject
<1>2. e.action = action /\ e.id = id
  OBVIOUS
<1>3. Logged(p, q, action, id) = new
  BY DEF Logged
<1> HIDE DEF e
<1>4. /\ log \in Seq(LogEntry) /\ Len(p.log) \in Nat
      /\ Len(log) = Len(p.log) + 1 /\ log[Len(p.log) + 1] = e
      /\ \A i \in 1 .. Len(p.log) : log[i] = p.log[i]
  BY <1>1
<1> HIDE DEF log
<1>5. ASSUME NEW i \in 1 .. Len(log), NEW j \in 1 .. Len(log),
             log[i].action = "packet_exported",
             log[j].action = "packet_exported", log[i].id = log[j].id
      PROVE  i = j
  <2>1. \A k \in 1 .. Len(log) : k = Len(p.log) + 1 \/ k \in 1 .. Len(p.log)
    BY <1>4
  <2>2. CASE i \in 1 .. Len(p.log) /\ j \in 1 .. Len(p.log)
    BY <1>4, <1>5, <2>2 DEF SoundProject, ExportedOnce
  <2>3. CASE i = Len(p.log) + 1 /\ j \in 1 .. Len(p.log)
    BY <1>2, <1>4, <1>5, <2>3
  <2>4. CASE j = Len(p.log) + 1 /\ i \in 1 .. Len(p.log)
    BY <1>2, <1>4, <1>5, <2>4
  <2>5. QED
    BY <2>1, <2>2, <2>3, <2>4
<1>6. new.log = log
  BY DEF SoundProject, IsProject
<1>7. IsProject(new) /\ \A c \in DOMAIN new.items : Sound(new.items[c])
  BY <1>4 DEF SoundProject, IsProject
<1> HIDE DEF new
<1>8. QED
  BY <1>3, <1>5, <1>6, <1>7 DEF SoundProject, ExportedOnce

\* Setting or clearing the archive mark touches nothing else.
LEMMA ArchivedSound ==
  ASSUME NEW p, SoundProject(p), NEW archived \in BOOLEAN
  PROVE  SoundProject([p EXCEPT !.archived = archived])
  BY DEF SoundProject, IsProject, ExportedOnce

\* What a handler saves is in order if what it loaded was.
LEMMA EditSound ==
  ASSUME NEW p, SoundProject(p), NEW q \in Requests, NEW op \in Op,
         Accepts(p, q, op)
  PROVE  SoundProject(Edit(p, q, op))
<1>1. op.id \in ExportIds \cup {None} /\ None \in ExportIds \cup {None}
      /\ op.kind \in CaseKinds \cup ProjectKinds
  BY DEF Op
<1>2. CASE op.kind \in CaseKinds
  <2> DEFINE x == EditCase(p.items[op.case], q, op)
  <2>1. /\ op.case \in DOMAIN p.items
        /\ AcceptsCase(p.items[op.case], q, op)
    BY <1>2 DEF Accepts, CaseKinds, Renames
  <2>2. Sound(x)
    BY <1>2, <2>1, EditCaseSound DEF SoundProject
  <2>3. Edit(p, q, op) = [p EXCEPT !.items[op.case] = x]
    BY <1>2 DEF Edit, CaseKinds, Renames
  <2> HIDE DEF x
  <2>4. QED
    BY <2>2, <2>3, CaseEditSound
<1>3. CASE op.kind = "archive"
  BY <1>1, <1>3, LoggedSound, ArchivedSound DEF Edit, CaseKinds, Renames
<1>4. CASE op.kind = "restore"
  BY <1>1, <1>4, LoggedSound, ArchivedSound DEF Edit, CaseKinds, Renames
<1>5. CASE op.kind \in Renames
  BY <1>1, <1>5, LoggedSound DEF Edit, CaseKinds, Renames
<1>6. CASE op.kind = "profile"
  BY <1>1, <1>6, LoggedSound DEF Edit, CaseKinds, Renames
<1>7. CASE op.kind = "export"
  BY <1>1, <1>7, LoggedSound DEF Edit, RecordPacketExport, CaseKinds, Renames
<1>8. CASE op.kind = "delete"
  BY <1>8, NoProjectSound DEF Edit, CaseKinds, Renames
<1>9. QED
  BY <1>1, <1>2, <1>3, <1>4, <1>5, <1>6, <1>7, <1>8 DEF ProjectKinds

\* A handler loads a copy that is in order.
LEMMA LoadInv ==
  ASSUME IInv, NEW q \in Requests, NEW op \in Ops, Load(q, op)
  PROVE  IInv'
<1> DEFINE x == IF Present(store)
                THEN [pc |-> "loaded", op |-> op, mem |-> store]
                ELSE NoRequest("done")
<1>1. SoundProject(store)
  BY DEF IInv, RunInv
<1>2. SoundRequest([pc |-> "loaded", op |-> op, mem |-> store])
  BY <1>1, OpsAssumption DEF SoundRequest
<1>3. SoundRequest(x)
  BY <1>2, NoRequestSound
<1>4. req' = [req EXCEPT ![q] = x]
  BY DEF Load
<1> HIDE DEF x
<1>5. UNCHANGED <<avars, monitored, sealed>>
  BY DEF Load
<1>6. QED
  BY <1>3, <1>4, <1>5 DEF IInv, RunInv, avars

\* Opening a monitor touches no document.
LEMMA WatchInv ==
  ASSUME IInv, NEW q \in Requests, Watch(q)
  PROVE  IInv'
<1> DEFINE x == [req[q] EXCEPT !.pc = "watching"]
<1>1. SoundRequest(req[q]) /\ req[q].op \in Op
  BY DEF IInv, SoundRequest, Watch
<1>2. SoundRequest(x)
  BY <1>1 DEF SoundRequest
<1>3. req' = [req EXCEPT ![q] = x]
  BY DEF Watch
<1>4. req[q].op.case \in Cases
  BY <1>1 DEF Op
<1> HIDE DEF x
<1>5. monitored' \subseteq Cases /\ UNCHANGED <<avars, sealed>>
  BY <1>4 DEF Watch, IInv
<1>6. QED
  BY <1>2, <1>3, <1>5 DEF IInv, RunInv, avars

\* What a handler saves is in order, however stale its copy is.
LEMMA SavedSound ==
  ASSUME IInv, NEW q \in Requests, Saving(q)
  PROVE  SoundProject(Edit(req[q].mem, q, req[q].op)) /\ req[q].op \in Op
<1>1. SoundProject(req[q].mem) /\ req[q].op \in Op /\ Accepts(req[q].mem, q, req[q].op)
  BY DEF IInv, SoundRequest, Saving
<1>2. QED
  BY <1>1, EditSound

\* So is what it goes on with.
LEMMA CommitInv ==
  ASSUME IInv, NEW q \in Requests, Commit(q)
  PROVE  IInv'
<1> DEFINE op == req[q].op
<1>1. SoundRequest(req[q])
  BY DEF IInv
<1>2. op \in Op /\ SoundProject(store') /\ SoundProject(kept')
  BY SavedSound DEF Commit, Answered
<1>4. PICK x : req' = [req EXCEPT ![q] = x] /\ SoundRequest(x)
  <2> DEFINE rest == [req[q] EXCEPT !.op = Rest(op), !.mem = store']
  <2>1. CASE Rest(op) = NoOp
    BY <2>1, NoRequestSound DEF Commit
  <2>2. CASE Rest(op) # NoOp
    <3>1. Rest(op) \in Op
      BY <1>2, <2>2 DEF Rest, Op, ProjectKinds
    <3>2. SoundRequest(rest)
      BY <1>1, <1>2, <3>1 DEF SoundRequest
    <3>3. req' = [req EXCEPT ![q] = rest]
      BY <2>2 DEF Commit
    <3>4. QED
      BY <3>2, <3>3
  <2>3. QED
    BY <2>1, <2>2
<1>5. sealed' \subseteq Requests
  BY DEF Commit, IInv
<1>6. UNCHANGED <<run, server, bounds, lone, monitored>>
  BY DEF Commit
<1>7. QED
  BY <1>2, <1>4, <1>5, <1>6 DEF IInv, RunInv

\* And so is what a rejected save leaves behind.
LEMMA CommitRejectsInv ==
  ASSUME IInv, NEW q \in Requests, CommitRejects(q)
  PROVE  IInv'
<1>1. SoundProject(store') /\ SoundProject(kept')
  BY SavedSound, RejectedSound DEF CommitRejects, IInv, RunInv
<1>2. bounds' \in [creates : Nat, crashes : Nat, faults : Nat]
  BY FaultCounts DEF CommitRejects, IInv, RunInv
<1>3. /\ req' = [req EXCEPT ![q] = NoRequest("done")]
      /\ UNCHANGED <<run, server, lone, monitored, sealed>>
  BY DEF CommitRejects
<1>4. QED
  BY <1>1, <1>2, <1>3, NoRequestSound DEF IInv, RunInv

\* A refused request changes nothing but its handler.
LEMMA RefuseInv ==
  ASSUME IInv, NEW q \in Requests, Refuse(q)
  PROVE  IInv'
<1>1. req' = [req EXCEPT ![q] = NoRequest("done")]
      /\ UNCHANGED <<avars, monitored, sealed>>
  BY DEF Refuse
<1>2. QED
  BY <1>1, NoRequestSound DEF IInv, RunInv, avars

-----------------------------------------------------------------------------
(***************************************************************************)
(* The invariant                                                           *)
(***************************************************************************)

\* The invariant holds initially ...
LEMMA InitInv == RecordInit => IInv
<1> SUFFICES ASSUME RecordInit PROVE IInv
  OBVIOUS
<1>1. RunInv
  BY NoProjectSound, IdleSound DEF RecordInit, Init, RunInv
<1>2. QED
  BY <1>1, NoRequestSound DEF RecordInit, IInv

\* ... and every step preserves it.
LEMMA StepInv == IInv /\ [RecordNext]_vars => IInv'
<1> SUFFICES ASSUME IInv, [RecordNext]_vars PROVE IInv'
  OBVIOUS
<1>1. RunInv
  BY DEF IInv
<1>2. CASE \E r \in Runs : CreateRecord(r)
  <2>1. RunInv' /\ UNCHANGED <<req, monitored>> /\ sealed' = {}
    BY <1>1, <1>2, CreateInv DEF CreateRecord
  <2>2. QED
    BY <2>1 DEF IInv
<1>3. CASE CrashServer
  <2>1. RunInv' /\ monitored' = {} /\ UNCHANGED sealed
    BY <1>1, <1>3, CrashInv DEF CrashServer
  <2>2. req' = [q \in Requests |->
                  IF Holding(q) THEN NoRequest("done") ELSE req[q]]
    BY <1>3 DEF CrashServer
  <2>3. QED
    BY <2>1, <2>2, NoRequestSound DEF IInv
<1>4. CASE Background
  <2>1. UNCHANGED <<req, monitored, sealed>>
    BY <1>4 DEF Background
  <2>2. CASE Restart
    BY <1>1, <2>1, <2>2 DEF Restart, IInv, RunInv
  <2>3. CASE \E r \in Runs : Recover(r)
    BY <1>1, <2>1, <2>3, RecoverInv DEF IInv
  <2>4. CASE \E r \in Runs : Step(r)
    BY <1>1, <2>1, <2>4, OrchestrateInv, ResearchInv DEF Step, IInv
  <2>5. QED
    BY <1>4, <2>2, <2>3, <2>4 DEF Background
<1>5. CASE \E q \in Requests : Handle(q)
  BY <1>5, LoadInv, WatchInv, CommitInv, CommitRejectsInv, RefuseInv DEF Handle
<1>6. CASE UNCHANGED vars
  BY <1>6 DEF vars, avars, IInv, RunInv
<1>7. QED
  BY <1>2, <1>3, <1>4, <1>5, <1>6 DEF RecordNext

\* Every copy of the document, stored or loaded, is in order at all times.
THEOREM Invariance == RecordSpec => []IInv
<1>1. QED
  BY InitInv, StepInv, PTL DEF RecordSpec

\* The state keeps its shape: RecordTypeOK holds of every behaviour.
THEOREM TypeCorrect == RecordSpec => []RecordTypeOK
<1>1. IInv => RecordTypeOK
  BY DEF IInv, RunInv, RecordTypeOK, TypeOK, SoundProject, SoundRun,
         SoundRequest, Holding
<1>2. QED
  BY <1>1, Invariance, PTL

\* Every stored audit trail accounts for its case's status, without a gap,
\* however runs, handlers and the webhook interleave their saves.
THEOREM TrailsExplain == RecordSpec => []TrailExplainsStatus
<1>1. IInv => TrailExplainsStatus
  BY DEF IInv, RunInv, SoundProject, Sound, TrailExplainsStatus
<1>2. QED
  BY <1>1, Invariance, PTL

\* No request id is recorded as exporting the packet twice.
THEOREM ExportsAreUnique == RecordSpec => []OneExportPerRequest
<1>1. IInv => OneExportPerRequest
  BY DEF IInv, RunInv, SoundProject, OneExportPerRequest
<1>2. QED
  BY <1>1, Invariance, PTL

\* No stored trail holds an outcome that its actor may not issue.
THEOREM NoMachineApproves == RecordSpec => []NoMachineApproval
<1>1. IInv => NoMachineApproval
  BY DEF IInv, RunInv, SoundProject, Sound, NoMachineApproval
<1>2. QED
  BY <1>1, Invariance, PTL

\* In every stored trail the machine actors have yielded to the humans.
THEOREM MachinesAlwaysYield == RecordSpec => []MachinesYieldToHumans
<1>1. IInv => MachinesYieldToHumans
  BY DEF IInv, RunInv, SoundProject, Sound, MachinesYieldToHumans
<1>2. QED
  BY <1>1, Invariance, PTL

\* Every recorded permission follows the attachment of what it cites.
THEOREM PermissionsAreEvidenced == RecordSpec => []PermissionsHaveDocuments
<1>1. IInv => PermissionsHaveDocuments
  BY DEF IInv, RunInv, SoundProject, Sound, PermissionsHaveDocuments
<1>2. QED
  BY <1>1, Invariance, PTL

-----------------------------------------------------------------------------
(***************************************************************************)
(* What nobody else held is never lost                                     *)
(*                                                                         *)
(* An event is sealed when the copy that was saved was the only one.  From *)
(* then on every copy is loaded from it, or from another that was, and an  *)
(* edit only appends.  Reconciliation, which rebuilds the cases, is only   *)
(* ever reached by a run there was before anything was sealed.             *)
(***************************************************************************)
RecordedOn(case, q) == \E i \in 1 .. Len(case.trail) : case.trail[i].by = q

Remembers(p, seals) == \A q \in seals : RecordedIn(p, q)

\* Runs that have no copy yet, and runs that may still rebuild the cases.
Unloaded   == {"off", "queued", "resuming"}
Rebuilding == {"queued", "announce", "scan", "report", "compare", "reconcile"}

HasWork(x) == x.todo # {} \/ \E c \in Cases : x.work[c] \in {"search", "assemble"}

Goes(x) == x.pc \notin {"off", "over", "lost"} \/ HasWork(x)

RunRemembers(x, seals) ==
  /\ x.pc \in Rebuilding => seals = {}
  /\ x.pc \in Unloaded => ~HasWork(x)
  /\ Goes(x) /\ x.pc \notin Unloaded => Remembers(x.mem, seals)

RunsRemember ==
  /\ Present(store) => Remembers(store, sealed)
  /\ Present(kept) => Remembers(kept, sealed)
  /\ \A r \in Runs : RunRemembers(run[r], sealed)

\* Every copy that can still be saved holds every sealed event.
CopiesRemember ==
  /\ RunsRemember
  /\ \A q \in Requests : Holding(q) => Remembers(req[q].mem, sealed)

\* An appended event hides none.
LEMMA AppendRemembers ==
  ASSUME NEW t \in Seq(Event), NEW e, NEW q, \E i \in 1 .. Len(t) : t[i].by = q
  PROVE  \E i \in 1 .. Len(Append(t, e)) : Append(t, e)[i].by = q
<1>1. PICK i \in 1 .. Len(t) : t[i].by = q
  OBVIOUS
<1>2. Append(t, e)[i] = t[i] /\ i \in 1 .. Len(Append(t, e))
  OBVIOUS
<1>3. QED
  BY <1>1, <1>2

\* A disposition keeps what is recorded, muted or not.
LEMMA DispositionRemembers ==
  ASSUME NEW case \in Case, NEW change, NEW q, RecordedOn(case, q)
  PROVE  RecordedOn(ApplyDisposition(case, change), q)
<1> DEFINE e == [by |-> change.by, actor |-> change.actor,
                 action |-> "status_change", from |-> case.status,
                 to |-> change.status, docs |-> change.docs]
<1>1. Record(case, change).trail = Append(case.trail, e)
  BY DEF Record, Case
<1>2. RecordedOn(Record(case, change), q)
  BY <1>1, AppendRemembers DEF RecordedOn, Case
<1>3. QED
  BY <1>2 DEF ApplyDisposition

\* So does an annotation.
LEMMA AnnotateRemembers ==
  ASSUME NEW case \in Case, NEW by, NEW action, NEW docs, NEW q, RecordedOn(case, q)
  PROVE  RecordedOn(Annotate(case, by, action, docs), q)
<1>1. Annotate(case, by, action, docs).trail = Append(case.trail, Note(by, action, docs))
  BY DEF Annotate, Case
<1>2. QED
  BY <1>1, AppendRemembers DEF RecordedOn, Case

\* A change of documents leaves the trail alone.
LEMMA DocsRemember ==
  ASSUME NEW case, NEW docs, NEW q, RecordedOn(case, q)
  PROVE  RecordedOn([case EXCEPT !.docs = docs], q)
<1>1. [case EXCEPT !.docs = docs].trail = case.trail
  OBVIOUS
<1>2. QED
  BY <1>1 DEF RecordedOn

\* The webhook's reopening keeps what is recorded.
LEMMA ReopenRemembers ==
  ASSUME NEW case \in Case, NEW by, NEW q, RecordedOn(case, q)
  PROVE  RecordedOn(MonitorReopens(case, by), q)
<1> DEFINE e == [by |-> by, actor |-> "agent", action |-> "monitor_reopened",
                 from |-> case.status, to |-> "reopened_by_monitor", docs |-> {}]
           new == [case EXCEPT !.status = "reopened_by_monitor", !.resolved = FALSE,
                               !.trail = Append(@, e)]
<1>1. new.trail = Append(case.trail, e)
  BY DEF Case
<1>2. RecordedOn(new, q)
  BY <1>1, AppendRemembers DEF RecordedOn, Case
<1>3. QED
  BY <1>2 DEF MonitorReopens

\* Whatever a handler does to a case.
LEMMA EditCaseRemembers ==
  ASSUME NEW case \in Case, NEW q, NEW op, op.kind \in CaseKinds,
         NEW w, RecordedOn(case, w)
  PROVE  RecordedOn(EditCase(case, q, op), w)
<1>1. CASE op.kind = "status"
  BY <1>1, DispositionRemembers DEF EditCase
<1>2. CASE op.kind = "assign"
  BY <1>2, AnnotateRemembers DEF EditCase
<1>3. CASE op.kind = "watch"
  BY <1>3, AnnotateRemembers DEF EditCase
<1>4. CASE op.kind = "describe"
  BY <1>4, AnnotateRemembers DEF EditCase
<1>5. CASE op.kind = "attach"
  <2> DEFINE noted == Annotate(case, q, "document_attached", {q})
  <2>1. RecordedOn(noted, w)
    BY AnnotateRemembers
  <2>2. AttachDocument(case, q) = [noted EXCEPT !.docs = noted.docs \cup {q}]
    BY DEF AttachDocument
  <2> HIDE DEF noted
  <2>3. QED
    BY <1>5, <2>1, <2>2, DocsRemember DEF EditCase
<1>6. CASE op.kind = "detach"
  <2> DEFINE d     == CHOOSE x \in op.docs : TRUE
             noted == Annotate(case, q, "document_removed", {d})
  <2>1. RecordedOn(noted, w)
    BY AnnotateRemembers
  <2>2. RemoveDocument(case, q, d) = [noted EXCEPT !.docs = noted.docs \ {d}]
    BY DEF RemoveDocument
  <2>3. EditCase(case, q, op) = RemoveDocument(case, q, d)
    BY <1>6 DEF EditCase
  <2> HIDE DEF noted, d
  <2>4. RecordedOn([noted EXCEPT !.docs = noted.docs \ {d}], w)
    BY <2>1, DocsRemember
  <2>5. QED
    BY <2>2, <2>3, <2>4
<1>7. CASE op.kind = "reopen"
  BY <1>7, ReopenRemembers DEF EditCase
<1>8. QED
  BY <1>1, <1>2, <1>3, <1>4, <1>5, <1>6, <1>7 DEF CaseKinds

\* A case replaced by one that keeps its trail.
LEMMA CaseEditRemembers ==
  ASSUME NEW p, IsProject(p), NEW seals, Remembers(p, seals), NEW c, NEW x,
         c \in DOMAIN p.items =>
           \A q \in seals : RecordedOn(p.items[c], q) => RecordedOn(x, q)
  PROVE  Remembers([p EXCEPT !.items[c] = x], seals)
<1> DEFINE items == [p.items EXCEPT ![c] = x]
           new   == [p EXCEPT !.items = items]
<1>1. new.items = items
  BY DEF IsProject
<1>2. \A q : RecordedIn(p, q) <=> \E d \in DOMAIN p.items : RecordedOn(p.items[d], q)
  BY DEF RecordedIn, RecordedOn
<1>3. \A q : RecordedIn(new, q) <=> \E d \in DOMAIN items : RecordedOn(items[d], q)
  BY <1>1 DEF RecordedIn, RecordedOn
<1> HIDE DEF new
<1>4. ASSUME NEW q \in seals PROVE RecordedIn(new, q)
  <2>1. PICK d \in DOMAIN p.items : RecordedOn(p.items[d], q)
    BY <1>2 DEF Remembers
  <2>2. d \in DOMAIN items /\ RecordedOn(items[d], q)
    BY <2>1
  <2>3. QED
    BY <1>3, <2>2
<1>5. QED
  BY <1>4 DEF Remembers, new

\* A document with the same cases.
LEMMA SameItemsRemember ==
  ASSUME NEW p, NEW new, NEW seals, Remembers(p, seals), new.items = p.items
  PROVE  Remembers(new, seals)
  BY DEF Remembers, RecordedIn

\* Whatever a handler saves, unless it removes the document.
LEMMA EditRemembers ==
  ASSUME NEW p, SoundProject(p), NEW q, NEW op \in Op, Accepts(p, q, op),
         op.kind # "delete", NEW seals, Remembers(p, seals)
  PROVE  Remembers(Edit(p, q, op), seals)
<1>1. op.kind \in CaseKinds \cup ProjectKinds
  BY DEF Op
<1>2. IsProject(p) /\ \A c \in DOMAIN p.items : p.items[c] \in Case
  BY ProjectFields DEF SoundProject
<1>3. CASE op.kind \in CaseKinds
  <2> DEFINE x == EditCase(p.items[op.case], q, op)
  <2>1. ASSUME op.case \in DOMAIN p.items
        PROVE  \A w \in seals : RecordedOn(p.items[op.case], w) => RecordedOn(x, w)
    BY <1>2, <1>3, <2>1, EditCaseRemembers
  <2>2. Edit(p, q, op) = [p EXCEPT !.items[op.case] = x]
    BY <1>3 DEF Edit, CaseKinds, Renames
  <2> HIDE DEF x
  <2>3. Remembers([p EXCEPT !.items[op.case] = x], seals)
    BY <1>2, <2>1, CaseEditRemembers
  <2>4. QED
    BY <2>2, <2>3
<1>4. CASE op.kind \in ProjectKinds
  <2>1. \A action, id : Logged(p, q, action, id).items = p.items
    BY <1>2 DEF Logged, IsProject
  <2>2. \A action, id, archived :
          [Logged(p, q, action, id) EXCEPT !.archived = archived].items = p.items
    BY <1>2 DEF Logged, IsProject
  <2>3. CASE op.kind \in {"archive", "restore"}
    <3>1. Edit(p, q, op).items = p.items
      BY <2>2, <2>3 DEF Edit, CaseKinds, Renames
    <3>2. QED
      BY <3>1, SameItemsRemember
  <2>4. CASE op.kind \in Renames \cup {"profile"}
    <3>1. Edit(p, q, op).items = p.items
      BY <2>1, <2>4 DEF Edit, CaseKinds, Renames
    <3>2. QED
      BY <3>1, SameItemsRemember
  <2>5. CASE op.kind = "export"
    <3>1. RecordPacketExport(p, q, op.id).items = p.items
      BY <2>1 DEF RecordPacketExport
    <3>2. Edit(p, q, op) = RecordPacketExport(p, q, op.id)
      BY <2>5 DEF Edit, CaseKinds, Renames
    <3>3. QED
      BY <3>1, <3>2, SameItemsRemember
  <2>6. QED
    BY <1>4, <2>3, <2>4, <2>5 DEF ProjectKinds
<1>5. QED
  BY <1>1, <1>3, <1>4

-----------------------------------------------------------------------------
\* A run with a copy that holds every sealed event.
LEMMA CopyRemembers ==
  ASSUME NEW x, NEW seals, x.pc \notin Unloaded,
         x.pc \in Rebuilding => seals = {}, Remembers(x.mem, seals)
  PROVE  RunRemembers(x, seals)
  BY DEF RunRemembers

\* A run that will not save again.
LEMMA OverRemembers ==
  ASSUME NEW x, NEW seals, ~Goes(x)
  PROVE  RunRemembers(x, seals)
  BY DEF RunRemembers, Goes, Rebuilding

\* A free slot.
LEMMA IdleRemembers ==
  ASSUME NEW seals
  PROVE  RunRemembers(Idle, seals)
<1>1. ~Goes(Idle)
  BY DEF Goes, HasWork, Idle
<1>2. QED
  BY <1>1, OverRemembers

\* Any run, as long as nothing is sealed.
LEMMA NothingSealed ==
  ASSUME NEW x, x.pc \notin Unloaded, NEW seals, seals = {}
  PROVE  RunRemembers(x, seals)
  BY DEF RunRemembers, Remembers

\* One run moves, and saves nothing that forgets a sealed event.
LEMMA RunStepRemembers ==
  ASSUME RunInv, RunsRemember, NEW r \in Runs, NEW x, RunRemembers(x, sealed),
         run' = [run EXCEPT ![r] = x], sealed' = sealed,
         Present(store') => Remembers(store', sealed),
         Present(kept') => Remembers(kept', sealed)
  PROVE  RunsRemember'
<1>2. \A s \in Runs : RunRemembers(run'[s], sealed)
  BY DEF RunsRemember, RunInv
<1>3. QED
  BY <1>2 DEF RunsRemember

\* One run moves, and saves nothing.
LEMMA MoveRemembers ==
  ASSUME RunInv, RunsRemember, NEW r \in Runs, NEW x, RunRemembers(x, sealed),
         run' = [run EXCEPT ![r] = x], sealed' = sealed, UNCHANGED <<store, kept>>
  PROVE  RunsRemember'
<1>1. /\ Present(store') => Remembers(store', sealed)
      /\ Present(kept') => Remembers(kept', sealed)
  BY DEF RunsRemember
<1>2. QED
  BY <1>1, RunStepRemembers

\* Whatever a rejected save left behind holds what is sealed if the save did.
LEMMA RejectedRemembers ==
  ASSUME RunsRemember, NEW p, Present(p) => Remembers(p, sealed), Rejected(p)
  PROVE  /\ Present(store') => Remembers(store', sealed)
         /\ Present(kept') => Remembers(kept', sealed)
<1>1. ~Present(NoProject)
  BY DEF Present, NoProject
<1>2. QED
  BY <1>1 DEF Rejected, Answered, RunsRemember

\* A save, taken or rejected.
LEMMA SavesRemember ==
  ASSUME RunInv, RunsRemember, NEW r \in Runs, NEW mem, Remembers(mem, sealed),
         NEW next, RunRemembers(next, sealed), NEW thrown, RunRemembers(thrown, sealed),
         Saves(r, mem, next, thrown), sealed' = sealed
  PROVE  RunsRemember'
<1>1. CASE Answered(mem) /\ run' = [run EXCEPT ![r] = next]
  BY <1>1, RunStepRemembers DEF Answered
<1>2. CASE Rejected(mem) /\ run' = [run EXCEPT ![r] = thrown]
  BY <1>2, RejectedRemembers, RunStepRemembers
<1>3. QED
  BY <1>1, <1>2 DEF Saves

\* A load outside a try block, answered or rejected.
LEMMA LoadsRemember ==
  ASSUME RunInv, RunsRemember, NEW r \in Runs, run[r].pc \in Unloaded,
         NEW next, RunRemembers(next, sealed), Loads(r, next),
         UNCHANGED <<store, kept>>, sealed' = sealed
  PROVE  RunsRemember'
<1> DEFINE lost == [run[r] EXCEPT !.pc = "lost"]
<1>1. CASE run' = [run EXCEPT ![r] = next]
  BY <1>1, MoveRemembers
<1>2. CASE run' = [run EXCEPT ![r] = lost]
  <2>1. ~HasWork(run[r])
    BY DEF RunsRemember, RunRemembers
  <2>2. lost.pc = "lost" /\ lost.todo = run[r].todo /\ lost.work = run[r].work
    BY DEF RunInv, SoundRun, IsRun
  <2> HIDE DEF lost
  <2>3. ~Goes(lost)
    BY <2>1, <2>2 DEF Goes, HasWork
  <2>4. QED
    BY <1>2, <2>3, OverRemembers, MoveRemembers
<1>3. QED
  BY <1>1, <1>2 DEF Loads

\* A run that still goes, and has loaded, holds what is sealed.
LEMMA LoadedRemembers ==
  ASSUME RunsRemember, NEW r \in Runs, Goes(run[r]),
         run[r].pc \notin Unloaded
  PROVE  Remembers(run[r].mem, sealed)
  BY DEF RunsRemember, RunRemembers

\* A run on its way to reconciliation: nothing has been sealed yet.
LEMMA RebuildingRemembers ==
  ASSUME RunInv, RunsRemember, NEW r \in Runs, sealed' = sealed,
         \/ Announce(r) \/ Scan(r) \/ Report(r) \/ Compare(r) \/ StageThrows(r)
         \/ \E found \in SUBSET Cases : Reconcile(r, found)
  PROVE  RunsRemember'
<1>1. run[r].pc \in Rebuilding
  BY DEF Announce, Scan, Report, Compare, StageThrows, Reconcile, Rebuilding
<1>2. sealed = {}
  BY <1>1 DEF RunsRemember, RunRemembers
<1>3. \A p : Remembers(p, sealed)
  BY <1>2 DEF Remembers
<1>4. IsRun(run[r])
  BY DEF RunInv, SoundRun
<1>5. ASSUME NEW phase, NEW pc, pc \notin Unloaded, Progress(r, phase, pc)
      PROVE  RunsRemember'
  <2> DEFINE next == [run[r] EXCEPT !.mem.phase = phase, !.pc = pc]
             fail == [next EXCEPT !.pc = "failing"]
  <2>1. next.pc = pc /\ fail.pc = "failing"
    BY <1>4 DEF IsRun
  <2>2. Saves(r, next.mem, next, fail)
    BY <1>5 DEF Progress
  <2> HIDE DEF next, fail
  <2>3. RunRemembers(next, sealed) /\ RunRemembers(fail, sealed)
    BY <1>2, <1>5, <2>1, NothingSealed DEF Unloaded
  <2>4. QED
    BY <1>3, <2>2, <2>3, SavesRemember
<1>6. CASE Announce(r) \/ Report(r) \/ Compare(r)
  BY <1>5, <1>6 DEF Announce, Report, Compare, Unloaded
<1>7. ASSUME NEW pc \in {"report", "failing"}, run' = [run EXCEPT ![r].pc = pc],
             UNCHANGED <<store, kept>>
      PROVE  RunsRemember'
  <2> DEFINE x == [run[r] EXCEPT !.pc = pc]
  <2>1. run' = [run EXCEPT ![r] = x] /\ x.pc = pc
    BY <1>4, <1>7 DEF IsRun
  <2> HIDE DEF x
  <2>2. RunRemembers(x, sealed)
    BY <1>2, <2>1, NothingSealed DEF Unloaded
  <2>3. QED
    BY <1>7, <2>1, <2>2, MoveRemembers
<1>8. CASE Scan(r) \/ StageThrows(r)
  BY <1>7, <1>8 DEF Scan, StageThrows
<1>9. CASE \E found \in SUBSET Cases : Reconcile(r, found)
  <2>1. PICK found \in SUBSET Cases : Reconcile(r, found)
    BY <1>9
  <2> DEFINE next == [run[r] EXCEPT !.mem.items = [c \in found |-> NewCase],
                        !.todo = found,
                        !.pc = IF found = {} THEN "finish" ELSE "open"]
             fail == [next EXCEPT !.pc = "failing", !.todo = {}]
  <2>2. next.pc \in {"finish", "open"} /\ fail.pc = "failing"
    BY <1>4 DEF IsRun
  <2>3. Saves(r, next.mem, next, fail)
    BY <2>1 DEF Reconcile
  <2> HIDE DEF next, fail
  <2>4. RunRemembers(next, sealed) /\ RunRemembers(fail, sealed)
    BY <1>2, <2>2, NothingSealed DEF Unloaded
  <2>5. QED
    BY <1>3, <2>3, <2>4, SavesRemember
<1>10. QED
  BY <1>6, <1>8, <1>9

\* A load takes what is stored, and so what is sealed; a resumed run starts
\* over only if there is no case that could hold anything.
LEMMA LoadingRemembers ==
  ASSUME RunInv, RunsRemember, NEW r \in Runs, sealed' = sealed,
         Begin(r) \/ Resume(r)
  PROVE  RunsRemember'
<1> DEFINE owed == {c \in DOMAIN store.items : AwaitsResearch(store.items[c])}
           pc   == IF owed = {} THEN "finish" ELSE "open"
           new  == [run[r] EXCEPT !.mem = store, !.pc = "announce"]
           load == [run[r] EXCEPT !.mem = store, !.todo = owed, !.pc = pc]
           over == [run[r] EXCEPT !.pc = "queued"]
<1>1. /\ IsRun(run[r]) /\ run[r].pc \in Unloaded /\ ~HasWork(run[r])
      /\ run[r].pc = "queued" => sealed = {}
  BY DEF RunInv, SoundRun, Begin, Resume, Unloaded, RunsRemember, RunRemembers, Rebuilding
<1>2. Present(store) => Remembers(store, sealed)
  BY DEF RunsRemember
<1>3. new.pc = "announce" /\ new.mem = store
  BY <1>1 DEF IsRun
<1>4. load.pc \in {"finish", "open"} /\ load.mem = store
  BY <1>1 DEF IsRun
<1>5. over.pc = "queued" /\ over.todo = run[r].todo /\ over.work = run[r].work
  BY <1>1 DEF IsRun
<1>6. CASE Begin(r)
  <2>1. run[r].pc = "queued" /\ UNCHANGED <<store, kept>>
        /\ Loads(r, IF Present(store) THEN new ELSE Idle)
    BY <1>6 DEF Begin
  <2> HIDE DEF new
  <2>2. RunRemembers(new, sealed)
    BY <1>1, <1>3, <2>1, NothingSealed DEF Unloaded
  <2>3. QED
    BY <1>1, <2>1, <2>2, IdleRemembers, LoadsRemember
<1>7. CASE Resume(r)
  <2>1. UNCHANGED <<store, kept>>
        /\ Loads(r, IF ~Present(store) \/ store.phase \in Settled THEN Idle
                    ELSE IF DOMAIN store.items = {} THEN over ELSE load)
    BY <1>7 DEF Resume
  <2> HIDE DEF over, load
  <2>2. Present(store) /\ DOMAIN store.items = {} => RunRemembers(over, sealed)
    <3>1. Present(store) /\ DOMAIN store.items = {} => sealed = {}
      BY <1>2 DEF Remembers, RecordedIn
    <3>2. ~HasWork(over)
      BY <1>1, <1>5 DEF HasWork
    <3>3. QED
      BY <1>5, <3>1, <3>2 DEF RunRemembers, Unloaded
  <2>3. Present(store) => RunRemembers(load, sealed)
    BY <1>2, <1>4, CopyRemembers DEF Unloaded, Rebuilding
  <2>4. CASE ~Present(store) \/ store.phase \in Settled
    BY <1>1, <2>1, <2>4, IdleRemembers, LoadsRemember
  <2>5. CASE Present(store) /\ store.phase \notin Settled /\ DOMAIN store.items = {}
    BY <1>1, <2>1, <2>2, <2>5, LoadsRemember
  <2>6. CASE Present(store) /\ store.phase \notin Settled /\ DOMAIN store.items # {}
    BY <1>1, <2>1, <2>3, <2>6, LoadsRemember
  <2>7. QED
    BY <2>4, <2>5, <2>6
<1>8. QED
  BY <1>6, <1>7

\* The agent's disposition of a case.
LEMMA AgentSetsRemembers ==
  ASSUME NEW case \in Case, NEW status, NEW q, RecordedOn(case, q)
  PROVE  RecordedOn(AgentSets(case, status), q)
  BY DispositionRemembers DEF AgentSets

\* A copy in which the agent has set a case.
LEMMA AgentEditRemembers ==
  ASSUME NEW p, SoundProject(p), NEW seals, Remembers(p, seals), NEW c, NEW status
  PROVE  Remembers([p EXCEPT !.items[c] = AgentSets(@, status)], seals)
<1> DEFINE x == AgentSets(p.items[c], status)
<1>1. IsProject(p) /\ \A d \in DOMAIN p.items : p.items[d] \in Case
  BY ProjectFields DEF SoundProject
<1>2. ASSUME c \in DOMAIN p.items
      PROVE  \A q \in seals : RecordedOn(p.items[c], q) => RecordedOn(x, q)
  BY <1>1, <1>2, AgentSetsRemembers
<1> HIDE DEF x
<1>3. Remembers([p EXCEPT !.items[c] = x], seals)
  BY <1>1, <1>2, CaseEditRemembers
<1>4. QED
  BY <1>3 DEF x

\* The saves that open research, make a production ready, or fail it.
LEMMA PhaseRemembers ==
  ASSUME RunInv, RunsRemember, NEW r \in Runs, sealed' = sealed,
         OpenResearch(r) \/ Finish(r) \/ Fail(r)
  PROVE  RunsRemember'
<1>1. SoundProject(run[r].mem) /\ IsRun(run[r]) /\ IsProject(run[r].mem)
  BY DEF RunInv, SoundRun, SoundProject
<1>2. Remembers(run[r].mem, sealed)
  <2>1. Goes(run[r]) /\ run[r].pc \notin Unloaded
    BY DEF OpenResearch, Finish, Fail, Goes, Unloaded
  <2>2. QED
    BY <2>1, LoadedRemembers
<1>3. CASE OpenResearch(r)
  <2> DEFINE next == [run[r] EXCEPT !.mem.phase = "researching", !.pc = "research"]
             fail == [next EXCEPT !.pc = "failing", !.todo = {}]
  <2>1. /\ next.pc = "research" /\ fail.pc = "failing" /\ fail.mem = next.mem
        /\ next.mem.items = run[r].mem.items
    BY <1>1 DEF IsRun, IsProject
  <2>2. Saves(r, next.mem, next, fail)
    BY <1>3 DEF OpenResearch
  <2> HIDE DEF next, fail
  <2>3. Remembers(next.mem, sealed)
    BY <1>2, <2>1, SameItemsRemember
  <2>4. RunRemembers(next, sealed) /\ RunRemembers(fail, sealed)
    BY <2>1, <2>3, CopyRemembers DEF Unloaded, Rebuilding
  <2>5. QED
    BY <2>2, <2>3, <2>4, SavesRemember
<1>4. CASE Finish(r)
  <2> DEFINE mem  == [run[r].mem EXCEPT !.phase = "ready", !.revised = TRUE]
             fail == [run[r] EXCEPT !.mem = mem, !.pc = "failing"]
  <2>1. fail.pc = "failing" /\ fail.mem = mem /\ mem.items = run[r].mem.items
    BY <1>1 DEF IsRun, IsProject
  <2>2. Saves(r, mem, Idle, fail)
    BY <1>4 DEF Finish
  <2> HIDE DEF mem, fail
  <2>3. Remembers(mem, sealed)
    BY <1>2, <2>1, SameItemsRemember
  <2>4. RunRemembers(fail, sealed)
    BY <2>1, <2>3, CopyRemembers DEF Unloaded, Rebuilding
  <2>5. QED
    BY <2>2, <2>3, <2>4, IdleRemembers, SavesRemember
<1>5. CASE Fail(r)
  <2> DEFINE next == [run[r] EXCEPT !.mem.phase = "failed", !.pc = "over"]
             fail == [next EXCEPT !.pc = "lost"]
  <2>1. /\ next.pc = "over" /\ fail.pc = "lost" /\ fail.mem = next.mem
        /\ next.mem.items = run[r].mem.items
    BY <1>1 DEF IsRun, IsProject
  <2>2. Saves(r, next.mem, next, fail)
    BY <1>5 DEF Fail
  <2> HIDE DEF next, fail
  <2>3. Remembers(next.mem, sealed)
    BY <1>2, <2>1, SameItemsRemember
  <2>4. RunRemembers(next, sealed) /\ RunRemembers(fail, sealed)
    BY <2>1, <2>3, CopyRemembers DEF Unloaded, Rebuilding
  <2>5. QED
    BY <2>2, <2>3, <2>4, SavesRemember
<1>6. QED
  BY <1>3, <1>4, <1>5

\* A worker's turn, also in a run that failed around it.
LEMMA WorkerRemembers ==
  ASSUME RunInv, RunsRemember, NEW r \in Runs, sealed' = sealed, Research(r)
  PROVE  RunsRemember'
<1>1. IsRun(run[r]) /\ SoundProject(run[r].mem) /\ IsProject(run[r].mem)
  BY DEF RunInv, SoundRun, SoundProject
<1>2. PICK c \in Cases :
        \/ Take(r, c)
        \/ SearchReturns(r, c)
        \/ \E status : Conclude(r, c, status)
  BY DEF Research, DossierReturns, DeadlineExpires
<1>3. HasWork(run[r])
  BY <1>2 DEF HasWork, Take, SearchReturns, Conclude
<1>4. /\ run[r].pc \notin Unloaded
      /\ run[r].pc \in Rebuilding => sealed = {}
  BY <1>3 DEF RunsRemember, RunRemembers
<1>5. Remembers(run[r].mem, sealed)
  BY <1>3, <1>4, LoadedRemembers DEF Goes
<1>6. /\ Rejects(r) \notin Unloaded
      /\ Rejects(r) \in Rebuilding => sealed = {}
  BY <1>4 DEF Rejects, Unloaded, Rebuilding
<1>7. CASE Take(r, c)
  <2> DEFINE taken == [run[r] EXCEPT !.todo = @ \ {c}, !.work[c] = "search"]
             next  == [taken EXCEPT !.mem.items[c] = AgentSets(@, "researching")]
             fail  == [next EXCEPT !.work[c] = "dead", !.pc = Rejects(r)]
             mem   == [run[r].mem EXCEPT !.items[c] = AgentSets(@, "researching")]
  <2>1. taken.pc = run[r].pc /\ taken.mem = run[r].mem
    BY <1>1 DEF IsRun
  <2>2. /\ next.pc = run[r].pc /\ next.mem = mem
        /\ fail.pc = Rejects(r) /\ fail.mem = mem
    BY <1>1 DEF IsRun
  <2>3. \/ run' = [run EXCEPT ![r] = taken] /\ UNCHANGED <<store, kept>>
        \/ Saves(r, next.mem, next, fail)
    BY <1>7 DEF Take
  <2>4. Remembers(mem, sealed)
    BY <1>1, <1>5, AgentEditRemembers
  <2> HIDE DEF taken, next, fail, mem
  <2>5. RunRemembers(taken, sealed)
    BY <1>4, <1>5, <2>1, CopyRemembers
  <2>6. RunRemembers(next, sealed) /\ RunRemembers(fail, sealed)
    BY <1>4, <1>6, <2>2, <2>4, CopyRemembers
  <2>7. QED
    BY <2>2, <2>3, <2>4, <2>5, <2>6, MoveRemembers, SavesRemember
<1>8. CASE SearchReturns(r, c)
  <2> DEFINE x == [run[r] EXCEPT !.work[c] = "assemble"]
  <2>1. /\ run' = [run EXCEPT ![r] = x] /\ UNCHANGED <<store, kept>>
        /\ x.pc = run[r].pc /\ x.mem = run[r].mem
    BY <1>1, <1>8 DEF SearchReturns, IsRun
  <2> HIDE DEF x
  <2>2. RunRemembers(x, sealed)
    BY <1>4, <1>5, <2>1, CopyRemembers
  <2>3. QED
    BY <2>1, <2>2, MoveRemembers
<1>9. CASE \E status : Conclude(r, c, status)
  <2>1. PICK status : Conclude(r, c, status)
    BY <1>9
  <2> DEFINE next == [run[r] EXCEPT !.work[c] = "free",
                        !.mem.items[c] = AgentSets(@, status)]
             fail == [next EXCEPT !.work[c] = "dead", !.pc = Rejects(r)]
             mem  == [run[r].mem EXCEPT !.items[c] = AgentSets(@, status)]
  <2>2. /\ next.pc = run[r].pc /\ next.mem = mem
        /\ fail.pc = Rejects(r) /\ fail.mem = mem
    BY <1>1 DEF IsRun
  <2>3. Saves(r, next.mem, next, fail)
    BY <2>1 DEF Conclude
  <2>4. Remembers(mem, sealed)
    BY <1>1, <1>5, AgentEditRemembers
  <2> HIDE DEF next, fail, mem
  <2>5. RunRemembers(next, sealed) /\ RunRemembers(fail, sealed)
    BY <1>4, <1>6, <2>2, <2>4, CopyRemembers
  <2>6. QED
    BY <2>2, <2>3, <2>4, <2>5, SavesRemember
<1>10. QED
  BY <1>2, <1>7, <1>8, <1>9

\* Every step of a run and of its workers.
LEMMA StepRemembers ==
  ASSUME RunInv, RunsRemember, NEW r \in Runs, sealed' = sealed, Step(r)
  PROVE  RunsRemember'
  BY LoadingRemembers, RebuildingRemembers, PhaseRemembers, WorkerRemembers
     DEF Step, Orchestrate, Stage, Proceed

\* recoverInterrupted takes a free slot.
LEMMA RecoverRemembers ==
  ASSUME RunInv, RunsRemember, NEW r \in Runs, sealed' = sealed, Recover(r)
  PROVE  RunsRemember'
<1> DEFINE again == [run[r] EXCEPT !.pc = "resuming"]
<1>1. /\ IsRun(run[r]) /\ run[r].pc = "off" /\ ~HasWork(run[r])
      /\ RunRemembers(run[r], sealed)
  BY DEF RunInv, SoundRun, Recover, RunsRemember, RunRemembers, Unloaded
<1>2. again.pc = "resuming" /\ again.todo = run[r].todo /\ again.work = run[r].work
  BY <1>1 DEF IsRun
<1>3. UNCHANGED <<store, kept>> /\ \E x \in {again, run[r]} : Loads(r, x)
  BY DEF Recover
<1> HIDE DEF again
<1>4. RunRemembers(again, sealed)
  BY <1>1, <1>2 DEF RunRemembers, HasWork, Unloaded, Rebuilding
<1>5. run[r].pc \in Unloaded
  BY <1>1 DEF Unloaded
<1>6. QED
  BY <1>1, <1>3, <1>4, <1>5, LoadsRemember

-----------------------------------------------------------------------------
\* A handler that answered holds no copy.
LEMMA DoneHoldsNothing == NoRequest("done").pc \notin {"loaded", "watching"}
  BY DEF NoRequest

\* A copy is loaded, kept while a monitor is opened, or given up.
LEMMA HandlerRemembers ==
  ASSUME IInv, CopiesRemember, NEW q \in Requests,
         (\E op \in Ops : Load(q, op)) \/ Watch(q) \/ Refuse(q)
  PROVE  CopiesRemember'
<1>1. UNCHANGED <<store, kept, run, sealed>>
  BY DEF Load, Watch, Refuse, avars
<1>2. RunsRemember'
  BY <1>1 DEF CopiesRemember, RunsRemember
<1>3. PICK x : /\ req' = [req EXCEPT ![q] = x]
               /\ x.pc \in {"loaded", "watching"} => Remembers(x.mem, sealed)
  <2>1. CASE \E op \in Ops : Load(q, op)
    <3>1. PICK op \in Ops : Load(q, op)
      BY <2>1
    <3>2. CASE Present(store)
      <4> DEFINE x == [pc |-> "loaded", op |-> op, mem |-> store]
      <4>1. x.mem = store
        OBVIOUS
      <4>2. req' = [req EXCEPT ![q] = x]
        BY <3>1, <3>2 DEF Load
      <4> HIDE DEF x
      <4>3. QED
        BY <3>2, <4>1, <4>2 DEF CopiesRemember, RunsRemember
    <3>3. CASE ~Present(store)
      <4>1. req' = [req EXCEPT ![q] = NoRequest("done")]
        BY <3>1, <3>3 DEF Load
      <4>2. QED
        BY <4>1, DoneHoldsNothing
    <3>4. QED
      BY <3>2, <3>3
  <2>2. CASE Watch(q)
    <3> DEFINE x == [req[q] EXCEPT !.pc = "watching"]
    <3>1. x.mem = req[q].mem
      BY DEF IInv, SoundRequest
    <3>2. req' = [req EXCEPT ![q] = x] /\ Holding(q)
      BY <2>2 DEF Watch, Holding
    <3> HIDE DEF x
    <3>3. QED
      BY <3>1, <3>2 DEF CopiesRemember
  <2>3. CASE Refuse(q)
    <3>1. req' = [req EXCEPT ![q] = NoRequest("done")]
      BY <2>3 DEF Refuse
    <3>2. QED
      BY <3>1, DoneHoldsNothing
  <2>4. QED
    BY <2>1, <2>2, <2>3
<1>4. ASSUME NEW s \in Requests, Holding(s)' PROVE Remembers(req'[s].mem, sealed)
  BY <1>3, <1>4 DEF IInv, Holding, CopiesRemember
<1>5. QED
  BY <1>1, <1>2, <1>4 DEF CopiesRemember

\* What a handler saves holds what was sealed before, unless it removes the
\* document.
LEMMA SavedRemembers ==
  ASSUME IInv, CopiesRemember, NEW q \in Requests, Saving(q)
  PROVE  LET p == Edit(req[q].mem, q, req[q].op)
         IN  /\ Present(p) => Remembers(p, sealed)
             /\ req[q].op.kind # "delete" => Remembers(p, sealed)
<1> DEFINE op == req[q].op
           p  == req[q].mem
<1>1. SoundProject(p) /\ op \in Op /\ Accepts(p, q, op) /\ Remembers(p, sealed)
  BY DEF IInv, SoundRequest, Saving, CopiesRemember, Holding
<1>2. CASE op.kind = "delete"
  <2>1. Edit(p, q, op) = NoProject
    BY <1>2 DEF Edit, CaseKinds, Renames
  <2>2. QED
    BY <1>2, <2>1 DEF Present, NoProject
<1>3. CASE op.kind # "delete"
  BY <1>1, <1>3, EditRemembers
<1>4. QED
  BY <1>2, <1>3

\* A save that is answered is the only copy when something is sealed by it.
LEMMA CommitRemembers ==
  ASSUME IInv, CopiesRemember, NEW q \in Requests, Commit(q)
  PROVE  CopiesRemember'
<1> DEFINE op == req[q].op
           p  == req[q].mem
<1>1. op \in Op
  BY DEF IInv, SoundRequest, Commit, Saving
<1>2. store' = Edit(p, q, op) /\ kept' = store' /\ run' = run
  BY DEF Commit, Answered
<1>3. CASE op.kind = "delete"
  <2>1. store' = NoProject
    BY <1>2, <1>3 DEF Edit, CaseKinds, Renames
  <2>2. ~Present(store') /\ ~RecordedIn(store', q)
    BY <2>1 DEF Present, NoProject, RecordedIn
  <2>3. sealed' = sealed
    BY <2>2 DEF Commit
  <2>4. req' = [req EXCEPT ![q] = NoRequest("done")]
    BY <1>3 DEF Commit, Rest
  <2>5. RunsRemember'
    BY <1>2, <2>2, <2>3 DEF CopiesRemember, RunsRemember
  <2>6. ASSUME NEW s \in Requests, Holding(s)' PROVE Remembers(req'[s].mem, sealed)
    BY <2>4, <2>6 DEF IInv, Holding, CopiesRemember, NoRequest
  <2>7. QED
    BY <2>3, <2>5, <2>6 DEF CopiesRemember
<1>4. CASE op.kind # "delete"
  <2>1. Remembers(store', sealed)
    BY <1>2, <1>4, SavedRemembers DEF Commit
  <2>2. Remembers(store', sealed')
    BY <2>1 DEF Commit, Remembers
  <2>3. PICK x : /\ req' = [req EXCEPT ![q] = x]
                 /\ x.pc \in {"loaded", "watching"} => x.mem = store'
    <3>1. CASE Rest(op) = NoOp
      <4>1. req' = [req EXCEPT ![q] = NoRequest("done")]
        BY <3>1 DEF Commit
      <4>2. QED
        BY <4>1, DoneHoldsNothing
    <3>2. CASE Rest(op) # NoOp
      <4> DEFINE x == [req[q] EXCEPT !.op = Rest(op), !.mem = store']
      <4>1. x.mem = store'
        BY DEF IInv, SoundRequest
      <4>2. req' = [req EXCEPT ![q] = x]
        BY <3>2 DEF Commit
      <4> HIDE DEF x
      <4>3. QED
        BY <4>1, <4>2
    <3>3. QED
      BY <3>1, <3>2
  <2>4. \A s \in Requests \ {q} : Holding(s)' => Holding(s) /\ req'[s].mem = req[s].mem
    BY <2>3 DEF IInv, Holding
  <2>5. Holding(q)' => Remembers(req'[q].mem, sealed')
    BY <2>2, <2>3 DEF IInv, Holding
  <2>6. CASE sealed' = sealed
    <3>1. RunsRemember'
      BY <1>2, <2>2, <2>6 DEF CopiesRemember, RunsRemember
    <3>2. \A s \in Requests \ {q} : Holding(s)' => Remembers(req'[s].mem, sealed')
      BY <2>4, <2>6 DEF CopiesRemember
    <3>3. QED
      BY <2>5, <3>1, <3>2 DEF CopiesRemember
  <2>7. CASE Alone(q)
    <3>1. \A r \in Runs : ~Goes(run[r])
      BY <2>7 DEF Alone, Active, InFlight, Busy, Goes, HasWork
    <3>2. RunsRemember'
      BY <1>2, <2>2, <3>1, OverRemembers DEF RunsRemember
    <3>3. \A s \in Requests \ {q} : ~Holding(s)'
      BY <2>4, <2>7 DEF Alone
    <3>4. QED
      BY <2>5, <3>2, <3>3 DEF CopiesRemember
  <2>8. QED
    BY <2>6, <2>7 DEF Commit
<1>5. QED
  BY <1>3, <1>4

\* A rejected save leaves nothing behind that forgets what is sealed.
LEMMA CommitRejectsRemembers ==
  ASSUME IInv, CopiesRemember, NEW q \in Requests, CommitRejects(q)
  PROVE  CopiesRemember'
<1>1. /\ req' = [req EXCEPT ![q] = NoRequest("done")]
      /\ UNCHANGED <<run, sealed>>
  BY DEF CommitRejects
<1>2. /\ Present(store') => Remembers(store', sealed)
      /\ Present(kept') => Remembers(kept', sealed)
  BY SavedRemembers, RejectedRemembers DEF CommitRejects, CopiesRemember
<1>3. ASSUME NEW s \in Requests, Holding(s)' PROVE Remembers(req'[s].mem, sealed)
  BY <1>1, <1>3, DoneHoldsNothing DEF IInv, Holding, CopiesRemember
<1>4. QED
  BY <1>1, <1>2, <1>3 DEF CopiesRemember, RunsRemember

\* A creation owes nothing to what was sealed before it.
LEMMA CreateRemembers ==
  ASSUME IInv, CopiesRemember, NEW r \in Runs, CreateRecord(r)
  PROVE  CopiesRemember'
<1>0. PICK pc \in {"queued", "lost"} : run' = [run EXCEPT ![r].pc = pc]
  BY DEF CreateRecord, Create
<1> DEFINE x == [run[r] EXCEPT !.pc = pc]
<1>1. sealed' = {} /\ run' = [run EXCEPT ![r] = x] /\ req' = req
  BY <1>0 DEF CreateRecord
<1>2. \A p : Remembers(p, sealed')
  BY <1>1 DEF Remembers
<1>3. /\ IsRun(run[r]) /\ run[r].pc = "off" /\ ~HasWork(run[r])
      /\ \A s \in Runs : run[s].pc \in Unloaded => ~HasWork(run[s])
  BY DEF IInv, RunInv, SoundRun, CreateRecord, Create, CopiesRemember, RunsRemember,
         RunRemembers, Unloaded
<1>4. x.todo = run[r].todo /\ x.work = run[r].work
  BY <1>3 DEF IsRun
<1> HIDE DEF x
<1>5. ~HasWork(x)
  BY <1>3, <1>4 DEF HasWork
<1>6. \A s \in Runs : run'[s] = x \/ run'[s] = run[s]
  BY <1>1 DEF IInv, RunInv
<1>7. \A s \in Runs : RunRemembers(run'[s], sealed')
  BY <1>1, <1>2, <1>3, <1>5, <1>6 DEF RunRemembers
<1>8. QED
  BY <1>2, <1>7 DEF CopiesRemember, RunsRemember

\* A crash leaves the stored copy only.
LEMMA CrashRemembers ==
  ASSUME IInv, CopiesRemember, CrashServer
  PROVE  CopiesRemember'
<1>1. /\ run' = [r \in Runs |-> Idle] /\ store' = kept /\ UNCHANGED <<kept, sealed>>
      /\ req' = [q \in Requests |-> IF Holding(q) THEN NoRequest("done") ELSE req[q]]
  BY DEF CrashServer, Crash
<1>2. RunsRemember'
  BY <1>1, IdleRemembers DEF CopiesRemember, RunsRemember
<1>3. \A q \in Requests : ~Holding(q)'
  BY <1>1 DEF Holding, NoRequest
<1>4. QED
  BY <1>2, <1>3 DEF CopiesRemember

\* Every step leaves what is sealed in every copy that can still be saved.
LEMMA NextRemembers == IInv /\ CopiesRemember /\ [RecordNext]_vars => CopiesRemember'
<1> SUFFICES ASSUME IInv, CopiesRemember, [RecordNext]_vars PROVE CopiesRemember'
  OBVIOUS
<1>1. CASE \E r \in Runs : CreateRecord(r)
  BY <1>1, CreateRemembers
<1>2. CASE CrashServer
  BY <1>2, CrashRemembers
<1>3. CASE Background
  <2>1. req' = req /\ sealed' = sealed
    BY <1>3 DEF Background
  <2>2. RunInv /\ RunsRemember
    BY DEF IInv, CopiesRemember
  <2>3. RunsRemember'
    BY <1>3, <2>1, <2>2, StepRemembers, RecoverRemembers
       DEF Background, Restart, RunsRemember
  <2>4. QED
    BY <2>1, <2>3 DEF CopiesRemember, Holding
<1>4. CASE \E q \in Requests : Handle(q)
  BY <1>4, HandlerRemembers, CommitRemembers, CommitRejectsRemembers DEF Handle
<1>5. CASE UNCHANGED vars
  BY <1>5 DEF vars, avars, CopiesRemember, RunsRemember, Holding
<1>6. QED
  BY <1>1, <1>2, <1>3, <1>4, <1>5 DEF RecordNext

\* What a handler recorded while nobody else held a copy is never lost again,
\* short of deleting or re-creating the production: no copy that could still
\* be saved lacks it.
THEOREM SealedSurvives == RecordSpec => []SealedDecisionsSurvive
<1>1. RecordInit => CopiesRemember
  <2> SUFFICES ASSUME RecordInit PROVE CopiesRemember
    OBVIOUS
  <2>1. \A p : Remembers(p, sealed)
    BY DEF RecordInit, Remembers
  <2>2. \A r \in Runs : RunRemembers(run[r], sealed)
    BY IdleRemembers DEF RecordInit, Init
  <2>3. QED
    BY <2>1, <2>2 DEF CopiesRemember, RunsRemember
<1>2. CopiesRemember => SealedDecisionsSurvive
  BY DEF CopiesRemember, RunsRemember, Remembers, SealedDecisionsSurvive
<1>3. QED
  BY <1>1, <1>2, NextRemembers, Invariance, PTL DEF RecordSpec

-----------------------------------------------------------------------------
(***************************************************************************)
(* The analysis                                                            *)
(*                                                                         *)
(* Each step of a run keeps RunInv.  What is left is why a ready production*)
(* owes no research and why nobody's work is undone: it takes an invariant *)
(* of each run by itself (Orderly) and, while no two runs overlap, one of  *)
(* the run against what is read (Ahead) and of what is read against what   *)
(* is kept (Unshared).                                                     *)
(***************************************************************************)
Untouched(p)  == \A c \in DOMAIN p.items : ~HasHumanDecision(p.items[c])
AllSettled(p) == \A c \in DOMAIN p.items : ~AwaitsResearch(p.items[c])

\* A document as the runs save it.
Told(p) == Untouched(p) /\ (p.phase = "ready" => AllSettled(p))

\* No case waits for a worker and no worker has one.
Quiet(todo, work) == todo = {} /\ \A c \in Cases : work[c] = "free"

Early == {"off", "queued", "resuming", "announce", "scan", "report",
          "compare", "reconcile"}

\* Between the first save of the try block and the last.
Midway == {"scan", "report", "compare", "reconcile", "open", "research"}

\* Where a run is says what its copy, its list and its workers are like.
OrderlyAs(pc, mem, todo, work) ==
  /\ Untouched(mem)
  /\ mem.phase = "ready" => AllSettled(mem) /\ Quiet(todo, work)
  /\ pc \in Early => Quiet(todo, work)
  /\ pc = "finish" => AllSettled(mem) /\ Quiet(todo, work)
  /\ pc = "open" => \A c \in Cases : work[c] = "free"
  /\ \A c \in todo : work[c] = "free"
  /\ pc \in {"open", "research"} =>
       \A c \in DOMAIN mem.items :
         AwaitsResearch(mem.items[c]) => c \in todo \/ work[c] \in {"search", "assemble"}
  /\ \A c \in DOMAIN mem.items :
       ~AwaitsResearch(mem.items[c]) => c \notin todo /\ work[c] \notin {"search", "assemble"}
  /\ pc \in Midway => mem.phase \notin Settled
  /\ pc = "failing" => mem.phase # "failed"
  /\ pc = "over" => mem.phase = "failed"
  /\ pc = "lost" => mem.phase = "failed" \/ Quiet(todo, work)

Orderly(x) == OrderlyAs(x.pc, x.mem, x.todo, x.work)

\* InFlight and Active, of the run rather than of its slot.
Flies(x) == x.pc \notin {"off", "over", "lost"}
Works(x) == Flies(x) \/ x.todo # {} \/ \E c \in Cases : x.work[c] \in {"search", "assemble"}

\* Everything p has settled is in m as it is.
Kept(p, m) ==
  \A c \in DOMAIN p.items :
    /\ c \in DOMAIN m.items
    /\ ~AwaitsResearch(p.items[c]) => m.items[c].status = p.items[c].status

Fresh == {"queued", "announce", "scan", "report", "compare", "reconcile"}
Later == {"open", "research", "finish", "failing", "over", "lost"}

\* What the only run at work knows of the stored document.
Ahead(p, x) ==
  /\ x.pc \in Fresh => DOMAIN p.items = {}
  /\ x.pc \in Fresh \ {"queued"} => DOMAIN x.mem.items = {}
  /\ x.pc \in Later => Kept(p, x.mem)

Unshared ==
  lone =>
    /\ \A r, s \in Runs : Works(run[r]) /\ Works(run[s]) => r = s
    /\ \A r \in Runs : Flies(run[r]) => store.phase # "failed"
    /\ \A r \in Runs : Works(run[r]) => Ahead(store, run[r])
    /\ Kept(kept, store)
    /\ kept.phase = "failed" => store.phase = "failed"

Attended ==
  Present(store) /\ store.phase \notin Settled /\ server = "up" =>
    \E r \in Runs : run[r].pc \notin {"off", "over"}

Steady ==
  /\ Told(store) /\ Told(kept)
  /\ \A r \in Runs : Orderly(run[r])
  /\ Attended
  /\ Unshared

\* The inductive invariant.
AInv == RunInv /\ Steady

\* What a step may not do to the document that is kept.
Keeps ==
  lone /\ kept'.phase \notin {"created", "absent"} =>
    /\ Kept(kept, kept')
    /\ kept.phase = "failed" => kept'.phase = "failed"

-----------------------------------------------------------------------------
(***************************************************************************)
(* Steps in general                                                        *)
(***************************************************************************)

\* A slot is active exactly if its run works.
LEMMA ActiveWorks == \A r \in Runs : Active(r) <=> Works(run[r])
  BY DEF Active, Works, InFlight, Flies, Busy

\* What is settled in one document stays so in a third by way of a second.
LEMMA KeptOn ==
  ASSUME NEW p, NEW m, NEW n, Kept(p, m), Kept(m, n)
  PROVE  Kept(p, n)
  BY DEF Kept, AwaitsResearch

\* Nothing is settled where there is no document.
LEMMA NothingKept ==
  /\ NoProject.phase = "absent" /\ ~Present(NoProject) /\ Told(NoProject)
  /\ \A p : Kept(NoProject, p) /\ Kept(p, p)
  BY DEF NoProject, Present, Told, Untouched, Kept

\* Only r is at work, and goes on as x.
LEMMA OneSteady ==
  ASSUME RunInv, Steady, NEW r \in Runs, NEW x, run' = [run EXCEPT ![r] = x],
         UNCHANGED <<server, lone>>, Works(run[r]), Orderly(x),
         Told(store'), Told(kept'),
         \/ Present(store') /\ store'.phase \notin Settled => x.pc \notin {"off", "over"}
         \/ store' = store /\ (run[r].pc \notin {"off", "over"} => x.pc \notin {"off", "over"}),
         lone => /\ Flies(x) => store'.phase # "failed"
                 /\ Ahead(store', x) /\ Kept(kept', store')
                 /\ kept'.phase = "failed" => store'.phase = "failed"
  PROVE  Steady'
<1>1. run = [s \in Runs |-> run[s]]
  BY DEF RunInv
<1>2. run'[r] = x /\ \A s \in Runs \ {r} : run'[s] = run[s]
  BY <1>1
<1>3. \A s \in Runs : Orderly(run'[s])
  BY <1>2 DEF Steady
<1>4. Attended'
  <2>1. CASE Present(store') /\ store'.phase \notin Settled => x.pc \notin {"off", "over"}
    BY <1>2, <2>1 DEF Attended
  <2>2. CASE /\ store' = store
             /\ run[r].pc \notin {"off", "over"} => x.pc \notin {"off", "over"}
    BY <1>2, <2>2 DEF Attended, Steady
  <2> QED BY <2>1, <2>2
<1>5. Unshared'
  <2>1. SUFFICES ASSUME lone
                 PROVE  /\ \A s \in Runs : Works(run'[s]) => s = r
                        /\ \A s \in Runs : Flies(run'[s]) => store'.phase # "failed"
                        /\ \A s \in Runs : Works(run'[s]) => Ahead(store', run'[s])
    BY DEF Unshared
  <2>2. \A s \in Runs : Works(run'[s]) => s = r
    BY <1>2, <2>1 DEF Steady, Unshared
  <2>3. \A s \in Runs : Flies(run'[s]) => Works(run'[s])
    BY DEF Works
  <2> QED BY <1>2, <2>1, <2>2, <2>3
<1> QED
  BY <1>3, <1>4, <1>5 DEF Steady

\* A save, taken or rejected, of a run that is at work.
LEMMA SaveSteady ==
  ASSUME RunInv, Steady, NEW r \in Runs, NEW mem, NEW next, NEW thrown,
         Saves(r, mem, next, thrown), Works(run[r]),
         Told(mem), Orderly(next), Orderly(thrown),
         Present(mem) /\ mem.phase \notin Settled =>
           next.pc \notin {"off", "over"} /\ thrown.pc \notin {"off", "over"},
         run[r].pc \notin {"off", "over"} => thrown.pc \notin {"off", "over"},
         Flies(next) => mem.phase # "failed",
         Flies(thrown) => Flies(run[r]) /\ mem.phase # "failed",
         lone => /\ Ahead(mem, next) /\ Ahead(mem, thrown) /\ Ahead(store, thrown)
                 /\ Kept(store, mem)
                 /\ store.phase = "failed" => mem.phase = "failed"
  PROVE  Steady' /\ Keeps
<1>1. UNCHANGED <<server, lone>> /\ Told(store) /\ Told(kept)
  BY DEF Saves, Steady
<1>2. lone => /\ Kept(kept, store) /\ Kept(kept, mem)
              /\ kept.phase = "failed" => store.phase = "failed" /\ mem.phase = "failed"
              /\ Flies(run[r]) => store.phase # "failed"
  BY KeptOn DEF Steady, Unshared
<1>3. \A p : Kept(p, p)
  BY NothingKept
<1>4. kept' = mem \/ kept' = kept \/ kept' = NoProject
  BY DEF Saves, Answered, Rejected
<1>5. Keeps
  BY <1>2, <1>3, <1>4, NothingKept DEF Keeps
<1>6. CASE Answered(mem) /\ run' = [run EXCEPT ![r] = next]
  BY <1>1, <1>3, <1>5, <1>6, OneSteady DEF Answered
<1>7. CASE UNCHANGED <<store, kept>> /\ run' = [run EXCEPT ![r] = thrown]
  BY <1>1, <1>2, <1>5, <1>7, OneSteady
<1>8. CASE /\ store' = mem /\ kept' \in {mem, kept}
           /\ run' = [run EXCEPT ![r] = thrown]
  BY <1>1, <1>2, <1>3, <1>5, <1>8, OneSteady
<1>9. CASE Answered(NoProject) /\ run' = [run EXCEPT ![r] = thrown]
  <2>1. lone => Ahead(NoProject, thrown)
    BY NothingKept DEF Ahead, NoProject
  <2>2. QED
    BY <1>1, <1>3, <1>5, <1>9, <2>1, NothingKept, OneSteady DEF Answered
<1> QED
  BY <1>6, <1>7, <1>8, <1>9 DEF Saves, Rejected

\* A step of one run that saves nothing.
LEMMA LocalSteady ==
  ASSUME RunInv, Steady, NEW r \in Runs, NEW x, run' = [run EXCEPT ![r] = x],
         UNCHANGED <<store, kept, server, lone>>, Orderly(x),
         Present(store) /\ store.phase \notin Settled =>
           (run[r].pc \notin {"off", "over"} => x.pc \notin {"off", "over"}),
         Works(x) => Works(run[r]), Flies(x) => Flies(run[r]),
         lone /\ Works(x) => Ahead(store, x)
  PROVE  Steady' /\ Keeps
<1>1. run = [s \in Runs |-> run[s]]
  BY DEF RunInv
<1>2. run'[r] = x /\ \A s \in Runs \ {r} : run'[s] = run[s]
  BY <1>1
<1>3. Told(store') /\ Told(kept') /\ \A s \in Runs : Orderly(run'[s])
  BY <1>2 DEF Steady
<1>4. Attended'
  BY <1>2 DEF Attended, Steady
<1>5. Unshared'
  BY <1>2 DEF Unshared, Steady
<1>6. Keeps
  BY DEF Keeps, Kept
<1> QED
  BY <1>3, <1>4, <1>5, <1>6 DEF Steady

-----------------------------------------------------------------------------
(***************************************************************************)
(* The documents and runs that the steps make                              *)
(***************************************************************************)

\* What the pipeline does to a case nobody has touched.
LEMMA AgentMoves ==
  ASSUME NEW case \in Case, ~HasHumanDecision(case),
         NEW status \in {"researching", "evidence_ready", "unresolved"}
  PROVE  /\ ~HasHumanDecision(AgentSets(case, status))
         /\ AgentSets(case, status).status = status
<1> DEFINE change == [by |-> Pipeline, actor |-> "agent", status |-> status,
                      rationale |-> TRUE, docs |-> {}]
           e == [by |-> Pipeline, actor |-> "agent", action |-> "status_change",
                 from |-> case.status, to |-> status, docs |-> {}]
           trail == Append(case.trail, e)
<1>1. /\ case.trail \in Seq(Event) /\ case.status \in Statuses
      /\ status \in Statuses
  BY DEF Case, Statuses
<1>2. e \in Event /\ e.actor = "agent"
  BY <1>1 DEF Event, Actors, Machines, Actions
<1> HIDE DEF e
<1>3. /\ trail \in Seq(Event) /\ Len(case.trail) \in Nat /\ Len(trail) = Len(case.trail) + 1
      /\ trail[Len(case.trail) + 1] = e
      /\ \A i \in 1 .. Len(case.trail) : trail[i] = case.trail[i]
  BY <1>1, <1>2, AppendEvent
<1>4. AgentSets(case, status) = ApplyDisposition(case, change)
  BY DEF AgentSets
<1>5. ApplyDisposition(case, change) = Record(case, change)
  BY DEF ApplyDisposition, Muted
<1>6. Record(case, change) = Moved(case, status, trail)
  BY DEF Record, Moved, e
<1> HIDE DEF trail, change
<1>7. /\ AgentSets(case, status).trail = trail
      /\ AgentSets(case, status).status = status
  BY <1>1, <1>3, <1>4, <1>5, <1>6, MovedFields
<1>8. ~HasHumanDecision(AgentSets(case, status))
  <2>1. SUFFICES ASSUME NEW i \in 1 .. Len(trail), trail[i].actor \in Humans PROVE FALSE
    BY <1>7 DEF HasHumanDecision
  <2>2. CASE i \in 1 .. Len(case.trail)
    BY <1>3, <2>1, <2>2 DEF HasHumanDecision
  <2>3. CASE i = Len(case.trail) + 1
    BY <1>2, <1>3, <2>1, <2>3 DEF Humans
  <2> QED BY <1>3, <2>2, <2>3
<1> QED
  BY <1>7, <1>8

\* The fields of a run's record.
LEMMA RunFields ==
  ASSUME NEW x, SoundRun(x)
  PROVE  /\ x \in [pc : Labels, mem : {x.mem}, todo : SUBSET Cases,
                   work : [Cases -> WorkStates]]
         /\ SoundProject(x.mem) /\ IsProject(x.mem)
         /\ x.mem.items \in [DOMAIN x.mem.items -> Case]
  BY ProjectFields DEF SoundRun, IsRun, SoundProject

\* A run without workers.
LEMMA QuietOrderly ==
  ASSUME NEW x, SoundRun(x), Untouched(x.mem), Quiet(x.todo, x.work),
         x.mem.phase = "ready" \/ x.pc = "finish" => AllSettled(x.mem),
         x.pc \notin {"open", "research"},
         x.pc \in Midway => x.mem.phase \notin Settled,
         x.pc = "failing" => x.mem.phase # "failed",
         x.pc = "over" => x.mem.phase = "failed"
  PROVE  Orderly(x)
<1>1. DOMAIN x.mem.items \subseteq Cases
  BY ProjectFields, RunFields
<1> QED
  BY <1>1 DEF Orderly, OrderlyAs, Quiet

\* A phase leaves the cases alone.
LEMMA PhaseFields ==
  ASSUME NEW p, SoundProject(p), NEW phase
  PROVE  /\ [p EXCEPT !.phase = phase].phase = phase
         /\ [p EXCEPT !.phase = phase].items = p.items
         /\ [p EXCEPT !.phase = phase, !.revised = TRUE].phase = phase
         /\ [p EXCEPT !.phase = phase, !.revised = TRUE].items = p.items
  BY DEF SoundProject, IsProject

\* A slot nobody uses.
LEMMA IdleOrderly == Orderly(Idle) /\ ~Works(Idle)
<1>1. /\ Idle.pc = "off" /\ Idle.mem = NoProject /\ Idle.todo = {}
      /\ \A c \in Cases : Idle.work[c] = "free"
  BY DEF Idle
<1>2. NoProject.phase = "absent" /\ DOMAIN NoProject.items = {}
  BY DEF NoProject
<1>3. Orderly(Idle)
  BY <1>1, <1>2 DEF Orderly, OrderlyAs, Untouched, AllSettled, Quiet, Settled
<1> QED
  BY <1>1, <1>3 DEF Works, Flies

-----------------------------------------------------------------------------
(***************************************************************************)
(* The actions                                                             *)
(***************************************************************************)

\* #progress, from a program counter before reconciliation.
LEMMA ProgressSteady ==
  ASSUME RunInv, Steady, NEW r \in Runs, NEW phase \in {"scanning", "reconciling"},
         NEW pc \in {"scan", "compare", "reconcile"},
         run[r].pc \in {"announce", "report", "compare"}, Progress(r, phase, pc)
  PROVE  Steady' /\ Keeps
<1> DEFINE x    == run[r]
           mem  == [x.mem EXCEPT !.phase = phase]
           next == [x EXCEPT !.mem = mem, !.pc = pc]
           fail == [next EXCEPT !.pc = "failing"]
<1>1. SoundRun(x) /\ Orderly(x) /\ x.pc \in Early
  BY DEF RunInv, Steady, Early
<1>2. Saves(r, next.mem, next, fail)
  BY DEF Progress
<1>3. mem.phase = phase /\ mem.items = x.mem.items
  BY <1>1, RunFields, PhaseFields
<1>4. Untouched(mem) /\ Quiet(x.todo, x.work) /\ Told(mem)
  BY <1>1, <1>3 DEF Orderly, OrderlyAs, Untouched, Told
<1>4a. SoundProject(mem)
  BY <1>1, RunFields, PhaseSound DEF Phases
<1> HIDE DEF mem
<1>4b. SoundRun(next) /\ SoundRun(fail)
  <2>1. SoundRun(next)
    BY <1>1, <1>4a, RunMemSound DEF Labels
  <2> HIDE DEF next
  <2> QED BY <2>1, RunPcSound DEF Labels
<1>5. /\ next.pc = pc /\ next.mem = mem /\ next.todo = x.todo /\ next.work = x.work
      /\ fail.pc = "failing" /\ fail.mem = mem /\ fail.todo = x.todo /\ fail.work = x.work
  BY <1>1, RunFields
<1> HIDE DEF next, fail
<1>7. Orderly(next) /\ Orderly(fail)
  BY <1>3, <1>4, <1>4b, <1>5, QuietOrderly DEF Settled
<1>8. Flies(x) /\ Works(x)
  BY DEF Flies, Works
<1>9. lone => /\ DOMAIN store.items = {} /\ DOMAIN x.mem.items = {}
              /\ store.phase # "failed"
  BY <1>8 DEF Steady, Unshared, Ahead, Fresh
<1>10. lone => /\ Ahead(mem, next) /\ Ahead(mem, fail) /\ Ahead(store, fail)
               /\ Kept(store, mem)
               /\ store.phase = "failed" => mem.phase = "failed"
  BY <1>3, <1>5, <1>9 DEF Ahead, Fresh, Later, Kept
<1> QED
  BY <1>2, <1>3, <1>4, <1>5, <1>7, <1>8, <1>10, SaveSteady DEF Settled, Flies

\* A crash takes every run with it; the document that is kept stays.
LEMMA CrashSteady ==
  ASSUME RunInv, Steady, Crash
  PROVE  Steady' /\ Keeps
<1>1. /\ store' = kept /\ kept' = kept /\ lone' = lone /\ server' = "down"
      /\ \A r \in Runs : run'[r] = Idle
  BY DEF Crash
<1>2. /\ Told(store') /\ Told(kept')
      /\ \A r \in Runs : Orderly(run'[r]) /\ ~Works(run'[r]) /\ ~Flies(run'[r])
  BY <1>1, IdleOrderly DEF Steady, Works
<1>3. Attended' /\ Unshared'
  BY <1>1, <1>2, NothingKept DEF Attended, Unshared
<1>4. Keeps
  BY <1>1 DEF Keeps, Kept
<1> QED
  BY <1>2, <1>3, <1>4 DEF Steady

\* So does a restart, which only starts recovery.
LEMMA RestartSteady ==
  ASSUME RunInv, Steady, Restart
  PROVE  Steady' /\ Keeps
<1>1. /\ store' = store /\ kept' = kept /\ lone' = lone /\ server' = "booting"
      /\ run' = run
  BY DEF Restart
<1> QED
  BY <1>1 DEF Steady, Attended, Unshared, Keeps, Kept

\* A run whose program counter moves.
LEMMA PcFields ==
  ASSUME NEW x, SoundRun(x), NEW pc \in Labels, NEW y, y = [x EXCEPT !.pc = pc]
  PROVE  SoundRun(y) /\ y.pc = pc /\ y.mem = x.mem /\ y.todo = x.todo /\ y.work = x.work
  BY RunFields, RunPcSound

\* POST /api/projects or from-assets: only the new run is at work, or the runs
\* are not alone any more.
LEMMA CreateSteady ==
  ASSUME RunInv, Steady, NEW r \in Runs, Create(r)
  PROVE  Steady' /\ Keeps
<1>1. SoundRun(run[r]) /\ Orderly(run[r]) /\ run[r].pc = "off"
  BY DEF RunInv, Steady, Create
<1>2. /\ NewProject.phase = "created" /\ DOMAIN NewProject.items = {}
      /\ Told(NewProject) /\ \A p : Kept(NewProject, p)
  BY DEF NewProject, NoProject, Told, Untouched, Kept
<1>3. PICK pc \in {"queued", "lost"} :
        /\ run' = [run EXCEPT ![r].pc = pc]
        /\ pc = "queued" => Answered(NewProject)
        /\ pc = "lost" => Rejected(NewProject) /\ (lone' => store' = kept')
        /\ lone' => lone /\ \A s \in Runs \ {r} : ~Active(s)
  BY DEF Create, NoteLone
<1>4. PICK next : next = [run[r] EXCEPT !.pc = pc]
  OBVIOUS
<1>5. /\ next.pc = pc /\ next.mem = run[r].mem /\ next.todo = run[r].todo
      /\ next.work = run[r].work /\ SoundRun(next)
  BY <1>1, <1>4, PcFields DEF Labels
<1>6. Orderly(next)
  BY <1>1, <1>5, QuietOrderly DEF Orderly, OrderlyAs, Early, Midway
<1>7. run'[r] = next /\ \A s \in Runs \ {r} : run'[s] = run[s]
  BY <1>3, <1>4 DEF RunInv
<1>8. lone' => lone /\ \A s \in Runs \ {r} : ~Works(run[s])
  BY <1>3, ActiveWorks
<1>9. /\ store' \in {store, NewProject, NoProject}
      /\ kept' \in {kept, NewProject, NoProject}
  BY <1>3 DEF Answered, Rejected
<1>10. /\ Told(store') /\ Told(kept')
       /\ \A s \in Runs : Orderly(run'[s])
  BY <1>2, <1>6, <1>7, <1>9, NothingKept DEF Steady
<1>11. Attended'
  BY <1>5, <1>7 DEF Attended
<1>12. Unshared'
  <2>1. SUFFICES ASSUME lone' PROVE Unshared'
    BY DEF Unshared
  <2>2. \A s \in Runs \ {r} : ~Works(run'[s]) /\ ~Flies(run'[s])
    BY <1>7, <1>8, <2>1 DEF Works
  <2>3. Kept(kept', store') /\ (kept'.phase = "failed" => store'.phase = "failed")
    BY <1>3, <2>1, NothingKept DEF Answered
  <2>4. CASE pc = "queued"
    BY <1>2, <1>3, <1>5, <1>7, <2>2, <2>3, <2>4
       DEF Unshared, Answered, Ahead, Later, Fresh
  <2>5. CASE pc = "lost"
    <3>1. ~Works(next) /\ ~Flies(next)
      BY <1>1, <1>5, <2>5 DEF Works, Flies, Orderly, OrderlyAs, Early, Quiet
    <3> QED BY <1>7, <2>2, <2>3, <3>1 DEF Unshared
  <2> QED BY <2>4, <2>5
<1>13. Keeps
  BY <1>2, <1>9, NothingKept DEF Keeps
<1> QED
  BY <1>10, <1>11, <1>12, <1>13 DEF Steady

\* The agents of the scanning stages return, or one of the stages throws.
LEMMA StagesSteady ==
  ASSUME RunInv, Steady, NEW r \in Runs, Scan(r) \/ StageThrows(r)
  PROVE  Steady' /\ Keeps
<1>1. PICK pc \in {"report", "failing"} :
        /\ run[r].pc \in {"scan", "reconcile"}
        /\ run' = [run EXCEPT ![r] = [run[r] EXCEPT !.pc = pc]]
        /\ pc = "report" => run[r].pc = "scan"
  BY DEF Scan, StageThrows
<1>2. UNCHANGED <<store, kept, server, lone>>
  BY DEF Scan, StageThrows
<1> DEFINE x == run[r]
<1>3. SoundRun(x) /\ Orderly(x)
  BY DEF RunInv, Steady
<1>4. PICK next : next = [run[r] EXCEPT !.pc = pc]
  OBVIOUS
<1>5. /\ next.pc = pc /\ next.mem = x.mem /\ next.todo = x.todo /\ next.work = x.work
      /\ SoundRun(next)
  BY <1>3, <1>4, PcFields DEF Labels
<1>6. Orderly(next)
  BY <1>1, <1>3, <1>5, QuietOrderly DEF Orderly, OrderlyAs, Early, Midway, Settled
<1>7. Works(x) /\ Flies(x)
  BY <1>1 DEF Works, Flies
<1>8. lone => Ahead(store, x)
  BY <1>7 DEF Steady, Unshared
<1>9. lone => Ahead(store, next)
  BY <1>1, <1>5, <1>8 DEF Ahead, Fresh, Later, Kept
<1>10. x.pc \notin {"off", "over"} /\ next.pc \notin {"off", "over"}
  BY <1>1, <1>5
<1>11. run' = [run EXCEPT ![r] = next]
  BY <1>1, <1>4
<1> QED
  BY <1>2, <1>6, <1>7, <1>9, <1>10, <1>11, LocalSteady

\* A search that answers or fails.
LEMMA SearchReturnsSteady ==
  ASSUME RunInv, Steady, NEW r \in Runs, NEW c \in Cases, SearchReturns(r, c)
  PROVE  Steady' /\ Keeps
<1> DEFINE x == run[r]
<1>1. SoundRun(x) /\ Orderly(x) /\ x.work[c] = "search"
  BY DEF RunInv, Steady, SearchReturns
<1>2. PICK next : next = [x EXCEPT !.work[c] = "assemble"]
  OBVIOUS
<1>3. /\ next.pc = x.pc /\ next.mem = x.mem /\ next.todo = x.todo
      /\ next.work = [x.work EXCEPT ![c] = "assemble"]
      /\ x.work \in [Cases -> WorkStates] /\ DOMAIN x.mem.items \subseteq Cases
  BY <1>1, <1>2, RunFields, ProjectFields
<1>4. Orderly(next)
  BY <1>1, <1>3 DEF Orderly, OrderlyAs, Quiet
<1>5. Works(x) /\ (Flies(next) => Flies(x))
  BY <1>1, <1>3 DEF Works, Flies
<1>6. lone => Ahead(store, next)
  BY <1>3, <1>5 DEF Steady, Unshared, Ahead
<1>7. run' = [run EXCEPT ![r] = next] /\ UNCHANGED <<store, kept, server, lone>>
  BY <1>2 DEF SearchReturns
<1> QED
  BY <1>3, <1>4, <1>5, <1>6, <1>7, LocalSteady

\* run() loads the document, or the load rejects.
LEMMA BeginSteady ==
  ASSUME RunInv, Steady, NEW r \in Runs, Begin(r)
  PROVE  Steady' /\ Keeps
<1> DEFINE x == run[r]
<1>1. SoundRun(x) /\ Orderly(x) /\ x.pc = "queued" /\ SoundProject(store) /\ Told(store)
  BY DEF RunInv, Steady, Begin
<1>2. UNCHANGED <<store, kept, server, lone>>
  BY DEF Begin
<1>3. Flies(x) /\ Works(x) /\ Quiet(x.todo, x.work) /\ Untouched(x.mem)
      /\ (x.mem.phase = "ready" => AllSettled(x.mem))
  BY <1>1 DEF Flies, Works, Orderly, OrderlyAs, Early
<1>4. lone => DOMAIN store.items = {}
  BY <1>1, <1>3 DEF Steady, Unshared, Ahead, Fresh
<1>5. CASE Present(store) /\ run' = [run EXCEPT ![r] = [x EXCEPT !.mem = store, !.pc = "announce"]]
  <2>1. PICK next : next = [x EXCEPT !.mem = store, !.pc = "announce"]
    OBVIOUS
  <2>2. /\ next.pc = "announce" /\ next.mem = store /\ next.todo = x.todo
        /\ next.work = x.work
    BY <1>1, <2>1, RunFields
  <2>3. SoundRun(next)
    BY <1>1, <2>1, RunMemSound DEF Labels
  <2>4. Orderly(next)
    BY <1>1, <1>3, <2>2, <2>3, QuietOrderly DEF Told, Midway
  <2>5. lone => Ahead(store, next)
    BY <1>4, <2>2 DEF Ahead, Later
  <2> QED
    BY <1>2, <1>3, <1>5, <2>1, <2>2, <2>4, <2>5, LocalSteady
<1>6. CASE ~Present(store) /\ run' = [run EXCEPT ![r] = Idle]
  BY <1>2, <1>6, IdleOrderly, LocalSteady DEF Works
<1>7. CASE run' = [run EXCEPT ![r].pc = "lost"]
  <2>1. PICK next : next = [x EXCEPT !.pc = "lost"]
    OBVIOUS
  <2>2. /\ next.pc = "lost" /\ next.mem = x.mem /\ next.todo = x.todo
        /\ next.work = x.work /\ SoundRun(next)
    BY <1>1, <2>1, PcFields DEF Labels
  <2>3. Orderly(next)
    BY <1>3, <2>2, QuietOrderly DEF Midway
  <2>4. ~Flies(next) /\ ~Works(next)
    BY <1>3, <2>2 DEF Flies, Works, Quiet
  <2>5. run' = [run EXCEPT ![r] = next]
    BY <1>7, <2>1
  <2> QED
    BY <1>2, <2>2, <2>3, <2>4, <2>5, LocalSteady
<1> QED
  BY <1>5, <1>6, <1>7 DEF Begin, Loads

\* resume() loads the document again and keeps what it says is settled.
LEMMA ResumeSteady ==
  ASSUME RunInv, Steady, NEW r \in Runs, Resume(r)
  PROVE  Steady' /\ Keeps
<1> DEFINE x    == run[r]
           owed == {c \in DOMAIN store.items : AwaitsResearch(store.items[c])}
           pc   == IF owed = {} THEN "finish" ELSE "open"
<1>1. SoundRun(x) /\ Orderly(x) /\ x.pc = "resuming" /\ SoundProject(store) /\ Told(store)
  BY DEF RunInv, Steady, Resume
<1>2. UNCHANGED <<store, kept, server, lone>>
  BY DEF Resume
<1>3. Flies(x) /\ Works(x) /\ Quiet(x.todo, x.work) /\ Untouched(x.mem)
      /\ (x.mem.phase = "ready" => AllSettled(x.mem))
  BY <1>1 DEF Flies, Works, Orderly, OrderlyAs, Early
<1>4. DOMAIN store.items \subseteq Cases
  BY <1>1, ProjectFields DEF SoundProject
<1>5. CASE /\ Present(store) /\ store.phase \notin Settled
           /\ run' = [run EXCEPT ![r] = [x EXCEPT !.mem = store, !.todo = owed, !.pc = pc]]
  <2>1. PICK next : next = [x EXCEPT !.mem = store, !.todo = owed, !.pc = pc]
    OBVIOUS
  <2>2. /\ next.pc = pc /\ next.mem = store /\ next.todo = owed
        /\ next.work = x.work
    BY <1>1, <2>1, RunFields
  <2>3. /\ pc \in {"finish", "open"} /\ (pc = "finish" => owed = {})
        /\ \A c \in DOMAIN store.items : AwaitsResearch(store.items[c]) <=> c \in owed
        /\ owed \subseteq Cases
    BY <1>4
  <2> HIDE DEF owed, pc
  <2>4. Orderly(next)
    BY <1>1, <1>3, <1>4, <1>5, <2>2, <2>3
       DEF Orderly, OrderlyAs, Told, Midway, Settled, Quiet, AllSettled, Early
  <2>5. Ahead(store, next)
    BY <2>2, <2>3 DEF Ahead, Later, Fresh, Kept
  <2> QED
    BY <1>2, <1>3, <1>5, <2>1, <2>2, <2>3, <2>4, <2>5, LocalSteady
<1>6. CASE /\ ~Present(store) \/ store.phase \in Settled
           /\ run' = [run EXCEPT ![r] = Idle]
  BY <1>2, <1>6, IdleOrderly, LocalSteady DEF Works
<1>7. CASE \E l \in {"queued", "lost"} :
             /\ run' = [run EXCEPT ![r] = [x EXCEPT !.pc = l]]
             /\ l = "queued" => DOMAIN store.items = {}
  <2>1. PICK l \in {"queued", "lost"} :
          /\ run' = [run EXCEPT ![r] = [x EXCEPT !.pc = l]]
          /\ l = "queued" => DOMAIN store.items = {}
    BY <1>7
  <2>2. PICK next : next = [x EXCEPT !.pc = l]
    OBVIOUS
  <2>3. /\ next.pc = l /\ next.mem = x.mem /\ next.todo = x.todo
        /\ next.work = x.work /\ SoundRun(next)
    BY <1>1, <2>2, PcFields DEF Labels
  <2>4. Orderly(next)
    BY <1>3, <2>3, QuietOrderly DEF Midway
  <2>5. Works(next) => l = "queued"
    BY <1>3, <2>1, <2>3 DEF Flies, Works, Quiet
  <2>6. Works(next) => Ahead(store, next)
    BY <2>1, <2>3, <2>5 DEF Ahead, Later, Fresh
  <2>7. run' = [run EXCEPT ![r] = next]
    BY <2>1, <2>2
  <2> QED
    BY <1>2, <1>3, <2>1, <2>3, <2>4, <2>6, <2>7, LocalSteady
<1>8. \/ run' = [run EXCEPT ![r] =
              IF ~Present(store) \/ store.phase \in Settled THEN Idle
              ELSE IF DOMAIN store.items = {} THEN [x EXCEPT !.pc = "queued"]
              ELSE [x EXCEPT !.mem = store, !.todo = owed, !.pc = pc]]
      \/ run' = [run EXCEPT ![r] = [x EXCEPT !.pc = "lost"]]
  BY DEF Resume, Loads
<1> HIDE DEF owed, pc, x
<1> QED
  BY <1>5, <1>6, <1>7, <1>8

\* The save that opens research.
LEMMA OpenResearchSteady ==
  ASSUME RunInv, Steady, NEW r \in Runs, OpenResearch(r)
  PROVE  Steady' /\ Keeps
<1> DEFINE x    == run[r]
           mem  == [x.mem EXCEPT !.phase = "researching"]
           next == [x EXCEPT !.mem = mem, !.pc = "research"]
           fail == [next EXCEPT !.pc = "failing", !.todo = {}]
<1>1. SoundRun(x) /\ Orderly(x) /\ x.pc = "open"
  BY DEF RunInv, Steady, OpenResearch
<1>2. Saves(r, next.mem, next, fail)
  BY DEF OpenResearch
<1>3. mem.phase = "researching" /\ mem.items = x.mem.items /\ SoundProject(mem)
  BY <1>1, RunFields, PhaseFields, PhaseSound DEF Phases
<1>4. Untouched(mem) /\ Told(mem)
  BY <1>1, <1>3 DEF Orderly, OrderlyAs, Untouched, Told
<1> HIDE DEF mem
<1>5. SoundRun(next)
  BY <1>1, <1>3, RunMemSound DEF Labels
<1>6. next.pc = "research" /\ next.mem = mem /\ next.todo = x.todo /\ next.work = x.work
  BY <1>1, RunFields
<1> HIDE DEF next
<1>7. SoundRun(fail)
  BY <1>5, RunTodoSound DEF Labels
<1>8. fail.pc = "failing" /\ fail.mem = mem /\ fail.todo = {} /\ fail.work = x.work
  BY <1>5, <1>6, RunFields
<1> HIDE DEF fail
<1>9. Orderly(next)
  BY <1>1, <1>3, <1>4, <1>6 DEF Orderly, OrderlyAs, Untouched, Midway, Settled, Early
<1>10. Quiet(fail.todo, fail.work)
  BY <1>1, <1>8 DEF Orderly, OrderlyAs, Quiet
<1>11. Orderly(fail)
  BY <1>3, <1>4, <1>7, <1>8, <1>10, QuietOrderly DEF Midway
<1>12. Flies(x) /\ Works(x)
  BY <1>1 DEF Flies, Works
<1>13. lone => Kept(store, x.mem) /\ store.phase # "failed"
  BY <1>1, <1>12 DEF Steady, Unshared, Ahead, Later
<1>14. lone => Kept(store, mem)
  BY <1>3, <1>13 DEF Kept
<1>15. lone => Ahead(mem, next) /\ Ahead(mem, fail) /\ Ahead(store, fail)
  BY <1>6, <1>8, <1>14 DEF Ahead, Fresh, Later, Kept
<1> QED
  BY <1>2, <1>3, <1>4, <1>6, <1>8, <1>9, <1>11, <1>12, <1>13, <1>14, <1>15,
     SaveSteady DEF Settled

\* A production becomes ready only when its every case was researched and its
\* every worker joined.
LEMMA FinishSteady ==
  ASSUME RunInv, Steady, NEW r \in Runs, Finish(r)
  PROVE  Steady' /\ Keeps
<1> DEFINE x    == run[r]
           mem  == [x.mem EXCEPT !.phase = "ready", !.revised = TRUE]
           fail == [x EXCEPT !.mem = mem, !.pc = "failing"]
<1>1. /\ SoundRun(x) /\ Orderly(x)
      /\ \/ x.pc = "finish"
         \/ x.pc = "research" /\ x.todo = {} /\ Held(r) = {}
  BY DEF RunInv, Steady, Finish
<1>2. Saves(r, mem, Idle, fail)
  BY DEF Finish
<1>3. mem.phase = "ready" /\ mem.items = x.mem.items /\ SoundProject(mem)
  BY <1>1, RunFields, PhaseFields, ReadySound
<1>4. Quiet(x.todo, x.work)
  BY <1>1 DEF Orderly, OrderlyAs, Quiet, Held
<1>5. DOMAIN x.mem.items \subseteq Cases
  BY <1>1, RunFields, ProjectFields
<1>6. AllSettled(mem) /\ Untouched(mem)
  BY <1>1, <1>3, <1>4, <1>5 DEF Orderly, OrderlyAs, AllSettled, Untouched, Quiet
<1> HIDE DEF mem
<1>7. SoundRun(fail)
  BY <1>1, <1>3, RunMemSound DEF Labels
<1>8. fail.pc = "failing" /\ fail.mem = mem /\ fail.todo = x.todo /\ fail.work = x.work
  BY <1>1, RunFields
<1> HIDE DEF fail
<1>9. Orderly(fail)
  BY <1>3, <1>4, <1>6, <1>7, <1>8, QuietOrderly DEF Midway
<1>10. Flies(x) /\ Works(x)
  BY <1>1 DEF Flies, Works
<1>11. lone => Kept(store, x.mem) /\ store.phase # "failed"
  BY <1>1, <1>10 DEF Steady, Unshared, Ahead, Later
<1>12. lone => Kept(store, mem)
  BY <1>3, <1>11 DEF Kept
<1>13. Idle.pc = "off"
  BY DEF Idle
<1>14. lone => Ahead(mem, Idle) /\ Ahead(mem, fail) /\ Ahead(store, fail)
  BY <1>8, <1>12, <1>13 DEF Ahead, Fresh, Later, Kept
<1> QED
  BY <1>2, <1>3, <1>6, <1>8, <1>9, <1>10, <1>11, <1>12, <1>13, <1>14,
     IdleOrderly, SaveSteady DEF Settled, Told, Flies

\* The catch block marks the copy that the workers share.
LEMMA FailSteady ==
  ASSUME RunInv, Steady, NEW r \in Runs, Fail(r)
  PROVE  Steady' /\ Keeps
<1> DEFINE x    == run[r]
           mem  == [x.mem EXCEPT !.phase = "failed"]
           next == [x EXCEPT !.mem = mem, !.pc = "over"]
           lost == [next EXCEPT !.pc = "lost"]
<1>1. SoundRun(x) /\ Orderly(x) /\ x.pc = "failing"
  BY DEF RunInv, Steady, Fail
<1>2. Saves(r, next.mem, next, lost)
  BY DEF Fail
<1>3. mem.phase = "failed" /\ mem.items = x.mem.items /\ SoundProject(mem)
  BY <1>1, RunFields, PhaseFields, PhaseSound DEF Phases
<1>4. Untouched(mem) /\ Told(mem)
  BY <1>1, <1>3 DEF Orderly, OrderlyAs, Untouched, Told
<1> HIDE DEF mem
<1>5. SoundRun(next)
  BY <1>1, <1>3, RunMemSound DEF Labels
<1>6. next.pc = "over" /\ next.mem = mem /\ next.todo = x.todo /\ next.work = x.work
  BY <1>1, RunFields
<1> HIDE DEF next
<1>7. lost.pc = "lost" /\ lost.mem = mem /\ lost.todo = x.todo /\ lost.work = x.work
  BY <1>5, <1>6, RunFields
<1> HIDE DEF lost
<1>8. Orderly(next) /\ Orderly(lost)
  BY <1>1, <1>3, <1>4, <1>6, <1>7 DEF Orderly, OrderlyAs, Untouched, Midway, Settled, Early
<1>9. Flies(x) /\ Works(x) /\ ~Flies(next) /\ ~Flies(lost)
  BY <1>1, <1>6, <1>7 DEF Flies, Works
<1>10. lone => Kept(store, x.mem)
  BY <1>1, <1>9 DEF Steady, Unshared, Ahead, Later
<1>11. lone => Kept(store, mem)
  BY <1>3, <1>10 DEF Kept
<1>12. lone => Ahead(mem, next) /\ Ahead(mem, lost) /\ Ahead(store, lost)
  BY <1>6, <1>7, <1>11 DEF Ahead, Fresh, Later, Kept
<1> QED
  BY <1>2, <1>3, <1>4, <1>6, <1>7, <1>8, <1>9, <1>11, <1>12, SaveSteady DEF Settled

\* Reconciliation builds cases that all await research.
LEMMA ReconcileSteady ==
  ASSUME RunInv, Steady, NEW r \in Runs, NEW found \in SUBSET Cases, Reconcile(r, found)
  PROVE  Steady' /\ Keeps
<1> DEFINE x    == run[r]
           mem  == [x.mem EXCEPT !.items = [c \in found |-> NewCase]]
           pc   == IF found = {} THEN "finish" ELSE "open"
           next == [x EXCEPT !.mem = mem, !.todo = found, !.pc = pc]
           fail == [next EXCEPT !.pc = "failing", !.todo = {}]
<1>1. SoundRun(x) /\ Orderly(x) /\ x.pc = "reconcile"
  BY DEF RunInv, Steady, Reconcile
<1>2. Saves(r, next.mem, next, fail)
  BY DEF Reconcile
<1>3. /\ mem.phase = x.mem.phase /\ mem.items = [c \in found |-> NewCase]
      /\ SoundProject(mem)
  BY <1>1, RunFields, RebuiltSound DEF SoundProject, IsProject
<1>4. AwaitsResearch(NewCase) /\ ~HasHumanDecision(NewCase)
  BY DEF AwaitsResearch, NewCase, HasHumanDecision
<1>5. \A c \in DOMAIN mem.items : c \in found /\ AwaitsResearch(mem.items[c])
  BY <1>3, <1>4
<1>6. mem.phase \notin Settled /\ Quiet(x.todo, x.work)
  BY <1>1, <1>3 DEF Orderly, OrderlyAs, Midway, Early
<1>7. Untouched(mem) /\ Told(mem)
  BY <1>3, <1>4, <1>6 DEF Untouched, Told, Settled
<1> HIDE DEF mem
<1>8. pc \in {"finish", "open"} /\ (pc = "finish" => DOMAIN mem.items = {})
  BY <1>3
<1> HIDE DEF pc
<1>9. next.pc = pc /\ next.mem = mem /\ next.todo = found /\ next.work = x.work
  BY <1>1, RunFields
<1>10. SoundRun(next)
  BY <1>1, <1>3, <1>8 DEF SoundRun, IsRun, SoundProject, Labels
<1> HIDE DEF next
<1>11. SoundRun(fail)
  BY <1>10, RunTodoSound DEF Labels
<1>12. fail.pc = "failing" /\ fail.mem = mem /\ fail.todo = {} /\ fail.work = x.work
  BY <1>9, <1>10, RunFields
<1> HIDE DEF fail
<1>13. Orderly(next)
  <2>1. CASE pc = "open"
    BY <1>5, <1>6, <1>7, <1>9, <2>1
       DEF Orderly, OrderlyAs, Midway, Settled, Early, Quiet
  <2>2. CASE pc = "finish"
    <3>1. found = {}
      BY <1>3, <1>8, <2>2
    <3> QED
      BY <1>6, <1>7, <1>8, <1>9, <1>10, <2>2, <3>1, QuietOrderly DEF Quiet, Midway, AllSettled
  <2> QED BY <1>8, <2>1, <2>2
<1>14. Orderly(fail)
  BY <1>6, <1>7, <1>11, <1>12, QuietOrderly DEF Midway, Settled, Quiet
<1>15. Flies(x) /\ Works(x)
  BY <1>1 DEF Flies, Works
<1>16. lone => DOMAIN store.items = {} /\ store.phase # "failed"
  BY <1>1, <1>15 DEF Steady, Unshared, Ahead, Fresh
<1>17. lone => /\ Ahead(mem, next) /\ Ahead(mem, fail) /\ Ahead(store, fail)
               /\ Kept(store, mem)
  BY <1>8, <1>9, <1>12, <1>16 DEF Ahead, Fresh, Later, Kept
<1> QED
  BY <1>2, <1>6, <1>7, <1>8, <1>9, <1>12, <1>13, <1>14, <1>15, <1>16, <1>17,
     SaveSteady DEF Settled

\* The save of a worker that takes or concludes case c.
LEMMA WorkerSteady ==
  ASSUME RunInv, Steady, NEW r \in Runs, NEW c \in Cases, NEW mem, NEW next, NEW fail,
         NEW status \in {"researching", "evidence_ready", "unresolved"},
         NEW w \in {"search", "free"}, w = "search" <=> status = "researching",
         run[r].pc \in {"research", "failing", "over", "lost"},
         c \in run[r].todo \/ run[r].work[c] \in {"search", "assemble"},
         mem = [run[r].mem EXCEPT !.items[c] = AgentSets(run[r].mem.items[c], status)],
         /\ next.pc = run[r].pc /\ next.mem = mem /\ next.todo = run[r].todo \ {c}
         /\ next.work = [run[r].work EXCEPT ![c] = w],
         /\ fail.pc = Rejects(r) /\ fail.mem = mem /\ fail.todo = run[r].todo \ {c}
         /\ fail.work = [run[r].work EXCEPT ![c] = "dead"],
         Saves(r, mem, next, fail)
  PROVE  Steady' /\ Keeps
<1> DEFINE x == run[r]
<1>1. SoundRun(x) /\ Orderly(x)
  BY DEF RunInv, Steady
<1>2. /\ x.mem.items \in [DOMAIN x.mem.items -> Case] /\ DOMAIN x.mem.items \subseteq Cases
      /\ x.work \in [Cases -> WorkStates] /\ x.todo \subseteq Cases
  BY <1>1, RunFields, ProjectFields
<1>3. /\ mem.phase = x.mem.phase
      /\ mem.items = [x.mem.items EXCEPT ![c] = AgentSets(x.mem.items[c], status)]
  BY <1>1, RunFields DEF IsProject
<1>4. c \in DOMAIN x.mem.items =>
        /\ ~HasHumanDecision(mem.items[c])
        /\ mem.items[c].status = status
  BY <1>1, <1>2, <1>3, AgentMoves DEF Orderly, OrderlyAs, Untouched
<1>5. /\ DOMAIN mem.items = DOMAIN x.mem.items
      /\ \A d \in DOMAIN mem.items \ {c} : mem.items[d] = x.mem.items[d]
  BY <1>2, <1>3
<1>6. c \in DOMAIN x.mem.items => (AwaitsResearch(mem.items[c]) <=> w = "search")
  BY <1>4 DEF AwaitsResearch
<1>7. Untouched(mem)
  BY <1>1, <1>4, <1>5 DEF Orderly, OrderlyAs, Untouched
<1>8. /\ next.work[c] = w /\ fail.work[c] = "dead"
      /\ \A d \in Cases \ {c} : next.work[d] = x.work[d] /\ fail.work[d] = x.work[d]
  BY <1>2
<1>9. ~Quiet(x.todo, x.work)
  BY DEF Quiet
<1>10. /\ x.mem.phase # "ready"
       /\ x.pc \in {"research", "failing"} => x.mem.phase \notin Settled
       /\ x.pc \in {"over", "lost"} => x.mem.phase = "failed"
  BY <1>1, <1>9 DEF Orderly, OrderlyAs, Midway, Settled
<1>11. Rejects(r) \in {"failing", "over", "lost"} /\ (x.pc = "research" => Rejects(r) = "failing")
       /\ (x.pc # "research" => Rejects(r) = x.pc)
  BY DEF Rejects
<1>12. \A d \in (x.todo \ {c}) : next.work[d] = "free" /\ fail.work[d] = "free"
  BY <1>1, <1>2, <1>8 DEF Orderly, OrderlyAs
<1>13. \A d \in DOMAIN mem.items :
         ~AwaitsResearch(mem.items[d]) =>
           /\ d \notin x.todo \ {c}
           /\ next.work[d] \notin {"search", "assemble"}
           /\ fail.work[d] \notin {"search", "assemble"}
  BY <1>1, <1>2, <1>5, <1>6, <1>8 DEF Orderly, OrderlyAs
<1>14. x.pc = "research" =>
         \A d \in DOMAIN mem.items :
           AwaitsResearch(mem.items[d]) =>
             d \in x.todo \ {c} \/ next.work[d] \in {"search", "assemble"}
  BY <1>1, <1>2, <1>5, <1>6, <1>8 DEF Orderly, OrderlyAs
<1>15. Orderly(next)
  BY <1>3, <1>7, <1>10, <1>12, <1>13, <1>14 DEF Orderly, OrderlyAs, Early, Midway, Settled
<1>16. Orderly(fail)
  BY <1>3, <1>7, <1>10, <1>11, <1>12, <1>13 DEF Orderly, OrderlyAs, Early, Midway, Settled
<1>17. Works(x)
  BY DEF Works
<1>18. Told(mem)
  BY <1>3, <1>7, <1>10 DEF Told
<1>19. lone => Kept(store, x.mem)
  BY <1>17 DEF Steady, Unshared, Ahead, Later
<1>20. lone => Kept(store, mem)
  <2>1. SUFFICES ASSUME lone, NEW d \in DOMAIN store.items
                 PROVE  /\ d \in DOMAIN mem.items
                        /\ ~AwaitsResearch(store.items[d]) =>
                             mem.items[d].status = store.items[d].status
    BY DEF Kept
  <2>2. /\ d \in DOMAIN x.mem.items
        /\ ~AwaitsResearch(store.items[d]) =>
             x.mem.items[d].status = store.items[d].status
    BY <1>19, <2>1 DEF Kept
  <2>3. AwaitsResearch(x.mem.items[c]) \/ c \notin DOMAIN x.mem.items
    BY <1>1 DEF Orderly, OrderlyAs
  <2> QED BY <1>5, <2>2, <2>3 DEF AwaitsResearch
<1>21. lone => Ahead(mem, next) /\ Ahead(mem, fail) /\ Ahead(store, fail)
  BY <1>11, <1>20 DEF Ahead, Fresh, Later, Kept
<1>22. lone /\ store.phase = "failed" => mem.phase = "failed"
  <2>1. lone /\ store.phase = "failed" => ~Flies(x)
    BY DEF Steady, Unshared
  <2>2. ~Flies(x) => mem.phase = "failed"
    BY <1>3, <1>10 DEF Flies
  <2> QED BY <2>1, <2>2
<1>23. /\ Flies(next) => mem.phase # "failed"
       /\ Flies(fail) => Flies(x) /\ mem.phase # "failed"
       /\ Present(mem) /\ mem.phase \notin Settled =>
            next.pc \notin {"off", "over"} /\ fail.pc \notin {"off", "over"}
       /\ x.pc \notin {"off", "over"} => fail.pc \notin {"off", "over"}
  BY <1>3, <1>10, <1>11 DEF Flies, Settled
<1> HIDE DEF x
<1> QED
  BY <1>15, <1>16, <1>17, <1>18, <1>20, <1>21, <1>22, <1>23, SaveSteady DEF x

\* The dossier or its deadline concludes a case.
LEMMA ConcludeSteady ==
  ASSUME RunInv, Steady, NEW r \in Runs, NEW c \in Cases,
         NEW status \in {"evidence_ready", "unresolved"}, Conclude(r, c, status)
  PROVE  Steady' /\ Keeps
<1> DEFINE x    == run[r]
           mem  == [x.mem EXCEPT !.items[c] = AgentSets(x.mem.items[c], status)]
           next == [x EXCEPT !.work[c] = "free", !.mem.items[c] = AgentSets(@, status)]
           fail == [next EXCEPT !.work[c] = "dead", !.pc = Rejects(r)]
<1>1. SoundRun(x) /\ Orderly(x) /\ x.work[c] = "assemble"
  BY DEF RunInv, Steady, Conclude
<1>2. x \in [pc : Labels, mem : {x.mem}, todo : SUBSET Cases, work : [Cases -> WorkStates]]
  BY <1>1, RunFields
<1>3. x.pc \in {"research", "failing", "over", "lost"}
  BY <1>1, <1>2 DEF Orderly, OrderlyAs, Quiet, Early, Labels
<1>4. c \notin x.todo
  BY <1>1 DEF Orderly, OrderlyAs
<1>5. x.todo \ {c} = x.todo
  BY <1>4
<1>6. /\ next.pc = x.pc /\ next.mem = mem /\ next.todo = x.todo \ {c}
      /\ next.work = [x.work EXCEPT ![c] = "free"]
  BY <1>2, <1>5
<1>7. /\ fail.pc = Rejects(r) /\ fail.mem = mem /\ fail.todo = x.todo \ {c}
      /\ fail.work = [x.work EXCEPT ![c] = "dead"]
  BY <1>2, <1>5
<1>8. Saves(r, next.mem, next, fail)
  BY DEF Conclude
<1> HIDE DEF next, fail
<1>9. Saves(r, mem, next, fail)
  BY <1>6, <1>8
<1>10. /\ "free" \in {"search", "free"}
       /\ status \in {"researching", "evidence_ready", "unresolved"}
       /\ "free" = "search" <=> status = "researching"
       /\ c \in run[r].todo \/ run[r].work[c] \in {"search", "assemble"}
  BY <1>1
<1>11. /\ run[r].pc \in {"research", "failing", "over", "lost"}
       /\ mem = [run[r].mem EXCEPT !.items[c] = AgentSets(run[r].mem.items[c], status)]
  BY <1>3
<1> HIDE DEF mem, x
<1> QED
  BY <1>6, <1>7, <1>9, <1>10, <1>11, WorkerSteady DEF x

\* A worker takes a case.
LEMMA TakeSteady ==
  ASSUME RunInv, Steady, NEW r \in Runs, NEW c \in Cases, Take(r, c)
  PROVE  Steady' /\ Keeps
<1> DEFINE x     == run[r]
           mem   == [x.mem EXCEPT !.items[c] = AgentSets(x.mem.items[c], "researching")]
           taken == [x EXCEPT !.todo = @ \ {c}, !.work[c] = "search"]
           next  == [taken EXCEPT !.mem.items[c] = AgentSets(@, "researching")]
           fail  == [next EXCEPT !.work[c] = "dead", !.pc = Rejects(r)]
<1>1. /\ SoundRun(x) /\ Orderly(x) /\ c \in x.todo
      /\ x.pc \in {"research", "failing", "over", "lost"}
  BY DEF RunInv, Steady, Take
<1>2. x \in [pc : Labels, mem : {x.mem}, todo : SUBSET Cases, work : [Cases -> WorkStates]]
  BY <1>1, RunFields
<1>3. /\ taken.pc = x.pc /\ taken.mem = x.mem /\ taken.todo = x.todo \ {c}
      /\ taken.work = [x.work EXCEPT ![c] = "search"]
  BY <1>2
<1>4. /\ next.pc = x.pc /\ next.mem = mem /\ next.todo = x.todo \ {c}
      /\ next.work = [x.work EXCEPT ![c] = "search"]
  BY <1>2
<1>5. /\ fail.pc = Rejects(r) /\ fail.mem = mem /\ fail.todo = x.todo \ {c}
      /\ fail.work = [x.work EXCEPT ![c] = "dead"]
  BY <1>2
<1>6. CASE Saves(r, next.mem, next, fail)
  <2>1. Saves(r, mem, next, fail)
    BY <1>4, <1>6
  <2> HIDE DEF mem, next, fail
  <2> QED
    BY <1>1, <1>4, <1>5, <2>1, WorkerSteady DEF mem
<1>7. CASE /\ HasHumanDecision(x.mem.items[c])
           /\ run' = [run EXCEPT ![r] = taken]
           /\ UNCHANGED <<store, kept, server, bounds, lone>>
  <2>1. c \notin DOMAIN x.mem.items /\ DOMAIN x.mem.items \subseteq Cases
    BY <1>1, <1>7, RunFields, ProjectFields DEF Orderly, OrderlyAs, Untouched
  <2>2. ~Quiet(x.todo, x.work)
    BY <1>1 DEF Quiet
  <2> HIDE DEF taken
  <2>3. Orderly(taken)
    BY <1>1, <1>2, <1>3, <2>1, <2>2 DEF Orderly, OrderlyAs, Early, Midway
  <2>4. Works(x) /\ (Flies(taken) => Flies(x))
    BY <1>1, <1>3 DEF Works, Flies
  <2>5. lone => Ahead(store, taken)
    BY <1>3, <2>4 DEF Steady, Unshared, Ahead
  <2> QED
    BY <1>3, <1>7, <2>3, <2>4, <2>5, LocalSteady
<1> QED
  BY <1>6, <1>7 DEF Take

\* Recovery resumes an unsettled production, or its list is lost.
LEMMA RecoverSteady ==
  ASSUME RunInv, Steady, NEW r \in Runs, Recover(r)
  PROVE  Steady' /\ Keeps
<1> DEFINE x == run[r]
<1>1. /\ SoundRun(x) /\ Orderly(x) /\ x.pc = "off"
      /\ store' = store /\ kept' = kept /\ run = [s \in Runs |-> run[s]]
  BY DEF RunInv, Steady, Recover
<1>2. Quiet(x.todo, x.work) /\ ~Works(x)
  BY <1>1 DEF Orderly, OrderlyAs, Early, Works, Flies, Quiet
<1>3. Keeps
  BY <1>1 DEF Keeps, Kept
<1>4. CASE /\ \E pc \in {"resuming", "lost"} :
                /\ run' = [run EXCEPT ![r] = [x EXCEPT !.pc = pc]]
                /\ pc = "resuming" => Present(store) /\ store.phase \notin Settled
  <2>1. PICK pc \in {"resuming", "lost"} :
          /\ run' = [run EXCEPT ![r] = [x EXCEPT !.pc = pc]]
          /\ pc = "resuming" => Present(store) /\ store.phase \notin Settled
    BY <1>4
  <2>2. PICK next : next = [x EXCEPT !.pc = pc]
    OBVIOUS
  <2>3. /\ next.pc = pc /\ next.mem = x.mem /\ next.todo = x.todo
        /\ next.work = x.work /\ SoundRun(next)
    BY <1>1, <2>2, PcFields DEF Labels
  <2>4. Orderly(next)
    BY <1>1, <1>2, <2>3, QuietOrderly DEF Orderly, OrderlyAs, Midway
  <2>5. run'[r] = next /\ \A s \in Runs \ {r} : run'[s] = run[s]
    BY <1>1, <2>1, <2>2
  <2>6. Told(store') /\ Told(kept') /\ \A s \in Runs : Orderly(run'[s])
    BY <1>1, <2>4, <2>5 DEF Steady
  <2>7. Attended'
    BY <2>3, <2>5 DEF Attended
  <2>8. CASE pc = "resuming"
    <3>1. lone' => lone /\ \A s \in Runs \ {r} : ~Works(run[s])
      BY <2>3, <2>5, <2>8, ActiveWorks DEF Recover, NoteLone
    <3>2. Ahead(store, next)
      BY <2>3, <2>8 DEF Ahead, Fresh, Later
    <3>3. \A s \in Runs : Flies(run'[s]) => Works(run'[s])
      BY DEF Works
    <3>4. Unshared'
      BY <1>1, <2>1, <2>5, <2>8, <3>1, <3>2, <3>3 DEF Unshared, Steady, Settled
    <3> QED BY <1>3, <2>6, <2>7, <3>4 DEF Steady
  <2>9. CASE pc = "lost"
    <3>1. lone' = lone
      BY <2>3, <2>5, <2>9 DEF Recover
    <3>2. ~Works(next) /\ ~Flies(next)
      BY <1>2, <2>3, <2>9 DEF Works, Flies, Quiet
    <3>3. Unshared'
      BY <1>1, <2>5, <3>1, <3>2 DEF Unshared, Steady
    <3> QED BY <1>3, <2>6, <2>7, <3>3 DEF Steady
  <2> QED BY <2>8, <2>9
<1>5. CASE /\ ~Present(store) \/ store.phase \in Settled
           /\ run' = [run EXCEPT ![r] = x]
  <2>1. run' = run
    BY <1>1, <1>5
  <2>2. lone' = lone
    BY <1>1, <2>1 DEF Recover
  <2>3. Attended'
    BY <1>1, <1>5 DEF Attended
  <2> QED BY <1>1, <1>3, <2>1, <2>2, <2>3 DEF Steady, Unshared
<1>6. \/ run' = [run EXCEPT ![r] =
              IF Present(store) /\ store.phase \notin Settled
              THEN [x EXCEPT !.pc = "resuming"] ELSE x]
      \/ run' = [run EXCEPT ![r] = [x EXCEPT !.pc = "lost"]]
  BY DEF Recover, Loads
<1> HIDE DEF x
<1> QED
  BY <1>4, <1>5, <1>6

-----------------------------------------------------------------------------
(***************************************************************************)
(* The theorems                                                            *)
(***************************************************************************)

\* Nothing is stored and nothing runs.
LEMMA InitSteady == Init => AInv
<1> SUFFICES ASSUME Init PROVE AInv
  OBVIOUS
<1>1. /\ store = NoProject /\ kept = NoProject /\ server = "booting" /\ lone = TRUE
      /\ \A r \in Runs : run[r] = Idle
      /\ run = [r \in Runs |-> run[r]]
      /\ bounds = [creates |-> 0, crashes |-> 0, faults |-> 0]
  BY DEF Init
<1>2. RunInv
  BY <1>1, NoProjectSound, IdleSound DEF RunInv
<1>3. NoProject.phase = "absent" /\ DOMAIN NoProject.items = {}
  BY DEF NoProject
<1>4. Told(store) /\ Told(kept) /\ Attended
  BY <1>1, <1>3 DEF Told, Untouched, Attended
<1>5. /\ \A r \in Runs : Orderly(run[r]) /\ ~Works(run[r]) /\ ~Flies(run[r])
  BY <1>1, IdleOrderly DEF Works
<1>6. Unshared
  BY <1>1, <1>3, <1>5, NothingKept DEF Unshared
<1> QED
  BY <1>2, <1>4, <1>5, <1>6 DEF AInv, Steady

\* Every step keeps the invariant and, while the runs are alone, the outcomes.
LEMMA StepSteady == AInv /\ [Next]_avars => AInv' /\ Keeps
<1> SUFFICES ASSUME RunInv, Steady, [Next]_avars PROVE RunInv' /\ Steady' /\ Keeps
  BY DEF AInv
<1>1. CASE UNCHANGED avars
  <2>1. RunInv'
    BY <1>1 DEF avars, RunInv
  <2>2. Steady' /\ Keeps
    BY <1>1 DEF avars, Steady, Attended, Unshared, Keeps, Kept
  <2> QED BY <2>1, <2>2
<1>2. CASE Crash
  BY <1>2, CrashInv, CrashSteady
<1>3. CASE Restart
  <2>1. RunInv'
    BY <1>3 DEF Restart, RunInv
  <2> QED BY <1>3, <2>1, RestartSteady
<1>4. ASSUME NEW r \in Runs, Create(r) PROVE RunInv' /\ Steady' /\ Keeps
  BY <1>4, CreateInv, CreateSteady
<1>5. ASSUME NEW r \in Runs, Recover(r) PROVE RunInv' /\ Steady' /\ Keeps
  BY <1>5, RecoverInv, RecoverSteady
<1>6. ASSUME NEW r \in Runs, Orchestrate(r) PROVE RunInv' /\ Steady' /\ Keeps
  <2>1. RunInv'
    BY <1>6, OrchestrateInv
  <2>2. CASE Begin(r) \/ Resume(r)
    BY <2>1, <2>2, BeginSteady, ResumeSteady
  <2>3. CASE Announce(r)
    BY <2>1, <2>3, ProgressSteady DEF Announce
  <2>4. CASE Report(r)
    BY <2>1, <2>4, ProgressSteady DEF Report
  <2>5. CASE Compare(r)
    BY <2>1, <2>5, ProgressSteady DEF Compare
  <2>6. CASE Scan(r) \/ StageThrows(r)
    BY <2>1, <2>6, StagesSteady
  <2>7. CASE \E found \in SUBSET Cases : Reconcile(r, found)
    BY <2>1, <2>7, ReconcileSteady
  <2>8. CASE OpenResearch(r)
    BY <2>1, <2>8, OpenResearchSteady
  <2>9. CASE Finish(r) \/ Fail(r)
    BY <2>1, <2>9, FinishSteady, FailSteady
  <2> QED
    BY <1>6, <2>2, <2>3, <2>4, <2>5, <2>6, <2>7, <2>8, <2>9
       DEF Orchestrate, Stage, Proceed
<1>7. ASSUME NEW r \in Runs, Research(r) PROVE RunInv' /\ Steady' /\ Keeps
  <2>1. RunInv'
    BY <1>7, ResearchInv
  <2>2. PICK c \in Cases : Take(r, c) \/ SearchReturns(r, c) \/ DossierReturns(r, c)
                             \/ DeadlineExpires(r, c)
    BY <1>7 DEF Research
  <2>3. CASE Take(r, c)
    BY <2>1, <2>3, TakeSteady
  <2>4. CASE SearchReturns(r, c)
    BY <2>1, <2>4, SearchReturnsSteady
  <2>5. CASE DossierReturns(r, c) \/ DeadlineExpires(r, c)
    <3>1. PICK status \in {"evidence_ready", "unresolved"} : Conclude(r, c, status)
      BY <2>5 DEF DossierReturns, DeadlineExpires
    <3> QED BY <2>1, <3>1, ConcludeSteady
  <2> QED BY <2>2, <2>3, <2>4, <2>5
<1> QED
  BY <1>1, <1>2, <1>3, <1>4, <1>5, <1>6, <1>7 DEF Next, Step

\* The invariant of the analysis, for every behaviour of the server.
THEOREM AnalysisInvariance == Spec => []AInv
<1>1. Init => AInv
  BY InitSteady
<1>2. AInv /\ [Next]_avars => AInv'
  BY StepSteady
<1> QED
  BY <1>1, <1>2, PTL DEF Spec

\* The state keeps its shape.
THEOREM AnalysisTypeCorrect == Spec => []TypeOK
<1>1. AInv => TypeOK
  BY DEF AInv, RunInv, SoundProject, SoundRun, TypeOK
<1> QED
  BY <1>1, AnalysisInvariance, PTL

\* A production shown as ready owes no research, however often its analysis
\* crashed, was resumed or lost a save, and however many runs overlapped: every
\* copy that is marked ready is one whose cases its own run has concluded.
THEOREM ReadyIsResearched == Spec => []ReadyMeansResearched
<1>1. AInv => ReadyMeansResearched
  BY DEF AInv, Steady, Told, AllSettled, ReadyMeansResearched
<1> QED
  BY <1>1, AnalysisInvariance, PTL

\* An unsettled production has a run, or recovery has not happened yet, or a
\* rejected call abandoned it: the save of its creation, which took effect all
\* the same, that of the catch block, or a read before the try.
THEOREM SomeoneWorks == Spec => []UnfinishedHasRun
<1>1. AInv => UnfinishedHasRun
  BY DEF AInv, Steady, Attended, UnfinishedHasRun, Abandoned, InFlight
<1> QED
  BY <1>1, AnalysisInvariance, PTL

\* While no two runs overlap, what is settled stays settled as it was.
THEOREM OutcomesSurvive == Spec => EvidenceSurvives
<1>1. AInv /\ [Next]_avars =>
        [lone /\ kept'.phase \notin {"created", "absent"} =>
           \A c \in DOMAIN kept.items :
             /\ c \in DOMAIN kept'.items
             /\ ~AwaitsResearch(kept.items[c])
                  => kept'.items[c].status = kept.items[c].status]_avars
  BY StepSteady DEF Keeps, Kept
<1> QED
  BY <1>1, AnalysisInvariance, PTL DEF Spec, EvidenceSurvives

\* While no two runs overlap, a failure stays a failure until the production is
\* created again.
THEOREM FailureIsFinal == Spec => FailureSticks
<1>1. AInv /\ [Next]_avars =>
        [lone /\ kept.phase = "failed" /\ kept'.phase \notin {"created", "absent"}
           => kept'.phase = "failed"]_avars
  BY StepSteady DEF Keeps
<1> QED
  BY <1>1, AnalysisInvariance, PTL DEF Spec, FailureSticks

=============================================================================
