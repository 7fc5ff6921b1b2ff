---------------------------- MODULE AnalysisRun ----------------------------
(***************************************************************************)
(* The analysis of one production: apps/api/src/pipeline/orchestrator.ts   *)
(* and research-stage.ts over a project repository, with process crashes,  *)
(* restarts and repository calls that reject.                              *)
(*                                                                         *)
(* A run loads the project document once and works on that copy (`mem'),   *)
(* saving the WHOLE copy at every step.  Each action below is the code     *)
(* between two awaits.  Consecutive saves that differ only in an activity  *)
(* message (script and cut of the same scanning step) are one save.  The   *)
(* cases of one run are researched by at most Concurrency workers sharing  *)
(* the copy; the order in which mapConcurrent hands them out is arbitrary. *)
(*                                                                         *)
(* The repository is the one of DocumentStore: what a read returns (store) *)
(* and what outlives the process (kept) are two things, and a save that    *)
(* rejects may have taken effect on the first, on both, or on neither.     *)
(* A save that answers is one step on both: whoever reads it before it     *)
(* answered might as well read it after, and a crash in between loses it   *)
(* together with its readers.                                              *)
(***************************************************************************)
EXTENDS Disposition, FiniteSets

CONSTANTS
  Cases,         \* the clearance cases reconciliation may assemble
  Runs,          \* slots for runs in flight in one server process
  Concurrency,   \* researchConcurrency
  ExportIds,     \* x-request-id values of packet exports
  MaxCreates,    \* bound: creations of the production
  MaxCrashes,    \* bound: process crashes
  MaxFaults      \* bound: repository calls that reject

ASSUME AnalysisAssumption ==
  /\ IsFiniteSet(Cases)
  /\ Concurrency \in Nat \ {0}
  /\ {MaxCreates, MaxCrashes, MaxFaults} \subseteq Nat

VARIABLES
  store,    \* the project document, as the repository reads it
  kept,     \* the project document, as it outlives the process
  run,      \* the runs of the server process
  server,   \* "down", "booting" (serving, recovery not yet listed) or "up"
  bounds,   \* creations, crashes and faults so far
  lone      \* history: no two runs were ever in flight together, and no
            \* creation that was rejected is read but not kept

avars == <<store, kept, run, server, bounds, lone>>

---------------------------------------------------------------------------
Phases == {"absent", "created", "scanning", "reconciling", "researching",
           "ready", "failed"}

Settled == {"ready", "failed"}       \* SETTLED_PHASES

LogEntry ==
  [by : Requests, id : ExportIds \cup {None},
   action : {"project_archived", "project_restored", "project_renamed",
             "intended_use_updated", "packet_exported"}]

\* `revised': the project has at least one revision snapshot.
IsProject(p) ==
  \E S \in SUBSET Cases :
    p \in [phase : Phases, items : [S -> Case], revised : BOOLEAN,
          archived : BOOLEAN, log : Seq(LogEntry)]

\* What a repository that has no such document holds.
NoProject ==
  [phase |-> "absent", items |-> [c \in {} |-> NewCase],
   revised |-> FALSE, archived |-> FALSE, log |-> << >>]

NewProject == [NoProject EXCEPT !.phase = "created"]

Present(project) == project.phase # "absent"

AwaitsResearch(case) == case.status \in {"detected", "researching"}

---------------------------------------------------------------------------
WorkStates == {"free", "search", "assemble", "dead"}

Idle == [pc |-> "off", mem |-> NoProject, todo |-> {},
         work |-> [c \in Cases |-> "free"]]

Labels == {"off", "queued", "resuming", "announce", "scan", "report",
           "compare", "reconcile", "open", "research", "finish",
           "failing", "over", "lost"}

IsRun(x) ==
  /\ x \in [pc : Labels, mem : {x.mem}, todo : SUBSET Cases,
            work : [Cases -> WorkStates]]
  /\ IsProject(x.mem)

\* Cases a worker of r holds; a worker whose save was rejected never comes
\* back for another one.
Held(r) == {c \in Cases : run[r].work[c] # "free"}
Busy(r) == {c \in Cases : run[r].work[c] \in {"search", "assemble"}}

\* In its try or catch block.
InFlight(r) == run[r].pc \notin {"off", "over", "lost"}

\* Still able to write: in flight, or done with workers left running.
Active(r) == InFlight(r) \/ Busy(r) # {} \/ run[r].todo # {}

\* Only r is, or becomes, active.
NoteLone(r) == lone' = (lone /\ \A s \in Runs \ {r} : ~Active(s))

---------------------------------------------------------------------------
(***************************************************************************)
(* The repository: what its answers to save say of its state.              *)
(***************************************************************************)

Answered(p) == store' = p /\ kept' = p

\* The cache is set before the file is written; the object is put before the
\* index, and deleted again when its size is not the one announced.
Rejected(p) ==
  \/ UNCHANGED <<store, kept>>
  \/ store' = p /\ kept' \in {p, kept}
  \/ Answered(NoProject)

Fault ==
  /\ bounds.faults < MaxFaults
  /\ bounds' = [bounds EXCEPT !.faults = @ + 1]

---------------------------------------------------------------------------
Init ==
  /\ store = NoProject
  /\ kept = NoProject
  /\ run = [r \in Runs |-> Idle]
  /\ server = "booting"
  /\ bounds = [creates |-> 0, crashes |-> 0, faults |-> 0]
  /\ lone = TRUE

\* POST /api/projects, or from-assets, which saves over whatever has this id:
\* the save answers and a run is queued, or it rejects and none is.
Create(r) ==
  /\ server # "down"
  /\ run[r].pc = "off"
  /\ bounds.creates < MaxCreates
  /\ \/ /\ Answered(NewProject)
        /\ bounds' = [bounds EXCEPT !.creates = @ + 1]
        /\ run' = [run EXCEPT ![r].pc = "queued"]
        /\ NoteLone(r)
     \/ /\ Rejected(NewProject)
        /\ bounds.faults < MaxFaults
        /\ bounds' = [bounds EXCEPT !.creates = @ + 1, !.faults = @ + 1]
        /\ run' = [run EXCEPT ![r].pc = "lost"]
        /\ lone' = (lone /\ store' = kept' /\ \A s \in Runs \ {r} : ~Active(s))
  /\ UNCHANGED server

\* repository.save(mem): the run goes on as `next', or the repository rejects
\* and the run goes on as `thrown'.
Saves(r, mem, next, thrown) ==
  /\ UNCHANGED <<server, lone>>
  /\ \/ /\ Answered(mem)
        /\ run' = [run EXCEPT ![r] = next]
        /\ UNCHANGED bounds
     \/ /\ Fault
        /\ Rejected(mem)
        /\ run' = [run EXCEPT ![r] = thrown]

\* repository.require or list outside a try block: the run goes on as `next',
\* or the call rejects (or cannot read the record and takes it for absent) and
\* the run is gone before it wrote anything.
Loads(r, next) ==
  \/ run' = [run EXCEPT ![r] = next] /\ UNCHANGED bounds
  \/ Fault /\ run' = [run EXCEPT ![r].pc = "lost"]

\* #progress: the phase, then the save; a rejected save lands in the catch.
Progress(r, phase, pc) ==
  LET next == [run[r] EXCEPT !.mem.phase = phase, !.pc = pc]
  IN  Saves(r, next.mem, next, [next EXCEPT !.pc = "failing"])

\* run(): require, which throws if there is no such production.
Begin(r) ==
  /\ run[r].pc = "queued"
  /\ Loads(r, IF Present(store)
              THEN [run[r] EXCEPT !.mem = store, !.pc = "announce"]
              ELSE Idle)
  /\ UNCHANGED <<store, kept, server, lone>>

Announce(r) == run[r].pc = "announce" /\ Progress(r, "scanning", "scan")

\* Promise.all over screenplayStage and cutStage.
Scan(r) ==
  /\ run[r].pc = "scan"
  /\ run' = [run EXCEPT ![r].pc = "report"]
  /\ UNCHANGED <<store, kept, server, bounds, lone>>

Report(r) == run[r].pc = "report" /\ Progress(r, "scanning", "compare")

Compare(r) == run[r].pc = "compare" /\ Progress(r, "reconciling", "reconcile")

\* reconcileStage returned: a fresh case for every element it found.
Reconcile(r, found) ==
  /\ run[r].pc = "reconcile"
  /\ LET next == [run[r] EXCEPT
                    !.mem.items = [c \in found |-> NewCase],
                    !.todo = found,
                    !.pc = IF found = {} THEN "finish" ELSE "open"]
     IN  Saves(r, next.mem, next, [next EXCEPT !.pc = "failing", !.todo = {}])

\* A scanning or reconciling agent throws.
StageThrows(r) ==
  /\ run[r].pc \in {"scan", "reconcile"}
  /\ run' = [run EXCEPT ![r].pc = "failing"]
  /\ UNCHANGED <<store, kept, server, bounds, lone>>

OpenResearch(r) ==
  /\ run[r].pc = "open"
  /\ LET next == [run[r] EXCEPT !.mem.phase = "researching", !.pc = "research"]
     IN  Saves(r, next.mem, next, [next EXCEPT !.pc = "failing", !.todo = {}])

---------------------------------------------------------------------------
(***************************************************************************)
(* researchStage: one worker's turn on one case.                           *)
(***************************************************************************)

AgentSets(case, status) ==
  IF HasHumanDecision(case) THEN case
  ELSE ApplyDisposition(case,
         [by |-> Pipeline, actor |-> "agent", status |-> status,
          rationale |-> TRUE, docs |-> {}])

\* Promise.all has rejected: the run is in its catch block, the other
\* workers are still going.
Rejects(r) == IF run[r].pc = "research" THEN "failing" ELSE run[r].pc

\* A free worker takes a case; only an undecided one is marked and saved.
Take(r, c) ==
  /\ run[r].pc \in {"research", "failing", "over", "lost"}
  /\ c \in run[r].todo
  /\ Cardinality(Held(r)) < Concurrency
  /\ LET taken == [run[r] EXCEPT !.todo = @ \ {c}, !.work[c] = "search"]
         next  == [taken EXCEPT !.mem.items[c] = AgentSets(@, "researching")]
     IN  IF HasHumanDecision(run[r].mem.items[c])
         THEN /\ run' = [run EXCEPT ![r] = taken]
              /\ UNCHANGED <<store, kept, server, bounds, lone>>
         ELSE Saves(r, next.mem, next, [next EXCEPT !.work[c] = "dead",
                                          !.pc = Rejects(r)])

\* searchClearanceItem answers, or its failure is recorded on the case, not
\* thrown: either way the case goes on to the dossier.
SearchReturns(r, c) ==
  /\ run[r].work[c] = "search"
  /\ run' = [run EXCEPT ![r].work[c] = "assemble"]
  /\ UNCHANGED <<store, kept, server, bounds, lone>>

\* The dossier is in, or given up: the disposition, then the save.
Conclude(r, c, status) ==
  /\ run[r].work[c] = "assemble"
  /\ LET next == [run[r] EXCEPT !.work[c] = "free",
                                !.mem.items[c] = AgentSets(@, status)]
     IN  Saves(r, next.mem, next, [next EXCEPT !.work[c] = "dead",
                                      !.pc = Rejects(r)])

\* The dossier arrives within the deadline with a candidate rights holder, or
\* it has none or its assembly throws.
DossierReturns(r, c) ==
  \/ Conclude(r, c, "evidence_ready")
  \/ Conclude(r, c, "unresolved")

\* Mutant: the timer aborts the call but nothing rejects.
DeadlineOnlyAborts(r, c) ==
  run[r].work[c] = "assemble" /\ UNCHANGED avars

\* withDeadline rejects.
DeadlineExpires(r, c) == Conclude(r, c, "unresolved")

---------------------------------------------------------------------------
\* Mutant: the workers are not joined.
FinishUnjoined(r) ==
  /\ \/ run[r].pc = "finish"
     \/ run[r].pc = "research" /\ run[r].todo = {}
  /\ LET mem == [run[r].mem EXCEPT !.phase = "ready", !.revised = TRUE]
     IN  Saves(r, mem, Idle, [run[r] EXCEPT !.mem = mem, !.pc = "failing"])

\* Every worker is done: ready, with an initial revision.
Finish(r) ==
  /\ \/ run[r].pc = "finish"
     \/ run[r].pc = "research" /\ run[r].todo = {} /\ Held(r) = {}
  /\ LET mem == [run[r].mem EXCEPT !.phase = "ready", !.revised = TRUE]
     IN  Saves(r, mem, Idle,
                  [run[r] EXCEPT !.mem = mem, !.pc = "failing"])

\* Mutant: the failure is saved but not kept on the copy the workers share.
FailOnACopy(r) ==
  /\ run[r].pc = "failing"
  /\ Saves(r, [run[r].mem EXCEPT !.phase = "failed"],
           [run[r] EXCEPT !.pc = "over"], [run[r] EXCEPT !.pc = "lost"])

\* The catch block; if its own save is rejected the run is simply gone.
Fail(r) ==
  /\ run[r].pc = "failing"
  /\ LET next == [run[r] EXCEPT !.mem.phase = "failed", !.pc = "over"]
     IN  Saves(r, next.mem, next, [next EXCEPT !.pc = "lost"])

---------------------------------------------------------------------------
(***************************************************************************)
(* Process lifetime.                                                       *)
(***************************************************************************)

Crash ==
  /\ server # "down"
  /\ bounds.crashes < MaxCrashes
  /\ bounds' = [bounds EXCEPT !.crashes = @ + 1]
  /\ server' = "down"
  /\ run' = [r \in Runs |-> Idle]
  /\ store' = kept
  /\ UNCHANGED <<kept, lone>>

\* server.ts serves requests while recoverInterrupted is still listing.
Restart ==
  /\ server = "down"
  /\ server' = "booting"
  /\ UNCHANGED <<store, kept, run, bounds, lone>>

\* Mutant: only a production interrupted in research is recovered.
RecoverResearchOnly(r) ==
  /\ server = "booting"
  /\ run[r].pc = "off"
  /\ server' = "up"
  /\ Loads(r, IF store.phase = "researching"
              THEN [run[r] EXCEPT !.pc = "resuming"]
              ELSE run[r])
  /\ IF run'[r].pc = "resuming" THEN NoteLone(r) ELSE UNCHANGED lone
  /\ UNCHANGED <<store, kept>>

\* recoverInterrupted: the list, and a resume if the production is unsettled.
Recover(r) ==
  /\ server = "booting"
  /\ run[r].pc = "off"
  /\ server' = "up"
  /\ Loads(r, IF Present(store) /\ store.phase \notin Settled
              THEN [run[r] EXCEPT !.pc = "resuming"]
              ELSE run[r])
  /\ IF run'[r].pc = "resuming" THEN NoteLone(r) ELSE UNCHANGED lone
  /\ UNCHANGED <<store, kept>>

\* Mutant: an interrupted run starts over.
ResumeFromScratch(r) ==
  /\ run[r].pc = "resuming"
  /\ run' = [run EXCEPT ![r] =
       IF ~Present(store) \/ store.phase \in Settled THEN Idle
       ELSE [@ EXCEPT !.pc = "queued"]]
  /\ UNCHANGED <<store, kept, server, bounds, lone>>

\* resume(): load again, then only the cases still owed research.
Resume(r) ==
  /\ run[r].pc = "resuming"
  /\ LET owed == {c \in DOMAIN store.items : AwaitsResearch(store.items[c])}
         pc   == IF owed = {} THEN "finish" ELSE "open"
     IN  Loads(r,
           IF ~Present(store) \/ store.phase \in Settled THEN Idle
           ELSE IF DOMAIN store.items = {} THEN [run[r] EXCEPT !.pc = "queued"]
           ELSE [run[r] EXCEPT !.mem = store, !.todo = owed, !.pc = pc])
  /\ UNCHANGED <<store, kept, server, lone>>

---------------------------------------------------------------------------
\* What answers of the providers let a run do.
Stage(r) ==
  \/ Scan(r)
  \/ \E found \in SUBSET Cases : Reconcile(r, found)
  \/ StageThrows(r)

\* What a run does by itself.
Proceed(r) ==
  \/ Begin(r) \/ Resume(r)
  \/ Announce(r) \/ Report(r) \/ Compare(r)
  \/ OpenResearch(r)
  \/ Finish(r) \/ Fail(r)

Orchestrate(r) == Stage(r) \/ Proceed(r)

Research(r) ==
  \E c \in Cases :
    \/ Take(r, c)
    \/ SearchReturns(r, c)
    \/ DossierReturns(r, c)
    \/ DeadlineExpires(r, c)

Step(r) == Orchestrate(r) \/ Research(r)

Next ==
  \/ \E r \in Runs : Create(r) \/ Recover(r) \/ Step(r)
  \/ Crash \/ Restart

\* Every continuation the event loop has ready is run and a repository call
\* answers or rejects; a search ends by the default timeout of its client
\* (parallel/client.ts:203), a dossier by the code's own deadline.  Nothing is
\* assumed of the calls that scan and reconcile (Stage): gemini/client.ts sets
\* them no time limit.  The platform restarts a stopped process.
Fairness ==
  /\ WF_avars(Restart)
  /\ WF_avars(\E r \in Runs : Recover(r))
  /\ \A r \in Runs :
       /\ WF_avars(Proceed(r))
       /\ \A c \in Cases :
            /\ WF_avars(Take(r, c))
            /\ WF_avars(SearchReturns(r, c))
            /\ WF_avars(DeadlineExpires(r, c))

Spec == Init /\ [][Next]_avars
FairSpec == Spec /\ Fairness

---------------------------------------------------------------------------
(***************************************************************************)
(* Properties                                                              *)
(***************************************************************************)

\* The shape of the state.
TypeOK ==
  /\ IsProject(store) /\ IsProject(kept)
  /\ run = [r \in Runs |-> run[r]]
  /\ \A r \in Runs : IsRun(run[r])
  /\ server \in {"down", "booting", "up"}
  /\ bounds \in [creates : Nat, crashes : Nat, faults : Nat]
  /\ lone \in BOOLEAN

\* A production shown as ready has no case still waiting for research,
\* whether one run took it there or a crash, a restart and a resumed run did:
\* the `indexes' handed to researchStage and the join of its workers leave
\* nothing out.
ReadyMeansResearched ==
  store.phase = "ready" =>
    \A c \in DOMAIN store.items : ~AwaitsResearch(store.items[c])

\* A production in a non-terminal phase is being worked on, or the process is
\* on its way to recovering it (orchestrator.ts, recoverInterrupted).  The only
\* ways to be left analysing with no one there are a repository that rejects
\* the creation's save after it took effect, the catch block's own save, or the
\* load or the list that precedes the try.
Abandoned == \E r \in Runs : run[r].pc = "lost"

UnfinishedHasRun ==
  Present(store) /\ store.phase \notin Settled =>
    server # "up" \/ Abandoned \/ \E r \in Runs : InFlight(r)

\* As long as no two runs were ever in flight together, a settled case that
\* reached the repository to stay is there with its outcome after crashes,
\* restarts and failures, also of saves that took effect in part: resume
\* researches only the cases still owed research and never rebuilds the case
\* list (orchestrator.ts, resume).  A new creation takes everything away, and
\* so does a rejected save that deleted the object.
EvidenceSurvives ==
  [][ lone /\ kept'.phase \notin {"created", "absent"} =>
        \A c \in DOMAIN kept.items :
          /\ c \in DOMAIN kept'.items
          /\ ~AwaitsResearch(kept.items[c])
               => kept'.items[c].status = kept.items[c].status
    ]_avars

\* A worker that lost its save, or outlived the run that failed around it,
\* never revives the run: once a recorded failure will outlive the process,
\* what the surviving workers save is still a failed production.
FailureSticks ==
  [][ lone /\ kept.phase = "failed" /\ kept'.phase \notin {"created", "absent"}
        => kept'.phase = "failed"
    ]_avars

\* Every production is eventually ready or failed for good, although a dossier
\* may never come back, the process may crash and saves may be rejected, unless
\* it is abandoned as above or waits for a scan or a reconciliation that never
\* answers.
AwaitsStage == \E r \in Runs : run[r].pc \in {"scan", "reconcile"}

Settles ==
  <>[](Present(store) => store.phase \in Settled \/ Abandoned \/ AwaitsStage)

=============================================================================
