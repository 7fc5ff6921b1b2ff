-------------------------- MODULE ClearanceRecord --------------------------
(***************************************************************************)
(* One production shared by its analysis run and by the HTTP handlers of   *)
(* apps/api/src/routes: items.ts, documents.ts, projects.ts, packets.ts    *)
(* and the project side of monitors.ts.                                    *)
(*                                                                         *)
(* Every handler loads the whole document (`require'), edits its copy and  *)
(* saves the whole copy; between the two it awaits a request body, an      *)
(* asset store, a provider or just the repository.  A handler is two       *)
(* actions, Load and Commit (or Refuse, or CommitRejects), and anything    *)
(* may happen between.                                                     *)
(***************************************************************************)
EXTENDS AnalysisRun

CONSTANT Ops             \* the requests clients may make

VARIABLES
  req,        \* the handlers: pc, operation, loaded copy
  monitored,  \* the process's monitor registry: cases a monitor watches
  sealed      \* history: requests that recorded an event while no one else
              \* held a copy of the document

vars == <<avars, req, monitored, sealed>>

---------------------------------------------------------------------------
CaseKinds    == {"status", "assign", "attach", "describe", "detach",
                 "watch", "reopen"}
Renames      == {"rename", "rename_archive", "rename_restore"}
ProjectKinds == Renames \cup {"archive", "restore", "profile", "export",
                              "delete"}

\* `actor', `status', `rationale' and `docs' are the body of a status change;
\* `docs' is {d} for a request about document d; `id' is the x-request-id of
\* an export, which a client that retries sends again.
Op == [kind : CaseKinds \cup ProjectKinds, case : Cases, actor : Actors,
       status : Statuses, rationale : BOOLEAN, docs : SUBSET Requests,
       id : ExportIds \cup {None}]

ASSUME OpsAssumption == Ops \subseteq Op

NoOp == [kind |-> "none"]

NoRequest(pc) == [pc |-> pc, op |-> NoOp, mem |-> NoProject]

ChangeOf(q, op) ==
  [by |-> q, actor |-> op.actor, status |-> op.status,
   rationale |-> op.rationale, docs |-> op.docs]

---------------------------------------------------------------------------
(***************************************************************************)
(* What a handler does to the copy it loaded.                              *)
(***************************************************************************)

\* requireItem, requireDocument, and the early returns and errors after them.
AcceptsCase(case, q, op) ==
  \/ op.kind = "status" /\ ~Refused(case, ChangeOf(q, op))
  \/ op.kind \in {"assign", "attach", "watch"}
  \/ op.kind \in {"describe", "detach"} /\ \E d \in case.docs : op.docs = {d}
  \/ op.kind = "reopen" /\ case.status # "reopened_by_monitor"

HasMonitor(case) ==
  \E i \in 1 .. Len(case.trail) : case.trail[i].action = "monitor_opened"

Accepts(p, q, op) ==
  \/ /\ op.kind \in CaseKinds
     /\ op.case \in DOMAIN p.items
     /\ AcceptsCase(p.items[op.case], q, op)
  \/ op.kind \in Renames \cup {"profile", "export", "delete"}
  \/ op.kind = "archive" /\ ~p.archived
  \/ op.kind = "restore" /\ p.archived

EditCase(case, q, op) ==
  CASE op.kind = "status"   -> ApplyDisposition(case, ChangeOf(q, op))
    [] op.kind = "assign"   -> Annotate(case, q, "assignment_changed", {})
    [] op.kind = "watch"    -> Annotate(case, q, "monitor_opened", {})
    [] op.kind = "describe" ->
         Annotate(case, q, "document_metadata_updated", op.docs)
    [] op.kind = "attach"   -> AttachDocument(case, q)
    [] op.kind = "detach"   ->
         RemoveDocument(case, q, CHOOSE d \in op.docs : TRUE)
    [] op.kind = "reopen"   -> MonitorReopens(case, q)

Logged(p, q, action, id) ==
  [p EXCEPT !.log = Append(@, [by |-> q, id |-> id, action |-> action])]

\* Mutant: every confirmation is recorded.
RecordEveryExport(p, q, id) == Logged(p, q, "packet_exported", id)

\* recordPacketExport: one event per request id.
RecordPacketExport(p, q, id) ==
  IF \E i \in 1 .. Len(p.log) :
       p.log[i].action = "packet_exported" /\ p.log[i].id = id
  THEN p
  ELSE Logged(p, q, "packet_exported", id)

Edit(p, q, op) ==
  CASE op.kind \in CaseKinds ->
         [p EXCEPT !.items[op.case] = EditCase(@, q, op)]
    [] op.kind = "archive" ->
         [Logged(p, q, "project_archived", None) EXCEPT !.archived = TRUE]
    [] op.kind = "restore" ->
         [Logged(p, q, "project_restored", None) EXCEPT !.archived = FALSE]
    [] op.kind \in Renames -> Logged(p, q, "project_renamed", None)
    [] op.kind = "profile" -> Logged(p, q, "intended_use_updated", None)
    [] op.kind = "export"  -> RecordPacketExport(p, q, op.id)
    [] op.kind = "delete"  -> NoProject

---------------------------------------------------------------------------
(***************************************************************************)
(* Handlers                                                                *)
(***************************************************************************)

RecordedIn(p, q) ==
  \E c \in DOMAIN p.items :
    \E i \in 1 .. Len(p.items[c].trail) : p.items[c].trail[i].by = q

\* A handler between its load and its answer.
Holding(q) == req[q].pc \in {"loaded", "watching"}

\* No other handler and no run holds, or is about to take, a copy.
Alone(q) ==
  /\ \A r \in Runs : ~Active(r)
  /\ \A s \in Requests \ {q} : ~Holding(s)

\* repository.require; 404 if there is no such production.  A webhook is only
\* heard about a monitor the registry knows.
Load(q, op) ==
  /\ server # "down"
  /\ req[q].pc = "new"
  /\ op.kind = "reopen" => op.case \in monitored
  /\ req' = [req EXCEPT ![q] =
               IF Present(store)
               THEN [pc |-> "loaded", op |-> op, mem |-> store]
               ELSE NoRequest("done")]
  /\ UNCHANGED <<avars, monitored, sealed>>

\* parallel.createMonitor and monitors.save, unless the copy names a monitor
\* the registry knows; the case is saved later.
Watch(q) ==
  LET c == req[q].op.case
      p == req[q].mem
  IN  /\ req[q].pc = "loaded"
      /\ req[q].op.kind = "watch"
      /\ Accepts(p, q, req[q].op)
      /\ ~(HasMonitor(p.items[c]) /\ c \in monitored)
      /\ monitored' = monitored \cup {c}
      /\ req' = [req EXCEPT ![q].pc = "watching"]
      /\ UNCHANGED <<avars, sealed>>

\* A PATCH that gives a title and the archived flag saves twice: the copy the
\* first save returned is archived or restored next.
Rest(op) ==
  CASE op.kind = "rename_archive" -> [op EXCEPT !.kind = "archive"]
    [] op.kind = "rename_restore" -> [op EXCEPT !.kind = "restore"]
    [] OTHER -> NoOp

\* Where a handler saves (or removes) the document.
Saving(q) ==
  /\ \/ req[q].pc = "loaded" /\ req[q].op.kind # "watch"
     \/ req[q].pc = "watching"
  /\ Accepts(req[q].mem, q, req[q].op)

\* The edit of the copy and the save (or the removal) of the document.
Commit(q) ==
  /\ Saving(q)
  /\ Answered(Edit(req[q].mem, q, req[q].op))
  /\ req' = [req EXCEPT ![q] =
               IF Rest(req[q].op) = NoOp THEN NoRequest("done")
               ELSE [req[q] EXCEPT !.op = Rest(req[q].op), !.mem = store']]
  /\ sealed' = IF Alone(q) /\ RecordedIn(store', q)
               THEN sealed \cup {q} ELSE sealed
  /\ UNCHANGED <<run, server, bounds, lone, monitored>>

\* The repository rejects: the handler answers an error.
CommitRejects(q) ==
  /\ Saving(q)
  /\ Fault
  /\ Rejected(Edit(req[q].mem, q, req[q].op))
  /\ req' = [req EXCEPT ![q] = NoRequest("done")]
  /\ UNCHANGED <<run, server, lone, monitored, sealed>>

\* An error, an answer that needs no save, or a provider or asset store that
\* throws: the document stays as it is.
Refuse(q) ==
  /\ Holding(q)
  /\ req' = [req EXCEPT ![q] = NoRequest("done")]
  /\ UNCHANGED <<avars, monitored, sealed>>

---------------------------------------------------------------------------
RecordInit ==
  /\ Init
  /\ req = [q \in Requests |-> NoRequest("new")]
  /\ monitored = {}
  /\ sealed = {}

\* A new document owes nothing to the requests made on the one it replaces.
CreateRecord(r) ==
  /\ Create(r)
  /\ sealed' = {}
  /\ UNCHANGED <<req, monitored>>

\* Handlers and the monitor registry die with the process.
CrashServer ==
  /\ Crash
  /\ req' = [q \in Requests |->
               IF Holding(q) THEN NoRequest("done") ELSE req[q]]
  /\ monitored' = {}
  /\ UNCHANGED sealed

Background ==
  /\ Restart \/ \E r \in Runs : Recover(r) \/ Step(r)
  /\ UNCHANGED <<req, monitored, sealed>>

Handle(q) ==
  \/ \E op \in Ops : Load(q, op)
  \/ Watch(q) \/ Commit(q) \/ CommitRejects(q) \/ Refuse(q)

RecordNext ==
  \/ \E r \in Runs : CreateRecord(r)
  \/ CrashServer
  \/ Background
  \/ \E q \in Requests : Handle(q)

RecordSpec == RecordInit /\ [][RecordNext]_vars

---------------------------------------------------------------------------
(***************************************************************************)
(* Properties                                                              *)
(***************************************************************************)

\* The shape of the state.
RecordTypeOK ==
  /\ TypeOK
  /\ req = [q \in Requests |-> req[q]]
  /\ \A q \in Requests :
       /\ req[q] \in [pc : {"new", "loaded", "watching", "done"},
                      op : Op \cup {NoOp}, mem : {req[q].mem}]
       /\ Holding(q) => req[q].op \in Op
       /\ IsProject(req[q].mem)
  /\ monitored \subseteq Cases
  /\ sealed \subseteq Requests

\* The audit trail of every stored case accounts for its status: a reader who
\* replays the trail from "detected" arrives, without a gap, where the case
\* stands, however handlers, the run and the webhook interleaved their
\* whole-document saves.
TrailExplainsStatus ==
  \A c \in DOMAIN store.items : Explained(store.items[c])

\* No stored trail holds an outcome its actor may not issue: the summary's
\* ai_issued_approvals is zero, and only counsel approves (services/projects.ts
\* and canActorSet).
NoMachineApproval ==
  \A c \in DOMAIN store.items : ProperlyDecided(store.items[c])

\* In every stored trail no agent or system disposition follows a human act
\* on the case, although the run decides on a copy it loaded long before.
MachinesYieldToHumans ==
  \A c \in DOMAIN store.items : MachinesYield(store.items[c])

\* Every recorded permission cites documents that were attached to the same
\* case before it was recorded, whatever copies the attaching, the removing
\* and the deciding handlers worked on.
PermissionsHaveDocuments ==
  \A c \in DOMAIN store.items : PermissionsEvidenced(store.items[c])

\* No two export events of p carry the same request id.
ExportedOnce(p) ==
  \A i, j \in 1 .. Len(p.log) :
    /\ p.log[i].action = "packet_exported"
    /\ p.log[j].action = "packet_exported"
    /\ p.log[i].id = p.log[j].id
    => i = j

\* An export confirmed with one request id, sent once or again by a client
\* that timed out, is never recorded twice (packet.ts, recordPacketExport).
OneExportPerRequest == ExportedOnce(store)

\* What a handler recorded, and was answered for, while nobody else held a copy
\* of the document is never lost again, through crashes and saves that take
\* effect in part, short of deleting or re-creating the production: losing an
\* acknowledged decision takes a writer whose load came before it.
SealedDecisionsSurvive ==
  Present(store) => \A q \in sealed : RecordedIn(store, q)

\* "Document-dependent outcomes require a production record linked to the same
\* case": a case that stands at documented_permission has a document.
PermissionsStayDocumented ==
  \A c \in DOMAIN store.items :
    store.items[c].status = "documented_permission"
      => store.items[c].docs # {}

\* "Late research cannot overwrite a human disposition": no step of a run
\* changes the status of a stored case that a human has acted on.
LateResearchYields ==
  [][ run' # run /\ server' = server /\ store'.phase # "created" =>
        \A c \in DOMAIN store.items \cap DOMAIN store'.items :
          HasHumanDecision(store.items[c])
            => store'.items[c].status = store.items[c].status
    ]_vars

\* "Removes the record permanently": only a creation brings a production into
\* being where there is none.
RemovedStaysRemoved ==
  [][ ~Present(store) /\ Present(store') => store'.phase = "created" ]_vars

=============================================================================
