---------------------------- MODULE Disposition ----------------------------
(***************************************************************************)
(* The clearance case and the rules by which its workflow status changes:  *)
(* packages/domain/src/status.ts, and the case-level effect of the HTTP    *)
(* handlers that append to a case's audit trail without going through it.  *)
(*                                                                         *)
(* A case keeps the fields the rules read and write.  An audit event keeps *)
(* who acted, what was done, the statuses it moves between and the         *)
(* documents it cites; its random id is replaced by `by', the request that *)
(* recorded it (or Pipeline).  A document is named by the request that     *)
(* attached it.  The heat colour is a function of the status and is not    *)
(* kept; evidence, its gaps, names and anchors are not kept either.        *)
(***************************************************************************)
EXTENDS Naturals, Sequences

CONSTANT Requests        \* the HTTP requests a behaviour may contain

Pipeline == "pipeline"   \* the author of what the analysis run records
None     == "none"       \* a null status

ASSUME RequestsAssumption == Pipeline \notin Requests

Humans   == {"coordinator", "counsel"}
Machines == {"agent", "system"}
Actors   == Humans \cup Machines

\* HUMAN_OWNED_STATUSES
HumanOwned == {"coordinator_verified", "counsel_approved",
               "documented_permission", "approved_replacement",
               "false_positive"}

\* RESOLVED_STATUSES
Resolved == {"counsel_approved", "documented_permission",
             "approved_replacement", "false_positive"}

Statuses == HumanOwned \cup
            {"detected", "researching", "evidence_ready", "unresolved",
             "waiting_on_rights_holder", "replacement_requested",
             "reopened_by_revision", "reopened_by_monitor"}

Actions == {"status_change", "assignment_changed", "document_attached",
            "document_removed", "document_metadata_updated",
            "monitor_opened", "monitor_reopened"}

Event == [by : Requests \cup {Pipeline}, actor : Actors, action : Actions,
          from : Statuses \cup {None}, to : Statuses \cup {None},
          docs : SUBSET Requests]

Case == [status : Statuses, resolved : BOOLEAN, docs : SUBSET Requests,
         trail : Seq(Event)]

\* Mutant: a case assembled without a workflow status.
UnstatedCase == [status |-> None, resolved |-> FALSE, docs |-> {},
                 trail |-> << >>]

\* A case as reconciliation creates it (emptyItem).
NewCase == [status |-> "detected", resolved |-> FALSE, docs |-> {},
            trail |-> << >>]

---------------------------------------------------------------------------
(***************************************************************************)
(* status.ts                                                               *)
(***************************************************************************)

\* A DispositionChange: `rationale' says whether a non-blank one is given.
Change == [by : Requests \cup {Pipeline}, actor : Actors, status : Statuses,
           rationale : BOOLEAN, docs : SUBSET Requests]

CanActorSet(actor, status) ==
  /\ actor \in Machines => status \notin HumanOwned
  /\ status = "counsel_approved" => actor = "counsel"

\* Any audited human act counts, not only a status change.
HasHumanDecision(case) ==
  \E i \in 1 .. Len(case.trail) : case.trail[i].actor \in Humans

\* Mutant: only a human status change counts as a decision.
MutedByStatusOnly(case, change) ==
  /\ change.actor \in Machines
  /\ \E i \in 1 .. Len(case.trail) :
       /\ case.trail[i].actor \in Humans
       /\ case.trail[i].action = "status_change"

\* The early return: a machine actor leaves a human-decided case alone.
Muted(case, change) ==
  /\ change.actor \in Machines
  /\ HasHumanDecision(case)

\* Mutant: the actor is not checked against the status.
RefusedForAnyActor(case, change) ==
  /\ ~Muted(case, change)
  /\ \/ change.actor \in Humans /\ ~change.rationale
     \/ /\ change.status = "documented_permission"
        /\ change.docs = {} \/ ~(change.docs \subseteq case.docs)

\* Mutant: a permission may cite a document the case does not have.
RefusedWithoutLookup(case, change) ==
  /\ ~Muted(case, change)
  /\ \/ ~CanActorSet(change.actor, change.status)
     \/ change.actor \in Humans /\ ~change.rationale
     \/ change.status = "documented_permission" /\ change.docs = {}

\* The three DomainErrors.
Refused(case, change) ==
  /\ ~Muted(case, change)
  /\ \/ ~CanActorSet(change.actor, change.status)
     \/ change.actor \in Humans /\ ~change.rationale
     \/ /\ change.status = "documented_permission"
        /\ change.docs = {} \/ ~(change.docs \subseteq case.docs)

\* Mutant: the event reads the status after it was overwritten.
RecordLate(case, change) ==
  [case EXCEPT
     !.status   = change.status,
     !.resolved = change.status \in Resolved,
     !.trail    = Append(@, [by |-> change.by, actor |-> change.actor,
                             action |-> "status_change",
                             from |-> change.status, to |-> change.status,
                             docs |-> change.docs])]

\* The new status, the fields derived from it and the audit event.
Record(case, change) ==
  [case EXCEPT
     !.status   = change.status,
     !.resolved = change.status \in Resolved,
     !.trail    = Append(@, [by |-> change.by, actor |-> change.actor,
                             action |-> "status_change",
                             from |-> case.status, to |-> change.status,
                             docs |-> change.docs])]

\* What applyDisposition returns when it does not throw.
ApplyDisposition(case, change) ==
  IF Muted(case, change) THEN case ELSE Record(case, change)

---------------------------------------------------------------------------
(***************************************************************************)
(* Audited acts that bypass applyDisposition.                              *)
(***************************************************************************)

\* An event that moves no status: audit() of services/items.ts.
Note(by, action, docs) ==
  [by |-> by, actor |-> "coordinator", action |-> action,
   from |-> None, to |-> None, docs |-> docs]

Annotate(case, by, action, docs) ==
  [case EXCEPT !.trail = Append(@, Note(by, action, docs))]

\* The document is named for the request that attaches it.
AttachDocument(case, by) ==
  [Annotate(case, by, "document_attached", {by}) EXCEPT !.docs = @ \cup {by}]

RemoveDocument(case, by, doc) ==
  [Annotate(case, by, "document_removed", {doc}) EXCEPT !.docs = @ \ {doc}]

\* Mutant: the reopening event reads the status after it was overwritten.
MonitorReopensLate(case, by) ==
  IF case.status = "reopened_by_monitor" THEN case
  ELSE [case EXCEPT
          !.status   = "reopened_by_monitor",
          !.resolved = FALSE,
          !.trail    = Append(@, [by |-> by, actor |-> "agent",
                                  action |-> "monitor_reopened",
                                  from |-> "reopened_by_monitor",
                                  to |-> "reopened_by_monitor",
                                  docs |-> {}])]

\* The webhook writes the status by hand, over any earlier decision.
MonitorReopens(case, by) ==
  IF case.status = "reopened_by_monitor" THEN case
  ELSE [case EXCEPT
          !.status   = "reopened_by_monitor",
          !.resolved = FALSE,
          !.trail    = Append(@, [by |-> by, actor |-> "agent",
                                  action |-> "monitor_reopened",
                                  from |-> case.status,
                                  to |-> "reopened_by_monitor",
                                  docs |-> {}])]

---------------------------------------------------------------------------
(***************************************************************************)
(* What the audit trail of a case owes its reader.                         *)
(***************************************************************************)

\* s is the status after the first n events of trail t.
StatusAfter(t, n, s) ==
  /\ (\A i \in 1 .. n : t[i].to = None) => s = "detected"
  /\ \A i \in 1 .. n :
       t[i].to # None /\ (\A j \in 1 .. n : j > i => t[j].to = None)
         => s = t[i].to

\* Every status-moving event starts from the status the previous one left,
\* and the case stands where the last one left it.
Explained(case) ==
  /\ StatusAfter(case.trail, Len(case.trail), case.status)
  /\ \A k \in 1 .. Len(case.trail) :
       case.trail[k].to # None
         => StatusAfter(case.trail, k - 1, case.trail[k].from)
  /\ (case.resolved <=> case.status \in Resolved)

\* No event of the trail put the case in a status its actor may not set.
ProperlyDecided(case) ==
  \A i \in 1 .. Len(case.trail) :
    case.trail[i].to # None
      => CanActorSet(case.trail[i].actor, case.trail[i].to)

\* No machine changed the case's disposition after a human had acted on it.
MachinesYield(case) ==
  \A i, j \in 1 .. Len(case.trail) :
    /\ i < j
    /\ case.trail[i].actor \in Humans
    /\ case.trail[j].actor \in Machines
    => case.trail[j].action # "status_change"

\* Attached by an event among the first n.
AttachedBy(t, n, doc) ==
  \E i \in 1 .. n : t[i].action = "document_attached" /\ doc \in t[i].docs

\* Every recorded permission cites at least one document, each of which an
\* earlier event of the same trail attached to this case.
PermissionsEvidenced(case) ==
  /\ \A i \in 1 .. Len(case.trail) :
       case.trail[i].to = "documented_permission" =>
         /\ case.trail[i].docs # {}
         /\ \A d \in case.trail[i].docs : AttachedBy(case.trail, i - 1, d)
  /\ \A d \in case.docs : AttachedBy(case.trail, Len(case.trail), d)

=============================================================================
