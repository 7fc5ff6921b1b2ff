----------------------------- MODULE Revisions -----------------------------
(***************************************************************************)
(* Version Ripple over one ready production: the handlers of               *)
(* apps/api/src/routes/revisions.ts, the comparison a microtask runs after *)
(* each upload (runRevision of apps/api/src/pipeline/orchestrator.ts) and, *)
(* beside them, a person deciding cases.                                   *)
(*                                                                         *)
(* A handler loads the document, edits its copy and saves it whole; so     *)
(* does a comparison, with two provider calls in between.  Anything may    *)
(* happen between a load and its save.                                     *)
(***************************************************************************)
EXTENDS Comparison

CONSTANTS
  First,        \* what the first analysis found: a sequence of findings
  Scans,        \* what the scan of a revised source may find
  Ops,          \* the requests clients may make
  MaxTroubles   \* bound on crashes, lost comparisons and saves that reject
                \* after they took effect

VARIABLES
  store,    \* the document: cases, revisions, the active one, applications
  req,      \* the handlers
  build,    \* the comparison each upload starts
  troubles, \* the troubles so far
  overlaid  \* history: some save replaced a document its copy is not from

vars == <<store, req, build, troubles, overlaid>>

---------------------------------------------------------------------------
\* A revision is named for the request that makes it; an upload can make two,
\* the snapshot of what there is and the candidate it brings.
RevId == Requests \X {"snapshot", "candidate"}
NoRevision == << >>   \* a null revision id
Snapshot(q)  == <<q, "snapshot">>
Candidate(q) == <<q, "candidate">>

\* A case is named for the request, or the analysis, that found it.
ItemId == (Requests \cup {Pipeline}) \X (Nat \ {0})

Item == [id : ItemId, stable : Names, name : Names, scenes : SUBSET Scenes,
         times : SUBSET Times, case : Case]

Op == [kind : {"decide"}, item : ItemId]
      \cup [kind : {"list", "upload"}]
      \cup [kind : {"apply"}, revision : RevId, predecessor : RevId]

ASSUME RevisionsAssumption ==
  /\ First \in Seq(Finding)
  /\ Scans # {} /\ Scans \subseteq Seq(Finding)
  /\ Ops \subseteq Op
  /\ MaxTroubles \in Nat

ItemsOf(author, found) ==
  [k \in DOMAIN found |-> Detected(<<author, k>>, found[k])]

NewRevision(pred, state, items) ==
  [pred |-> pred, state |-> state, items |-> items, changes |-> {}]

\* The revisions of a production by id; their order is not kept.
WithRevision(p, id, rev) ==
  [p EXCEPT !.revisions = [i \in DOMAIN @ \cup {id} |->
                             IF i = id THEN rev ELSE @[i]]]

---------------------------------------------------------------------------
(***************************************************************************)
(* What a handler does to its copy.                                        *)
(***************************************************************************)
\* The snapshot taken the first time revisions are listed or uploaded.
EnsureInitialRevision(p, q) ==
  IF DOMAIN p.revisions # {} THEN p
  ELSE [WithRevision(p, Snapshot(q), NewRevision(NoRevision, "applied", p.items))
          EXCEPT !.active = Snapshot(q)]

\* Mutant: the placeholder is given a state the schema does not know.
UploadUnknown(p, q) ==
  WithRevision(p, Candidate(q), NewRevision(p.active, "uploaded", << >>))

\* The placeholder a comparison will replace.
Upload(p, q) ==
  WithRevision(p, Candidate(q), NewRevision(p.active, "processing", << >>))

AlreadyApplied(p, id) == p.active = id /\ p.revisions[id].state = "applied"

\* Mutant: only the predecessor the client names is checked.
ApplicableByClient(p, op) ==
  /\ p.revisions[op.revision].state = "ready"
  /\ op.predecessor = p.revisions[op.revision].pred

\* Ready, compared with what the client saw, and that is still active.
Applicable(p, op) ==
  /\ p.revisions[op.revision].state = "ready"
  /\ op.predecessor = p.revisions[op.revision].pred
  /\ p.active = p.revisions[op.revision].pred

\* The second half of applyRevision.
Promote(p, id, q) ==
  [p EXCEPT !.items   = Promoted(p.revisions[id].items,
                                 p.revisions[id].changes, q),
            !.active  = id,
            !.applied = Append(@, id),
            !.revisions[id].state = "applied"]

\* Mutant: an application sent again is carried out again.
ApplyAgain(p, id, q) == Promote(p, id, q)

\* already_applied: the copy is saved as it is.
Apply(p, id, q) == IF AlreadyApplied(p, id) THEN p ELSE Promote(p, id, q)

Approval(q) ==
  [by |-> q, actor |-> "counsel", status |-> "counsel_approved",
   rationale |-> TRUE, docs |-> {}]

Decide(items, id, q) ==
  [i \in DOMAIN items |->
     IF items[i].id = id
     THEN [items[i] EXCEPT !.case = ApplyDisposition(@, Approval(q))]
     ELSE items[i]]

\* The handler saves something; it answers without a save otherwise.
Accepts(p, op) ==
  CASE op.kind = "decide" -> \E i \in DOMAIN p.items : p.items[i].id = op.item
    [] op.kind = "list"   -> DOMAIN p.revisions = {}
    [] op.kind = "upload" -> TRUE
    [] op.kind = "apply"  ->
         /\ op.revision \in DOMAIN p.revisions
         /\ AlreadyApplied(p, op.revision) \/ Applicable(p, op)

Edit(p, q, op) ==
  CASE op.kind = "decide" ->
         [p EXCEPT !.items = Decide(@, op.item, q)]
    [] op.kind = "list"   -> EnsureInitialRevision(p, q)
    [] op.kind = "upload" -> Upload(EnsureInitialRevision(p, q), q)
    [] op.kind = "apply"  -> Apply(p, op.revision, q)

---------------------------------------------------------------------------
(***************************************************************************)
(* Handlers                                                                *)
(***************************************************************************)
Idle == [pc |-> "done"]
NoBuild == [pc |-> "none"]

\* require, and the 404s and 409s the loaded copy decides.
Load(q, op) ==
  /\ req[q].pc = "new"
  /\ req' = [req EXCEPT ![q] =
               IF Accepts(store, op)
               THEN [pc |-> "loaded", op |-> op, mem |-> store] ELSE Idle]
  /\ UNCHANGED <<store, build, troubles, overlaid>>

Saves(mem, new) ==
  /\ store' = new
  /\ overlaid' = (overlaid \/ mem # store)

SavesEdit(q) ==
  /\ req[q].pc = "loaded"
  /\ Saves(req[q].mem, Edit(req[q].mem, q, req[q].op))
  /\ req' = [req EXCEPT ![q] = Idle]

Commit(q) ==
  /\ SavesEdit(q)
  /\ build' = IF req[q].op.kind = "upload"
              THEN [build EXCEPT ![q] = [pc |-> "queued"]] ELSE build
  /\ UNCHANGED troubles

\* The save rejects after it took effect: an upload's comparison never starts.
CommitRejects(q) ==
  /\ SavesEdit(q)
  /\ troubles < MaxTroubles
  /\ troubles' = troubles + 1
  /\ UNCHANGED build

\* A preflight that refuses the file, an asset store that rejects, a save that
\* rejects without effect.
Abandon(q) ==
  /\ req[q].pc = "loaded"
  /\ req' = [req EXCEPT ![q] = Idle]
  /\ UNCHANGED <<store, build, troubles, overlaid>>

---------------------------------------------------------------------------
(***************************************************************************)
(* runRevision                                                             *)
(***************************************************************************)
Begin(q) ==
  /\ build[q].pc = "queued"
  /\ build' = [build EXCEPT ![q] =
                 IF Candidate(q) \in DOMAIN store.revisions
                 THEN [pc |-> "scanning", mem |-> store] ELSE NoBuild]
  /\ UNCHANGED <<store, req, troubles, overlaid>>

\* buildCandidateRevision against the revision active in the copy.
Compared(p, q, found) ==
  LET prev == p.revisions[p.active].items
      cand == ItemsOf(q, found)
  IN  WithRevision(p, Candidate(q),
        [pred |-> p.active, state |-> "ready", items |-> Carried(prev, cand),
         changes |-> Compare(prev, cand)])

\* The candidate is saved, by the save in the try or, if that one rejects, by
\* the catch: its copy holds the ready candidate, not the placeholder.
Ready(q) ==
  /\ build[q].pc = "scanning"
  /\ \E found \in Scans : Saves(build[q].mem, Compared(build[q].mem, q, found))
  /\ build' = [build EXCEPT ![q] = NoBuild]
  /\ UNCHANGED <<req, troubles>>

\* Mutant: the catch says so but leaves the placeholder as it was.
StillProcessing(q) ==
  /\ build[q].pc = "scanning"
  /\ Saves(build[q].mem, build[q].mem)
  /\ build' = [build EXCEPT ![q] = NoBuild]
  /\ UNCHANGED <<req, troubles>>

\* A stage throws.
Stopped(q) ==
  /\ build[q].pc = "scanning"
  /\ Saves(build[q].mem,
           [build[q].mem EXCEPT !.revisions[Candidate(q)].state = "failed"])
  /\ build' = [build EXCEPT ![q] = NoBuild]
  /\ UNCHANGED <<req, troubles>>

\* The load, or the save in the catch, rejects too; nobody hears of it.
Vanish(q) ==
  /\ build[q].pc \in {"queued", "scanning"}
  /\ troubles < MaxTroubles
  /\ troubles' = troubles + 1
  /\ build' = [build EXCEPT ![q] = NoBuild]
  /\ UNCHANGED <<store, req, overlaid>>

\* The process dies and starts again: recovery looks at phases only.
Crash ==
  /\ troubles < MaxTroubles
  /\ troubles' = troubles + 1
  /\ req' = [q \in Requests |-> IF req[q].pc = "loaded" THEN Idle ELSE req[q]]
  /\ build' = [q \in Requests |-> NoBuild]
  /\ UNCHANGED <<store, overlaid>>

---------------------------------------------------------------------------
Init ==
  /\ store = [items |-> ItemsOf(Pipeline, First), revisions |-> << >>,
              active |-> NoRevision, applied |-> << >>]
  /\ req = [q \in Requests |-> [pc |-> "new"]]
  /\ build = [q \in Requests |-> NoBuild]
  /\ troubles = 0
  /\ overlaid = FALSE

Handle(q) ==
  \/ \E op \in Ops : Load(q, op)
  \/ Commit(q)
  \/ CommitRejects(q)
  \/ Abandon(q)
Build(q)  == Begin(q) \/ Ready(q) \/ Stopped(q) \/ Vanish(q)

Next ==
  \/ \E q \in Requests : Handle(q) \/ Build(q)
  \/ Crash

Spec == Init /\ [][Next]_vars

---------------------------------------------------------------------------
(***************************************************************************)
(* Properties                                                              *)
(***************************************************************************)
IsDocument(p) ==
  /\ DOMAIN p = {"items", "revisions", "active", "applied"}
  /\ p.items \in Seq(Item)
  /\ p.active \in RevId \cup {NoRevision}
  /\ p.applied \in Seq(RevId)
  /\ DOMAIN p.revisions \subseteq RevId
  /\ \A id \in DOMAIN p.revisions :
       /\ p.revisions[id].pred \in RevId \cup {NoRevision}
       /\ p.revisions[id].state \in {"processing", "ready", "applied", "failed"}
       /\ p.revisions[id].items \in Seq(Item)

\* The shape of the state.
TypeOK ==
  /\ IsDocument(store)
  /\ \A q \in Requests :
       /\ req[q].pc = "loaded" => req[q].op \in Op /\ IsDocument(req[q].mem)
       /\ build[q].pc = "scanning" => IsDocument(build[q].mem)

AppliedIn(p) ==
  {id \in DOMAIN p.revisions : p.revisions[id].state = "applied"}

\* The applied revisions of p form one line of descent: each but the first was
\* compared with another applied one, no two with the same, and the active one
\* is applied and nobody's predecessor among them.
OneLine(p) ==
  /\ DOMAIN p.revisions # {} => p.active \in AppliedIn(p)
  /\ \A id \in AppliedIn(p) :
       /\ p.revisions[id].pred # p.active
       /\ p.revisions[id].pred \in AppliedIn(p) \cup {NoRevision}
  /\ \A a, b \in AppliedIn(p) :
       p.revisions[a].pred = p.revisions[b].pred => a = b

\* Whichever comparisons, applications and saves interleave, the versions of a
\* stored production never fork: RevisionConflictError of revisions.ts works
\* on copies that may be old, and a stored document is always one copy.
LinearHistory == OneLine(store)

\* A production's trail records the application of a revision at most once,
\* also when a client that saw no answer applies it again (already_applied).
AppliedOnce ==
  \A i, j \in DOMAIN store.applied :
    store.applied[i] = store.applied[j] => i = j

\* Every case of the predecessor and every case of the candidate is in exactly
\* one change of a stored comparison: none is dropped between the three passes
\* of findMatches, and none is claimed twice.
ComparisonComplete ==
  \A id \in DOMAIN store.revisions :
    LET r == store.revisions[id]
    IN  r.state \in {"ready", "applied"} /\ r.pred # NoRevision =>
          LET prev == store.revisions[r.pred].items
          IN  /\ \A k \in DOMAIN prev :
                   Cardinality({ch \in r.changes : ch.before = prev[k].id}) = 1
              /\ \A k \in DOMAIN r.items :
                   Cardinality({ch \in r.changes :
                                  ch.after = r.items[k].id}) = 1

\* "Carry unchanged human work forward": a case that was matched starts in the
\* candidate with the record its predecessor's snapshot had, so whatever a
\* person had decided by then is found again (idea.md:64, carryRecord).
MatchedCasesInherit ==
  \A id \in DOMAIN store.revisions :
    LET r == store.revisions[id]
    IN  \A ch \in r.changes : ch.before # NoItem /\ ch.after # NoItem =>
          \E b \in ToSet(store.revisions[r.pred].items),
             a \in ToSet(r.items) :
            b.id = ch.before /\ a.id = ch.after /\ a.case = b.case

\* A revision shown as processing is being worked on, unless the process died,
\* the repository rejected a call, or a save replaced a document it had not
\* read: the page has no way to compare again, so it would wait forever.
ProcessingHasBuilder ==
  \A id \in DOMAIN store.revisions :
    store.revisions[id].state = "processing" =>
      \/ \E q \in Requests :
           id = Candidate(q) /\ build[q].pc \in {"queued", "scanning"}
      \/ troubles > 0
      \/ overlaid

\* The step carries out, on the copy q loaded, the application q asks for.
Applies(q) ==
  /\ req[q].pc = "loaded" /\ req'[q].pc = "done" /\ store' # store
  /\ req[q].op.kind = "apply"
  /\ ~AlreadyApplied(req[q].mem, req[q].op.revision)

\* The comparison being applied.
AppliedBy(q) == req[q].mem.revisions[req[q].op.revision]

StableIdsDiffer(items) ==
  \A a, b \in DOMAIN items : items[a].stable = items[b].stable => a = b

\* Some change of the comparison that names the case as it now is has a kind
\* of kinds.
Reported(r, item, kinds) ==
  \E ch \in r.changes : ch.after = item.id /\ ch.kind \in kinds

\* What "affected" means is disputed (see ReportedCasesReopen): the documents
\* and the code agree that a materially changed case nobody has acted on is.
MustReopen(r, item) ==
  Reported(r, item, {"materially_changed"}) /\ ~HasHumanDecision(item.case)

\* And that a case the comparison reports as unchanged is not.
MayReopen(r, item) ==
  Reported(r, item, {"added", "materially_changed", "decision_stale"})

\* "Only affected items reopen": applying a revision reopens every materially
\* changed case nobody has acted on, moves no unchanged case, and moves the
\* others to reopened_by_revision if at all; provided no two cases share a
\* stable id (a screenplay may list one element twice).  Nothing is said of
\* the added cases and those a person decided.
AffectedCasesReopen ==
  [][ \A q \in Requests :
        Applies(q) /\ StableIdsDiffer(AppliedBy(q).items) =>
          \A k \in DOMAIN AppliedBy(q).items :
            LET item   == AppliedBy(q).items[k]
                status == store'.items[k].case.status
            IN  /\ status # item.case.status =>
                     /\ MayReopen(AppliedBy(q), item)
                     /\ status = "reopened_by_revision"
                /\ MustReopen(AppliedBy(q), item) =>
                     status = "reopened_by_revision"
    ]_vars

\* "reopens `added`, `materially_changed`, and `decision_stale` cases": a case
\* reported as one of the three is reopened by the application.
ReportedCasesReopen ==
  [][ \A q \in Requests :
        Applies(q) =>
          \A item \in ToSet(store'.items) :
            MayReopen(AppliedBy(q), item) =>
              item.case.status = "reopened_by_revision"
    ]_vars

=============================================================================
