---------------------------- MODULE Comparison ----------------------------
(***************************************************************************)
(* Version Ripple without its storage: how the cases of a candidate        *)
(* revision are matched with those of the revision it would replace, what  *)
(* each match is called, and what a case inherits.  All of it is           *)
(* packages/domain/src/revisions.ts up to buildCandidateRevision.          *)
(*                                                                         *)
(* An item is what revisions read of a clearance case: its id, its stable  *)
(* id, its name (normalised), where it was found and its record.  A stable *)
(* id is the name it was first derived from.  Where it was found is a set  *)
(* of scenes and a set of start times in seconds; its provenance says      *)
(* which of the two are empty and needs no field.                          *)
(***************************************************************************)
EXTENDS Disposition, FiniteSetsExt, SequencesExt

CONSTANTS
  Names,          \* normalised names a scan may report
  CategoryOf,     \* the category of each name
  Scenes, Times,  \* where an element may be found
  Nearby          \* how far apart two sightings may start, in seconds

ASSUME ComparisonAssumption ==
  /\ DOMAIN CategoryOf = Names
  /\ Times \subseteq Nat
  /\ Nearby \in Nat

\* What the scan of a source reports and reconciliation turns into a case.
Finding == [name : Names, scenes : SUBSET Scenes, times : SUBSET Times]

Kinds == {"added", "removed", "unchanged", "materially_changed",
          "decision_stale"}

\* A case as reconcileStage assembles it from a finding.
Detected(id, f) ==
  [id |-> id, stable |-> f.name, name |-> f.name, scenes |-> f.scenes,
   times |-> f.times, case |-> NewCase]

---------------------------------------------------------------------------
(***************************************************************************)
(* findMatches: three passes over the candidates, each taking from the     *)
(* previous items nobody has matched yet.  A match is a function from the  *)
(* candidates' positions to positions of the previous items, 0 for none.   *)
(***************************************************************************)

Close(before, after) ==
  \/ before.scenes \cap after.scenes # {}
  \/ \E s \in before.times, t \in after.times :
       s - t \in -Nearby .. Nearby

\* Mutant: a matched item is not taken out of the map.
FreeAndTaken(prev, m) == DOMAIN prev

Free(prev, m) == DOMAIN prev \ {m[c] : c \in DOMAIN m}

\* byStable keeps the last item of a stable id; it counts only if unmatched.
ByStableId(prev, m, c) ==
  LET same == {i \in DOMAIN prev : prev[i].stable = c.stable}
  IN  IF same # {} /\ Max(same) \in Free(prev, m) THEN Max(same) ELSE 0

ByName(prev, m, c) ==
  LET same == {i \in Free(prev, m) : prev[i].name = c.name}
  IN  IF same # {} THEN Min(same) ELSE 0

\* Only when exactly one unmatched item of the category is close.
ByProximity(prev, m, c) ==
  LET near == {i \in Free(prev, m) :
                 /\ CategoryOf[prev[i].name] = CategoryOf[c.name]
                 /\ Close(prev[i], c)}
  IN  IF Cardinality(near) = 1 THEN CHOOSE i \in near : TRUE ELSE 0

Find(pass, prev, m, c) ==
  CASE pass = "stable_id" -> ByStableId(prev, m, c)
    [] pass = "name"      -> ByName(prev, m, c)
    [] pass = "proximity" -> ByProximity(prev, m, c)

\* One step of a loop: the candidates that have a match are skipped.
Claim(pass, prev, cand, m, c) ==
  IF m[c] # 0 THEN m ELSE [m EXCEPT ![c] = Find(pass, prev, m, cand[c])]

\* One loop over the candidates, from the matches there are already.
Pass(pass, prev, cand, start) ==
  LET m[n \in 0 .. Len(cand)] ==
        IF n = 0 THEN start ELSE Claim(pass, prev, cand, m[n - 1], n)
  IN  m[Len(cand)]

Matches(prev, cand) ==
  Pass("proximity", prev, cand,
    Pass("name", prev, cand,
      Pass("stable_id", prev, cand, [c \in DOMAIN cand |-> 0])))

---------------------------------------------------------------------------
AnchorsChanged(before, after) ==
  before.scenes # after.scenes \/ before.times # after.times

Kind(before, after) ==
  IF HasHumanDecision(before.case) /\ AnchorsChanged(before, after)
  THEN "decision_stale"
  ELSE IF before.name # after.name THEN "materially_changed"
  ELSE "unchanged"

NoItem == << >>   \* a null item id

RippleChange(kind, stable, before, after) ==
  [kind |-> kind, stable |-> stable, before |-> before, after |-> after]

\* compareRevisions: one change per candidate, one per item left over.
Compare(prev, cand) ==
  LET m == Matches(prev, cand)
  IN  {IF m[c] = 0
       THEN RippleChange("added", cand[c].stable, NoItem, cand[c].id)
       ELSE RippleChange(Kind(prev[m[c]], cand[c]), prev[m[c]].stable,
                    prev[m[c]].id, cand[c].id) : c \in DOMAIN cand}
      \cup
      {RippleChange("removed", prev[i].stable, prev[i].id, NoItem) :
         i \in Free(prev, m)}

\* Mutant: the record is not carried over.
CarryNothing(before, after) == [after EXCEPT !.stable = before.stable]

\* The record and the stable id stay, everything the scan saw is new.
CarryRecord(before, after) ==
  [after EXCEPT !.stable = before.stable, !.case = before.case]

\* The items of buildCandidateRevision.
Carried(prev, cand) ==
  LET m == Matches(prev, cand)
  IN  [c \in DOMAIN cand |->
         IF m[c] = 0 THEN cand[c] ELSE CarryRecord(prev[m[c]], cand[c])]

---------------------------------------------------------------------------
(***************************************************************************)
(* The first half of applyRevision: the promoted items, each change that   *)
(* affects a case reopening the last item of its stable id.                *)
(***************************************************************************)
Affects(change) == change.kind \in {"materially_changed", "decision_stale"}

ReopenedByRevision(by) ==
  [by |-> by, actor |-> "system", status |-> "reopened_by_revision",
   rationale |-> TRUE, docs |-> {}]

\* A case after the given number of changes that affect it.
Reopened(case, changes, by) ==
  LET after[n \in 0 .. changes] ==
        IF n = 0 THEN case
        ELSE ApplyDisposition(after[n - 1], ReopenedByRevision(by))
  IN  after[changes]

\* Mutant: nothing is reopened.
PromotedAsIs(items, changes, by) == items

\* A change finds its item by the stable id alone; byStable keeps the last one.
Promoted(items, changes, by) ==
  [k \in DOMAIN items |->
     IF \E j \in DOMAIN items : j > k /\ items[j].stable = items[k].stable
     THEN items[k]
     ELSE [items[k] EXCEPT
             !.case = Reopened(@, Cardinality({change \in changes :
                        /\ Affects(change)
                        /\ change.stable = items[k].stable}), by)]]

=============================================================================
