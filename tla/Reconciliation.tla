--------------------------- MODULE Reconciliation ---------------------------
(***************************************************************************)
(* How two scans become cases: what the stages between a stored source and *)
(* the first case compute (apps/api/src/pipeline/reconcile-stage.ts, the   *)
(* fixture reconciler of packages/integrations/src/gemini/client.ts).      *)
(*                                                                         *)
(* A script candidate has a name and a category, a cut candidate also its  *)
(* start, end and representative second.  Wording, priority, confidence    *)
(* and excerpts are left out.  A case names the candidates it was made     *)
(* from by their positions, 0 for none.                                    *)
(***************************************************************************)
EXTENDS Integers, SequencesExt, FiniteSetsExt

Relationships == {"in_both", "script_only", "cut_only", "materially_changed"}

\* A match of the reconciler: positions it names, 0 for null.  The schema
\* allows any other number, also past the end.
Match(script, cut, relationship) ==
  [script |-> script, cut |-> cut, relationship |-> relationship]

Within(x, low, high) == Min({Max({x, low}), high})

\* The span of a cut candidate, forced into the running time.
Detection(c, duration) ==
  LET start == Within(c.start, 0, duration)
      end   == Within(c.end, start, duration)
  IN  [start |-> start, end |-> end,
       representative |-> Within(c.representative, start, end)]

\* A case made from one candidate or from two; source is the one it is named by.
Assembled(source, i, j, spans, kind) ==
  [name |-> source.name, category |-> source.category, script |-> i, cut |-> j,
   spans |-> spans, kind |-> kind]

FromMatch(script, cut, m, duration) ==
  LET i == IF m.script \in DOMAIN script THEN m.script ELSE 0
      j == IF m.cut \in DOMAIN cut THEN m.cut ELSE 0
      byCut == i = 0 \/ (m.relationship = "materially_changed" /\ j # 0)
  IN  Assembled(IF byCut THEN cut[j] ELSE script[i], i, j,
                IF j = 0 THEN << >> ELSE <<Detection(cut[j], duration)>>,
                m.relationship)

\* A match counts if it names a candidate, and none that has a case.
Counts(items, script, cut, m) ==
  /\ m.script \in DOMAIN script \/ m.cut \in DOMAIN cut
  /\ m.script \in DOMAIN script => \A k \in DOMAIN items : items[k].script # m.script
  /\ m.cut \in DOMAIN cut => \A k \in DOMAIN items : items[k].cut # m.cut

\* What is considered for a case, in this order: what the reconciler answered,
\* which is not asked without a cut, then each candidate by itself.
Considered(script, cut, matches) ==
  (IF cut = << >> THEN << >> ELSE matches)
  \o [i \in DOMAIN script |-> Match(i, 0, "script_only")]
  \o [j \in DOMAIN cut |-> Match(0, j, "cut_only")]

\* The cases of a production.
ReconcileStage(script, cut, matches, duration) ==
  LET ms == Considered(script, cut, matches)
      items[n \in 0 .. Len(ms)] ==
        IF n = 0 THEN << >>
        ELSE IF Counts(items[n - 1], script, cut, ms[n])
             THEN Append(items[n - 1], FromMatch(script, cut, ms[n], duration))
             ELSE items[n - 1]
  IN  items[Len(ms)]

---------------------------------------------------------------------------
\* The reconciler used without credentials: each script candidate takes the
\* first free cut candidate of its name, or else of its category.
FixtureReconcile(script, cut) ==
  LET Take(acc, i) ==
        LET exact == {j \in acc.free : cut[j].name = script[i].name}
            alike == {j \in acc.free : cut[j].category = script[i].category}
            j == IF exact # {} THEN Min(exact) ELSE IF alike # {} THEN Min(alike) ELSE 0
        IN  [free |-> acc.free \ {j},
             matches |-> Append(acc.matches, Match(i, j,
                IF j = 0 THEN "script_only"
                ELSE IF exact # {} THEN "in_both" ELSE "materially_changed"))]
      paired == FoldLeftDomain(Take, [free |-> DOMAIN cut, matches |-> << >>], script)
      alone == SetToSortSeq(paired.free, <)
  IN  paired.matches \o [k \in DOMAIN alone |-> Match(0, alone[k], "cut_only")]

---------------------------------------------------------------------------
\* Every candidate has exactly one case, and every detection lies in order
\* inside the running time: what the rest of the program takes for granted.
EachCandidateOnce(script, cut, items) ==
  /\ \A i \in DOMAIN script : Cardinality({k \in DOMAIN items : items[k].script = i}) = 1
  /\ \A j \in DOMAIN cut : Cardinality({k \in DOMAIN items : items[k].cut = j}) = 1
  /\ \A k \in DOMAIN items : items[k].script # 0 \/ items[k].cut # 0

SpansFit(items, duration) ==
  \A k \in DOMAIN items : \A n \in DOMAIN items[k].spans :
    LET s == items[k].spans[n]
    IN  0 <= s.start /\ s.start <= s.representative
        /\ s.representative <= s.end /\ s.end <= duration

=============================================================================
