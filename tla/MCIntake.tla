------------------------------ MODULE MCIntake ------------------------------
(***************************************************************************)
(* An instance of Intake for TLC: a screenplay and a cut, uploaded through *)
(* the API or directly; and reconciliation over all short inputs.          *)
(***************************************************************************)
EXTENDS Intake, TLC

PlainFile(suffix, holds) == [suffix |-> suffix, holds |-> holds, large |-> FALSE]

Pdf  == PlainFile("pdf", "pdf")
Scan == PlainFile("pdf", "blank")   \* a PDF without a text layer
Clip == PlainFile("video", "video")

Session(slot, file, multipart) ==
  [kind |-> "session", slot |-> slot, file |-> file, multipart |-> multipart]

Creation(script, cut) == [kind |-> "create", script |-> script, cut |-> cut]

AllOps ==
  {Session("script", Pdf, FALSE), Session("cut", Clip, TRUE),
   Creation(Pdf, Clip), Creation(Clip, None), Creation(Scan, None)}
  \cup [kind : {"finalize"}, session : Requests]
  \cup {op \in [kind : {"assets"}, script : Requests \cup {None}, cut : Requests \cup {None}] :
          {op.script, op.cut} # {None}}
  \cup [kind : {"attach", "remove"}, id : Productions]
  \cup [kind : {"detach"}, id : Productions, key : Requests \X {"document"}]

RequestSymmetry == Permutations(Requests)

---------------------------------------------------------------------------
Candidate(name, category, start, end, at) ==
  [name |-> name, category |-> category, start |-> start, end |-> end,
   representative |-> at]

Mug  == Candidate("mug", "brand", 4, 2, 9)
Song == Candidate("song", "music", 1, 3, 0)
Cup  == Candidate("cup", "brand", 0, 9, 5)

OneScript == {<<Mug>>}
OneCut    == {<<Cup>>}
Answered  == {<<Match(1, 1, "materially_changed"), Match(1, 0, "script_only")>>}

Lists == {<< >>, <<Mug>>, <<Song, Mug>>}
Cuts  == {<< >>, <<Cup>>, <<Cup, Song>>}

Answer1 == {Match(i, j, r) : i \in 0 .. 3, j \in 0 .. 3,
                             r \in {"in_both", "materially_changed"}}

\* Whatever the reconciler answers, in at most two matches, of which some may
\* name no candidate or a claimed one, every candidate has one case.
ASSUME ReconciliationIsComplete ==
  \A script \in Lists, cut \in Cuts, matches \in SeqOf(Answer1, 2), duration \in {0, 4} :
    LET items == ReconcileStage(script, cut, matches, duration)
    IN  EachCandidateOnce(script, cut, items) /\ SpansFit(items, duration)

\* The fixture reconciler uses every index once, as the live one is asked to:
\* nothing is left over, and names that agree are never called changed.
ASSUME FixtureUsesEveryIndex ==
  \A script \in Lists, cut \in Cuts :
    LET matches == FixtureReconcile(script, cut)
    IN  cut # << >> =>
          /\ Len(ReconcileStage(script, cut, matches, 4)) = Len(matches)
          /\ \A m \in ToSet(matches) :
               /\ m.relationship = "in_both" => script[m.script].name = cut[m.cut].name
               /\ m.relationship = "materially_changed" =>
                    script[m.script].category = cut[m.cut].category

=============================================================================
