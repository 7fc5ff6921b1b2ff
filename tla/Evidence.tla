------------------------------ MODULE Evidence ------------------------------
(***************************************************************************)
(* What the research of one case makes of what providers answer            *)
(* (apps/api/src/pipeline/research-stage.ts and the two clients of         *)
(* packages/integrations).                                                 *)
(*                                                                         *)
(* A source is its URL: titles, excerpts and dates are left out.  A        *)
(* dossier is the number of rights holders it names and what it cites.     *)
(***************************************************************************)
EXTENDS Integers, SequencesExt

CONSTANT None   \* an absent value, no URL among them

Urls(sources) == ToSet(sources)

\* searchClearanceItem: results without a URL are dropped.
SearchAnswer(results) == SelectSeq(results, LAMBDA url : url # None)

\* Sources the case does not have; a search that repeats itself repeats here.
WithSearch(sources, found) ==
  sources \o SelectSeq(found, LAMBDA url : url \notin Urls(sources))

---------------------------------------------------------------------------
(***************************************************************************)
(* The fast path: an agent reads the retrieved sources and cites them by   *)
(* their position, counted from 0.                                         *)
(***************************************************************************)
\* Positions past the sources are dropped.
SynthesisCites(positions, sources) ==
  {sources[i + 1] : i \in {n \in positions : n + 1 \in DOMAIN sources}}

Synthesis(holders, positions, sources) ==
  [holders |-> holders, cites |-> SetToSeq(SynthesisCites(positions, sources))]

\* The fixture agent cites all it was given.
FixtureSynthesis(sources) ==
  Synthesis(1, {n \in 0 .. Len(sources) : n < Len(sources)}, sources)

---------------------------------------------------------------------------
(***************************************************************************)
(* The deep path: a Parallel Task searches on its own and cites URLs.      *)
(***************************************************************************)
\* Citations without a URL are dropped.
Task(holders, cites) == [holders |-> holders, cites |-> SearchAnswer(cites)]

\* What a dossier cites that the case has not, each URL once.
TaskSources(sources, cites) ==
  FoldLeft(LAMBDA new, url : IF url \in Urls(sources) \cup Urls(new) THEN new
                             ELSE Append(new, url),
           << >>, cites)

---------------------------------------------------------------------------
(***************************************************************************)
(* A case                                                                  *)
(***************************************************************************)
\* error: the last recorded failure.  cited: citation_count.
\* monitor: the monitor of the case.  trail: the deliveries that reopened it.
NewCase == [status |-> "detected", sources |-> << >>, error |-> "none", holders |-> 0,
            cited |-> 0, monitor |-> None, trail |-> << >>]

Searched(item, found) == [item EXCEPT !.sources = WithSearch(@, found)]

SearchFailed(item) == [item EXCEPT !.error = "search"]

\* The dossier is in.  An earlier error stays.
Answered(item, dossier) ==
  [item EXCEPT !.holders = dossier.holders,
               !.sources = @ \o TaskSources(@, dossier.cites),
               !.status = IF dossier.holders > 0 THEN "evidence_ready" ELSE "unresolved"]

\* The assembly threw, or its deadline passed first.
Unanswered(item) == [item EXCEPT !.error = "assembly", !.status = "unresolved"]

Counted(item) == [item EXCEPT !.cited = Cardinality(Urls(item.sources))]

\* Mutant: a provider's failure is read as a dossier that names nobody.
EmptyHanded(item, answer) ==
  Counted(IF answer = None THEN Answered(item, Task(0, << >>)) ELSE Answered(item, answer))

Concluded(item, answer) ==
  Counted(IF answer = None THEN Unanswered(item) ELSE Answered(item, answer))

\* Evidence that says what happened: a case left without a candidate and
\* without an error is one a dossier answered, naming nobody; a case with a
\* candidate has been answered; and citations are counted once each.
Honest(item, answered) ==
  /\ item.status = "unresolved" /\ item.error = "none" => answered /\ item.holders = 0
  /\ item.status = "evidence_ready" => answered /\ item.holders > 0
  /\ item.cited = Cardinality(Urls(item.sources))

=============================================================================
