----------------------------- MODULE MCDelivery -----------------------------
(***************************************************************************)
(* An instance of Delivery for TLC, and the algorithms that keep no state  *)
(* over all short inputs.                                                  *)
(***************************************************************************)
EXTENDS Delivery, MCAlgorithms

CONSTANTS c1, u1, u2, d1, h1

DeepAnswer(holders, cites) ==
  [deep |-> TRUE, holders |-> holders, cites |-> cites, positions |-> {}]

FastAnswer(holders, positions) ==
  [deep |-> FALSE, holders |-> holders, cites |-> << >>, positions |-> positions]

Found   == {<<u1, None>>}
Replies == {DeepAnswer(1, <<u2, u2>>), FastAnswer(0, {0, 3})}

OneOfEach == [part \in {"network", "server"} |-> 1]

HandlerOps ==
  {[kind |-> "monitor", case |-> c1], [kind |-> "decide", case |-> c1]}
  \cup {[kind |-> "deliver", monitor |-> h1, id |-> id] : id \in {d1}}

---------------------------------------------------------------------------
(***************************************************************************)
(* Evidence over short lists of sources and of provider answers            *)
(***************************************************************************)
Lists   == SeqOf({u1, u2, None}, 3)
Sources == SeqOf({u1, u2}, 2)

\* A synthesis cites retrieved sources only, whatever positions it answers.
ASSUME CitesWereRetrieved ==
  \A sources \in Sources, positions \in SUBSET (0 .. 3) :
    Urls(Synthesis(1, positions, sources).cites) \subseteq Urls(sources)

\* Fixtures cite everything they retrieved.
ASSUME FixturesCiteAll ==
  \A sources \in Sources : Urls(FixtureSynthesis(sources).cites) = Urls(sources)

\* What a task cites joins the sources once, and no source is lost.
ASSUME TasksAddSources ==
  \A sources \in Sources, cites \in Lists :
    LET item == Answered(Searched(NewCase, sources), Task(1, cites))
    IN  /\ Urls(item.sources) = Urls(sources) \cup (Urls(cites) \ {None})
        /\ IsInjective(TaskSources(sources, SearchAnswer(cites)))

=============================================================================
