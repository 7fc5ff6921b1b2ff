---------------------------- MODULE MCRevisions ----------------------------
(***************************************************************************)
(* Instances of Revisions for TLC: a production of two cases, revised      *)
(* sources that keep, rename, move, drop and add elements.                 *)
(***************************************************************************)
EXTENDS Revisions, TLC

Categories == [n \in Names |-> "brand"]

Seen(name, scene) == [name |-> name, scenes |-> {scene}, times |-> {}]
Filmed(name, time) == [name |-> name, scenes |-> {}, times |-> {time}]

TwoFound == <<Seen("mug", 1), Filmed("song", 0)>>

\* The mug moves, is renamed where it was, is listed twice; the song is filmed
\* elsewhere under another name.
Revised ==
  { <<Seen("mug", 2), Filmed("song", 0)>>,
    <<Seen("logo", 1)>>,
    <<Seen("mug", 2), Seen("mug", 1), Filmed("logo", 8)>> }

Decides == {[kind |-> "decide", item |-> <<Pipeline, 1>>]}

Applications ==
  [kind : {"apply"}, revision : {Candidate(q) : q \in Requests},
   predecessor : RevId]

AllOps == Decides \cup [kind : {"list", "upload"}] \cup Applications

\* One decision, one revised source that moves the decided case.
MovedOnly == {<<Seen("mug", 2), Filmed("song", 0)>>}

RequestSymmetry == Permutations(Requests)

=============================================================================
