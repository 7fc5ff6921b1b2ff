--------------------------- MODULE DocumentStore ---------------------------
(***************************************************************************)
(* What the ProjectRepository interface promises its callers               *)
(* (apps/api/src/repositories): calls that save or remove one  *)
(* document, of which several may be in progress, a process that may die,  *)
(* and reads that return one whole document.                               *)
(*                                                                         *)
(* A call in progress may take effect at any time, on what is read and on  *)
(* what survives the process, together or apart, once or again.  When it   *)
(* answers, both hold its own document or that of a call it overlapped.    *)
(* A call that rejects may have taken effect, or have left no document.    *)
(***************************************************************************)
CONSTANTS
  Ids,       \* productions
  Calls,     \* calls of save and remove; a document is named for its save
  Nothing    \* what a removal writes, and what a production never saved has

VARIABLES
  shown,    \* what a read of each production returns
  kept,     \* what a read will return if the process dies now
  call,     \* the calls: their state, production and document
  over      \* the documents of all calls a call has overlapped, and its own

vars == <<shown, kept, call, over>>

Waiting(c) == call[c].state = "waiting"

\* Calls on production i in progress.
Rivals(i) == {d \in Calls : Waiting(d) /\ call[d].id = i}

\* What a production reads as, or is kept as, if a call takes effect or not.
Moves(m, i, v) == {m, [m EXCEPT ![i] = v]}

TakesEffect(i, v) == shown' \in Moves(shown, i, v) /\ kept' \in Moves(kept, i, v)

Ends(c, state) == call' = [call EXCEPT ![c].state = state]

---------------------------------------------------------------------------
Init ==
  /\ shown = [i \in Ids |-> Nothing]
  /\ kept  = [i \in Ids |-> Nothing]
  /\ call = [c \in Calls |-> [state |-> "idle", id |-> Nothing, value |-> Nothing]]
  /\ over = [c \in Calls |-> {}]

\* A call of save (v = c) or remove (v = Nothing).
Begin(c, i, v) ==
  /\ call[c].state = "idle"
  /\ call' = [call EXCEPT ![c] = [state |-> "waiting", id |-> i, value |-> v]]
  /\ over' = [d \in Calls |->
                IF d = c THEN {v} \cup {call[e].value : e \in Rivals(i)}
                ELSE IF d \in Rivals(i) THEN over[d] \cup {v} ELSE over[d]]
  /\ TakesEffect(i, v)

Progress(c) ==
  /\ Waiting(c)
  /\ TakesEffect(call[c].id, call[c].value)
  /\ UNCHANGED <<call, over>>

Done(c) ==
  /\ Waiting(c)
  /\ TakesEffect(call[c].id, call[c].value)
  /\ shown'[call[c].id] \in over[c]
  /\ kept'[call[c].id] \in over[c]
  /\ Ends(c, "done")
  /\ UNCHANGED over

Reject(c) ==
  /\ Waiting(c)
  /\ \E v \in {call[c].value, Nothing} : TakesEffect(call[c].id, v)
  /\ Ends(c, "rejected")
  /\ UNCHANGED over

\* The process dies and starts again: nobody waits for an answer any more.
Restart ==
  /\ shown' = kept
  /\ call' = [c \in Calls |-> IF Waiting(c) THEN [call[c] EXCEPT !.state = "lost"]
                              ELSE call[c]]
  /\ UNCHANGED <<kept, over>>

Next ==
  \/ \E c \in Calls :
       \/ \E i \in Ids, v \in {c, Nothing} : Begin(c, i, v)
       \/ Progress(c) \/ Done(c) \/ Reject(c)
  \/ Restart

Spec == Init /\ [][Next]_vars

=============================================================================
