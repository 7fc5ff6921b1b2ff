------------------------ MODULE RepositoriesProofs ------------------------
(***************************************************************************)
(* Each of the three repositories is a DocumentStore, for every number of  *)
(* productions and of calls and every bound on faults and crashes; the     *)
(* saves of one Firestore production never overlap, a failure costs one    *)
(* save, and the last call on a production is what is left of it.          *)
(*                                                                         *)
(* What a call answers with depends on what ran beside it, so the          *)
(* invariant says, for every call in progress, what the cache and the      *)
(* durable document may hold by now (Served), and that the saves that wait *)
(* for each other wait in the order they were made (Lined).                *)
(***************************************************************************)
EXTENDS Repositories, FiniteSetTheorems, TLAPS

Pcs == {"new", "queued", "verifying", "indexing", "dropping", "deleting", "sending",
        "answering"} \cup Ended

\* What a call in progress is, by where it is.
Placed ==
  \A c \in Calls : InProgress(c) =>
    /\ call[c].id \in Ids
    /\ call[c].value \in {c, Nothing}
    /\ call[c].pc = "queued" => /\ backend # "d1"
                                /\ backend = "firestore" => call[c].value = c
    /\ call[c].pc \in {"verifying", "indexing"} => backend = "firestore" /\ call[c].value = c
    /\ call[c].pc \in {"dropping", "deleting"} =>
         backend = "firestore" /\ call[c].value = Nothing
    /\ call[c].pc \in {"sending", "answering"} => backend = "d1"

\* Calls in progress on one production know each other's documents.
Overlap ==
  \A c, d \in Calls :
    InProgress(c) /\ InProgress(d) /\ call[c].id = call[d].id =>
      call[d].value \in over[c]

\* What a call in progress finds in the cache and in the durable document.
Served ==
  \A c \in Calls : InProgress(c) =>
    LET i == call[c].id
    IN  /\ backend = "filesystem" => cache[i] \in over[c]
        /\ call[c].pc \in {"verifying", "indexing"} =>
             durable[i] \in {call[c].value, Nothing} /\ durable[i] \in over[c]
        /\ call[c].pc = "answering" => durable[i] \in over[c]
        /\ call[c].pc = "deleting" /\ i \in index => durable[i] \in over[c]

\* A Firestore save in progress.
Saving(c) == backend = "firestore" /\ call[c].pc \in {"queued", "verifying", "indexing"}

Earlier(c, d) == <<c, d>> \in issued

Ordered ==
  \A c, d \in Calls :
    /\ Earlier(c, d) => call[c].pc # "new" /\ call[d].pc # "new"
    /\ call[c].pc # "new" /\ call[d].pc # "new" /\ c # d =>
         Earlier(c, d) \/ Earlier(d, c)

\* The later of two saves waits, for the earlier one or one between them.
Lined ==
  \A c, d \in Calls :
    Saving(c) /\ Saving(d) /\ call[c].id = call[d].id /\ c # d /\ Earlier(c, d) =>
      /\ call[d].pc = "queued"
      /\ call[d].after \in Calls /\ Saving(call[d].after)
      /\ call[call[d].after].id = call[d].id
      /\ call[d].after = c \/ Earlier(c, call[d].after)

\* The entry of a chain is its last save.
Tailed ==
  backend = "firestore" =>
    /\ \A i \in Ids : tail[i] # Nothing =>
         tail[i] \in Calls /\ Saving(tail[i]) /\ call[tail[i]].id = i
    /\ \A c \in Calls : Saving(c) =>
         LET t == tail[call[c].id]
         IN  t # Nothing /\ (c = t \/ Earlier(c, t))

\* The inductive invariant.
SInv ==
  /\ TypeOK
  /\ Placed
  /\ Overlap
  /\ Served
  /\ Ordered
  /\ Lined
  /\ Tailed

-----------------------------------------------------------------------------
(***************************************************************************)
(* Calls that move on                                                      *)
(***************************************************************************)

\* A call as the state declares it.
CallRecord == [pc : Pcs, id : Ids \cup {Nothing}, value : Calls \cup {Nothing},
               after : Calls \cup {Nothing}]

\* Moving a call changes its program counter alone.
LEMMA MoveFields ==
  ASSUME TypeOK, NEW c \in Calls, NEW pc \in Pcs, Moves(c, pc)
  PROVE  /\ call' \in [Calls -> CallRecord]
         /\ call'[c].pc = pc
         /\ call'[c].id = call[c].id /\ call'[c].value = call[c].value
         /\ call'[c].after = call[c].after
         /\ \A d \in Calls \ {c} : call'[d] = call[d]
<1>1. call \in [Calls -> CallRecord]
  BY DEF TypeOK, Pcs, CallRecord
<1>2. call[c] \in CallRecord /\ call' = [call EXCEPT ![c] = [call[c] EXCEPT !.pc = pc]]
  BY <1>1 DEF Moves
<1>3. [call[c] EXCEPT !.pc = pc] \in CallRecord
  BY <1>2 DEF CallRecord
<1> QED
  BY <1>1, <1>2, <1>3 DEF CallRecord

\* A move that is not of a save in a chain leaves the chains as they are.
LEMMA ChainsStay ==
  ASSUME SInv, NEW c \in Calls, NEW pc \in Pcs \ {"new"}, Moves(c, pc), call[c].pc # "new",
         UNCHANGED <<backend, issued>>,
         backend = "firestore" =>
           ~Saving(c) /\ pc \notin {"queued", "verifying", "indexing"} /\ UNCHANGED tail
  PROVE  Ordered' /\ Lined' /\ Tailed'
<1>1. /\ \A d \in Calls : /\ call'[d].id = call[d].id /\ call'[d].after = call[d].after
                          /\ (call'[d].pc = "new" <=> call[d].pc = "new")
      /\ \A d \in Calls \ {c} : call'[d] = call[d]
      /\ call'[c].pc = pc
  BY MoveFields DEF SInv
<1>2. Ordered'
  BY <1>1 DEF SInv, Ordered, Earlier
<1>3. \A d \in Calls : Saving(d)' => d # c /\ Saving(d)
  BY <1>1 DEF Saving
<1>4. \A d \in Calls : Saving(d) => d # c /\ Saving(d)'
  BY <1>1 DEF Saving
<1>5. Lined'
  BY <1>1, <1>3, <1>4 DEF SInv, Lined, Earlier
<1>6. Tailed'
  <2>1. CASE backend = "firestore"
    BY <1>1, <1>3, <1>4, <2>1 DEF SInv, Tailed, Earlier
  <2>2. CASE backend # "firestore"
    BY <2>2 DEF Tailed
  <2> QED BY <2>1, <2>2
<1> QED
  BY <1>2, <1>5, <1>6

\* A save that may write is the first of its production.
LEMMA FirstInLine ==
  ASSUME SInv, NEW c \in Calls, Saving(c), Ready(c) \/ call[c].pc \in {"verifying", "indexing"}
  PROVE  \A d \in Calls :
           Saving(d) /\ call[d].id = call[c].id /\ d # c => ~Earlier(d, c) /\ Earlier(c, d)
<1>1. \A d \in Calls : Saving(d) => call[d].pc # "new" /\ InProgress(d)
  BY DEF Saving, InProgress, Ended
<1> SUFFICES ASSUME NEW d \in Calls, Saving(d), call[d].id = call[c].id, d # c
             PROVE  ~Earlier(d, c) /\ Earlier(c, d)
  OBVIOUS
<1>2. ~Earlier(d, c)
  <2>1. SUFFICES ASSUME Earlier(d, c) PROVE FALSE
    OBVIOUS
  <2>2. /\ call[c].pc = "queued" /\ call[c].after \in Calls /\ Saving(call[c].after)
    BY <2>1 DEF SInv, Lined
  <2>3. InProgress(call[c].after) /\ call[c].after # Nothing
    BY <1>1, <2>2, RepositoriesAssumption
  <2> QED BY <2>2, <2>3 DEF Ready
<1> QED
  BY <1>1, <1>2 DEF SInv, Ordered

\* The first save of a production goes on to verify its object, and to index it.
LEMMA ChainsMove ==
  ASSUME SInv, NEW c \in Calls, Saving(c), Ready(c) \/ call[c].pc = "verifying",
         NEW pc \in {"verifying", "indexing"}, Moves(c, pc),
         UNCHANGED <<backend, issued, tail>>
  PROVE  Ordered' /\ Lined' /\ Tailed'
<1>1. /\ \A d \in Calls : /\ call'[d].id = call[d].id /\ call'[d].after = call[d].after
                          /\ (call'[d].pc = "new" <=> call[d].pc = "new")
      /\ \A d \in Calls \ {c} : call'[d] = call[d]
      /\ call'[c].pc \in {"verifying", "indexing"}
  BY MoveFields DEF SInv, Pcs, Saving
<1>2. Ordered'
  BY <1>1 DEF SInv, Ordered, Earlier
<1>3. \A d \in Calls : Saving(d)' <=> Saving(d)
  BY <1>1 DEF Saving
<1>4. \A d \in Calls : Saving(d) /\ call[d].id = call[c].id /\ d # c => ~Earlier(d, c)
  BY FirstInLine
<1>5. Lined'
  BY <1>1, <1>3, <1>4 DEF SInv, Lined, Earlier
<1>6. Tailed'
  BY <1>1, <1>3 DEF SInv, Tailed, Earlier
<1> QED
  BY <1>2, <1>5, <1>6

\* The first save of a production ends.
LEMMA ChainsShrink ==
  ASSUME SInv, NEW c \in Calls, Saving(c), Ready(c) \/ call[c].pc \in {"verifying", "indexing"},
         NEW pc \in Ended, Answers(c, pc), UNCHANGED <<backend, issued>>
  PROVE  Ordered' /\ Lined' /\ Tailed'
<1>1. /\ \A d \in Calls : /\ call'[d].id = call[d].id /\ call'[d].after = call[d].after
                          /\ (call'[d].pc = "new" <=> call[d].pc = "new")
      /\ \A d \in Calls \ {c} : call'[d] = call[d]
      /\ call'[c].pc = pc
  BY MoveFields DEF SInv, Pcs, Saving, Ended, Answers
<1>2. Ordered'
  BY <1>1 DEF SInv, Ordered, Earlier
<1>3. \A d \in Calls : Saving(d)' <=> Saving(d) /\ d # c
  BY <1>1 DEF Saving, Ended
<1>4. \A d \in Calls : Saving(d) /\ call[d].id = call[c].id /\ d # c => ~Earlier(d, c)
  BY FirstInLine
<1>5. Lined'
  BY <1>1, <1>3, <1>4 DEF SInv, Lined, Earlier
<1>6. backend = "firestore" /\ call[c].id \in Ids
  <2>1. InProgress(c)
    BY DEF Saving, InProgress, Ended
  <2> QED BY <2>1 DEF Saving, SInv, Placed
<1>7. /\ tail \in [Ids \cup {Chain} -> Calls \cup {Nothing}]
      /\ tail' = IF tail[call[c].id] = c THEN [tail EXCEPT ![call[c].id] = Nothing] ELSE tail
  BY <1>6 DEF Answers, Release, SInv, TypeOK
<1>8. Tailed'
  <2>1. CASE tail[call[c].id] = c
    <3>1. /\ tail'[call[c].id] = Nothing
          /\ \A i \in Ids \ {call[c].id} : tail'[i] = tail[i]
      BY <1>6, <1>7, <2>1
    <3>2. \A d \in Calls : Saving(d)' => call[d].id # call[c].id
      BY <1>3, <1>4, <2>1 DEF SInv, Tailed, Saving
    <3>3. \A d \in Calls : Saving(d)' => call[d].id \in Ids
      BY <1>3 DEF SInv, Placed, Saving, InProgress, Ended
    <3> QED BY <1>1, <1>3, <3>1, <3>2, <3>3 DEF SInv, Tailed, Earlier
  <2>2. CASE tail[call[c].id] # c
    <3>1. tail' = tail
      BY <1>7, <2>2
    <3>2. \A i \in Ids : tail[i] # c
      BY <1>6, <2>2, RepositoriesAssumption DEF SInv, Tailed
    <3> QED BY <1>1, <1>3, <3>1, <3>2 DEF SInv, Tailed, Earlier
  <2> QED BY <2>1, <2>2
<1> QED
  BY <1>2, <1>5, <1>8

-----------------------------------------------------------------------------
(***************************************************************************)
(* What calls in progress find                                             *)
(***************************************************************************)

\* A call in progress that moves on keeps its place and its company.
LEMMA MovePlaced ==
  ASSUME SInv, NEW c \in Calls, InProgress(c), NEW pc \in Pcs \ {"new"}, Moves(c, pc),
         UNCHANGED <<backend, over>>,
         \/ pc \in Ended
         \/ pc \in {"verifying", "indexing"} /\ backend = "firestore" /\ call[c].value = c
         \/ pc = "deleting" /\ backend = "firestore" /\ call[c].value = Nothing
         \/ pc = "answering" /\ backend = "d1"
  PROVE  /\ Placed' /\ Overlap'
         /\ call'[c].pc = pc
         /\ \A d \in Calls : InProgress(d)' => InProgress(d)
         /\ \A d \in Calls : call'[d].id = call[d].id /\ call'[d].value = call[d].value
         /\ \A d \in Calls \ {c} : call'[d] = call[d]
         /\ InProgress(c)' => pc \notin Ended
<1>1. /\ \A d \in Calls : call'[d].id = call[d].id /\ call'[d].value = call[d].value
      /\ \A d \in Calls \ {c} : call'[d] = call[d]
      /\ call'[c].pc = pc
  BY MoveFields DEF SInv
<1>2. \A d \in Calls : InProgress(d)' => InProgress(d)
  BY <1>1 DEF InProgress
<1>3. Overlap'
  BY <1>1, <1>2 DEF SInv, Overlap
<1>4. Placed'
  <2>1. SUFFICES ASSUME NEW d \in Calls, InProgress(d)'
        PROVE /\ call'[d].id \in Ids
              /\ call'[d].value \in {d, Nothing}
              /\ call'[d].pc = "queued" => /\ backend # "d1"
                                           /\ backend = "firestore" => call'[d].value = d
              /\ call'[d].pc \in {"verifying", "indexing"} => backend = "firestore" /\ call'[d].value = d
              /\ call'[d].pc \in {"dropping", "deleting"} =>
                   backend = "firestore" /\ call'[d].value = Nothing
              /\ call'[d].pc \in {"sending", "answering"} => backend = "d1"
    BY DEF Placed
  <2>2. InProgress(d)
    BY <1>2, <2>1
  <2>3. CASE d # c
    BY <1>1, <2>2, <2>3 DEF SInv, Placed
  <2>4. CASE d = c
    BY <1>1, <2>1, <2>2, <2>4 DEF SInv, Placed, InProgress
  <2> QED BY <2>3, <2>4
<1>5. InProgress(c)' => pc \notin Ended
  BY <1>1 DEF InProgress
<1> QED
  BY <1>1, <1>2, <1>3, <1>4, <1>5

\* Nothing durable changes, but for what leaves the index.
LEMMA ServedStays ==
  ASSUME SInv, NEW c \in Calls, InProgress(c), NEW pc \in Ended \cup {"deleting"},
         Moves(c, pc), UNCHANGED <<backend, cache, durable, over>>, index' \subseteq index,
         pc = "deleting" => /\ backend = "firestore" /\ call[c].value = Nothing
                            /\ call[c].id \notin index'
  PROVE  Placed' /\ Overlap' /\ Served'
<1>1. /\ Placed' /\ Overlap' /\ call'[c].pc = pc
      /\ \A d \in Calls : InProgress(d)' => InProgress(d)
      /\ \A d \in Calls : call'[d].id = call[d].id /\ call'[d].value = call[d].value
      /\ \A d \in Calls \ {c} : call'[d] = call[d]
      /\ InProgress(c)' => pc \notin Ended
  BY MovePlaced DEF Pcs, Ended
<1>2. Served'
  <2>1. SUFFICES ASSUME NEW d \in Calls, InProgress(d)'
        PROVE LET i == call'[d].id
              IN  /\ backend = "filesystem" => cache[i] \in over[d]
                  /\ call'[d].pc \in {"verifying", "indexing"} =>
                       durable[i] \in {call'[d].value, Nothing} /\ durable[i] \in over[d]
                  /\ call'[d].pc = "answering" => durable[i] \in over[d]
                  /\ call'[d].pc = "deleting" /\ i \in index' => durable[i] \in over[d]
    BY DEF Served
  <2>2. CASE d # c
    BY <1>1, <2>1, <2>2 DEF SInv, Served
  <2>3. CASE d = c
    BY <1>1, <2>1, <2>3
  <2> QED BY <2>2, <2>3
<1> QED
  BY <1>1, <1>2

\* A save finds the object it put.
LEMMA ServedVerified ==
  ASSUME SInv, NEW c \in Calls, call[c].pc = "verifying", Moves(c, "indexing"),
         UNCHANGED <<backend, cache, durable, index, over>>
  PROVE  Placed' /\ Overlap' /\ Served'
<1>1. InProgress(c)
  BY DEF InProgress, Ended
<1>2. backend = "firestore" /\ call[c].value = c
  BY <1>1 DEF SInv, Placed
<1>3. /\ Placed' /\ Overlap' /\ call'[c].pc = "indexing"
      /\ \A d \in Calls : InProgress(d)' => InProgress(d)
      /\ \A d \in Calls : call'[d].id = call[d].id /\ call'[d].value = call[d].value
      /\ \A d \in Calls \ {c} : call'[d] = call[d]
  BY <1>1, <1>2, MovePlaced DEF Pcs
<1>4. Served'
  BY <1>1, <1>3 DEF SInv, Served
<1> QED
  BY <1>3, <1>4

\* A save that cannot verify its object ends, and may take the object with it.
LEMMA ServedUnverified ==
  ASSUME SInv, NEW c \in Calls, call[c].pc = "verifying", Moves(c, "rejected"),
         UNCHANGED <<backend, cache, index, over>>,
         durable' = durable \/ durable' = [durable EXCEPT ![call[c].id] = Nothing]
  PROVE  Placed' /\ Overlap' /\ Served'
<1>1. InProgress(c) /\ backend = "firestore" /\ Saving(c)
  BY DEF InProgress, Ended, SInv, Placed, Saving
<1>2. /\ Placed' /\ Overlap' /\ call'[c].pc = "rejected"
      /\ \A d \in Calls : InProgress(d)' => InProgress(d)
      /\ \A d \in Calls : call'[d].id = call[d].id /\ call'[d].value = call[d].value
      /\ \A d \in Calls \ {c} : call'[d] = call[d]
      /\ ~InProgress(c)'
  BY <1>1, MovePlaced DEF Pcs, Ended
<1>3. call[c].id \in Ids /\ durable \in [Ids -> Calls \cup {Nothing}]
  BY <1>1 DEF SInv, Placed, TypeOK
<1>4. Served'
  <2>1. SUFFICES ASSUME NEW d \in Calls, InProgress(d)'
        PROVE LET i == call'[d].id
              IN  /\ backend = "filesystem" => cache[i] \in over[d]
                  /\ call'[d].pc \in {"verifying", "indexing"} =>
                       durable'[i] \in {call'[d].value, Nothing} /\ durable'[i] \in over[d]
                  /\ call'[d].pc = "answering" => durable'[i] \in over[d]
                  /\ call'[d].pc = "deleting" /\ i \in index => durable'[i] \in over[d]
    BY <1>2 DEF Served
  <2>2. d # c /\ InProgress(d) /\ call[d].id \in Ids
    BY <1>2, <2>1 DEF SInv, Placed
  <2>3. CASE call[d].id # call[c].id \/ durable' = durable
    <3>1. durable'[call[d].id] = durable[call[d].id]
      BY <1>3, <2>2, <2>3
    <3> QED BY <1>2, <2>2, <3>1 DEF SInv, Served
  <2>4. CASE call[d].id = call[c].id
    <3>1. call[d].pc \notin {"verifying", "indexing"}
      <4>1. SUFFICES ASSUME call[d].pc \in {"verifying", "indexing"} PROVE FALSE
        OBVIOUS
      <4>2. Saving(d) /\ Earlier(c, d) /\ ~Earlier(d, c)
        BY <1>1, <2>2, <2>4, <4>1, FirstInLine DEF Saving
      <4>3. ~Earlier(c, d)
        BY <1>1, <2>2, <2>4, <4>1, <4>2, FirstInLine
      <4> QED BY <4>2, <4>3
    <3>2. call[d].pc # "answering"
      BY <1>1, <2>2 DEF SInv, Placed
    <3>3. call[d].pc = "deleting" => Nothing \in over[d]
      BY <2>2 DEF SInv, Placed, Overlap
    <3>4. durable'[call[d].id] \in {durable[call[d].id], Nothing}
      BY <1>3, <2>4
    <3> QED BY <1>1, <1>2, <2>2, <3>1, <3>2, <3>3, <3>4 DEF SInv, Served
  <2> QED BY <2>3, <2>4
<1> QED
  BY <1>2, <1>4

\* The index grows by a production whose save put its document.
LEMMA ServedIndexed ==
  ASSUME SInv, NEW c \in Calls, call[c].pc \in {"verifying", "indexing"}, NEW pc \in Ended, Moves(c, pc),
         UNCHANGED <<backend, cache, durable, over>>,
         index' = index \/ index' = index \cup {call[c].id}
  PROVE  Placed' /\ Overlap' /\ Served'
<1>1. InProgress(c)
  BY DEF InProgress, Ended
<1>2. /\ Placed' /\ Overlap' /\ call'[c].pc = pc
      /\ \A d \in Calls : InProgress(d)' => InProgress(d)
      /\ \A d \in Calls : call'[d].id = call[d].id /\ call'[d].value = call[d].value
      /\ \A d \in Calls \ {c} : call'[d] = call[d]
      /\ InProgress(c)' => pc \notin Ended
  BY <1>1, MovePlaced DEF Pcs, Ended
<1>3. durable[call[c].id] \in {call[c].value, Nothing}
  BY <1>1 DEF SInv, Served
<1>4. \A d \in Calls : InProgress(d) /\ call[d].pc = "deleting" /\ call[d].id = call[c].id =>
                         durable[call[c].id] \in over[d]
  BY <1>1, <1>3 DEF SInv, Overlap, Placed
<1>5. Served'
  <2>1. SUFFICES ASSUME NEW d \in Calls, InProgress(d)'
        PROVE LET i == call'[d].id
              IN  /\ backend = "filesystem" => cache[i] \in over[d]
                  /\ call'[d].pc \in {"verifying", "indexing"} =>
                       durable[i] \in {call'[d].value, Nothing} /\ durable[i] \in over[d]
                  /\ call'[d].pc = "answering" => durable[i] \in over[d]
                  /\ call'[d].pc = "deleting" /\ i \in index' => durable[i] \in over[d]
    BY DEF Served
  <2>2. d # c /\ InProgress(d)
    BY <1>2, <2>1
  <2>3. call'[d].pc = "deleting" /\ call'[d].id \in index' => durable[call'[d].id] \in over[d]
    <3>1. CASE call[d].id = call[c].id
      BY <1>2, <1>4, <2>2, <3>1
    <3>2. CASE call[d].id # call[c].id
      BY <1>2, <2>2, <3>2 DEF SInv, Served
    <3> QED BY <3>1, <3>2
  <2> QED BY <1>2, <2>2, <2>3 DEF SInv, Served
<1> QED
  BY <1>2, <1>5

\* A call writes its document.
LEMMA ServedWrites ==
  ASSUME SInv, NEW c \in Calls, InProgress(c), NEW pc \in Pcs \ {"new"}, Moves(c, pc),
         UNCHANGED <<backend, cache, index, over>>,
         durable' = durable \/ durable' = [durable EXCEPT ![call[c].id] = call[c].value],
         \/ pc \in Ended
         \/ pc \in {"verifying", "indexing"} /\ backend = "firestore" /\ call[c].value = c
         \/ pc = "answering" /\ backend = "d1",
         pc \notin Ended => durable'[call[c].id] = call[c].value,
         backend = "firestore" => call[c].value = Nothing \/ (Saving(c) /\ Ready(c))
  PROVE  Placed' /\ Overlap' /\ Served'
<1>1. /\ Placed' /\ Overlap' /\ call'[c].pc = pc
      /\ \A d \in Calls : InProgress(d)' => InProgress(d)
      /\ \A d \in Calls : call'[d].id = call[d].id /\ call'[d].value = call[d].value
      /\ \A d \in Calls \ {c} : call'[d] = call[d]
      /\ InProgress(c)' => pc \notin Ended
  BY MovePlaced
<1>2. call[c].id \in Ids /\ durable \in [Ids -> Calls \cup {Nothing}]
  BY DEF SInv, Placed, TypeOK
<1>3. \A d \in Calls : InProgress(d) /\ call[d].id = call[c].id => call[c].value \in over[d]
  BY DEF SInv, Overlap
<1>4. \A d \in Calls \ {c} :
        call[d].pc \in {"verifying", "indexing"} /\ call[d].id = call[c].id => call[c].value = Nothing
  <2>1. SUFFICES ASSUME NEW d \in Calls \ {c}, call[d].pc \in {"verifying", "indexing"},
                        call[d].id = call[c].id, call[c].value # Nothing
                 PROVE  FALSE
    OBVIOUS
  <2>2. backend = "firestore"
    BY <2>1 DEF SInv, Placed, InProgress, Ended
  <2>3. Saving(c) /\ Ready(c) /\ Saving(d)
    BY <2>1, <2>2 DEF Saving
  <2>4. Earlier(c, d)
    BY <2>1, <2>3, FirstInLine
  <2> QED BY <2>1, <2>3, <2>4 DEF SInv, Lined
<1>5. Served'
  <2>1. SUFFICES ASSUME NEW d \in Calls, InProgress(d)'
        PROVE LET i == call'[d].id
              IN  /\ backend = "filesystem" => cache[i] \in over[d]
                  /\ call'[d].pc \in {"verifying", "indexing"} =>
                       durable'[i] \in {call'[d].value, Nothing} /\ durable'[i] \in over[d]
                  /\ call'[d].pc = "answering" => durable'[i] \in over[d]
                  /\ call'[d].pc = "deleting" /\ i \in index => durable'[i] \in over[d]
    BY DEF Served
  <2>2. InProgress(d)
    BY <1>1, <2>1
  <2>3. backend = "filesystem" => cache[call'[d].id] \in over[d]
    BY <1>1, <2>2 DEF SInv, Served
  <2>4. CASE d = c
    BY <1>1, <1>3, <2>1, <2>2, <2>3, <2>4 DEF Ended
  <2>5. CASE d # c /\ durable'[call[d].id] = durable[call[d].id]
    BY <1>1, <2>2, <2>3, <2>5 DEF SInv, Served
  <2>6. CASE d # c /\ call[d].id = call[c].id /\ durable'[call[d].id] = call[c].value
    BY <1>1, <1>3, <1>4, <2>2, <2>3, <2>6
  <2>7. \/ durable'[call[d].id] = durable[call[d].id]
        \/ call[d].id = call[c].id /\ durable'[call[d].id] = call[c].value
    <3>1. call[d].id \in Ids
      BY <2>2 DEF SInv, Placed
    <3> QED BY <1>2, <3>1
  <2> QED BY <2>4, <2>5, <2>6, <2>7
<1> QED
  BY <1>1, <1>5

-----------------------------------------------------------------------------
(***************************************************************************)
(* New calls, and the end of all of them                                   *)
(***************************************************************************)

\* A call is made: every call in progress on its production learns of it, and
\* the cache of files has its document at once.
LEMMA BeginKeeps ==
  ASSUME SInv, NEW c \in Calls, NEW i \in Ids, NEW v \in {c, Nothing}, Begin(c, i, v)
  PROVE  SInv'
<1> DEFINE first == FirstStep(v)
           new   == [pc |-> first, id |-> i, value |-> v,
                     after |-> IF first = "queued" THEN tail[ChainOf(i)] ELSE Nothing]
<1>1. /\ first \in {"sending", "dropping", "queued"}
      /\ first = "sending" <=> backend = "d1"
      /\ first = "dropping" <=> backend = "firestore" /\ v = Nothing
      /\ backend \in Backends
  BY DEF FirstStep, SInv, TypeOK, Backends
<1>2. /\ call[c].pc = "new" /\ call' = [call EXCEPT ![c] = new]
      /\ tail' = IF first = "queued" THEN [tail EXCEPT ![ChainOf(i)] = c] ELSE tail
      /\ cache' = IF backend = "filesystem" THEN [cache EXCEPT ![i] = v] ELSE cache
      /\ issued' = issued \cup {<<d, c>> : d \in {e \in Calls : call[e].pc # "new"}}
      /\ over' = [d \in Calls |->
                    IF d = c THEN {v} \cup {call[e].value : e \in Rivals(i)}
                    ELSE IF d \in Rivals(i) THEN over[d] \cup {v} ELSE over[d]]
      /\ UNCHANGED <<backend, durable, index, bounds>>
  BY DEF Begin
<1>3. ChainOf(i) \in Ids \cup {Chain} /\ (backend = "firestore" => ChainOf(i) = i)
  BY DEF ChainOf
<1>4. /\ call \in [Calls -> CallRecord] /\ tail \in [Ids \cup {Chain} -> Calls \cup {Nothing}]
      /\ cache \in [Ids -> Calls \cup {Nothing}]
      /\ over \in [Calls -> SUBSET (Calls \cup {Nothing})]
      /\ issued \subseteq Calls \X Calls
  BY DEF SInv, TypeOK, CallRecord, Pcs
<1> HIDE DEF first
<1>5. new \in CallRecord
  BY <1>1, <1>3, <1>4 DEF CallRecord, Pcs
<1>6. /\ call'[c] = new /\ call' \in [Calls -> CallRecord]
      /\ \A d \in Calls \ {c} : call'[d] = call[d]
  BY <1>2, <1>4, <1>5
<1>7. /\ call'[c].pc = first /\ call'[c].id = i /\ call'[c].value = v
      /\ first = "queued" => call'[c].after = tail[ChainOf(i)]
  BY <1>6
<1> HIDE DEF new
<1>8. ~InProgress(c)
  BY <1>2 DEF InProgress
<1>9. \A d \in Calls \ {c} : InProgress(d)' <=> InProgress(d)
  BY <1>6 DEF InProgress
<1>10. TypeOK'
  <2>1. tail' \in [Ids \cup {Chain} -> Calls \cup {Nothing}]
    BY <1>2, <1>3, <1>4
  <2>2. cache' \in [Ids -> Calls \cup {Nothing}]
    BY <1>2, <1>4
  <2>3. over' \in [Calls -> SUBSET (Calls \cup {Nothing})]
    BY <1>2, <1>4 DEF Rivals, CallRecord
  <2>4. issued' \subseteq Calls \X Calls
    BY <1>2, <1>4
  <2> QED
    BY <1>2, <1>6, <2>1, <2>2, <2>3, <2>4 DEF SInv, TypeOK, CallRecord, Pcs
<1>11. Placed'
  <2>1. SUFFICES ASSUME NEW d \in Calls, InProgress(d)'
        PROVE /\ call'[d].id \in Ids
              /\ call'[d].value \in {d, Nothing}
              /\ call'[d].pc = "queued" => /\ backend # "d1"
                                           /\ backend = "firestore" => call'[d].value = d
              /\ call'[d].pc \in {"verifying", "indexing"} => backend = "firestore" /\ call'[d].value = d
              /\ call'[d].pc \in {"dropping", "deleting"} =>
                   backend = "firestore" /\ call'[d].value = Nothing
              /\ call'[d].pc \in {"sending", "answering"} => backend = "d1"
    BY <1>2 DEF Placed
  <2>2. CASE d = c
    BY <1>1, <1>7, <2>2
  <2>3. CASE d # c
    BY <1>6, <1>9, <2>1, <2>3 DEF SInv, Placed
  <2> QED BY <2>2, <2>3
<1>12. /\ v \in over'[c]
       /\ \A d \in Calls \ {c} : InProgress(d) /\ call[d].id = i =>
                                   call[d].value \in over'[c] /\ v \in over'[d]
       /\ \A d \in Calls \ {c} : over[d] \subseteq over'[d]
  BY <1>2, <1>4 DEF Rivals
<1>13. Overlap'
  <2>1. SUFFICES ASSUME NEW d \in Calls, NEW e \in Calls, InProgress(d)', InProgress(e)',
                        call'[d].id = call'[e].id
                 PROVE  call'[e].value \in over'[d]
    BY DEF Overlap
  <2>2. CASE d = c /\ e = c
    BY <1>7, <1>12, <2>2
  <2>3. CASE d = c /\ e # c
    BY <1>6, <1>7, <1>9, <1>12, <2>1, <2>3
  <2>4. CASE d # c /\ e = c
    BY <1>6, <1>7, <1>9, <1>12, <2>1, <2>4
  <2>5. CASE d # c /\ e # c
    BY <1>6, <1>9, <1>12, <2>1, <2>5 DEF SInv, Overlap
  <2> QED BY <2>2, <2>3, <2>4, <2>5
<1>14. Served'
  <2>1. SUFFICES ASSUME NEW d \in Calls, InProgress(d)'
        PROVE LET j == call'[d].id
              IN  /\ backend = "filesystem" => cache'[j] \in over'[d]
                  /\ call'[d].pc \in {"verifying", "indexing"} =>
                       durable[j] \in {call'[d].value, Nothing} /\ durable[j] \in over'[d]
                  /\ call'[d].pc = "answering" => durable[j] \in over'[d]
                  /\ call'[d].pc = "deleting" /\ j \in index => durable[j] \in over'[d]
    BY <1>2 DEF Served
  <2>2. CASE d = c
    BY <1>1, <1>2, <1>4, <1>7, <1>12, <2>2
  <2>3. CASE d # c
    <3>1. /\ InProgress(d) /\ call'[d] = call[d] /\ call[d].id \in Ids
          /\ over[d] \subseteq over'[d]
      BY <1>6, <1>9, <1>12, <2>1, <2>3 DEF SInv, Placed
    <3>2. backend = "filesystem" => cache'[call[d].id] \in over'[d]
      BY <1>2, <1>4, <1>12, <2>3, <3>1 DEF SInv, Served
    <3> QED BY <3>1, <3>2 DEF SInv, Served
  <2> QED BY <2>2, <2>3
<1>15. /\ \A d \in Calls : call[d].pc # "new" => Earlier(d, c)'
       /\ \A d, e \in Calls : Earlier(d, e) => Earlier(d, e)'
       /\ \A d, e \in Calls : e # c /\ Earlier(d, e)' => Earlier(d, e)
       /\ \A d \in Calls : Earlier(d, c)' => Earlier(d, c) \/ call[d].pc # "new"
  BY <1>2 DEF Earlier
<1>16. Ordered'
  <2>1. SUFFICES ASSUME NEW d \in Calls, NEW e \in Calls
                 PROVE  /\ Earlier(d, e)' => call'[d].pc # "new" /\ call'[e].pc # "new"
                        /\ call'[d].pc # "new" /\ call'[e].pc # "new" /\ d # e =>
                             Earlier(d, e)' \/ Earlier(e, d)'
    BY DEF Ordered, Earlier
  <2>2. call'[c].pc # "new"
    BY <1>1, <1>7
  <2>3. CASE e = c
    BY <1>2, <1>6, <1>15, <2>2, <2>3 DEF SInv, Ordered
  <2>4. CASE e # c
    BY <1>2, <1>6, <1>15, <2>2, <2>4 DEF SInv, Ordered
  <2> QED BY <2>3, <2>4
<1>17. /\ \A d \in Calls \ {c} : Saving(d)' <=> Saving(d)
       /\ Saving(c)' <=> backend = "firestore" /\ first = "queued"
       /\ \A d \in Calls : Saving(d) => d # c /\ call[d].pc # "new"
  BY <1>1, <1>2, <1>6, <1>7 DEF Saving
<1>18. Lined'
  <2> SUFFICES ASSUME NEW d \in Calls, NEW e \in Calls, Saving(d)', Saving(e)',
                      call'[d].id = call'[e].id, d # e, Earlier(d, e)'
               PROVE  /\ call'[e].pc = "queued"
                      /\ call'[e].after \in Calls
                      /\ backend' = "firestore"
                      /\ call'[call'[e].after].pc \in {"queued", "verifying", "indexing"}
                      /\ call'[call'[e].after].id = call'[e].id
                      /\ call'[e].after = d \/ <<d, call'[e].after>> \in issued'
    BY DEF Lined, Earlier, Saving
  <2>1. SUFFICES /\ call'[e].pc = "queued"
                 /\ \E t \in Calls : /\ t = call'[e].after /\ Saving(t)'
                                     /\ call'[t].id = call'[e].id
                                     /\ t = d \/ Earlier(d, t)'
    BY DEF Earlier, Saving
  <2>2. CASE e = c
    <3>1. /\ backend = "firestore" /\ first = "queued" /\ Saving(d) /\ call[d].id = i
          /\ call'[c].after = tail[i]
      BY <1>3, <1>6, <1>7, <1>17, <2>1, <2>2
    <3>2. PICK t \in Calls : t = tail[i] /\ (d = t \/ Earlier(d, t))
                             /\ Saving(t) /\ call[t].id = i
      BY <1>4, <3>1 DEF SInv, Tailed
    <3>3. Saving(t)' /\ call'[t].id = i
      BY <1>6, <1>17, <3>2
    <3> QED BY <1>7, <1>15, <2>2, <3>1, <3>2, <3>3
  <2>3. CASE e # c
    <3>1. Earlier(d, e) /\ Saving(e) /\ call'[e] = call[e]
      BY <1>6, <1>15, <1>17, <2>1, <2>3
    <3>2. d # c
      BY <1>2, <3>1 DEF SInv, Ordered
    <3>3. Saving(d) /\ call[d].id = call[e].id
      BY <1>6, <1>17, <2>1, <3>1, <3>2
    <3>4. call[e].pc = "queued"
      BY <2>1, <3>1, <3>3 DEF SInv, Lined
    <3>5. PICK t \in Calls : /\ t = call[e].after /\ Saving(t)
                             /\ call[t].id = call[e].id
                             /\ t = d \/ Earlier(d, t)
      BY <2>1, <3>1, <3>3 DEF SInv, Lined
    <3>6. Saving(t)' /\ call'[t] = call[t]
      BY <1>6, <1>17, <3>5
    <3> QED BY <1>15, <3>1, <3>4, <3>5, <3>6
  <2> QED BY <2>2, <2>3
<1>19. Tailed'
  <2> SUFFICES ASSUME backend = "firestore"
      PROVE /\ \A j \in Ids : tail'[j] # Nothing =>
                 /\ tail'[j] \in Calls
                 /\ backend' = "firestore" /\ call'[tail'[j]].pc \in {"queued", "verifying", "indexing"}
                 /\ call'[tail'[j]].id = j
            /\ \A d \in Calls : Saving(d)' =>
                 /\ tail'[call'[d].id] # Nothing
                 /\ d = tail'[call'[d].id] \/ <<d, tail'[call'[d].id]>> \in issued'
    BY <1>2 DEF Tailed, Earlier, Saving
  <2>1. SUFFICES
           /\ \A j \in Ids :
                \/ tail'[j] = Nothing
                \/ \E t \in Calls : t = tail'[j] /\ Saving(t)' /\ call'[t].id = j
           /\ \A d \in Calls : Saving(d)' =>
                \E t \in Calls : /\ t = tail'[call'[d].id]
                                 /\ d = t \/ Earlier(d, t)'
    <3>1. ASSUME NEW j \in Ids, tail'[j] # Nothing
          PROVE  /\ tail'[j] \in Calls
                 /\ backend' = "firestore" /\ call'[tail'[j]].pc \in {"queued", "verifying", "indexing"}
                 /\ call'[tail'[j]].id = j
      <4>1. PICK t \in Calls : t = tail'[j] /\ Saving(t)' /\ call'[t].id = j
        BY <2>1, <3>1
      <4> QED BY <4>1 DEF Saving
    <3>2. ASSUME NEW d \in Calls, Saving(d)'
          PROVE  /\ tail'[call'[d].id] # Nothing
                 /\ d = tail'[call'[d].id] \/ <<d, tail'[call'[d].id]>> \in issued'
      <4>1. PICK t \in Calls : t = tail'[call'[d].id] /\ (d = t \/ Earlier(d, t)')
        BY <2>1, <3>2
      <4> QED BY <4>1, RepositoriesAssumption DEF Earlier
    <3> QED BY <3>1, <3>2
  <2>2. \A j \in Ids :
          \/ tail[j] = Nothing
          \/ \E t \in Calls : t = tail[j] /\ Saving(t) /\ call[t].id = j
    BY <2>1 DEF SInv, Tailed
  <2>3. \A d \in Calls : Saving(d) =>
          /\ call[d].id \in Ids
          /\ \E t \in Calls : t = tail[call[d].id] /\ (d = t \/ Earlier(d, t))
    BY <1>4, <2>1 DEF SInv, Tailed, Placed, Saving, InProgress, Ended
  <2>4. CASE first = "queued"
    <3>1. tail'[i] = c /\ \A j \in Ids \ {i} : tail'[j] = tail[j]
      BY <1>2, <1>3, <1>4, <2>1, <2>4
    <3>2. \A j \in Ids :
            \/ tail'[j] = Nothing
            \/ \E t \in Calls : t = tail'[j] /\ Saving(t)' /\ call'[t].id = j
      BY <1>6, <1>7, <1>17, <2>1, <2>2, <2>4, <3>1
    <3>3. ASSUME NEW d \in Calls, Saving(d)'
          PROVE  \E t \in Calls : /\ t = tail'[call'[d].id]
                                  /\ d = t \/ Earlier(d, t)'
      <4>1. CASE d = c
        BY <1>7, <3>1, <4>1
      <4>2. CASE d # c /\ call[d].id = i
        BY <1>6, <1>15, <1>17, <3>1, <3>3, <4>2
      <4>3. CASE d # c /\ call[d].id # i
        BY <1>6, <1>15, <1>17, <2>3, <3>1, <3>3, <4>3
      <4> QED BY <4>1, <4>2, <4>3
    <3> QED BY <3>2, <3>3
  <2>5. CASE first # "queued"
    <3>1. tail' = tail /\ \A d \in Calls : Saving(d)' <=> Saving(d) /\ d # c
      BY <1>2, <1>17, <2>5
    <3>2. \A d \in Calls : Saving(d) => Saving(d)' /\ call'[d] = call[d]
      BY <1>6, <1>17, <3>1
    <3> QED BY <1>15, <2>2, <2>3, <3>1, <3>2
  <2> QED BY <2>4, <2>5
<1> QED
  BY <1>10, <1>11, <1>13, <1>14, <1>16, <1>18, <1>19 DEF SInv

\* A crash loses every call in progress, and nothing else.
LEMMA CrashKeeps ==
  ASSUME SInv, Crash
  PROVE  SInv'
<1>1. /\ bounds.crashes < MaxCrashes
      /\ bounds' = [bounds EXCEPT !.crashes = @ + 1]
      /\ cache' = IF backend = "filesystem" THEN durable ELSE cache
      /\ call' = [c \in Calls |-> IF InProgress(c) THEN [call[c] EXCEPT !.pc = "lost"]
                                  ELSE call[c]]
      /\ tail' = [k \in Ids \cup {Chain} |-> Nothing]
      /\ UNCHANGED <<backend, durable, index, issued, over>>
  BY DEF Crash
<1>2. /\ call \in [Calls -> CallRecord]
      /\ cache \in [Ids -> Calls \cup {Nothing}] /\ durable \in [Ids -> Calls \cup {Nothing}]
      /\ bounds \in [faults : 0 .. MaxFaults, crashes : 0 .. MaxCrashes]
  BY DEF SInv, TypeOK, CallRecord, Pcs
<1>3. \A c \in Calls : /\ call'[c] \in CallRecord
                       /\ (call'[c].pc = "new" <=> call[c].pc = "new")
                       /\ call'[c].pc \in Ended \cup {"new"}
  <2>1. SUFFICES ASSUME NEW c \in Calls
                 PROVE  /\ call'[c] \in CallRecord
                        /\ (call'[c].pc = "new" <=> call[c].pc = "new")
                        /\ call'[c].pc \in Ended \cup {"new"}
    OBVIOUS
  <2>2. call[c] \in CallRecord
    BY <1>2
  <2>3. CASE InProgress(c)
    <3>1. call'[c] = [call[c] EXCEPT !.pc = "lost"]
      BY <1>1, <2>3
    <3> QED BY <2>2, <2>3, <3>1 DEF CallRecord, Pcs, Ended, InProgress
  <2>4. CASE ~InProgress(c)
    <3>1. call'[c] = call[c]
      BY <1>1, <2>4
    <3> QED BY <2>2, <2>4, <3>1 DEF InProgress
  <2> QED BY <2>3, <2>4
<1>4. TypeOK'
  <2>1. call' \in [Calls -> CallRecord]
    BY <1>1, <1>3
  <2>2. bounds' \in [faults : 0 .. MaxFaults, crashes : 0 .. MaxCrashes]
    BY <1>1, <1>2, RepositoriesAssumption
  <2>3. tail' \in [Ids \cup {Chain} -> Calls \cup {Nothing}] /\ cache' \in [Ids -> Calls \cup {Nothing}]
    BY <1>1, <1>2
  <2> QED BY <1>1, <2>1, <2>2, <2>3 DEF SInv, TypeOK, CallRecord, Pcs
<1>5. \A c \in Calls : ~InProgress(c)' /\ ~Saving(c)'
  BY <1>3 DEF InProgress, Saving, Ended
<1>6. Placed' /\ Overlap' /\ Served' /\ Lined'
  BY <1>5 DEF Placed, Overlap, Served, Lined
<1>7. Ordered'
  BY <1>1, <1>3 DEF SInv, Ordered, Earlier
<1>8. Tailed'
  BY <1>1, <1>5 DEF Tailed
<1> QED
  BY <1>4, <1>6, <1>7, <1>8 DEF SInv

-----------------------------------------------------------------------------
(***************************************************************************)
(* The steps of a call                                                     *)
(***************************************************************************)

\* A fault is counted within its bound.
LEMMA FaultTyped ==
  ASSUME TypeOK, Fault
  PROVE  bounds' \in [faults : 0 .. MaxFaults, crashes : 0 .. MaxCrashes]
BY RepositoriesAssumption DEF TypeOK, Fault

\* Leaving a chain leaves its entry a call, or nobody.
LEMMA ReleaseTyped ==
  ASSUME TypeOK, NEW c \in Calls, Release(c)
  PROVE  tail' \in [Ids \cup {Chain} -> Calls \cup {Nothing}]
BY DEF TypeOK, Release

\* Writing a production leaves a document or nothing for each.
LEMMA WriteTyped ==
  ASSUME TypeOK, NEW c \in Calls,
         NEW v \in {call[c].value, Nothing},
         durable' \in {durable, [durable EXCEPT ![call[c].id] = v]}
  PROVE  durable' \in [Ids -> Calls \cup {Nothing}]
<1>1. call[c] \in CallRecord /\ durable \in [Ids -> Calls \cup {Nothing}]
  BY DEF TypeOK, CallRecord, Pcs
<1> QED
  BY <1>1 DEF CallRecord

\* A step of a call keeps the shape of the state.
LEMMA MoveTyped ==
  ASSUME TypeOK, NEW c \in Calls, NEW pc \in Pcs, Moves(c, pc),
         UNCHANGED <<backend, cache, issued, over>>,
         durable' \in [Ids -> Calls \cup {Nothing}], index' \subseteq Ids,
         tail' \in [Ids \cup {Chain} -> Calls \cup {Nothing}],
         bounds' \in [faults : 0 .. MaxFaults, crashes : 0 .. MaxCrashes]
  PROVE  TypeOK'
<1>1. call' \in [Calls -> CallRecord]
  BY MoveFields
<1> QED
  BY <1>1 DEF TypeOK, CallRecord, Pcs

\* A step of the repository of files keeps the invariant.
LEMMA FilesystemKeeps ==
  ASSUME SInv, NEW c \in Calls, Filesystem(c)
  PROVE  SInv'
<1>1. /\ backend = "filesystem" /\ Ready(c) /\ call[c].pc = "queued" /\ InProgress(c)
      /\ UNCHANGED <<backend, issued, over>>
  BY DEF Filesystem, WriteFile, WriteFails, Poisoned, Ready, InProgress, Ended, Quiet
<1>2. PICK pc \in {"done", "rejected"} : Answers(c, pc)
  BY DEF Filesystem, WriteFile, WriteFails, Poisoned
<1>3. /\ Moves(c, pc) /\ Release(c) /\ pc \in Pcs \ {"new"} /\ pc \in Ended
  BY <1>2 DEF Answers, Pcs, Ended
<1>4. /\ durable' = durable \/ durable' = [durable EXCEPT ![call[c].id] = call[c].value]
      /\ UNCHANGED <<cache, index>>
      /\ Fault \/ UNCHANGED bounds
  BY DEF Filesystem, WriteFile, WriteFails, Poisoned, stores
<1>5. TypeOK'
  <2>1. bounds' \in [faults : 0 .. MaxFaults, crashes : 0 .. MaxCrashes]
    BY <1>4, FaultTyped DEF SInv, TypeOK
  <2>2. index' \subseteq Ids
    BY <1>4 DEF SInv, TypeOK
  <2>3. durable' \in [Ids -> Calls \cup {Nothing}]
    BY <1>4, WriteTyped DEF SInv
  <2>4. tail' \in [Ids \cup {Chain} -> Calls \cup {Nothing}]
    BY <1>3, ReleaseTyped DEF SInv
  <2> QED BY <1>1, <1>3, <1>4, <2>1, <2>2, <2>3, <2>4, MoveTyped DEF SInv
<1>6. Placed' /\ Overlap' /\ Served'
  BY <1>1, <1>3, <1>4, ServedWrites
<1>7. Ordered' /\ Lined' /\ Tailed'
  BY <1>1, <1>3, ChainsStay
<1> QED
  BY <1>5, <1>6, <1>7 DEF SInv

\* A step of the Firestore repository keeps the invariant.
LEMMA FirestoreKeeps ==
  ASSUME SInv, NEW c \in Calls, Firestore(c)
  PROVE  SInv'
<1>1. /\ backend = "firestore" /\ InProgress(c) /\ call[c].pc # "new"
      /\ call[c].id \in Ids
      /\ UNCHANGED <<backend, cache, issued, over>>
  <2>1. InProgress(c)
    BY DEF Firestore, Put, PutFails, Verify, VerifyFails,
           SetIndex, SetIndexFails, DropIndex, DropIndexFails, DropBlob, stores, Ready, InProgress, Ended
  <2>2. backend = "firestore" /\ call[c].id \in Ids
    BY <2>1 DEF Firestore, Put, PutFails, Verify, VerifyFails,
                SetIndex, SetIndexFails, DropIndex, DropIndexFails, DropBlob, stores, SInv, Placed
  <2>3. UNCHANGED <<backend, cache, issued, over>>
    BY DEF Firestore, Put, PutFails, Verify, VerifyFails,
           SetIndex, SetIndexFails, DropIndex, DropIndexFails, DropBlob, stores, Quiet
  <2> QED BY <2>1, <2>2, <2>3 DEF InProgress
<1>2. TypeOK'
  <2>1. PICK pc \in {"done", "rejected", "verifying", "indexing", "deleting"} : Moves(c, pc)
    BY DEF Firestore, Put, PutFails, Verify, VerifyFails,
           SetIndex, SetIndexFails, DropIndex, DropIndexFails, DropBlob, stores, Answers
  <2>2. Fault \/ UNCHANGED bounds
    BY DEF Firestore, Put, PutFails, Verify, VerifyFails,
           SetIndex, SetIndexFails, DropIndex, DropIndexFails, DropBlob, stores
  <2>3. bounds' \in [faults : 0 .. MaxFaults, crashes : 0 .. MaxCrashes]
    BY <2>2, FaultTyped DEF SInv, TypeOK
  <2>4. index' \subseteq Ids
    BY <1>1 DEF Firestore, Put, PutFails, Verify, VerifyFails,
                SetIndex, SetIndexFails, DropIndex, DropIndexFails, DropBlob, stores, SInv, TypeOK
  <2>5. \E v \in {call[c].value, Nothing} :
          durable' \in {durable, [durable EXCEPT ![call[c].id] = v]}
    <3>1. call[c].pc = "deleting" => call[c].value = Nothing
      BY <1>1 DEF SInv, Placed
    <3>2. CASE DropBlob(c)
      BY <3>1, <3>2 DEF DropBlob
    <3>3. CASE ~DropBlob(c)
      BY <3>3 DEF Firestore, Put, PutFails, Verify, VerifyFails,
                  SetIndex, SetIndexFails, DropIndex, DropIndexFails, stores
    <3> QED BY <3>2, <3>3
  <2>6. durable' \in [Ids -> Calls \cup {Nothing}]
    BY <2>5, WriteTyped DEF SInv
  <2>7. Release(c) \/ UNCHANGED tail
    BY DEF Firestore, Put, PutFails, Verify, VerifyFails,
           SetIndex, SetIndexFails, DropIndex, DropIndexFails, DropBlob, stores, Answers
  <2>8. tail' \in [Ids \cup {Chain} -> Calls \cup {Nothing}]
    BY <2>7, ReleaseTyped DEF SInv, TypeOK
  <2> QED BY <1>1, <2>1, <2>3, <2>4, <2>6, <2>8, MoveTyped DEF SInv, Pcs, Ended
<1>2a. CASE Verify(c) \/ VerifyFails(c)
  <2>1. call[c].pc = "verifying" /\ Saving(c)
    BY <1>1, <1>2a DEF Verify, VerifyFails, Saving
  <2>2. CASE Answers(c, "rejected")
    <3>1. /\ durable' = durable \/ durable' = [durable EXCEPT ![call[c].id] = Nothing]
          /\ UNCHANGED index /\ Moves(c, "rejected")
      BY <1>2a, <2>2 DEF Verify, VerifyFails, Answers, stores
    <3>2. Placed' /\ Overlap' /\ Served'
      BY <1>1, <2>1, <3>1, ServedUnverified
    <3>3. Ordered' /\ Lined' /\ Tailed'
      BY <1>1, <2>1, <2>2, ChainsShrink DEF Ended
    <3> QED BY <1>2, <3>2, <3>3 DEF SInv
  <2>3. CASE Moves(c, "indexing") /\ UNCHANGED <<durable, index, tail>>
    <3>1. Placed' /\ Overlap' /\ Served'
      BY <1>1, <2>1, <2>3, ServedVerified
    <3>2. Ordered' /\ Lined' /\ Tailed'
      BY <1>1, <2>1, <2>3, ChainsMove
    <3> QED BY <1>2, <3>1, <3>2 DEF SInv
  <2> QED BY <1>2a, <2>2, <2>3 DEF Verify, VerifyFails, stores
<1>3. CASE Put(c)
  <2>1. Ready(c) /\ Saving(c) /\ call[c].value = c
    BY <1>1, <1>3 DEF Put, Ready, Saving, SInv, Placed
  <2>2. /\ durable' = [durable EXCEPT ![call[c].id] = call[c].value]
        /\ Moves(c, "verifying") /\ UNCHANGED <<index, tail>>
    BY <1>3 DEF Put
  <2>3. durable'[call[c].id] = call[c].value
    BY <1>1, <2>2 DEF SInv, TypeOK
  <2>4. Placed' /\ Overlap' /\ Served'
    BY <1>1, <2>1, <2>2, <2>3, ServedWrites DEF Pcs
  <2>5. Ordered' /\ Lined' /\ Tailed'
    BY <1>1, <2>1, <2>2, ChainsMove
  <2> QED BY <1>2, <2>4, <2>5 DEF SInv
<1>4. CASE PutFails(c)
  <2>1. Ready(c) /\ Saving(c) /\ call[c].value = c
    BY <1>1, <1>4 DEF PutFails, Ready, Saving, SInv, Placed
  <2>2. /\ durable' = durable \/ durable' = [durable EXCEPT ![call[c].id] = call[c].value]
        /\ Answers(c, "rejected") /\ UNCHANGED index
    BY <1>4 DEF PutFails
  <2>3. Placed' /\ Overlap' /\ Served'
    BY <1>1, <2>1, <2>2, ServedWrites DEF Pcs, Ended, Answers
  <2>4. Ordered' /\ Lined' /\ Tailed'
    BY <1>1, <2>1, <2>2, ChainsShrink DEF Ended
  <2> QED BY <1>2, <2>3, <2>4 DEF SInv
<1>5. CASE SetIndex(c) \/ SetIndexFails(c)
  <2>1. call[c].pc \in {"verifying", "indexing"} /\ Saving(c)
    BY <1>1, <1>5 DEF SetIndex, SetIndexFails, Saving
  <2>2. PICK pc \in {"done", "rejected"} : Answers(c, pc)
    BY <1>5 DEF SetIndex, SetIndexFails
  <2>3. /\ index' = index \/ index' = index \cup {call[c].id}
        /\ UNCHANGED durable
    BY <1>5 DEF SetIndex, SetIndexFails
  <2>4. Placed' /\ Overlap' /\ Served'
    BY <1>1, <2>1, <2>2, <2>3, ServedIndexed DEF Ended, Answers
  <2>5. Ordered' /\ Lined' /\ Tailed'
    BY <1>1, <2>1, <2>2, ChainsShrink DEF Ended
  <2> QED BY <1>2, <2>4, <2>5 DEF SInv
<1>6. CASE DropIndex(c) \/ DropIndexFails(c)
  <2>1. call[c].pc = "dropping" /\ ~Saving(c) /\ call[c].value = Nothing
    BY <1>1, <1>6 DEF DropIndex, DropIndexFails, Saving, SInv, Placed
  <2>2. PICK pc \in {"deleting", "rejected"} :
          Moves(c, pc) /\ (pc = "deleting" => index' = index \ {call[c].id})
    BY <1>6 DEF DropIndex, DropIndexFails
  <2>3. index' \subseteq index /\ UNCHANGED <<durable, tail>>
    BY <1>6 DEF DropIndex, DropIndexFails
  <2>4. Placed' /\ Overlap' /\ Served'
    BY <1>1, <2>1, <2>2, <2>3, ServedStays DEF Ended
  <2>5. Ordered' /\ Lined' /\ Tailed'
    BY <1>1, <2>1, <2>2, <2>3, ChainsStay DEF Pcs, Ended
  <2> QED BY <1>2, <2>4, <2>5 DEF SInv
<1>7. CASE DropBlob(c)
  <2>1. call[c].pc = "deleting" /\ ~Saving(c) /\ call[c].value = Nothing
    BY <1>1, <1>7 DEF DropBlob, Saving, SInv, Placed
  <2>2. /\ durable' = durable \/ durable' = [durable EXCEPT ![call[c].id] = call[c].value]
        /\ Moves(c, "done") /\ UNCHANGED <<index, tail>>
    BY <1>7, <2>1 DEF DropBlob
  <2>3. Placed' /\ Overlap' /\ Served'
    BY <1>1, <2>1, <2>2, ServedWrites DEF Pcs, Ended
  <2>4. Ordered' /\ Lined' /\ Tailed'
    BY <1>1, <2>1, <2>2, ChainsStay DEF Pcs, Ended
  <2> QED BY <1>2, <2>3, <2>4 DEF SInv
<1> QED
  BY <1>2a, <1>3, <1>4, <1>5, <1>6, <1>7 DEF Firestore

\* A step of the D1 repository keeps the invariant.
LEMMA D1Keeps ==
  ASSUME SInv, NEW c \in Calls, D1(c)
  PROVE  SInv'
<1>1. /\ call[c].pc \in {"sending", "answering"} /\ InProgress(c) /\ call[c].pc # "new"
      /\ UNCHANGED <<backend, cache, index, issued, over, tail>>
  BY DEF D1, Upsert, Respond, NoRoute, BindingFails, InProgress, Ended, Quiet, stores
<1>2. backend = "d1" /\ call[c].id \in Ids
  BY <1>1 DEF SInv, Placed
<1>3. PICK pc \in {"answering", "done", "rejected"} :
        /\ Moves(c, pc)
        /\ pc = "answering" => durable' = [durable EXCEPT ![call[c].id] = call[c].value]
  BY DEF D1, Upsert, Respond, NoRoute, BindingFails
<1>4. /\ durable' = durable \/ durable' = [durable EXCEPT ![call[c].id] = call[c].value]
      /\ Fault \/ UNCHANGED bounds
  BY DEF D1, Upsert, Respond, NoRoute, BindingFails, stores
<1>5. TypeOK'
  <2>1. bounds' \in [faults : 0 .. MaxFaults, crashes : 0 .. MaxCrashes]
    BY <1>4, FaultTyped DEF SInv, TypeOK
  <2>2. durable' \in [Ids -> Calls \cup {Nothing}]
    BY <1>4, WriteTyped DEF SInv
  <2>3. index' \subseteq Ids /\ tail' \in [Ids \cup {Chain} -> Calls \cup {Nothing}]
    BY <1>1 DEF SInv, TypeOK
  <2> QED BY <1>1, <1>3, <2>1, <2>2, <2>3, MoveTyped DEF SInv, Pcs, Ended
<1>6. Placed' /\ Overlap' /\ Served'
  <2>1. pc = "answering" => durable'[call[c].id] = call[c].value
    BY <1>2, <1>3 DEF SInv, TypeOK
  <2> QED BY <1>1, <1>2, <1>3, <1>4, <2>1, ServedWrites DEF Pcs, Ended
<1>7. Ordered' /\ Lined' /\ Tailed'
  BY <1>1, <1>2, <1>3, ChainsStay DEF Pcs, Ended
<1> QED
  BY <1>5, <1>6, <1>7 DEF SInv

-----------------------------------------------------------------------------
(***************************************************************************)
(* The theorems                                                            *)
(***************************************************************************)

\* The invariant holds at the start.
LEMMA StoreStarts == Init => SInv
<1> SUFFICES ASSUME Init PROVE SInv
  OBVIOUS
<1>1. \A c \in Calls : call[c] = NotYet
  BY DEF Init
<1>2. \A c \in Calls : ~InProgress(c) /\ ~Saving(c) /\ call[c].pc = "new"
  BY <1>1 DEF NotYet, InProgress, Saving
<1>3. TypeOK
  BY RepositoriesAssumption DEF Init, TypeOK, NotYet, Ended
<1>4. Placed /\ Overlap /\ Served /\ Lined
  BY <1>2 DEF Placed, Overlap, Served, Lined
<1>5. Ordered /\ Tailed
  BY <1>2 DEF Init, Ordered, Tailed, Earlier
<1> QED
  BY <1>3, <1>4, <1>5 DEF SInv

\* Every step keeps the invariant.
LEMMA StoreSteps == SInv /\ [Next]_vars => SInv'
<1> SUFFICES ASSUME SInv, [Next]_vars PROVE SInv'
  OBVIOUS
<1>1. CASE UNCHANGED vars
  BY <1>1 DEF vars, stores, SInv, TypeOK, Placed, Overlap, Served, Ordered, Lined, Tailed,
              InProgress, Saving, Earlier
<1>2. CASE Next
  BY <1>2, BeginKeeps, CrashKeeps, FilesystemKeeps, FirestoreKeeps, D1Keeps DEF Next
<1> QED
  BY <1>1, <1>2

\* The invariant of the repositories.
THEOREM StoreInvariance == Spec => []SInv
BY StoreStarts, StoreSteps, PTL DEF Spec

\* The shape of the state, however many calls, faults and crashes.
THEOREM StoreTypeCorrect == Spec => []TypeOK
<1>1. SInv => TypeOK
  BY DEF SInv
<1> QED
  BY <1>1, StoreInvariance, PTL

\* Two saves of one Firestore production are never both past their queue: the
\* entry of a chain goes only with the last save of it.
THEOREM WritesTakeTurns == Spec => []OneWriteAtATime
<1>1. SInv => OneWriteAtATime
  <2> SUFFICES ASSUME SInv, backend = "firestore", NEW c \in Calls, NEW d \in Calls,
                      Writing(c), Writing(d), call[c].id = call[d].id, c # d
               PROVE  FALSE
    BY DEF OneWriteAtATime
  <2>1. /\ Saving(c) /\ (Ready(c) \/ call[c].pc \in {"verifying", "indexing"})
        /\ Saving(d) /\ (Ready(d) \/ call[d].pc \in {"verifying", "indexing"})
    BY DEF Writing, Ready, Saving
  <2>2. Earlier(c, d) /\ ~Earlier(d, c)
    BY <2>1, FirstInLine
  <2>3. ~Earlier(c, d)
    BY <2>1, FirstInLine
  <2> QED BY <2>2, <2>3
<1> QED
  BY <1>1, StoreInvariance, PTL

-----------------------------------------------------------------------------
(***************************************************************************)
(* What a failure costs                                                    *)
(***************************************************************************)

\* Saves that rejected, but for those of Firestore that overlapped a removal.
Rejected ==
  {c \in Calls : /\ call[c].pc = "rejected" /\ call[c].value = c
                 /\ backend = "firestore" => Nothing \notin over[c]}

\* Files reject only after a failure; elsewhere each failure rejects one save.
Blamed ==
  IF backend = "filesystem"
  THEN \A c \in Calls : call[c].pc = "rejected" => bounds.faults > 0
  ELSE IsFiniteSet(Rejected) /\ Cardinality(Rejected) <= bounds.faults

\* A step that rejects at most one save, at the price of a failure.
LEMMA BlamedStep ==
  ASSUME SInv, Blamed, UNCHANGED backend, NEW c \in Calls,
         \A d \in Calls \ {c} : call'[d] = call[d] /\ over[d] \subseteq over'[d],
         \/ call'[c].pc # "rejected" /\ call[c].pc # "rejected" /\ UNCHANGED bounds
         \/ call'[c].pc = "rejected" /\ Fault
         \/ /\ call'[c].pc = "rejected" /\ call[c].pc # "rejected" /\ UNCHANGED bounds
            /\ IF backend = "filesystem" THEN bounds.faults > 0
               ELSE call'[c].value = Nothing \/ (backend = "firestore" /\ Nothing \in over'[c])
  PROVE  Blamed'
<1>1. /\ bounds.faults \in Nat /\ bounds \in [faults : 0 .. MaxFaults, crashes : 0 .. MaxCrashes]
      /\ Nothing # c
  BY RepositoriesAssumption DEF SInv, TypeOK
<1>2. Fault => bounds'.faults = bounds.faults + 1
  BY <1>1 DEF Fault
<1>3. CASE backend = "filesystem"
  BY <1>1, <1>2, <1>3 DEF Blamed
<1>4. CASE backend # "filesystem"
  <2>1. IsFiniteSet(Rejected) /\ Cardinality(Rejected) <= bounds.faults
    BY <1>4 DEF Blamed
  <2>2. CASE Rejected' \subseteq Rejected /\ bounds'.faults >= bounds.faults
    <3>1. /\ IsFiniteSet(Rejected') /\ Cardinality(Rejected') <= Cardinality(Rejected)
          /\ Cardinality(Rejected) \in Nat /\ Cardinality(Rejected') \in Nat
      BY <2>1, <2>2, FS_Subset, FS_CardinalityType
    <3>2. bounds'.faults \in Nat
      BY <1>1, <1>2
    <3> QED
      BY <1>1, <1>4, <2>1, <2>2, <3>1, <3>2 DEF Blamed
  <2>3. CASE Rejected' \subseteq Rejected \cup {c} /\ bounds'.faults = bounds.faults + 1
    <3>1. /\ IsFiniteSet(Rejected \cup {c})
          /\ Cardinality(Rejected \cup {c}) <= Cardinality(Rejected) + 1
          /\ Cardinality(Rejected) \in Nat /\ Cardinality(Rejected \cup {c}) \in Nat
      <4>1. Cardinality(Rejected) \in Nat
        BY <2>1, FS_CardinalityType
      <4>2. /\ IsFiniteSet(Rejected \cup {c})
            /\ \/ Cardinality(Rejected \cup {c}) = Cardinality(Rejected)
               \/ Cardinality(Rejected \cup {c}) = Cardinality(Rejected) + 1
        BY <2>1, FS_AddElement
      <4> QED BY <4>1, <4>2
    <3>2. /\ IsFiniteSet(Rejected') /\ Cardinality(Rejected') <= Cardinality(Rejected \cup {c})
          /\ Cardinality(Rejected') \in Nat
      BY <2>3, <3>1, FS_Subset, FS_CardinalityType
    <3> QED
      BY <1>1, <1>4, <2>1, <2>3, <3>1, <3>2 DEF Blamed
  <2>4. Rejected' \subseteq Rejected \cup {c}
    BY DEF Rejected
  <2>5. \/ bounds'.faults = bounds.faults + 1
        \/ bounds'.faults >= bounds.faults /\ c \notin Rejected'
    BY <1>1, <1>2, <1>4 DEF Rejected
  <2> QED
    BY <2>2, <2>3, <2>4, <2>5
<1> QED
  BY <1>3, <1>4

\* Whatever a step rejects is paid for.
LEMMA BlamedKeeps ==
  ASSUME SInv, Blamed, [Next]_vars
  PROVE  Blamed'
<1>1. CASE UNCHANGED vars
  BY <1>1 DEF Blamed, Rejected, vars
<1>2. ASSUME NEW c \in Calls, NEW pc \in Pcs, Moves(c, pc), InProgress(c)
      PROVE  /\ call'[c].pc = pc /\ call'[c].value = call[c].value /\ call[c].pc # "rejected"
             /\ \A d \in Calls \ {c} : call'[d] = call[d]
  BY <1>2, MoveFields DEF SInv, InProgress, Ended
<1>3. ASSUME NEW c \in Calls, NEW i \in Ids, NEW v \in {c, Nothing}, Begin(c, i, v)
      PROVE  Blamed'
  <2>1. /\ call \in [Calls -> CallRecord] /\ call[c].pc = "new"
        /\ UNCHANGED <<backend, bounds>>
    BY <1>3 DEF SInv, TypeOK, CallRecord, Pcs, Begin
  <2>2. /\ call'[c].pc = FirstStep(v) /\ FirstStep(v) # "rejected"
        /\ \A d \in Calls \ {c} : call'[d] = call[d] /\ over[d] \subseteq over'[d]
    BY <1>3, <2>1 DEF Begin, FirstStep
  <2> QED
    BY <2>1, <2>2, BlamedStep
<1>4. ASSUME NEW c \in Calls, Filesystem(c)
      PROVE  Blamed'
  <2>1. /\ backend = "filesystem" /\ Ready(c) /\ InProgress(c) /\ UNCHANGED <<backend, over>>
    BY <1>4 DEF Filesystem, WriteFile, WriteFails, Poisoned, Ready, InProgress, Ended,
                Quiet
  <2>2. \/ Moves(c, "done") /\ UNCHANGED bounds
        \/ Moves(c, "rejected") /\ Fault
        \/ /\ Moves(c, "rejected") /\ UNCHANGED bounds
           /\ call[c].after # Nothing /\ call[call[c].after].pc = "rejected"
    BY <1>4 DEF Filesystem, WriteFile, WriteFails, Poisoned, Answers
  <2>3. call[c].after \in Calls \cup {Nothing}
    BY DEF SInv, TypeOK
  <2>4. call[c].after # Nothing /\ call[call[c].after].pc = "rejected" => bounds.faults > 0
    BY <2>1, <2>3 DEF Blamed
  <2> QED
    BY <1>2, <2>1, <2>2, <2>4, BlamedStep DEF Pcs, Ended
<1>5. ASSUME NEW c \in Calls, Firestore(c)
      PROVE  Blamed'
  <2>1. /\ InProgress(c) /\ UNCHANGED <<backend, over>>
    BY <1>5 DEF Firestore, Put, PutFails, Verify, VerifyFails,
                SetIndex, SetIndexFails, DropIndex, DropIndexFails, DropBlob, stores, Ready, InProgress, Ended, Quiet
  <2>2. call[c].pc = "verifying" =>
          backend = "firestore" /\ durable[call[c].id] \in over[c]
    BY <2>1 DEF SInv, Placed, Served
  <2>3. \/ \E pc \in {"done", "verifying", "indexing", "deleting"} :
             Moves(c, pc) /\ UNCHANGED bounds
        \/ Moves(c, "rejected") /\ Fault
        \/ /\ Moves(c, "rejected") /\ UNCHANGED bounds
           /\ call[c].pc = "verifying" /\ durable[call[c].id] = Nothing
    BY <1>5 DEF Firestore, Put, PutFails, Verify, VerifyFails,
                SetIndex, SetIndexFails, DropIndex, DropIndexFails, DropBlob, stores, Answers
  <2> QED
    BY <1>2, <2>1, <2>2, <2>3, BlamedStep DEF Pcs, Ended
<1>6. ASSUME NEW c \in Calls, D1(c)
      PROVE  Blamed'
  <2>1. /\ InProgress(c) /\ backend = "d1" /\ UNCHANGED <<backend, over>>
    BY <1>6 DEF D1, Upsert, Respond, NoRoute, BindingFails, InProgress, Ended, Quiet,
                SInv,
           Placed
  <2>2. \/ \E pc \in {"done", "answering"} : Moves(c, pc) /\ UNCHANGED bounds
        \/ Moves(c, "rejected") /\ Fault
        \/ Moves(c, "rejected") /\ UNCHANGED bounds /\ call[c].value = Nothing
    BY <1>6 DEF D1, Upsert, Respond, NoRoute, BindingFails
  <2> QED
    BY <1>2, <2>1, <2>2, BlamedStep DEF Pcs, Ended
<1>7. CASE Crash
  <2>1. /\ UNCHANGED <<backend, over>> /\ bounds'.faults = bounds.faults
        /\ \A c \in Calls : /\ call'[c].value = call[c].value
                            /\ call'[c].pc = "rejected" <=> call[c].pc = "rejected"
    <3>1. /\ call \in [Calls -> CallRecord]
          /\ bounds \in [faults : 0 .. MaxFaults, crashes : 0 .. MaxCrashes]
      BY DEF SInv, TypeOK, CallRecord, Pcs
    <3>2. /\ call' = [c \in Calls |-> IF InProgress(c) THEN [call[c] EXCEPT !.pc = "lost"]
                                      ELSE call[c]]
          /\ bounds' = [bounds EXCEPT !.crashes = @ + 1] /\ UNCHANGED <<backend, over>>
      BY <1>7 DEF Crash
    <3>3. \A c \in Calls : call[c] \in CallRecord
      BY <3>1
    <3> QED
      BY <3>1, <3>2, <3>3 DEF CallRecord, InProgress, Ended
  <2>2. Rejected' = Rejected
    BY <2>1 DEF Rejected
  <2> QED
    BY <2>1, <2>2 DEF Blamed
<1> QED
  BY <1>1, <1>3, <1>4, <1>5, <1>6, <1>7 DEF Next

\* A save that rejects in Firestore or D1 is paid for by a failure of its own,
\* or met a removal that took its object away before it was verified, so no save
\* queued behind it pays; with files, whose one chain passes
\* rejections on (filesystem-project-repository.ts), nothing rejects until
\* something has failed.
THEOREM FailuresAreAlone == Spec => []FailuresStayAlone
<1>1. Init => Blamed
  <2> SUFFICES ASSUME Init PROVE Blamed
    OBVIOUS
  <2>1. (\A c \in Calls : call[c].pc = "new") /\ bounds.faults = 0
    BY DEF Init, NotYet
  <2>2. Rejected = {}
    BY <2>1 DEF Rejected
  <2> QED
    BY <2>1, <2>2, FS_EmptySet DEF Blamed
<1>2. Spec => []Blamed
  BY <1>1, StoreInvariance, BlamedKeeps, PTL DEF Spec
<1>3. Blamed => FailuresStayAlone
  BY DEF Blamed, Rejected, FailuresStayAlone
<1> QED
  BY <1>2, <1>3, PTL

-----------------------------------------------------------------------------
(***************************************************************************)
(* The last call                                                           *)
(*                                                                         *)
(* What a production is left with is the document of the last call on it.  *)
(* The invariant says what the stores hold for that call at each of its    *)
(* steps (LatestFile, LatestObject).  No other call can take it back: the  *)
(* writes of files end in the order of their calls (FilesLined), the saves *)
(* of a Firestore production as well (SavesInTurn), and a removal that is  *)
(* still in progress is one the last call has met (Met).                   *)
(***************************************************************************)

\* No call on its production was made after c.
Last(c) ==
  /\ call[c].pc # "new"
  /\ \A d \in Calls : Earlier(c, d) => call[d].id # call[c].id

\* What LastCallWins excepts of Firestore: a save beside a removal.
Undisturbed(c) == Nothing \in over[c] => over[c] = {Nothing}

\* A call knows its own document, and those of earlier calls still in progress.
Met ==
  /\ \A c \in Calls : call[c].pc # "new" =>
       /\ call[c].id \in Ids
       /\ call[c].value \in {c, Nothing}
       /\ call[c].value \in over[c]
  /\ \A c, d \in Calls :
       Earlier(d, c) /\ InProgress(d) /\ call[d].id = call[c].id =>
         call[d].value \in over[c]

\* Behind a call on the files that is in progress, all are: each waits for it or
\* for one between them.
FilesLined ==
  backend = "filesystem" =>
    \A c, d \in Calls :
      InProgress(c) /\ Earlier(c, d) =>
        /\ InProgress(d)
        /\ call[d].after \in Calls /\ InProgress(call[d].after)
        /\ call[d].after = c \/ Earlier(c, call[d].after)

\* The entry of the one chain is its last call.
FilesTailed ==
  backend = "filesystem" =>
    \A c \in Calls : InProgress(c) =>
      /\ tail[Chain] \in Calls /\ InProgress(tail[Chain])
      /\ c = tail[Chain] \/ Earlier(c, tail[Chain])

\* A save in progress was not made before one that is done.
SavesInTurn ==
  \A c, d \in Calls :
    call[c].pc = "done" /\ call[c].value = c /\ Saving(d) /\ call[d].id = call[c].id =>
      ~Earlier(d, c)

\* The last call's document is in the cache at once, and in the file when it is done.
LatestFile ==
  backend = "filesystem" =>
    \A c \in Calls : Last(c) =>
      /\ call[c].pc \in {"queued", "done"} => cache[call[c].id] = call[c].value
      /\ call[c].pc = "done" => durable[call[c].id] = call[c].value

\* The last save's object stays, and then its index entry; the last removal's
\* index entry stays away.
ObjectLeft(c) ==
  /\ call[c].value = c /\ call[c].pc \in {"verifying", "indexing", "done"} => durable[call[c].id] = c
  /\ call[c].value = c /\ call[c].pc = "done" => call[c].id \in index
  /\ call[c].value = Nothing /\ call[c].pc \in {"deleting", "done"} => call[c].id \notin index

LatestObject ==
  backend = "firestore" =>
    \A c \in Calls : Last(c) /\ Undisturbed(c) => ObjectLeft(c)

\* The invariant of the order of calls, on top of SInv.
LInv ==
  /\ Met
  /\ FilesLined
  /\ FilesTailed
  /\ SavesInTurn
  /\ LatestFile
  /\ LatestObject

\* A call in progress is on a production, and overlaps itself.
LEMMA Company ==
  ASSUME SInv, NEW c \in Calls, InProgress(c)
  PROVE  /\ call[c].id \in Ids /\ call[c].value \in over[c]
         /\ durable \in [Ids -> Calls \cup {Nothing}]
BY DEF SInv, Placed, Overlap, TypeOK

\* What making a call changes.
LEMMA BeginFields ==
  ASSUME SInv, NEW c \in Calls, NEW i \in Ids, NEW v \in {c, Nothing}, Begin(c, i, v)
  PROVE  /\ call[c].pc = "new"
         /\ call'[c].pc = FirstStep(v) /\ call'[c].id = i /\ call'[c].value = v
         /\ FirstStep(v) = "queued" => call'[c].after = tail[ChainOf(i)]
         /\ \A d \in Calls \ {c} : call'[d] = call[d]
         /\ \A d \in Calls : call[d].pc # "new" => Earlier(d, c)'
         /\ \A d, e \in Calls : Earlier(d, e) => Earlier(d, e)'
         /\ \A d, e \in Calls : e # c /\ Earlier(d, e)' => Earlier(d, e)
         /\ \A d \in Calls : ~Earlier(c, d)'
         /\ v \in over'[c]
         /\ \A d \in Calls \ {c} : InProgress(d) /\ call[d].id = i => call[d].value \in over'[c]
         /\ \A d \in Calls \ {c} : over[d] \subseteq over'[d]
         /\ \A d \in Calls \ {c} : call[d].id # i => over'[d] = over[d]
<1> DEFINE new == [pc |-> FirstStep(v), id |-> i, value |-> v,
                   after |-> IF FirstStep(v) = "queued" THEN tail[ChainOf(i)] ELSE Nothing]
<1>1. /\ call[c].pc = "new" /\ call' = [call EXCEPT ![c] = new]
      /\ issued' = issued \cup {<<d, c>> : d \in {e \in Calls : call[e].pc # "new"}}
      /\ over' = [d \in Calls |->
                    IF d = c THEN {v} \cup {call[e].value : e \in Rivals(i)}
                    ELSE IF d \in Rivals(i) THEN over[d] \cup {v} ELSE over[d]]
  BY DEF Begin
<1>2. call \in [Calls -> CallRecord]
  BY DEF SInv, TypeOK, CallRecord, Pcs
<1>3. /\ call'[c] = new
      /\ \A d \in Calls \ {c} : call'[d] = call[d]
  BY <1>1, <1>2
<1>4. /\ \A d \in Calls : call[d].pc # "new" => Earlier(d, c)'
      /\ \A d, e \in Calls : Earlier(d, e) => Earlier(d, e)'
      /\ \A d, e \in Calls : e # c /\ Earlier(d, e)' => Earlier(d, e)
  BY <1>1 DEF Earlier
<1>5. \A d \in Calls : ~Earlier(c, d)'
  BY <1>1 DEF SInv, Ordered, Earlier
<1>6. /\ v \in over'[c]
      /\ \A d \in Calls \ {c} : InProgress(d) /\ call[d].id = i => call[d].value \in over'[c]
      /\ \A d \in Calls \ {c} : over[d] \subseteq over'[d]
      /\ \A d \in Calls \ {c} : call[d].id # i => over'[d] = over[d]
  BY <1>1 DEF Rivals
<1>7. /\ call'[c].pc = FirstStep(v) /\ call'[c].id = i /\ call'[c].value = v
      /\ FirstStep(v) = "queued" => call'[c].after = tail[ChainOf(i)]
  BY <1>3
<1> HIDE DEF new
<1> QED
  BY <1>1, <1>3, <1>4, <1>5, <1>6, <1>7

\* A call that is made is the last one of its production, and those before it
\* are not; it leaves the other productions alone.
LEMMA LastBegins ==
  ASSUME SInv, LInv, NEW c \in Calls, NEW i \in Ids, NEW v \in {c, Nothing}, Begin(c, i, v)
  PROVE  LInv'
<1>1. /\ call[c].pc = "new"
      /\ call'[c].pc = FirstStep(v) /\ call'[c].id = i /\ call'[c].value = v
      /\ FirstStep(v) = "queued" => call'[c].after = tail[ChainOf(i)]
      /\ \A d \in Calls \ {c} : call'[d] = call[d]
  BY BeginFields
<1>2. /\ \A d \in Calls : call[d].pc # "new" => Earlier(d, c)'
      /\ \A d, e \in Calls : Earlier(d, e) => Earlier(d, e)'
      /\ \A d, e \in Calls : e # c /\ Earlier(d, e)' => Earlier(d, e)
      /\ \A d \in Calls : ~Earlier(c, d)'
  BY BeginFields
<1>3. /\ v \in over'[c]
      /\ \A d \in Calls \ {c} : InProgress(d) /\ call[d].id = i => call[d].value \in over'[c]
      /\ \A d \in Calls \ {c} : over[d] \subseteq over'[d]
      /\ \A d \in Calls \ {c} : call[d].id # i => over'[d] = over[d]
  BY BeginFields
<1>4. /\ FirstStep(v) \in {"sending", "dropping", "queued"}
      /\ backend = "filesystem" => FirstStep(v) = "queued"
  BY DEF FirstStep
<1>5. /\ ~InProgress(c)
      /\ InProgress(c)'
      /\ \A d \in Calls \ {c} : InProgress(d)' <=> InProgress(d)
  BY <1>1, <1>4 DEF InProgress, Ended
<1>6. UNCHANGED <<backend, durable, index>>
  BY DEF Begin
<1>7. Met'
  <2>1. ASSUME NEW d \in Calls, call'[d].pc # "new"
        PROVE  /\ call'[d].id \in Ids
               /\ call'[d].value \in {d, Nothing}
               /\ call'[d].value \in over'[d]
    BY <1>1, <1>3, <2>1 DEF LInv, Met
  <2>2. ASSUME NEW d \in Calls, NEW e \in Calls, Earlier(d, e)', InProgress(d)',
               call'[d].id = call'[e].id
        PROVE  call'[d].value \in over'[e]
    <3>1. d # c /\ InProgress(d) /\ call'[d] = call[d]
      BY <1>1, <1>2, <1>5, <2>2
    <3>2. CASE e = c
      BY <1>1, <1>3, <2>2, <3>1, <3>2
    <3>3. CASE e # c
      BY <1>1, <1>2, <1>3, <2>2, <3>1, <3>3 DEF LInv, Met
    <3> QED BY <3>2, <3>3
  <2> QED BY <2>1, <2>2 DEF Met
<1>8. FilesLined'
  <2>1. SUFFICES ASSUME backend = "filesystem", NEW d \in Calls, NEW e \in Calls,
                        InProgress(d)', Earlier(d, e)'
        PROVE  /\ InProgress(e)'
               /\ \E t \in Calls : /\ t = call'[e].after /\ InProgress(t)'
                                   /\ t = d \/ Earlier(d, t)'
    BY <1>6 DEF FilesLined, InProgress, Earlier
  <2>2. d # c /\ InProgress(d)
    BY <1>2, <1>5, <2>1
  <2>3. CASE e = c
    <3>1. PICK t \in Calls : t = tail[Chain] /\ InProgress(t) /\ (d = t \/ Earlier(d, t))
      BY <2>1, <2>2 DEF LInv, FilesTailed
    <3>2. call'[c].after = t
      BY <1>1, <1>4, <2>1, <3>1 DEF ChainOf
    <3> QED BY <1>2, <1>5, <2>3, <3>1, <3>2
  <2>4. CASE e # c
    <3>1. Earlier(d, e) /\ call'[e] = call[e]
      BY <1>1, <1>2, <2>1, <2>4
    <3>2. PICK t \in Calls : t = call[e].after /\ InProgress(t) /\ (t = d \/ Earlier(d, t))
      BY <2>1, <2>2, <3>1 DEF LInv, FilesLined
    <3>3. InProgress(e)
      BY <2>1, <2>2, <3>1 DEF LInv, FilesLined
    <3> QED BY <1>2, <1>5, <3>1, <3>2, <3>3
  <2> QED BY <2>3, <2>4
<1>9. FilesTailed'
  <2>1. SUFFICES ASSUME backend = "filesystem", NEW d \in Calls, InProgress(d)'
        PROVE  /\ tail'[Chain] \in Calls /\ call'[tail'[Chain]].pc \notin Ended \cup {"new"}
               /\ d = tail'[Chain] \/ <<d, tail'[Chain]>> \in issued'
    BY <1>6 DEF FilesTailed, InProgress, Earlier
  <2>2. tail'[Chain] = c
    BY <1>4, <2>1 DEF Begin, ChainOf, SInv, TypeOK
  <2>3. d # c => call[d].pc # "new"
    BY <1>5, <2>1 DEF InProgress
  <2>4. call'[c].pc \notin Ended \cup {"new"}
    BY <1>5 DEF InProgress
  <2>5. d = c \/ <<d, c>> \in issued'
    BY <1>2, <2>3 DEF Earlier
  <2> QED BY <2>2, <2>4, <2>5
<1>10. SavesInTurn'
  <2>1. SUFFICES ASSUME NEW d \in Calls, NEW e \in Calls, call'[d].pc = "done",
                        call'[d].value = d, Saving(e)', call'[e].id = call'[d].id
        PROVE  ~Earlier(e, d)'
    BY DEF SavesInTurn
  <2>2. d # c
    BY <1>1, <1>4, <2>1
  <2>3. CASE e = c
    BY <1>2, <2>3
  <2>4. CASE e # c
    <3>1. call'[d] = call[d] /\ call'[e] = call[e] /\ Saving(e)
      BY <1>1, <1>6, <2>1, <2>2, <2>4 DEF Saving
    <3> QED BY <1>2, <2>1, <2>2, <3>1 DEF LInv, SavesInTurn
  <2> QED BY <2>3, <2>4
<1>11. ASSUME NEW d \in Calls \ {c}, Last(d)'
       PROVE  Last(d) /\ call[d].id # i /\ call'[d] = call[d]
  <2>1. call'[d] = call[d] /\ call[d].pc # "new"
    BY <1>1, <1>11 DEF Last
  <2>2. call[d].id # i
    BY <1>1, <1>2, <1>11, <2>1 DEF Last
  <2>3. \A e \in Calls : Earlier(d, e) => call[e].id # call[d].id
    BY <1>1, <1>2, <1>11, <2>1 DEF Last, SInv, Ordered
  <2> QED BY <2>1, <2>2, <2>3 DEF Last
<1>12. LatestFile'
  <2>1. SUFFICES ASSUME backend = "filesystem", NEW d \in Calls, Last(d)'
        PROVE  /\ call'[d].pc \in {"queued", "done"} => cache'[call'[d].id] = call'[d].value
               /\ call'[d].pc = "done" => durable[call'[d].id] = call'[d].value
    BY <1>6 DEF LatestFile
  <2>2. cache' = [cache EXCEPT ![i] = v] /\ cache \in [Ids -> Calls \cup {Nothing}]
    BY <2>1 DEF Begin, SInv, TypeOK
  <2>3. CASE d = c
    BY <1>1, <1>4, <2>2, <2>3
  <2>4. CASE d # c
    <3>1. Last(d) /\ call[d].id # i /\ call'[d] = call[d]
      BY <1>11, <2>1, <2>4
    <3>2. cache'[call[d].id] = cache[call[d].id]
      <4>1. call[d].id \in Ids
        BY <3>1 DEF Last, LInv, Met
      <4> QED BY <2>2, <3>1, <4>1
    <3> QED BY <2>1, <3>1, <3>2 DEF LInv, LatestFile
  <2> QED BY <2>3, <2>4
<1>13. LatestObject'
  <2>1. SUFFICES ASSUME backend = "firestore", NEW d \in Calls, Last(d)', Undisturbed(d)'
        PROVE  ObjectLeft(d)'
    BY <1>6 DEF LatestObject
  <2>2. CASE d = c
    BY <1>1, <1>4, <2>2 DEF ObjectLeft
  <2>3. CASE d # c
    <3>1. Last(d) /\ call[d].id # i /\ call'[d] = call[d]
      BY <1>11, <2>1, <2>3
    <3>2. Undisturbed(d)
      BY <1>3, <2>1, <2>3, <3>1 DEF Undisturbed
    <3>3. ObjectLeft(d)
      BY <2>1, <3>1, <3>2 DEF LInv, LatestObject
    <3> QED BY <1>6, <3>1, <3>3 DEF ObjectLeft
  <2> QED BY <2>2, <2>3
<1> QED
  BY <1>7, <1>8, <1>9, <1>10, <1>12, <1>13 DEF LInv

\* A call that moves on is as late as it was.
LEMMA LastMoves ==
  ASSUME SInv, LInv, NEW c \in Calls, InProgress(c), NEW pc \in Pcs \ {"new"}, Moves(c, pc),
         UNCHANGED <<backend, issued, over>>
  PROVE  /\ Met'
         /\ \A d \in Calls : Last(d)' <=> Last(d)
         /\ \A d \in Calls : Undisturbed(d)' <=> Undisturbed(d)
         /\ \A d \in Calls : InProgress(d)' => InProgress(d)
         /\ \A d \in Calls : /\ call'[d].id = call[d].id /\ call'[d].value = call[d].value
                             /\ call'[d].after = call[d].after
         /\ \A d \in Calls \ {c} : call'[d] = call[d]
         /\ call'[c].pc = pc
<1>1. /\ \A d \in Calls : /\ call'[d].id = call[d].id /\ call'[d].value = call[d].value
                          /\ call'[d].after = call[d].after
                          /\ (call'[d].pc = "new" <=> call[d].pc = "new")
      /\ \A d \in Calls \ {c} : call'[d] = call[d]
      /\ call'[c].pc = pc
  BY MoveFields DEF SInv, InProgress
<1>2. \A d \in Calls : InProgress(d)' => InProgress(d)
  BY <1>1 DEF InProgress
<1>3. \A d \in Calls : Last(d)' <=> Last(d)
  BY <1>1 DEF Last, Earlier
<1>4. \A d \in Calls : Undisturbed(d)' <=> Undisturbed(d)
  BY DEF Undisturbed
<1>5. Met'
  BY <1>1, <1>2 DEF LInv, Met, Earlier
<1> QED
  BY <1>1, <1>2, <1>3, <1>4, <1>5

\* The write of files that may start is of the earliest call in progress.
LEMMA FirstFile ==
  ASSUME SInv, LInv, backend = "filesystem", NEW c \in Calls, Ready(c)
  PROVE  \A d \in Calls : InProgress(d) => ~Earlier(d, c)
<1> SUFFICES ASSUME NEW d \in Calls, InProgress(d), Earlier(d, c)
             PROVE  FALSE
  OBVIOUS
<1>1. call[c].after \in Calls /\ InProgress(call[c].after)
  BY DEF LInv, FilesLined
<1> QED
  BY <1>1, RepositoriesAssumption DEF Ready

\* A step of the repository of files.
LEMMA LastFile ==
  ASSUME SInv, LInv, NEW c \in Calls, Filesystem(c)
  PROVE  LInv'
<1>1. /\ backend = "filesystem" /\ Ready(c) /\ call[c].pc = "queued" /\ InProgress(c)
      /\ UNCHANGED <<backend, cache, issued, over, tail>>
  BY DEF Filesystem, WriteFile, WriteFails, Poisoned, Ready, InProgress, Ended, Quiet,
         Answers, Release, stores
<1>2. PICK pc \in {"done", "rejected"} :
        /\ Moves(c, pc)
        /\ pc = "done" => durable' = [durable EXCEPT ![call[c].id] = call[c].value]
        /\ pc = "rejected" => durable' = durable
  BY DEF Filesystem, WriteFile, WriteFails, Poisoned, Answers, stores
<1>3. /\ Met'
      /\ \A d \in Calls : Last(d)' <=> Last(d)
      /\ \A d \in Calls : InProgress(d)' => InProgress(d)
      /\ \A d \in Calls : /\ call'[d].id = call[d].id /\ call'[d].value = call[d].value
                          /\ call'[d].after = call[d].after
      /\ \A d \in Calls \ {c} : call'[d] = call[d]
      /\ call'[c].pc = pc
  BY <1>1, <1>2, LastMoves DEF Pcs, Ended
<1>4. /\ ~InProgress(c)'
      /\ \A d \in Calls \ {c} : InProgress(d)' <=> InProgress(d)
  BY <1>2, <1>3 DEF InProgress, Ended
<1>5. \A d \in Calls : InProgress(d) => ~Earlier(d, c)
  BY <1>1, FirstFile
<1>6. FilesLined'
  <2>1. SUFFICES ASSUME NEW d \in Calls, NEW e \in Calls, InProgress(d)', Earlier(d, e)
        PROVE  /\ InProgress(e)'
               /\ \E t \in Calls : /\ t = call'[e].after /\ InProgress(t)'
                                   /\ t = d \/ Earlier(d, t)
    BY <1>1 DEF FilesLined, InProgress, Earlier
  <2>2. InProgress(d) /\ d # c /\ e # c
    BY <1>3, <1>4, <1>5, <2>1
  <2>3. InProgress(e)
    BY <1>1, <2>1, <2>2 DEF LInv, FilesLined
  <2>4. PICK t \in Calls : t = call[e].after /\ InProgress(t) /\ (t = d \/ Earlier(d, t))
    BY <1>1, <2>1, <2>2 DEF LInv, FilesLined
  <2>5. t # c
    BY <1>5, <2>2, <2>4
  <2> QED BY <1>3, <1>4, <2>2, <2>3, <2>4, <2>5
<1>7. FilesTailed'
  <2>1. SUFFICES ASSUME NEW d \in Calls, InProgress(d)'
        PROVE  /\ tail[Chain] \in Calls /\ call'[tail[Chain]].pc \notin Ended \cup {"new"}
               /\ d = tail[Chain] \/ <<d, tail[Chain]>> \in issued
    BY <1>1 DEF FilesTailed, InProgress, Earlier
  <2>2. InProgress(d) /\ d # c
    BY <1>3, <1>4, <2>1
  <2>3. PICK t \in Calls : t = tail[Chain] /\ InProgress(t) /\ (d = t \/ Earlier(d, t))
    BY <1>1, <2>2 DEF LInv, FilesTailed
  <2>4. t # c
    BY <1>5, <2>2, <2>3
  <2>5. InProgress(t)'
    BY <1>4, <2>3, <2>4
  <2> QED BY <2>3, <2>5 DEF InProgress, Earlier
<1>8. SavesInTurn' /\ LatestObject'
  BY <1>1 DEF SavesInTurn, Saving, LatestObject
<1>9. LatestFile'
  <2>1. SUFFICES ASSUME NEW d \in Calls, Last(d)
        PROVE  /\ call'[d].pc \in {"queued", "done"} => cache[call[d].id] = call[d].value
               /\ call'[d].pc = "done" => durable'[call[d].id] = call[d].value
    BY <1>1, <1>3 DEF LatestFile
  <2>2. /\ call[d].pc \in {"queued", "done"} => cache[call[d].id] = call[d].value
        /\ call[d].pc = "done" => durable[call[d].id] = call[d].value
    BY <1>1, <2>1 DEF LInv, LatestFile
  <2>3. call[c].id \in Ids /\ durable \in [Ids -> Calls \cup {Nothing}]
    BY <1>1, Company
  <2>4. CASE d = c
    BY <1>1, <1>2, <1>3, <2>2, <2>3, <2>4
  <2>5. CASE d # c
    <3>1. call'[d] = call[d]
      BY <1>3, <2>5
    <3>2. CASE call[d].pc = "done"
      <4>1. call[d].id # call[c].id
        <5>1. ~InProgress(d) /\ call[d].pc # "new" /\ call[c].pc # "new"
          BY <1>1, <3>2 DEF InProgress, Ended
        <5>2. ~Earlier(c, d)
          BY <1>1, <5>1 DEF LInv, FilesLined
        <5>3. Earlier(d, c)
          BY <2>5, <5>1, <5>2 DEF SInv, Ordered
        <5> QED BY <2>1, <5>3 DEF Last
      <4>2. durable'[call[d].id] = durable[call[d].id]
        <5>1. call[d].id \in Ids
          BY <2>1 DEF Last, LInv, Met
        <5> QED BY <1>2, <2>3, <4>1, <5>1
      <4> QED BY <2>2, <3>1, <3>2, <4>2
    <3>3. CASE call[d].pc # "done"
      BY <2>2, <3>1, <3>3
    <3> QED BY <3>2, <3>3
  <2> QED BY <2>4, <2>5
<1> QED
  BY <1>3, <1>6, <1>7, <1>8, <1>9 DEF LInv

\* An undisturbed last call has met only saves, or only removals; and a save that
\* may still write comes after it is written itself.
LEMMA LastRival ==
  ASSUME SInv, LInv, NEW c \in Calls, Last(c), Undisturbed(c),
         NEW d \in Calls \ {c}, InProgress(d), call[d].id = call[c].id
  PROVE  /\ call[c].value = Nothing <=> call[d].value = Nothing
         /\ Saving(d) /\ (Ready(d) \/ call[d].pc \in {"verifying", "indexing"}) /\ call[c].value = c =>
              call[c].pc \notin {"verifying", "indexing", "done"}
<1>1. call[c].pc # "new" /\ call[d].pc # "new" /\ Nothing # c
  BY RepositoriesAssumption DEF Last, InProgress
<1>2. Earlier(d, c)
  BY <1>1 DEF SInv, Ordered, Last
<1>3. /\ call[c].value \in {c, Nothing} /\ call[c].value \in over[c]
      /\ call[d].value \in over[c]
  BY <1>1, <1>2 DEF LInv, Met
<1>4. call[c].value = Nothing <=> call[d].value = Nothing
  BY <1>1, <1>3 DEF Undisturbed
<1>5. ASSUME Saving(d), Ready(d) \/ call[d].pc \in {"verifying", "indexing"}, call[c].value = c
      PROVE  call[c].pc \notin {"verifying", "indexing", "done"}
  <2>1. call[c].pc # "done"
    BY <1>2, <1>5 DEF LInv, SavesInTurn
  <2>2. ASSUME call[c].pc \in {"verifying", "indexing"}
        PROVE  FALSE
    <3>1. Saving(c)
      BY <1>5, <2>2 DEF Saving
    <3>2. ~Earlier(d, c)
      BY <1>5, <2>2, <3>1, FirstInLine
    <3> QED BY <1>2, <3>2
  <2> QED BY <2>1, <2>2
<1> QED
  BY <1>4, <1>5

\* What a call does to the store leaves what another one left there.
LEMMA LastStands ==
  ASSUME SInv, LInv, backend = "firestore", NEW c \in Calls, InProgress(c),
         NEW pc \in Pcs \ {"new"}, Moves(c, pc), UNCHANGED <<backend, issued, over>>,
         \A j \in Ids \ {call[c].id} :
           durable'[j] = durable[j] /\ (j \in index' <=> j \in index),
         \/ call[c].value = Nothing /\ index' \subseteq index
         \/ /\ call[c].value = c /\ index \subseteq index'
            /\ Saving(c) /\ (Ready(c) \/ call[c].pc \in {"verifying", "indexing"}),
         NEW d \in Calls \ {c}, Last(d), Undisturbed(d)
  PROVE  ObjectLeft(d)'
<1>1. call'[d] = call[d] /\ call[d].id \in Ids /\ call[c].id \in Ids /\ c # Nothing /\ d # Nothing
  BY LastMoves, Company, RepositoriesAssumption DEF Last, LInv, Met
<1>2. ObjectLeft(d) /\ durable \in [Ids -> Calls \cup {Nothing}]
  BY DEF LInv, LatestObject, SInv, TypeOK
<1>3. CASE call[d].id # call[c].id
  <2>1. durable'[call[d].id] = durable[call[d].id] /\ (call[d].id \in index' <=> call[d].id \in index)
    BY <1>1, <1>2, <1>3
  <2> QED BY <1>1, <1>2, <2>1 DEF ObjectLeft
<1>4. CASE call[d].id = call[c].id
  <2>1. /\ call[d].value = Nothing <=> call[c].value = Nothing
        /\ Saving(c) /\ (Ready(c) \/ call[c].pc \in {"verifying", "indexing"}) /\ call[d].value = d =>
             call[d].pc \notin {"verifying", "indexing", "done"}
    BY <1>4, LastRival
  <2>2. CASE call[c].value = Nothing /\ index' \subseteq index
    BY <1>1, <1>2, <2>1, <2>2 DEF ObjectLeft
  <2>3. CASE call[c].value = c /\ Saving(c) /\ (Ready(c) \/ call[c].pc \in {"verifying", "indexing"})
    BY <1>1, <2>1, <2>3 DEF ObjectLeft
  <2> QED BY <2>2, <2>3
<1> QED
  BY <1>3, <1>4

\* A step of the Firestore repository.
LEMMA LastFirestore ==
  ASSUME SInv, LInv, NEW c \in Calls, Firestore(c)
  PROVE  LInv'
<1>1. InProgress(c)
  BY DEF Firestore, Put, PutFails, Verify, VerifyFails,
         SetIndex, SetIndexFails, DropIndex, DropIndexFails, DropBlob, stores, Ready, InProgress, Ended
<1>2. /\ backend = "firestore" /\ call[c].id \in Ids /\ c # Nothing
      /\ UNCHANGED <<backend, cache, issued, over>>
      /\ durable \in [Ids -> Calls \cup {Nothing}]
  <2>1. backend = "firestore"
    BY <1>1 DEF Firestore, Put, PutFails, Verify, VerifyFails,
                SetIndex, SetIndexFails, DropIndex, DropIndexFails, DropBlob, stores, SInv, Placed
  <2>2. UNCHANGED <<backend, cache, issued, over>>
    BY DEF Firestore, Put, PutFails, Verify, VerifyFails,
           SetIndex, SetIndexFails, DropIndex, DropIndexFails, DropBlob, stores, Quiet
  <2> QED BY <1>1, <2>1, <2>2, Company, RepositoriesAssumption
<1>3. PICK pc \in {"done", "rejected", "verifying", "indexing", "deleting"} : Moves(c, pc)
  BY DEF Firestore, Put, PutFails, Verify, VerifyFails,
         SetIndex, SetIndexFails, DropIndex, DropIndexFails, DropBlob, stores, Answers
<1>4. /\ Met'
      /\ \A d \in Calls : Last(d)' <=> Last(d)
      /\ \A d \in Calls : Undisturbed(d)' <=> Undisturbed(d)
      /\ \A d \in Calls : call'[d].id = call[d].id /\ call'[d].value = call[d].value
      /\ \A d \in Calls \ {c} : call'[d] = call[d]
      /\ call'[c].pc = pc
  BY <1>1, <1>2, <1>3, LastMoves DEF Pcs, Ended
<1>5. /\ Put(c) => pc = "verifying"
      /\ Verify(c) => pc = IF durable[call[c].id] = Nothing THEN "rejected" ELSE "indexing"
      /\ VerifyFails(c) => pc = "rejected"
      /\ (SetIndex(c) \/ DropBlob(c)) => pc = "done"
      /\ DropIndex(c) => pc = "deleting"
      /\ (PutFails(c) \/ SetIndexFails(c) \/ DropIndexFails(c)) => pc = "rejected"
  <2>1. \A q \in Pcs : Moves(c, q) => q = pc
    BY <1>4, MoveFields DEF SInv
  <2> QED
    BY <2>1 DEF Put, Verify, VerifyFails, SetIndex, DropBlob, DropIndex, PutFails,
                SetIndexFails, DropIndexFails, Answers, Pcs, Ended
<1>6. /\ call[c].pc = "queued" => call[c].value = c /\ Saving(c)
      /\ call[c].pc \in {"verifying", "indexing"} => call[c].value = c /\ Saving(c)
      /\ call[c].pc \in {"dropping", "deleting"} => call[c].value = Nothing
  BY <1>1, <1>2 DEF SInv, Placed, Saving
<1>7. /\ \A j \in Ids \ {call[c].id} :
           durable'[j] = durable[j] /\ (j \in index' <=> j \in index)
      /\ \/ call[c].value = Nothing /\ index' \subseteq index
         \/ /\ call[c].value = c /\ index \subseteq index'
            /\ Saving(c) /\ (Ready(c) \/ call[c].pc \in {"verifying", "indexing"})
  <2>1. CASE Put(c) \/ PutFails(c)
    BY <1>2, <1>6, <2>1 DEF Put, PutFails, Ready
  <2>1a. CASE Verify(c) \/ VerifyFails(c)
    BY <1>2, <1>6, <2>1a DEF Verify, VerifyFails, stores
  <2>2. CASE SetIndex(c) \/ SetIndexFails(c)
    BY <1>6, <2>2 DEF SetIndex, SetIndexFails
  <2>3. CASE DropIndex(c) \/ DropIndexFails(c)
    BY <1>6, <2>3 DEF DropIndex, DropIndexFails
  <2>4. CASE DropBlob(c)
    BY <1>2, <1>6, <2>4 DEF DropBlob
  <2> QED BY <2>1, <2>1a, <2>2, <2>3, <2>4 DEF Firestore
<1>8. FilesLined' /\ FilesTailed' /\ LatestFile'
  BY <1>2 DEF FilesLined, FilesTailed, LatestFile
<1>9. SavesInTurn'
  <2>1. SUFFICES ASSUME NEW d \in Calls, NEW e \in Calls, call'[d].pc = "done",
                        call[d].value = d, Saving(e)', call[e].id = call[d].id
        PROVE  ~Earlier(e, d)
    BY <1>2, <1>4 DEF SavesInTurn, Earlier
  <2>2. Saving(e)
    <3>1. CASE e = c
      <4>1. pc \in {"verifying", "indexing"}
        BY <1>4, <1>5, <2>1, <3>1 DEF Saving
      <4>2. Put(c) \/ Verify(c)
        BY <1>5, <4>1 DEF Firestore
      <4> QED BY <1>2, <3>1, <4>2 DEF Put, Verify, Ready, Saving
    <3>2. CASE e # c
      BY <1>2, <1>4, <2>1, <3>2 DEF Saving
    <3> QED BY <3>1, <3>2
  <2>3. CASE d = c
    <3>1. SetIndex(c)
      <4>1. SetIndex(c) \/ DropBlob(c)
        BY <1>3, <1>4, <1>5, <2>1, <2>3 DEF Firestore
      <4> QED BY <1>2, <1>6, <2>1, <2>3, <4>1 DEF DropBlob
    <3>2. call[c].pc \in {"verifying", "indexing"} /\ Saving(c) /\ e # c
      <4>1. call[c].pc \in {"verifying", "indexing"} /\ Saving(c)
        BY <1>6, <3>1 DEF SetIndex
      <4>2. ~Saving(c)'
        BY <2>1, <2>3 DEF Saving
      <4> QED BY <2>1, <4>1, <4>2
    <3> QED BY <2>1, <2>2, <2>3, <3>2, FirstInLine
  <2>4. CASE d # c
    BY <1>4, <2>1, <2>2, <2>4 DEF LInv, SavesInTurn
  <2> QED BY <2>3, <2>4
<1>10. LatestObject'
  <2>1. SUFFICES ASSUME NEW d \in Calls, Last(d), Undisturbed(d)
        PROVE  ObjectLeft(d)'
    BY <1>2, <1>4 DEF LatestObject
  <2>2. CASE d # c
    BY <1>1, <1>2, <1>3, <1>7, <2>1, <2>2, LastStands DEF Pcs, Ended
  <2>3. CASE d = c
    <3>1. ObjectLeft(c)
      BY <1>2, <2>1, <2>3 DEF LInv, LatestObject
    <3>1a. CASE Verify(c)
      <4>1. /\ call[c].pc = "verifying" /\ call[c].value = c /\ durable' = durable
            /\ call'[c].pc \in {"rejected", "indexing"}
        BY <1>4, <1>5, <1>6, <3>1a DEF Verify, stores
      <4> QED BY <1>2, <1>4, <2>3, <3>1, <4>1 DEF ObjectLeft
    <3>2. CASE Put(c)
      <4>1. call'[c].pc = "verifying" /\ durable'[call[c].id] = c /\ call[c].value = c
        BY <1>2, <1>4, <1>5, <1>6, <3>2 DEF Put, Ready
      <4> QED BY <1>2, <1>4, <2>3, <4>1 DEF ObjectLeft
    <3>3. CASE SetIndex(c)
      <4>1. call'[c].pc = "done" /\ durable'[call[c].id] = c /\ call[c].value = c
        BY <1>4, <1>5, <1>6, <3>1, <3>3 DEF SetIndex, ObjectLeft
      <4>2. call[c].id \in index'
        BY <3>3 DEF SetIndex
      <4> QED BY <1>2, <1>4, <2>3, <4>1, <4>2 DEF ObjectLeft
    <3>4. CASE DropIndex(c)
      <4>1. call[c].id \notin index' /\ call[c].value = Nothing
        BY <1>6, <3>4 DEF DropIndex
      <4> QED BY <1>2, <1>4, <2>3, <4>1 DEF ObjectLeft
    <3>5. CASE DropBlob(c)
      <4>1. call[c].id \notin index' /\ call[c].value = Nothing
        BY <1>6, <3>1, <3>5 DEF DropBlob, ObjectLeft
      <4> QED BY <1>2, <1>4, <2>3, <4>1 DEF ObjectLeft
    <3>6. CASE \/ PutFails(c) \/ VerifyFails(c)
               \/ SetIndexFails(c) \/ DropIndexFails(c)
      BY <1>4, <1>5, <2>3, <3>6 DEF ObjectLeft
    <3> QED BY <3>1a, <3>2, <3>3, <3>4, <3>5, <3>6 DEF Firestore
  <2> QED BY <2>2, <2>3
<1> QED
  BY <1>4, <1>8, <1>9, <1>10 DEF LInv

\* A step of the D1 repository, of which nothing is claimed but who met whom.
LEMMA LastD1 ==
  ASSUME SInv, LInv, NEW c \in Calls, D1(c)
  PROVE  LInv'
<1>1. /\ InProgress(c) /\ call[c].pc \in {"sending", "answering"}
      /\ UNCHANGED <<backend, issued, over>>
  BY DEF D1, Upsert, Respond, NoRoute, BindingFails, InProgress, Ended, Quiet
<1>2. backend = "d1"
  BY <1>1 DEF SInv, Placed
<1>3. PICK pc \in {"answering", "done", "rejected"} : Moves(c, pc)
  BY DEF D1, Upsert, Respond, NoRoute, BindingFails
<1>4. Met'
  BY <1>1, <1>3, LastMoves DEF Pcs, Ended
<1>5. FilesLined' /\ FilesTailed' /\ SavesInTurn' /\ LatestFile' /\ LatestObject'
  BY <1>1, <1>2 DEF FilesLined, FilesTailed, SavesInTurn, Saving, LatestFile, LatestObject
<1> QED
  BY <1>4, <1>5 DEF LInv

\* A crash: the cache is read again from files that hold what was done.
LEMMA LastCrash ==
  ASSUME SInv, LInv, Crash
  PROVE  LInv'
<1>1. /\ cache' = IF backend = "filesystem" THEN durable ELSE cache
      /\ call' = [c \in Calls |-> IF InProgress(c) THEN [call[c] EXCEPT !.pc = "lost"]
                                  ELSE call[c]]
      /\ UNCHANGED <<backend, durable, index, issued, over>>
  BY DEF Crash
<1>2. ASSUME NEW c \in Calls
      PROVE  /\ call'[c].id = call[c].id /\ call'[c].value = call[c].value
             /\ call'[c].pc = "new" <=> call[c].pc = "new"
             /\ call'[c].pc = "done" <=> call[c].pc = "done"
             /\ call'[c].pc \in Ended \cup {"new"}
  <2>1. call[c] \in CallRecord
    BY DEF SInv, TypeOK, CallRecord, Pcs
  <2>2. CASE InProgress(c)
    <3>1. call'[c] = [call[c] EXCEPT !.pc = "lost"]
      BY <1>1, <2>2
    <3> QED BY <2>1, <2>2, <3>1 DEF CallRecord, InProgress, Ended
  <2>3. CASE ~InProgress(c)
    <3>1. call'[c] = call[c]
      BY <1>1, <2>3
    <3> QED BY <2>1, <2>3, <3>1 DEF InProgress
  <2> QED BY <2>2, <2>3
<1>3. \A c \in Calls : /\ ~InProgress(c)' /\ ~Saving(c)'
                       /\ call'[c].pc \notin {"queued", "verifying", "indexing", "deleting"}
  BY <1>2 DEF InProgress, Saving, Ended
<1>4. \A c \in Calls : (Last(c)' <=> Last(c)) /\ (Undisturbed(c)' <=> Undisturbed(c))
  BY <1>1, <1>2 DEF Last, Undisturbed, Earlier
<1>5. Met'
  BY <1>1, <1>2, <1>3 DEF LInv, Met
<1>6. FilesLined' /\ FilesTailed' /\ SavesInTurn'
  BY <1>3 DEF FilesLined, FilesTailed, SavesInTurn
<1>7. LatestFile'
  BY <1>1, <1>2, <1>3, <1>4 DEF LInv, LatestFile
<1>8. LatestObject'
  BY <1>1, <1>2, <1>3, <1>4 DEF LInv, LatestObject, ObjectLeft
<1> QED
  BY <1>5, <1>6, <1>7, <1>8 DEF LInv

\* When calls race, files and Firestore are left with the document of the last
\* call once it has answered, whatever became of the calls before it
\* ("Serialising also gives last-write-wins", firestore-project-repository.ts).
THEOREM LastCallsWin == Spec => []LastCallWins
<1>1. Init => LInv
  <2> SUFFICES ASSUME Init PROVE LInv
    OBVIOUS
  <2>1. \A c \in Calls : call[c].pc = "new" /\ ~InProgress(c) /\ ~Last(c)
    BY DEF Init, NotYet, InProgress, Last
  <2> QED
    BY <2>1 DEF LInv, Met, FilesLined, FilesTailed, SavesInTurn, LatestFile, LatestObject
<1>2. SInv /\ LInv /\ [Next]_vars => LInv'
  <2> SUFFICES ASSUME SInv, LInv, [Next]_vars PROVE LInv'
    OBVIOUS
  <2>1. CASE UNCHANGED vars
    BY <2>1 DEF LInv, Met, FilesLined, FilesTailed, SavesInTurn, LatestFile, LatestObject,
                ObjectLeft, Last, Undisturbed, InProgress, Saving, Earlier, vars, stores
  <2>2. CASE Crash
    BY <2>2, LastCrash
  <2>3. ASSUME NEW c \in Calls, NEW i \in Ids, NEW v \in {c, Nothing}, Begin(c, i, v)
        PROVE  LInv'
    BY <2>3, LastBegins
  <2>4. ASSUME NEW c \in Calls, Filesystem(c) \/ Firestore(c) \/ D1(c)
        PROVE  LInv'
    BY <2>4, LastFile, LastFirestore, LastD1
  <2> QED BY <2>1, <2>2, <2>3, <2>4 DEF Next
<1>3. SInv /\ LInv => LastCallWins
  <2> SUFFICES ASSUME SInv, LInv, backend # "d1", NEW c \in Calls, call[c].pc = "done",
                      \A d \in Calls : Earlier(c, d) => call[d].id # call[c].id,
                      backend = "firestore" => Undisturbed(c)
               PROVE  Kept[call[c].id] = call[c].value /\ Shown[call[c].id] = call[c].value
    BY DEF LastCallWins, Earlier, Undisturbed
  <2>1. Last(c) /\ call[c].id \in Ids /\ call[c].value \in {c, Nothing}
    BY DEF Last, LInv, Met
  <2>2. CASE backend = "filesystem"
    BY <2>1, <2>2 DEF LInv, LatestFile, Kept, Shown
  <2>3. CASE backend = "firestore"
    <3>1. ObjectLeft(c)
      BY <2>1, <2>3 DEF LInv, LatestObject
    <3> QED BY <2>1, <2>3, <3>1 DEF ObjectLeft, Kept, Shown
  <2> QED BY <2>2, <2>3 DEF SInv, TypeOK, Backends
<1> QED
  BY <1>1, <1>2, <1>3, StoreInvariance, PTL DEF Spec

-----------------------------------------------------------------------------
(***************************************************************************)
(* Each repository is a DocumentStore                                      *)
(***************************************************************************)

\* What the abstract store is shown of a call.
LEMMA SeenCalls ==
  ASSUME SInv
  PROVE  /\ DOMAIN Seen = Calls
         /\ \A c \in Calls : Store!Waiting(c) <=> InProgress(c)
         /\ \A c \in Calls : Seen[c].id = call[c].id /\ Seen[c].value = call[c].value
         /\ \A i \in Ids : Store!Rivals(i) = Rivals(i)
<1>1. \A c \in Calls : /\ Seen[c].id = call[c].id /\ Seen[c].value = call[c].value
                       /\ Seen[c].state = StateOf(call[c].pc)
  BY DEF Seen
<1>2. \A c \in Calls : Seen[c].state = "waiting" <=> InProgress(c)
  BY <1>1 DEF StateOf, InProgress, Ended
<1> QED
  BY <1>1, <1>2 DEF Store!Waiting, Store!Rivals, Rivals, Seen

\* A call that moves on is still waiting, or has ended as the store sees it.
LEMMA SeenMoves ==
  ASSUME SInv, NEW c \in Calls, InProgress(c), NEW pc \in Pcs \ {"new"}, Moves(c, pc)
  PROVE  /\ pc \in Ended => Store!Ends(c, pc)
         /\ pc \notin Ended => Seen' = Seen
<1>1. /\ call'[c].pc = pc
      /\ call'[c].id = call[c].id /\ call'[c].value = call[c].value
      /\ \A d \in Calls \ {c} : call'[d] = call[d]
  BY MoveFields DEF SInv
<1>2. Seen' = [Seen EXCEPT ![c] = [Seen[c] EXCEPT !.state = StateOf(pc)]]
  BY <1>1 DEF Seen
<1>3. pc \in Ended => StateOf(pc) = pc
  BY DEF StateOf, Ended
<1>4. pc \notin Ended => StateOf(pc) = Seen[c].state
  BY DEF Seen, StateOf, InProgress, Ended
<1>5. pc \notin Ended => Seen' = Seen
  BY <1>2, <1>4 DEF Seen
<1> QED
  BY <1>2, <1>3, <1>5 DEF Store!Ends

\* A step that changes one production, to v or not at all, takes effect.
LEMMA Effect ==
  ASSUME SInv, NEW i \in Ids, NEW v, UNCHANGED <<backend, cache>>,
         \A j \in Ids \ {i} : durable'[j] = durable[j] /\ (j \in index' <=> j \in index),
         Kept'[i] \in {Kept[i], v}
  PROVE  Store!TakesEffect(i, v)
<1>1. \A j \in Ids \ {i} : Kept'[j] = Kept[j]
  BY DEF Kept
<1>2. Kept' \in {Kept, [Kept EXCEPT ![i] = v]}
  BY <1>1 DEF Kept
<1>3. Shown' \in {Shown, [Shown EXCEPT ![i] = v]}
  BY <1>2 DEF Shown
<1> QED
  BY <1>2, <1>3 DEF Store!TakesEffect, Store!Moves

\* A call that is made.
LEMMA BeginRefines ==
  ASSUME SInv, NEW c \in Calls, NEW i \in Ids, NEW v \in {c, Nothing}, Begin(c, i, v)
  PROVE  Store!Begin(c, i, v)
<1>1. Seen[c].state = "idle"
  BY DEF Begin, Seen, StateOf
<1>2. Seen' = [Seen EXCEPT ![c] = [state |-> "waiting", id |-> i, value |-> v]]
  <2>1. FirstStep(v) \in {"sending", "dropping", "queued"}
    BY DEF FirstStep
  <2>2. /\ call'[c].pc = FirstStep(v) /\ call'[c].id = i /\ call'[c].value = v
        /\ \A d \in Calls \ {c} : call'[d] = call[d]
    BY DEF Begin, SInv, TypeOK
  <2>3. StateOf(FirstStep(v)) = "waiting"
    BY <2>1 DEF StateOf, Ended
  <2> QED BY <2>2, <2>3 DEF Seen
<1>3. over' = [d \in Calls |->
                 IF d = c THEN {v} \cup {Seen[e].value : e \in Store!Rivals(i)}
                 ELSE IF d \in Store!Rivals(i) THEN over[d] \cup {v} ELSE over[d]]
  <2>1. /\ Store!Rivals(i) = Rivals(i)
        /\ \A e \in Rivals(i) : Seen[e].value = call[e].value
    BY SeenCalls DEF Rivals
  <2>2. {Seen[e].value : e \in Store!Rivals(i)} = {call[e].value : e \in Rivals(i)}
    BY <2>1
  <2> QED BY <2>1, <2>2 DEF Begin
<1>4. Store!TakesEffect(i, v)
  <2>1. Kept' = Kept
    BY DEF Begin, Kept
  <2>2. Shown' \in {Shown, [Shown EXCEPT ![i] = v]}
    BY <2>1 DEF Begin, Shown
  <2> QED BY <2>1, <2>2 DEF Store!TakesEffect, Store!Moves
<1> QED
  BY <1>1, <1>2, <1>3, <1>4 DEF Store!Begin

\* A crash.
LEMMA CrashRefines ==
  ASSUME SInv, Crash
  PROVE  Store!Restart
<1>1. Kept' = Kept /\ over' = over
  BY DEF Crash, Kept
<1>2. Shown' = Kept
  <2>1. backend = "filesystem" => Kept = durable
    BY DEF SInv, TypeOK, Kept
  <2> QED BY <1>1, <2>1 DEF Crash, Shown
<1>3. Seen' = [c \in Calls |-> IF Store!Waiting(c) THEN [Seen[c] EXCEPT !.state = "lost"]
                               ELSE Seen[c]]
  <2>1. \A c \in Calls : Seen'[c] = IF InProgress(c) THEN [Seen[c] EXCEPT !.state = "lost"]
                                    ELSE Seen[c]
    <3>1. SUFFICES ASSUME NEW c \in Calls
                   PROVE  Seen'[c] = IF InProgress(c) THEN [Seen[c] EXCEPT !.state = "lost"]
                                     ELSE Seen[c]
      OBVIOUS
    <3>2. /\ call[c] \in CallRecord
          /\ call'[c] = IF InProgress(c) THEN [call[c] EXCEPT !.pc = "lost"] ELSE call[c]
      BY DEF Crash, SInv, TypeOK, CallRecord, Pcs
    <3>3. Seen[c] = [state |-> StateOf(call[c].pc), id |-> call[c].id, value |-> call[c].value]
      BY DEF Seen
    <3>4. Seen'[c] = [state |-> StateOf(call'[c].pc), id |-> call'[c].id,
                      value |-> call'[c].value]
      BY DEF Seen
    <3>5. StateOf("lost") = "lost"
      BY DEF StateOf, Ended
    <3>6. CASE InProgress(c)
      <4>1. call'[c].pc = "lost" /\ call'[c].id = call[c].id /\ call'[c].value = call[c].value
        BY <3>2, <3>6 DEF CallRecord
      <4> QED BY <3>3, <3>4, <3>5, <3>6, <4>1
    <3>7. CASE ~InProgress(c)
      BY <3>2, <3>3, <3>4, <3>7
    <3> QED BY <3>6, <3>7
  <2>2. Seen' = [c \in Calls |-> Seen'[c]]
    BY DEF Seen
  <2> QED BY <2>1, <2>2, SeenCalls
<1> QED
  BY <1>1, <1>2, <1>3 DEF Store!Restart

\* A step that leaves a call waiting.
LEMMA ProgressRefines ==
  ASSUME SInv, NEW c \in Calls, InProgress(c), NEW pc \in Pcs \ {"new"}, pc \notin Ended,
         Moves(c, pc), UNCHANGED over, Store!TakesEffect(call[c].id, call[c].value)
  PROVE  Store!Progress(c)
<1>1. Seen' = Seen /\ Store!Waiting(c)
  BY SeenMoves, SeenCalls
<1>2. Seen[c].id = call[c].id /\ Seen[c].value = call[c].value
  BY SeenCalls
<1> QED
  BY <1>1, <1>2 DEF Store!Progress

\* A step that ends a call without an answer.
LEMMA RejectRefines ==
  ASSUME SInv, NEW c \in Calls, InProgress(c), Moves(c, "rejected"), UNCHANGED over,
         NEW v \in {call[c].value, Nothing}, Store!TakesEffect(call[c].id, v)
  PROVE  Store!Reject(c)
<1>1. Store!Ends(c, "rejected") /\ Store!Waiting(c)
  BY SeenMoves, SeenCalls DEF Pcs, Ended
<1>2. Seen[c].id = call[c].id /\ Seen[c].value = call[c].value
  BY SeenCalls
<1> QED
  BY <1>1, <1>2 DEF Store!Reject

\* A step that answers: what is read and what is kept are of its company.
LEMMA DoneRefines ==
  ASSUME SInv, NEW c \in Calls, InProgress(c), Moves(c, "done"), UNCHANGED over,
         Store!TakesEffect(call[c].id, call[c].value),
         Shown'[call[c].id] \in over[c], Kept'[call[c].id] \in over[c]
  PROVE  Store!Done(c)
<1>1. Store!Ends(c, "done") /\ Store!Waiting(c)
  BY SeenMoves, SeenCalls DEF Pcs, Ended
<1>2. Seen[c].id = call[c].id /\ Seen[c].value = call[c].value
  BY SeenCalls
<1> QED
  BY <1>1, <1>2 DEF Store!Done

\* The repository of files.
LEMMA FilesystemRefines ==
  ASSUME SInv, NEW c \in Calls, Filesystem(c)
  PROVE  Store!Done(c) \/ Store!Reject(c)
<1>1. /\ backend = "filesystem" /\ InProgress(c)
      /\ UNCHANGED <<backend, cache, index, over>>
  BY DEF Filesystem, WriteFile, WriteFails, Poisoned, Ready, InProgress, Ended, Quiet,
         stores
<1>2. call[c].id \in Ids /\ call[c].value \in over[c] /\ durable \in [Ids -> Calls \cup {Nothing}]
  BY <1>1, Company
<1>3. CASE WriteFile(c)
  <2>1. durable' = [durable EXCEPT ![call[c].id] = call[c].value] /\ Moves(c, "done")
    BY <1>3 DEF WriteFile, Answers
  <2>2. Kept'[call[c].id] = call[c].value
    BY <1>1, <1>2, <2>1 DEF Kept
  <2>3. Store!TakesEffect(call[c].id, call[c].value)
    BY <1>1, <1>2, <2>1, <2>2, Effect
  <2>4. Shown'[call[c].id] \in over[c]
    BY <1>1, <1>2 DEF Shown, SInv, Served
  <2> QED BY <1>1, <1>2, <2>1, <2>2, <2>3, <2>4, DoneRefines
<1>4. CASE WriteFails(c) \/ Poisoned(c)
  <2>1. UNCHANGED durable /\ Moves(c, "rejected")
    BY <1>4 DEF WriteFails, Poisoned, Answers, stores
  <2>2. Kept'[call[c].id] = Kept[call[c].id]
    BY <1>1, <2>1 DEF Kept
  <2>3. Store!TakesEffect(call[c].id, call[c].value)
    BY <1>1, <1>2, <2>1, <2>2, Effect
  <2> QED BY <1>1, <2>1, <2>3, RejectRefines
<1> QED
  BY <1>3, <1>4 DEF Filesystem

\* The Firestore repository.
LEMMA FirestoreRefines ==
  ASSUME SInv, NEW c \in Calls, Firestore(c)
  PROVE  Store!Progress(c) \/ Store!Done(c) \/ Store!Reject(c)
<1> DEFINE i == call[c].id
           v == call[c].value
<1>1. InProgress(c)
  BY DEF Firestore, Put, PutFails, Verify, VerifyFails,
         SetIndex, SetIndexFails, DropIndex, DropIndexFails, DropBlob, stores, Ready, InProgress, Ended
<1>2. i \in Ids /\ v \in over[c] /\ durable \in [Ids -> Calls \cup {Nothing}]
  BY <1>1, Company
<1>3. backend = "firestore" /\ UNCHANGED <<backend, cache, over>>
  <2>1. backend = "firestore"
    BY <1>1 DEF Firestore, Put, PutFails, Verify, VerifyFails,
                SetIndex, SetIndexFails, DropIndex, DropIndexFails, DropBlob, stores, SInv, Placed
  <2> QED BY <2>1 DEF Firestore, Put, PutFails, Verify, VerifyFails,
                      SetIndex, SetIndexFails, DropIndex, DropIndexFails, DropBlob, stores, Quiet
<1>4. /\ Kept[i] = IF i \in index THEN durable[i] ELSE Nothing
      /\ Kept'[i] = IF i \in index' THEN durable'[i] ELSE Nothing
      /\ Shown' = Kept'
  BY <1>2, <1>3 DEF Kept, Shown
<1> HIDE DEF i, v
<1>5. CASE Put(c) \/ PutFails(c)
  <2>1. /\ durable' = durable \/ durable' = [durable EXCEPT ![i] = v]
        /\ UNCHANGED index
        /\ Moves(c, "verifying") \/ Moves(c, "rejected")
    BY <1>5 DEF Put, PutFails, Answers, i, v
  <2>2. Kept'[i] \in {Kept[i], v}
    BY <1>2, <1>4, <2>1
  <2>3. \A j \in Ids \ {i} : durable'[j] = durable[j] /\ (j \in index' <=> j \in index)
    BY <1>2, <2>1
  <2>4. Store!TakesEffect(i, v)
    BY <1>2, <1>3, <2>2, <2>3, Effect
  <2> QED BY <1>1, <1>3, <2>1, <2>4, ProgressRefines, RejectRefines DEF i, v, Pcs, Ended
<1>5a. CASE Verify(c) \/ VerifyFails(c)
  <2>1. \E w \in {v, Nothing} :
          /\ durable' = durable \/ durable' = [durable EXCEPT ![i] = w]
          /\ UNCHANGED index
          /\ Moves(c, "rejected") \/ (Moves(c, "indexing") /\ w = v)
    <3>1. CASE Verify(c)
      BY <3>1 DEF Verify, Answers, stores, v
    <3>2. CASE VerifyFails(c)
      <4>1. /\ \/ durable' = durable \/ durable' = [durable EXCEPT ![i] = v]
               \/ durable' = [durable EXCEPT ![i] = Nothing]
            /\ UNCHANGED index /\ Moves(c, "rejected")
        BY <3>2 DEF VerifyFails, Answers, i
      <4> QED BY <4>1
    <3> QED BY <1>5a, <3>1, <3>2
  <2>1a. PICK w \in {v, Nothing} :
          /\ durable' = durable \/ durable' = [durable EXCEPT ![i] = w]
          /\ UNCHANGED index
          /\ Moves(c, "rejected") \/ (Moves(c, "indexing") /\ w = v)
    BY <2>1
  <2>2. Kept'[i] \in {Kept[i], w}
    BY <1>2, <1>4, <2>1a
  <2>3. \A j \in Ids \ {i} : durable'[j] = durable[j] /\ (j \in index' <=> j \in index)
    BY <1>2, <2>1a
  <2>4. Store!TakesEffect(i, w)
    BY <1>2, <1>3, <2>2, <2>3, Effect
  <2> QED BY <1>1, <1>3, <2>1a, <2>4, ProgressRefines, RejectRefines DEF i, v, Pcs, Ended
<1>6. CASE SetIndex(c) \/ SetIndexFails(c)
  <2>1. /\ durable[i] \in {v, Nothing} /\ durable[i] \in over[c]
        /\ durable' = durable
        /\ index' = index \/ index' = index \cup {i}
        /\ SetIndex(c) => index' = index \cup {i}
    BY <1>1, <1>6 DEF SetIndex, SetIndexFails, SInv, Served, i, v
  <2>2. Kept'[i] \in {Kept[i], v}
    BY <1>4, <2>1
  <2>3. \A j \in Ids \ {i} : durable'[j] = durable[j] /\ (j \in index' <=> j \in index)
    BY <2>1
  <2>4. Store!TakesEffect(i, v)
    BY <1>2, <1>3, <2>2, <2>3, Effect
  <2>5. CASE SetIndex(c)
    <3>1. Shown'[i] \in over[c] /\ Kept'[i] \in over[c]
      BY <1>4, <2>1, <2>5
    <3>2. Moves(c, "done")
      BY <2>5 DEF SetIndex, Answers
    <3> QED BY <1>1, <1>3, <2>4, <3>1, <3>2, DoneRefines DEF i, v
  <2>6. CASE SetIndexFails(c)
    <3>1. Moves(c, "rejected")
      BY <2>6 DEF SetIndexFails, Answers
    <3> QED BY <1>1, <1>3, <2>4, <3>1, RejectRefines DEF i, v
  <2> QED BY <1>6, <2>5, <2>6
<1>7. CASE DropIndex(c) \/ DropIndexFails(c)
  <2>1. /\ v = Nothing
        /\ durable' = durable
        /\ index' = index \/ index' = index \ {i}
        /\ Moves(c, "deleting") \/ Moves(c, "rejected")
    BY <1>1, <1>7 DEF DropIndex, DropIndexFails, SInv, Placed, i, v
  <2>2. Kept'[i] \in {Kept[i], v}
    BY <1>4, <2>1
  <2>3. \A j \in Ids \ {i} : durable'[j] = durable[j] /\ (j \in index' <=> j \in index)
    BY <2>1
  <2>4. Store!TakesEffect(i, v)
    BY <1>2, <1>3, <2>2, <2>3, Effect
  <2> QED BY <1>1, <1>3, <2>1, <2>4, ProgressRefines, RejectRefines DEF i, v, Pcs, Ended
<1>8. CASE DropBlob(c)
  <2>1. /\ v = Nothing
        /\ durable' = durable \/ durable' = [durable EXCEPT ![i] = Nothing]
        /\ UNCHANGED index /\ Moves(c, "done")
        /\ i \in index => durable[i] \in over[c]
    BY <1>1, <1>8 DEF DropBlob, SInv, Placed, Served, i, v
  <2>2. Kept'[i] \in {Kept[i], v} /\ Kept'[i] \in over[c]
    BY <1>2, <1>4, <2>1
  <2>3. \A j \in Ids \ {i} : durable'[j] = durable[j] /\ (j \in index' <=> j \in index)
    BY <1>2, <2>1
  <2>4. Store!TakesEffect(i, v)
    BY <1>2, <1>3, <2>2, <2>3, Effect
  <2> QED BY <1>1, <1>3, <1>4, <2>1, <2>2, <2>4, DoneRefines DEF i, v
<1> QED
  BY <1>5, <1>5a, <1>6, <1>7, <1>8 DEF Firestore

\* The D1 repository.
LEMMA D1Refines ==
  ASSUME SInv, NEW c \in Calls, D1(c)
  PROVE  Store!Progress(c) \/ Store!Done(c) \/ Store!Reject(c)
<1> DEFINE i == call[c].id
           v == call[c].value
<1>1. /\ call[c].pc \in {"sending", "answering"} /\ InProgress(c)
      /\ UNCHANGED <<backend, cache, index, over>>
  BY DEF D1, Upsert, Respond, NoRoute, BindingFails, InProgress, Ended, Quiet, stores
<1>2. i \in Ids /\ v \in over[c] /\ durable \in [Ids -> Calls \cup {Nothing}]
  BY <1>1, Company
<1>3. backend = "d1"
  BY <1>1 DEF SInv, Placed
<1>4. Kept[i] = durable[i] /\ Kept'[i] = durable'[i] /\ Shown' = Kept'
  BY <1>1, <1>2, <1>3 DEF Kept, Shown
<1> HIDE DEF i, v
<1>5. durable' = durable \/ durable' = [durable EXCEPT ![i] = v]
  BY DEF D1, Upsert, Respond, NoRoute, BindingFails, stores, i, v
<1>6. Store!TakesEffect(i, v)
  <2>1. Kept'[i] \in {Kept[i], v}
    BY <1>2, <1>4, <1>5
  <2>2. \A j \in Ids \ {i} : durable'[j] = durable[j] /\ (j \in index' <=> j \in index)
    BY <1>1, <1>2, <1>5
  <2> QED BY <1>1, <1>2, <2>1, <2>2, Effect
<1>7. CASE Respond(c)
  <2>1. durable[i] \in over[c] /\ durable' = durable /\ Moves(c, "done")
    BY <1>1, <1>7 DEF Respond, SInv, Served, stores, i
  <2> QED BY <1>1, <1>4, <1>6, <2>1, DoneRefines DEF i, v
<1>8. CASE Upsert(c)
  <2>1. Moves(c, "answering")
    BY <1>8 DEF Upsert
  <2> QED BY <1>1, <1>6, <2>1, ProgressRefines DEF i, v, Pcs, Ended
<1>9. CASE NoRoute(c) \/ BindingFails(c)
  <2>1. Moves(c, "rejected")
    BY <1>9 DEF NoRoute, BindingFails
  <2> QED BY <1>1, <1>6, <2>1, RejectRefines DEF i, v
<1> QED
  BY <1>7, <1>8, <1>9 DEF D1

\* Each of the three repositories keeps what the interface promises: reads are
\* of whole documents some call wrote, and a call that answered is what is read
\* and what survives, unless a call it overlapped took its place.
THEOREM RepositoriesAreStores == Spec => ImplementsStore
<1>1. Init => Store!Init
  <2> SUFFICES ASSUME Init PROVE Store!Init
    OBVIOUS
  <2>1. Kept = [i \in Ids |-> Nothing] /\ Shown = [i \in Ids |-> Nothing]
    BY DEF Init, Kept, Shown
  <2>2. Seen = [c \in Calls |-> [state |-> "idle", id |-> Nothing, value |-> Nothing]]
    BY DEF Init, Seen, NotYet, StateOf
  <2> QED BY <2>1, <2>2 DEF Init, Store!Init
<1>2. SInv /\ [Next]_vars => [Store!Next]_(Store!vars)
  <2> SUFFICES ASSUME SInv, [Next]_vars PROVE [Store!Next]_(Store!vars)
    OBVIOUS
  <2>1. CASE UNCHANGED vars
    BY <2>1 DEF vars, stores, Store!vars, Shown, Kept, Seen
  <2>2. CASE Crash
    BY <2>2, CrashRefines DEF Store!Next
  <2>3. ASSUME NEW c \in Calls, NEW i \in Ids, NEW v \in {c, Nothing}, Begin(c, i, v)
        PROVE  Store!Next
    BY <2>3, BeginRefines DEF Store!Next
  <2>4. ASSUME NEW c \in Calls, Filesystem(c) \/ Firestore(c) \/ D1(c)
        PROVE  Store!Next
    BY <2>4, FilesystemRefines, FirestoreRefines, D1Refines DEF Store!Next
  <2> QED BY <2>1, <2>2, <2>3, <2>4 DEF Next
<1> QED
  BY <1>1, <1>2, StoreInvariance, PTL DEF Spec, ImplementsStore, Store!Spec

=============================================================================
