---------------------------- MODULE Repositories ----------------------------
(***************************************************************************)
(* The three ProjectRepositories a server can be configured with           *)
(* (apps/api/src/server.ts), as their save and remove work on what is      *)
(* durable: JSON files behind a cache, gzip objects with a Firestore index,*)
(* or rows of D1 behind the edge worker's binding.                         *)
(*                                                                         *)
(* A save is named by its call, and so is the document it saves.  One      *)
(* action is the code between two awaits of a call that touch the disk or  *)
(* a service; saving and removing are queued behind earlier calls where    *)
(* the code chains promises.                                               *)
(***************************************************************************)
EXTENDS Naturals, FiniteSets

CONSTANTS
  Ids,          \* productions
  Calls,        \* calls of save and remove
  Nothing,      \* no document
  MaxFaults,    \* bound on disk and service calls that fail
  MaxCrashes    \* bound on crashes of the process

ASSUME RepositoriesAssumption ==
  /\ Nothing \notin Calls
  /\ Ids # {}
  /\ MaxFaults \in Nat /\ MaxCrashes \in Nat

VARIABLES
  backend,   \* which of the three the server was started with
  cache,     \* #cache of the filesystem repository
  durable,   \* the file, the object or the row of each production
  index,     \* productions that have a Firestore document
  call,      \* the calls: program counter, production, document, predecessor
  tail,      \* #writes: the last call of each chain
  issued,    \* history: the calls in the order they were made
  over,      \* history: the documents of the calls a call overlapped
  bounds     \* faults and crashes so far

stores == <<cache, durable, index>>
vars   == <<backend, stores, call, tail, issued, over, bounds>>

Backends == {"filesystem", "firestore", "d1"}

---------------------------------------------------------------------------
Chain == "chain"   \* the one chain of the filesystem repository

\* The chain a call waits in: one for all productions, one for each, or none.
ChainOf(i) == IF backend = "filesystem" THEN Chain ELSE i

NotYet == [pc |-> "new", id |-> Nothing, value |-> Nothing, after |-> Nothing]

Ended == {"done", "rejected", "lost"}
InProgress(c) == call[c].pc \notin Ended \cup {"new"}

Rivals(i) == {d \in Calls : InProgress(d) /\ call[d].id = i}

\* Mutant: whoever ends forgets the chain.
ReleaseAnyway(c) ==
  tail' = IF backend = "firestore"
          THEN [tail EXCEPT ![call[c].id] = Nothing] ELSE tail

\* A call ends; the entry of its chain goes only if nobody queued behind it.
\* (The chain of files is never reset.)
Release(c) ==
  tail' = IF backend = "firestore" /\ tail[call[c].id] = c
          THEN [tail EXCEPT ![call[c].id] = Nothing] ELSE tail

Moves(c, pc) == call' = [call EXCEPT ![c].pc = pc]

Answers(c, pc) == Moves(c, pc) /\ Release(c)

\* A disk or a service fails.
Fault ==
  /\ bounds.faults < MaxFaults
  /\ bounds' = [bounds EXCEPT !.faults = @ + 1]

\* Mutant: a write does not wait for the one before it.
ReadyAtOnce(c) == call[c].pc = "queued"

\* The call's predecessor in its chain has ended.
Ready(c) ==
  /\ call[c].pc = "queued"
  /\ call[c].after # Nothing => ~InProgress(call[c].after)

---------------------------------------------------------------------------
(***************************************************************************)
(* The calls.                                                              *)
(***************************************************************************)
\* Mutant: a step no call can go on from.
FirstStepUnknown(v) == "writing"

\* Removals wait in no chain of Firestore's.
FirstStep(v) ==
  CASE backend = "d1" -> "sending"
    [] backend = "firestore" /\ v = Nothing -> "dropping"
    [] OTHER -> "queued"

\* save (v = c) or remove (v = Nothing) up to its first await: the filesystem
\* repository answers reads from the new document from here on.
Begin(c, i, v) ==
  LET first == FirstStep(v)
      behind == first = "queued"
  IN  /\ call[c].pc = "new"
      /\ call' = [call EXCEPT ![c] =
                    [pc |-> first, id |-> i, value |-> v,
                     after |-> IF behind THEN tail[ChainOf(i)] ELSE Nothing]]
      /\ tail' = IF behind THEN [tail EXCEPT ![ChainOf(i)] = c] ELSE tail
      /\ cache' = IF backend = "filesystem" THEN [cache EXCEPT ![i] = v] ELSE cache
      /\ issued' = issued \cup {<<d, c>> : d \in {e \in Calls : call[e].pc # "new"}}
      /\ over' = [d \in Calls |->
                    IF d = c THEN {v} \cup {call[e].value : e \in Rivals(i)}
                    ELSE IF d \in Rivals(i) THEN over[d] \cup {v} ELSE over[d]]
      /\ UNCHANGED <<backend, durable, index, bounds>>

Quiet == UNCHANGED <<backend, issued, over>>

---------------------------------------------------------------------------
(***************************************************************************)
(* Files: write beside the target and rename, or rm.                       *)
(***************************************************************************)
\* Mutant: the staged file is never renamed.
WriteBeside(c) ==
  /\ backend = "filesystem"
  /\ Ready(c)
  /\ call[c].after # Nothing => call[call[c].after].pc # "rejected"
  /\ Answers(c, "done")
  /\ UNCHANGED <<stores, bounds>> /\ Quiet

WriteFile(c) ==
  /\ backend = "filesystem"
  /\ Ready(c)
  /\ call[c].after # Nothing => call[call[c].after].pc # "rejected"
  /\ durable' = [durable EXCEPT ![call[c].id] = call[c].value]
  /\ Answers(c, "done")
  /\ UNCHANGED <<cache, index, bounds>> /\ Quiet

WriteFails(c) ==
  /\ backend = "filesystem"
  /\ Ready(c)
  /\ Fault
  /\ Answers(c, "rejected")
  /\ UNCHANGED stores /\ Quiet

\* Mutant: Firestore's chain does not catch either.
PoisonedAnywhere(c) ==
  /\ Ready(c)
  /\ call[c].after # Nothing /\ call[call[c].after].pc = "rejected"
  /\ Answers(c, "rejected")
  /\ UNCHANGED <<stores, bounds>> /\ Quiet

\* Nothing catches on the chain: what is queued behind a rejection rejects.
Poisoned(c) ==
  /\ backend = "filesystem"
  /\ Ready(c)
  /\ call[c].after # Nothing /\ call[call[c].after].pc = "rejected"
  /\ Answers(c, "rejected")
  /\ UNCHANGED <<stores, bounds>> /\ Quiet

---------------------------------------------------------------------------
(***************************************************************************)
(* Firestore: the object, a look at its metadata, then the index document  *)
(* that makes it count; the other way round, and without queueing, to      *)
(* remove.                                                                 *)
(***************************************************************************)
Put(c) ==
  /\ backend = "firestore"
  /\ Ready(c)
  /\ durable' = [durable EXCEPT ![call[c].id] = call[c].value]
  /\ Moves(c, "verifying")
  /\ UNCHANGED <<cache, index, tail, bounds>> /\ Quiet

PutFails(c) ==
  /\ backend = "firestore"
  /\ Ready(c)
  /\ Fault
  /\ durable' \in {durable, [durable EXCEPT ![call[c].id] = call[c].value]}
  /\ Answers(c, "rejected")
  /\ UNCHANGED <<cache, index>> /\ Quiet

\* The metadata of the object; a removal may have deleted it meanwhile.
Verify(c) ==
  /\ call[c].pc = "verifying"
  /\ IF durable[call[c].id] = Nothing
     THEN Answers(c, "rejected")
     ELSE Moves(c, "indexing") /\ UNCHANGED tail
  /\ UNCHANGED <<stores, bounds>> /\ Quiet

\* The call fails, or the size is wrong and the store deletes the object.
VerifyFails(c) ==
  /\ call[c].pc = "verifying"
  /\ Fault
  /\ durable' \in {durable, [durable EXCEPT ![call[c].id] = Nothing]}
  /\ Answers(c, "rejected")
  /\ UNCHANGED <<cache, index>> /\ Quiet

SetIndex(c) ==
  /\ call[c].pc = "indexing"
  /\ index' = index \cup {call[c].id}
  /\ Answers(c, "done")
  /\ UNCHANGED <<cache, durable, bounds>> /\ Quiet

SetIndexFails(c) ==
  /\ call[c].pc = "indexing"
  /\ Fault
  /\ index' \in {index, index \cup {call[c].id}}
  /\ Answers(c, "rejected")
  /\ UNCHANGED <<cache, durable>> /\ Quiet

DropIndex(c) ==
  /\ call[c].pc = "dropping"
  /\ index' = index \ {call[c].id}
  /\ Moves(c, "deleting")
  /\ UNCHANGED <<cache, durable, tail, bounds>> /\ Quiet

DropIndexFails(c) ==
  /\ call[c].pc = "dropping"
  /\ Fault
  /\ index' \in {index, index \ {call[c].id}}
  /\ Moves(c, "rejected")
  /\ UNCHANGED <<cache, durable, tail>> /\ Quiet

\* A delete that fails is swallowed.
DropBlob(c) ==
  /\ call[c].pc = "deleting"
  /\ durable' \in {durable, [durable EXCEPT ![call[c].id] = Nothing]}
  /\ Moves(c, "done")
  /\ UNCHANGED <<cache, index, tail, bounds>> /\ Quiet

---------------------------------------------------------------------------
(***************************************************************************)
(* D1: one request to the edge worker, one upsert, no queue.               *)
(***************************************************************************)
Upsert(c) ==
  /\ call[c].pc = "sending"
  /\ call[c].value # Nothing
  /\ durable' = [durable EXCEPT ![call[c].id] = call[c].value]
  /\ Moves(c, "answering")
  /\ UNCHANGED <<cache, index, tail, bounds>> /\ Quiet

Respond(c) ==
  /\ call[c].pc = "answering"
  /\ Moves(c, "done")
  /\ UNCHANGED <<stores, tail, bounds>> /\ Quiet

\* The worker has no route that deletes a production.
NoRoute(c) ==
  /\ call[c].pc = "sending"
  /\ call[c].value = Nothing
  /\ Moves(c, "rejected")
  /\ UNCHANGED <<stores, tail, bounds>> /\ Quiet

\* The request, or the response to it, is lost.
BindingFails(c) ==
  /\ call[c].pc \in {"sending", "answering"}
  /\ Fault
  /\ Moves(c, "rejected")
  /\ UNCHANGED <<stores, tail>> /\ Quiet

---------------------------------------------------------------------------
\* #load reads every file into a new cache.
Crash ==
  /\ bounds.crashes < MaxCrashes
  /\ bounds' = [bounds EXCEPT !.crashes = @ + 1]
  /\ cache' = IF backend = "filesystem" THEN durable ELSE cache
  /\ call' = [c \in Calls |-> IF InProgress(c) THEN [call[c] EXCEPT !.pc = "lost"]
                              ELSE call[c]]
  /\ tail' = [k \in Ids \cup {Chain} |-> Nothing]
  /\ UNCHANGED <<backend, durable, index, issued, over>>

Init ==
  /\ backend \in Backends
  /\ cache = [i \in Ids |-> Nothing]
  /\ durable = [i \in Ids |-> Nothing]
  /\ index = {}
  /\ call = [c \in Calls |-> NotYet]
  /\ tail = [k \in Ids \cup {Chain} |-> Nothing]
  /\ issued = {}
  /\ over = [c \in Calls |-> {}]
  /\ bounds = [faults |-> 0, crashes |-> 0]

Filesystem(c) == WriteFile(c) \/ WriteFails(c) \/ Poisoned(c)
Firestore(c)  == \/ Put(c) \/ PutFails(c) \/ Verify(c) \/ VerifyFails(c)
                 \/ SetIndex(c) \/ SetIndexFails(c)
                 \/ DropIndex(c) \/ DropIndexFails(c) \/ DropBlob(c)
D1(c)         == Upsert(c) \/ Respond(c) \/ NoRoute(c) \/ BindingFails(c)

Next ==
  \/ \E c \in Calls :
       \/ \E i \in Ids, v \in {c, Nothing} : Begin(c, i, v)
       \/ Filesystem(c) \/ Firestore(c) \/ D1(c)
  \/ Crash

Spec == Init /\ [][Next]_vars

---------------------------------------------------------------------------
\* #load of a Firestore document whose object is gone finds nothing.
Kept == [i \in Ids |-> IF backend = "firestore" /\ i \notin index
                       THEN Nothing ELSE durable[i]]

Shown == IF backend = "filesystem" THEN cache ELSE Kept

---------------------------------------------------------------------------
(***************************************************************************)
(* Properties                                                              *)
(***************************************************************************)
\* The shape of the state.
TypeOK ==
  /\ backend \in Backends
  /\ cache \in [Ids -> Calls \cup {Nothing}]
  /\ durable \in [Ids -> Calls \cup {Nothing}]
  /\ index \subseteq Ids
  /\ call \in [Calls -> [pc : {"new", "queued", "verifying", "indexing",
                              "dropping", "deleting", "sending", "answering"} \cup Ended,
                        id : Ids \cup {Nothing},
                        value : Calls \cup {Nothing},
                        after : Calls \cup {Nothing}]]
  /\ tail \in [Ids \cup {Chain} -> Calls \cup {Nothing}]
  /\ issued \subseteq Calls \X Calls
  /\ over \in [Calls -> SUBSET (Calls \cup {Nothing})]
  /\ bounds \in [faults : 0 .. MaxFaults, crashes : 0 .. MaxCrashes]

\* c's write has started and not ended.
Writing(c) == Ready(c) \/ call[c].pc \in {"verifying", "indexing"}

\* "One write at a time per record": the entry a save leaves in #writes is only
\* removed by the save that is still the last of its chain.
OneWriteAtATime ==
  backend = "firestore" =>
    \A c, d \in Calls :
      Writing(c) /\ Writing(d) /\ call[c].id = call[d].id => c = d

\* A failed write costs the save that failed, and no save queued behind it:
\* besides one save for each failure, only saves that overlapped a removal
\* reject, whose object it deleted before they had verified it.  The one chain
\* of the filesystem repository has no such luck, but rejects nothing until
\* something has failed.
FailuresStayAlone ==
  LET rejected == {c \in Calls : call[c].pc = "rejected" /\ call[c].value = c}
      removed  == {c \in Calls : backend = "firestore" /\ Nothing \in over[c]}
  IN  IF backend = "filesystem" THEN rejected # {} => bounds.faults > 0
      ELSE Cardinality(rejected \ removed) <= bounds.faults

\* What is left when calls race: with files and with Firestore, the document of
\* the last call that was made, once that call has answered, and whatever
\* became of the calls before it ("Serialising also gives last-write-wins").
\* A Firestore removal waits for nobody, so calls it overlaps are excepted;
\* D1's requests are not ordered at all.
LastCallWins ==
  backend # "d1" =>
    \A c \in Calls :
      /\ call[c].pc = "done"
      /\ \A d \in Calls : <<c, d>> \in issued => call[d].id # call[c].id
      /\ backend = "firestore" /\ Nothing \in over[c] => over[c] = {Nothing}
      => Kept[call[c].id] = call[c].value /\ Shown[call[c].id] = call[c].value

---------------------------------------------------------------------------
(***************************************************************************)
(* Refinement                                                              *)
(***************************************************************************)
StateOf(pc) == IF pc = "new" THEN "idle" ELSE IF pc \in Ended THEN pc ELSE "waiting"

Seen == [c \in Calls |-> [state |-> StateOf(call[c].pc), id |-> call[c].id,
                          value |-> call[c].value]]

Store == INSTANCE DocumentStore WITH shown <- Shown, kept <- Kept,
                                     call <- Seen, over <- over

\* Each of the three is a DocumentStore: reads return whole documents that some
\* call wrote, a save that answered is read and survives a crash unless a call
\* it overlapped replaced it, and nothing a finished call wrote ever comes back
\* over a later answer.
ImplementsStore == Store!Spec

=============================================================================
