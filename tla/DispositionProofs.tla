-------------------------- MODULE DispositionProofs --------------------------
(***************************************************************************)
(* What the operators of Disposition preserve, for every case and every    *)
(* request: a case whose trail is in order is in order after each of them. *)
(***************************************************************************)
EXTENDS Review, TLAPS

\* A case that keeps everything its audit trail owes.
Sound(case) ==
  /\ case \in Case
  /\ Explained(case)
  /\ ProperlyDecided(case)
  /\ MachinesYield(case)
  /\ PermissionsEvidenced(case)

\* new is old with event e appended to its trail: what e must say of the step
\* for the trail to stay in order.
Extends(old, new, e) ==
  /\ new \in Case
  /\ e \in Event
  /\ new.trail = Append(old.trail, e)
  /\ new.resolved <=> new.status \in Resolved
  /\ e.to = None => new.status = old.status
  /\ e.to # None => /\ e.from = old.status
                    /\ new.status = e.to
                    /\ CanActorSet(e.actor, e.to)
  /\ e.actor \in Machines /\ e.action = "status_change"
       => ~HasHumanDecision(old)
  /\ e.to = "documented_permission"
       => e.docs # {} /\ e.docs \subseteq old.docs
  /\ \A d \in new.docs :
       d \in old.docs \/ (e.action = "document_attached" /\ d \in e.docs)

-----------------------------------------------------------------------------
\* The events of a trail with one event appended.
LEMMA AppendEvent ==
  ASSUME NEW t \in Seq(Event), NEW e \in Event
  PROVE  /\ Append(t, e) \in Seq(Event)
         /\ Len(t) \in Nat
         /\ Len(Append(t, e)) = Len(t) + 1
         /\ Append(t, e)[Len(t) + 1] = e
         /\ \A i \in 1 .. Len(t) : Append(t, e)[i] = t[i]
  OBVIOUS

\* The status after a prefix of a trail does not depend on later events.
LEMMA StatusOfPrefix ==
  ASSUME NEW t \in Seq(Event), NEW e \in Event, NEW s,
         NEW n \in 0 .. Len(t), StatusAfter(t, n, s)
  PROVE  StatusAfter(Append(t, e), n, s)
<1>1. \A i \in 1 .. n : Append(t, e)[i] = t[i]
  BY AppendEvent
<1>2. QED
  BY <1>1 DEF StatusAfter

\* An event that moves the status decides the status after it.
LEMMA StatusMoves ==
  ASSUME NEW t \in Seq(Event), NEW e \in Event, e.to # None
  PROVE  StatusAfter(Append(t, e), Len(Append(t, e)), e.to)
<1> DEFINE u == Append(t, e)
           n == Len(t) + 1
<1>1. /\ Len(u) = n
      /\ n \in 1 .. n
      /\ u[n] = e
  BY AppendEvent
<1>2. \A i \in 1 .. n : i # n => n > i
  BY AppendEvent
<1> HIDE DEF u, n
<1>3. StatusAfter(u, n, e.to)
  BY <1>1, <1>2 DEF StatusAfter
<1>4. QED
  BY <1>1, <1>3 DEF u

\* An event that moves no status leaves it as it was.
LEMMA StatusStays ==
  ASSUME NEW t \in Seq(Event), NEW e \in Event, NEW s,
         e.to = None, StatusAfter(t, Len(t), s)
  PROVE  StatusAfter(Append(t, e), Len(Append(t, e)), s)
<1> DEFINE u == Append(t, e)
           m == Len(t)
<1>1. /\ m \in Nat
      /\ Len(u) = m + 1
      /\ u[m + 1] = e
      /\ \A i \in 1 .. m : u[i] = t[i]
  BY AppendEvent
<1>2. StatusAfter(t, m, s)
  OBVIOUS
<1> HIDE DEF u, m
<1>3. (\A i \in 1 .. m + 1 : u[i].to = None) => s = "detected"
  BY <1>1, <1>2 DEF StatusAfter
<1>4. ASSUME NEW i \in 1 .. m + 1, u[i].to # None,
             \A j \in 1 .. m + 1 : j > i => u[j].to = None
      PROVE  s = u[i].to
  <2>1. i \in 1 .. m
    BY <1>1, <1>4
  <2>2. t[i].to # None /\ \A j \in 1 .. m : j > i => t[j].to = None
    BY <1>1, <1>4, <2>1
  <2>3. QED
    BY <1>1, <1>2, <2>1, <2>2 DEF StatusAfter
<1>5. StatusAfter(u, m + 1, s)
  BY <1>3, <1>4 DEF StatusAfter
<1>6. QED
  BY <1>1, <1>5 DEF u

-----------------------------------------------------------------------------
\* Appending an event that fits leaves the trail explaining the status.
LEMMA ExtendsExplained ==
  ASSUME NEW old, NEW new, NEW e, Sound(old), Extends(old, new, e)
  PROVE  Explained(new)
<1> DEFINE t == old.trail
           u == Append(t, e)
<1>1. /\ t \in Seq(Event) /\ e \in Event
      /\ StatusAfter(t, Len(t), old.status)
      /\ \A k \in 1 .. Len(t) :
           t[k].to # None => StatusAfter(t, k - 1, t[k].from)
  BY DEF Sound, Explained, Extends, Case
<1>2. new.trail = u /\ (new.resolved <=> new.status \in Resolved)
  BY DEF Extends
<1>3. /\ Len(t) \in Nat /\ Len(u) = Len(t) + 1 /\ u[Len(t) + 1] = e
      /\ \A i \in 1 .. Len(t) : u[i] = t[i]
  BY <1>1, AppendEvent
<1> HIDE DEF t, u
<1>4. StatusAfter(u, Len(u), new.status)
  <2>1. CASE e.to = None
    <3>1. new.status = old.status
      BY <2>1 DEF Extends
    <3>2. QED
      BY <1>1, <2>1, <3>1, StatusStays DEF u
  <2>2. CASE e.to # None
    <3>1. new.status = e.to
      BY <2>2 DEF Extends
    <3>2. QED
      BY <1>1, <2>2, <3>1, StatusMoves DEF u
  <2>3. QED
    BY <2>1, <2>2
<1>5. ASSUME NEW k \in 1 .. Len(u), u[k].to # None
      PROVE  StatusAfter(u, k - 1, u[k].from)
  <2>1. k - 1 \in 0 .. Len(t)
    BY <1>3
  <2>2. StatusAfter(t, k - 1, u[k].from)
    <3>1. CASE k = Len(t) + 1
      <4>1. u[k].from = old.status /\ k - 1 = Len(t)
        BY <1>3, <1>5, <3>1 DEF Extends
      <4>2. QED
        BY <1>1, <4>1
    <3>2. CASE k # Len(t) + 1
      <4>1. k \in 1 .. Len(t) /\ u[k] = t[k]
        BY <1>3, <3>2
      <4>2. QED
        BY <1>1, <1>5, <4>1
    <3>3. QED
      BY <3>1, <3>2
  <2>3. QED
    BY <1>1, <2>1, <2>2, StatusOfPrefix DEF u
<1>6. QED
  BY <1>2, <1>4, <1>5 DEF Explained

\* ... and every status in it set by an actor that may set it.
LEMMA ExtendsDecided ==
  ASSUME NEW old, NEW new, NEW e, Sound(old), Extends(old, new, e)
  PROVE  ProperlyDecided(new)
<1> DEFINE t == old.trail
           u == Append(t, e)
<1>1. /\ t \in Seq(Event) /\ e \in Event
      /\ \A i \in 1 .. Len(t) :
           t[i].to # None => CanActorSet(t[i].actor, t[i].to)
  BY DEF Sound, ProperlyDecided, Extends, Case
<1>2. new.trail = u
  BY DEF Extends
<1>3. /\ Len(t) \in Nat /\ Len(u) = Len(t) + 1 /\ u[Len(t) + 1] = e
      /\ \A i \in 1 .. Len(t) : u[i] = t[i]
  BY <1>1, AppendEvent
<1>4. e.to # None => CanActorSet(e.actor, e.to)
  BY DEF Extends
<1> HIDE DEF t, u
<1>5. ASSUME NEW i \in 1 .. Len(u), u[i].to # None
      PROVE  CanActorSet(u[i].actor, u[i].to)
  <2>1. CASE i = Len(t) + 1
    BY <1>3, <1>4, <1>5, <2>1
  <2>2. CASE i # Len(t) + 1
    <3>1. i \in 1 .. Len(t) /\ u[i] = t[i]
      BY <1>3, <2>2
    <3>2. QED
      BY <1>1, <1>5, <3>1
  <2>3. QED
    BY <2>1, <2>2
<1>6. QED
  BY <1>2, <1>5 DEF ProperlyDecided

\* ... and no machine disposition behind a human act.
LEMMA ExtendsYields ==
  ASSUME NEW old, NEW new, NEW e, Sound(old), Extends(old, new, e)
  PROVE  MachinesYield(new)
<1> DEFINE t == old.trail
           u == Append(t, e)
<1>1. /\ t \in Seq(Event) /\ e \in Event
      /\ \A i, j \in 1 .. Len(t) :
           /\ i < j
           /\ t[i].actor \in Humans
           /\ t[j].actor \in Machines
           => t[j].action # "status_change"
  BY DEF Sound, MachinesYield, Extends, Case
<1>2. new.trail = u
  BY DEF Extends
<1>3. /\ Len(t) \in Nat /\ Len(u) = Len(t) + 1 /\ u[Len(t) + 1] = e
      /\ \A i \in 1 .. Len(t) : u[i] = t[i]
  BY <1>1, AppendEvent
<1>4. e.actor \in Machines /\ e.action = "status_change"
        => \A i \in 1 .. Len(t) : t[i].actor \notin Humans
  BY DEF Extends, HasHumanDecision
<1> HIDE DEF t, u
<1>5. ASSUME NEW i \in 1 .. Len(u), NEW j \in 1 .. Len(u), i < j,
             u[i].actor \in Humans, u[j].actor \in Machines
      PROVE  u[j].action # "status_change"
  <2>1. i \in 1 .. Len(t) /\ u[i] = t[i]
    BY <1>3, <1>5
  <2>2. CASE j = Len(t) + 1
    BY <1>3, <1>4, <1>5, <2>1, <2>2
  <2>3. CASE j # Len(t) + 1
    <3>1. j \in 1 .. Len(t) /\ u[j] = t[j]
      BY <1>3, <2>3
    <3>2. QED
      BY <1>1, <1>5, <2>1, <3>1
  <2>4. QED
    BY <2>2, <2>3
<1>6. QED
  BY <1>2, <1>5 DEF MachinesYield

\* ... and every permission preceded by its documents.
LEMMA ExtendsEvidenced ==
  ASSUME NEW old, NEW new, NEW e, Sound(old), Extends(old, new, e)
  PROVE  PermissionsEvidenced(new)
<1> DEFINE t == old.trail
           u == Append(t, e)
<1>1. /\ t \in Seq(Event) /\ e \in Event
      /\ \A i \in 1 .. Len(t) :
           t[i].to = "documented_permission" =>
             /\ t[i].docs # {}
             /\ \A d \in t[i].docs : AttachedBy(t, i - 1, d)
      /\ \A d \in old.docs : AttachedBy(t, Len(t), d)
  BY DEF Sound, PermissionsEvidenced, Extends, Case
<1>2. new.trail = u
  BY DEF Extends
<1>3. /\ Len(t) \in Nat /\ Len(u) = Len(t) + 1 /\ u[Len(t) + 1] = e
      /\ \A i \in 1 .. Len(t) : u[i] = t[i]
  BY <1>1, AppendEvent
<1> HIDE DEF t, u
<1>4. ASSUME NEW n \in 0 .. Len(t), NEW d, AttachedBy(t, n, d)
      PROVE  AttachedBy(u, n, d)
  BY <1>3, <1>4 DEF AttachedBy
<1>5. ASSUME NEW i \in 1 .. Len(u), u[i].to = "documented_permission"
      PROVE  u[i].docs # {} /\ \A d \in u[i].docs : AttachedBy(u, i - 1, d)
  <2>1. CASE i = Len(t) + 1
    <3>1. u[i].docs # {} /\ u[i].docs \subseteq old.docs
      BY <1>3, <1>5, <2>1 DEF Extends
    <3>2. \A d \in u[i].docs : AttachedBy(u, Len(t), d)
      BY <1>1, <1>3, <1>4, <3>1
    <3>3. QED
      BY <1>3, <2>1, <3>1, <3>2
  <2>2. CASE i # Len(t) + 1
    <3>1. i \in 1 .. Len(t) /\ u[i] = t[i] /\ i - 1 \in 0 .. Len(t)
      BY <1>3, <2>2
    <3>2. QED
      BY <1>1, <1>4, <1>5, <3>1
  <2>3. QED
    BY <2>1, <2>2
<1>6. ASSUME NEW d \in new.docs
      PROVE  AttachedBy(u, Len(u), d)
  <2>1. CASE d \in old.docs
    BY <1>1, <1>3, <2>1 DEF AttachedBy
  <2>2. CASE e.action = "document_attached" /\ d \in e.docs
    <3>1. Len(u) \in 1 .. Len(u) /\ u[Len(u)] = e
      BY <1>3
    <3>2. QED
      BY <2>2, <3>1 DEF AttachedBy
  <2>3. QED
    BY <1>6, <2>1, <2>2 DEF Extends
<1>7. QED
  BY <1>2, <1>5, <1>6 DEF PermissionsEvidenced

\* A sound case stays sound under an event that fits it.
THEOREM ExtendsSound ==
  ASSUME NEW old, NEW new, NEW e, Sound(old), Extends(old, new, e)
  PROVE  Sound(new)
<1>1. new \in Case
  BY DEF Extends
<1>2. QED
  BY <1>1, ExtendsExplained, ExtendsDecided, ExtendsYields, ExtendsEvidenced
     DEF Sound

-----------------------------------------------------------------------------
\* Reconciliation creates sound cases.
LEMMA NewCaseSound == Sound(NewCase)
<1>1. NewCase \in Case /\ NewCase.trail = << >> /\ Len(NewCase.trail) = 0
  BY DEF NewCase, Case, Statuses
<1>2. /\ NewCase.status = "detected"
      /\ ~NewCase.resolved
      /\ NewCase.docs = {}
      /\ "detected" \notin Resolved
  BY DEF NewCase, Resolved
<1>3. 1 .. Len(NewCase.trail) = {}
  BY <1>1
<1>4. Explained(NewCase)
  <2>1. NewCase.resolved <=> NewCase.status \in Resolved
    BY <1>2, Zenon
  <2>2. StatusAfter(NewCase.trail, Len(NewCase.trail), NewCase.status)
    BY <1>2, <1>3 DEF StatusAfter
  <2>3. QED
    BY <1>3, <2>1, <2>2 DEF Explained
<1>5. ProperlyDecided(NewCase) /\ MachinesYield(NewCase)
  BY <1>3 DEF ProperlyDecided, MachinesYield
<1>6. PermissionsEvidenced(NewCase)
  BY <1>2, <1>3 DEF PermissionsEvidenced
<1>7. QED
  BY <1>1, <1>4, <1>5, <1>6 DEF Sound

\* The fields of a case whose status moved.
LEMMA MovedAs ==
  ASSUME NEW case \in Case, NEW status \in Statuses, NEW resolved \in BOOLEAN,
         NEW trail \in Seq(Event)
  PROVE  [case EXCEPT !.status = status, !.resolved = resolved,
                      !.trail = trail] \in Case
  BY DEF Case

Moved(case, status, trail) ==
  [case EXCEPT !.status = status, !.resolved = status \in Resolved,
               !.trail = trail]

\* ... and what each of them is.
LEMMA MovedFields ==
  ASSUME NEW case \in Case, NEW status \in Statuses,
         NEW trail \in Seq(Event)
  PROVE  /\ Moved(case, status, trail) \in Case
         /\ Moved(case, status, trail).trail = trail
         /\ Moved(case, status, trail).status = status
         /\ Moved(case, status, trail).resolved <=> status \in Resolved
         /\ Moved(case, status, trail).docs = case.docs
<1> DEFINE new == Moved(case, status, trail)
<1>1. new.trail = trail /\ new.status = status /\ new.docs = case.docs
  BY DEF Case, Moved
<1>2. new.resolved <=> status \in Resolved
  BY DEF Case, Moved
<1>3. (status \in Resolved) \in BOOLEAN
  OBVIOUS
<1>4. new \in Case
  BY <1>3, MovedAs, Zenon DEF Moved
<1>5. QED
  BY <1>1, <1>2, <1>4

\* applyDisposition keeps a case sound whenever it does not throw, whoever
\* acts and whatever status is asked for (status.ts).
THEOREM DispositionSound ==
  ASSUME NEW case, Sound(case), NEW change \in Change, ~Refused(case, change)
  PROVE  Sound(ApplyDisposition(case, change))
<1>1. CASE Muted(case, change)
  BY <1>1 DEF ApplyDisposition
<1>2. CASE ~Muted(case, change)
  <2> DEFINE e == [by |-> change.by, actor |-> change.actor,
                   action |-> "status_change",
                   from |-> case.status, to |-> change.status,
                   docs |-> change.docs]
             new == Record(case, change)
  <2>1. case \in Case /\ case.trail \in Seq(Event)
    BY DEF Sound, Case
  <2>2. e \in Event
    BY <2>1 DEF Event, Case, Change, Actions
  <2>3. /\ new.trail = Append(case.trail, e)
        /\ new.status = change.status
        /\ new.resolved <=> change.status \in Resolved
        /\ new.docs = case.docs
        /\ new \in Case
    <3>1. Append(case.trail, e) \in Seq(Event)
      BY <2>1, <2>2, AppendEvent
    <3>2. change.status \in Statuses
      BY DEF Change
    <3>3. new = Moved(case, change.status, Append(case.trail, e))
      BY DEF Record, Moved
    <3> HIDE DEF e, new
    <3>4. QED
      BY <2>1, <3>1, <3>2, <3>3, MovedFields
  <2>4. change.status # None
    BY DEF Change, Statuses, HumanOwned, None
  <2>5. /\ CanActorSet(change.actor, change.status)
        /\ change.status = "documented_permission"
             => change.docs # {} /\ change.docs \subseteq case.docs
        /\ change.actor \in Machines => ~HasHumanDecision(case)
    BY <1>2 DEF Refused, Muted
  <2>6. Extends(case, new, e)
    BY <2>2, <2>3, <2>4, <2>5 DEF Extends
  <2>7. Sound(new)
    BY <2>6, ExtendsSound
  <2>8. QED
    BY <1>2, <2>7 DEF ApplyDisposition
<1>3. QED
  BY <1>1, <1>2

\* A case that gained an event of a human who moved no status is sound, and
\* may have new documents if the event attached them.
LEMMA NoteSound ==
  ASSUME NEW case, Sound(case), NEW new \in Case, NEW by \in Requests,
         NEW action \in Actions, NEW docs \in SUBSET Requests,
         action # "status_change",
         new.trail = Append(case.trail, Note(by, action, docs)),
         new.status = case.status,
         new.resolved = case.resolved,
         \A d \in new.docs : \/ d \in case.docs
                             \/ action = "document_attached" /\ d \in docs
  PROVE  Sound(new)
<1> DEFINE e == Note(by, action, docs)
<1>1. e \in Event /\ e.to = None /\ e.action = action /\ e.docs = docs
  BY DEF Note, Event, Actors, Humans
<1>2. e.actor \notin Machines
  BY DEF Note, Machines
<1>3. new.resolved <=> new.status \in Resolved
  BY DEF Sound, Explained
<1>4. None # "documented_permission"
  BY DEF None
<1>5. new.trail = Append(case.trail, e)
  OBVIOUS
<1> HIDE DEF e
<1>6. Extends(case, new, e)
  BY <1>1, <1>2, <1>3, <1>4, <1>5 DEF Extends
<1>7. QED
  BY <1>6, ExtendsSound

\* The audited acts that bypass applyDisposition.
LEMMA AnnotateFields ==
  ASSUME NEW case \in Case, NEW by \in Requests, NEW action \in Actions,
         NEW docs \in SUBSET Requests
  PROVE  LET new == Annotate(case, by, action, docs)
         IN  /\ new \in Case
             /\ new.trail = Append(case.trail, Note(by, action, docs))
             /\ new.status = case.status
             /\ new.resolved = case.resolved
             /\ new.docs = case.docs
<1>1. Note(by, action, docs) \in Event
  BY DEF Note, Event, Actors, Humans
<1>2. case.trail \in Seq(Event)
  BY DEF Case
<1>3. Append(case.trail, Note(by, action, docs)) \in Seq(Event)
  BY <1>1, <1>2, AppendEvent
<1>4. QED
  BY <1>3 DEF Annotate, Case

\* A new set of documents changes nothing else of a case.
LEMMA DocsFields ==
  ASSUME NEW case \in Case, NEW docs \in SUBSET Requests
  PROVE  LET new == [case EXCEPT !.docs = docs]
         IN  /\ new \in Case
             /\ new.trail = case.trail
             /\ new.status = case.status
             /\ new.resolved = case.resolved
             /\ new.docs = docs
  BY DEF Case

\* An audited act that moves no status keeps a case sound.
LEMMA AnnotateSound ==
  ASSUME NEW case, Sound(case), NEW by \in Requests,
         NEW action \in Actions, action # "status_change",
         NEW docs \in SUBSET Requests
  PROVE  Sound(Annotate(case, by, action, docs))
<1>1. case \in Case
  BY DEF Sound
<1>2. QED
  BY <1>1, AnnotateFields, NoteSound

\* So does attaching a document, with the event that names it.
LEMMA AttachSound ==
  ASSUME NEW case, Sound(case), NEW by \in Requests
  PROVE  Sound(AttachDocument(case, by))
<1> DEFINE noted == Annotate(case, by, "document_attached", {by})
           new   == [noted EXCEPT !.docs = noted.docs \cup {by}]
<1>1. case \in Case /\ case.docs \cup {by} \in SUBSET Requests
  BY DEF Sound, Case
<1>2. "document_attached" \in Actions /\ {by} \in SUBSET Requests
  BY DEF Actions
<1>3. /\ noted \in Case
      /\ noted.trail = Append(case.trail, Note(by, "document_attached", {by}))
      /\ noted.status = case.status
      /\ noted.resolved = case.resolved
      /\ noted.docs = case.docs
  BY <1>1, <1>2, AnnotateFields
<1>4. AttachDocument(case, by) = new
  BY DEF AttachDocument
<1> HIDE DEF noted
<1>5. /\ new \in Case
      /\ new.trail = Append(case.trail, Note(by, "document_attached", {by}))
      /\ new.status = case.status
      /\ new.resolved = case.resolved
      /\ new.docs = case.docs \cup {by}
  BY <1>1, <1>3, DocsFields
<1> HIDE DEF new
<1>6. Sound(new)
  BY <1>2, <1>5, NoteSound
<1>7. QED
  BY <1>4, <1>6

\* So does removing a document the case has.
LEMMA RemoveSound ==
  ASSUME NEW case, Sound(case), NEW by \in Requests, NEW doc \in case.docs
  PROVE  Sound(RemoveDocument(case, by, doc))
<1> DEFINE noted == Annotate(case, by, "document_removed", {doc})
           new   == [noted EXCEPT !.docs = noted.docs \ {doc}]
<1>1. /\ case \in Case
      /\ case.docs \ {doc} \in SUBSET Requests
      /\ {doc} \in SUBSET Requests
  BY DEF Sound, Case
<1>2. "document_removed" \in Actions
  BY DEF Actions
<1>3. /\ noted \in Case
      /\ noted.trail = Append(case.trail, Note(by, "document_removed", {doc}))
      /\ noted.status = case.status
      /\ noted.resolved = case.resolved
      /\ noted.docs = case.docs
  BY <1>1, <1>2, AnnotateFields
<1>4. RemoveDocument(case, by, doc) = new
  BY DEF RemoveDocument
<1> HIDE DEF noted
<1>5. /\ new \in Case
      /\ new.trail = Append(case.trail, Note(by, "document_removed", {doc}))
      /\ new.status = case.status
      /\ new.resolved = case.resolved
      /\ new.docs = case.docs \ {doc}
  BY <1>1, <1>3, DocsFields
<1> HIDE DEF new
<1>6. Sound(new)
  BY <1>1, <1>2, <1>5, NoteSound
<1>7. QED
  BY <1>4, <1>6

\* The webhook's hand-written reopening keeps a case sound, over any earlier
\* decision (routes/monitors.ts).
LEMMA ReopenSound ==
  ASSUME NEW case, Sound(case), NEW by \in Requests
  PROVE  Sound(MonitorReopens(case, by))
<1>1. CASE case.status = "reopened_by_monitor"
  BY <1>1 DEF MonitorReopens
<1>2. CASE case.status # "reopened_by_monitor"
  <2> DEFINE e == [by |-> by, actor |-> "agent",
                   action |-> "monitor_reopened", from |-> case.status,
                   to |-> "reopened_by_monitor", docs |-> {}]
             new == [case EXCEPT !.status   = "reopened_by_monitor",
                                 !.resolved = FALSE,
                                 !.trail    = Append(@, e)]
  <2>1. case \in Case /\ case.trail \in Seq(Event)
    BY DEF Sound, Case
  <2>2. e \in Event
    BY <2>1 DEF Event, Case, Actors, Machines, Actions, Statuses
  <2>3. /\ new.trail = Append(case.trail, e)
        /\ new.status = "reopened_by_monitor"
        /\ ~new.resolved
        /\ new.docs = case.docs
        /\ new \in Case
    <3>1. Append(case.trail, e) \in Seq(Event)
      BY <2>1, <2>2, AppendEvent
    <3>2. "reopened_by_monitor" \in Statuses
      BY DEF Statuses
    <3>3. QED
      BY <2>1, <3>1, <3>2 DEF Case
  <2>4. "reopened_by_monitor" \notin Resolved \cup HumanOwned \cup {None}
    BY DEF Resolved, HumanOwned, None
  <2>5. CanActorSet("agent", "reopened_by_monitor")
    BY <2>4 DEF CanActorSet
  <2>6. Extends(case, new, e)
    <3>1. new.resolved <=> new.status \in Resolved
      BY <2>3, <2>4, Zenon
    <3>2. e.action # "status_change" /\ e.actor = "agent"
          /\ e.from = case.status /\ e.to = "reopened_by_monitor"
      OBVIOUS
    <3> HIDE DEF e, new
    <3>3. QED
      BY <2>2, <2>3, <2>4, <2>5, <3>1, <3>2, Zenon DEF Extends
  <2>7. QED
    BY <1>2, <2>6, ExtendsSound DEF MonitorReopens
<1>3. QED
  BY <1>1, <1>2

---------------------------------------------------------------------------
(***************************************************************************)
(* What a person is offered in the dialog, the server accepts              *)
(***************************************************************************)
\* A decision the dialog lets a person save is well formed, is refused for no
\* reason, is not muted, and is what the case then stands at: whatever the page
\* was looking at, and whatever has happened to the case since
\* (human-disposition.tsx:40-55 against status.ts:76-116).
THEOREM DialogDecides ==
  ASSUME NEW case \in Case, NEW seen \in Case, NEW outcome \in Outcomes,
         NEW request \in Requests, NEW rationale \in BOOLEAN,
         Offered(seen, outcome, rationale)
  PROVE  LET change == ChangeSent(seen, outcome, rationale, request)
         IN  /\ change \in Change
             /\ ~Refused(case, change)
             /\ ApplyDisposition(case, change).status = outcome.status
<1> DEFINE change == ChangeSent(seen, outcome, rationale, request)
<1>1. /\ outcome.actor \in Humans /\ outcome.status \in Statuses
      /\ outcome.status # "documented_permission"
      /\ outcome.status = "counsel_approved" => outcome.actor = "counsel"
  BY DEF Outcomes, Humans, Statuses, HumanOwned
<1>2. /\ change.actor = outcome.actor /\ change.status = outcome.status
      /\ change.rationale = rationale
  BY DEF ChangeSent
<1>3. rationale
  BY DEF Offered
<1>4. change \in Change
  BY <1>1 DEF ChangeSent, Change, Case, Actors
<1>5. change.actor \notin Machines
  BY <1>1, <1>2 DEF Humans, Machines
<1>6. CanActorSet(change.actor, change.status)
  BY <1>1, <1>2, <1>5 DEF CanActorSet
<1>7. ~Refused(case, change)
  BY <1>1, <1>2, <1>3, <1>6 DEF Refused
<1>8. ApplyDisposition(case, change).status = outcome.status
  BY <1>2, <1>5 DEF ApplyDisposition, Muted, Record, Case
<1> QED
  BY <1>4, <1>7, <1>8

=============================================================================
