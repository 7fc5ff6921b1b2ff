------------------------------- MODULE Intake -------------------------------
(***************************************************************************)
(* How files come in, what productions are made of them, and how they go:  *)
(* upload sessions of the edge worker (apps/edge/src/uploads.ts), POST     *)
(* /api/projects and /from-assets, the document routes, the deletion of a  *)
(* production, and the analysis that reads what was stored.                *)
(*                                                                         *)
(* Objects and documents live in different stores and no step changes two  *)
(* of them: every handler is a sequence of calls, any of which may reject, *)
(* with anything in between.  A production has one case that documents can *)
(* be attached to; what happens to cases is said elsewhere.                *)
(***************************************************************************)
EXTENDS Reconciliation

CONSTANTS
  Requests,     \* requests; what a request makes is named for it
  Cloud,        \* the production of the direct uploads
  None,
  Ops,          \* the requests clients may make
  ScriptScans, CutScans,  \* what the scans may find
  Matchings,    \* what the reconciler may answer
  Duration,     \* running time of a cut
  MaxPuts,      \* bound on uploads to one signed URL
  MaxTroubles   \* bound on calls that reject and handlers that die

VARIABLES
  objects,   \* the object store
  sessions,  \* upload sessions, by the request that opened them
  docs,      \* the productions
  req,       \* the handlers
  run,       \* the analysis each creation starts
  answers,   \* what finalizations answered: session and etag
  troubles,
  history    \* what properties need to know of the past

vars == <<objects, sessions, docs, req, run, answers, troubles, history>>

Productions == Requests \cup {Cloud}
Slots == {"script", "cut", "document"}
Keys  == Requests \X Slots

\* A file by the suffix of its name and by what its bytes are.
File == [suffix : {"pdf", "text", "video", "other", ""},
         holds  : {"pdf", "text", "blank", "video", "broken"},
         large  : BOOLEAN]

\* What a request may ask.
Op ==
  [kind : {"session"}, slot : {"script", "cut"}, file : File, multipart : BOOLEAN]
  \cup [kind : {"finalize"}, session : Requests]
  \cup [kind : {"assets"}, script : Requests \cup {None}, cut : Requests \cup {None}]
  \cup [kind : {"create"}, script : File \cup {None}, cut : File \cup {None}]
  \cup [kind : {"attach", "remove"}, id : Productions]
  \cup [kind : {"detach"}, id : Productions, key : Keys]

\* An object, what a production records of one, and an upload session.
Versions == [file : File, whole : BOOLEAN, etag : Nat \ {0}]
Refs     == [key : Keys, suffix : {"pdf", "text", "video", "other", ""}, etag : Nat \ {0}]
Sessions == [file : File, slot : {"script", "cut"}, live : BOOLEAN,
             etag : (Nat \ {0}) \cup {None}, parts : {"single", "open", "joined"}]

ASSUME IntakeAssumption ==
  /\ Cloud \notin Requests
  /\ ScriptScans # {} /\ CutScans # {} /\ Matchings # {}
  /\ \A s \in ScriptScans \cup CutScans \cup Matchings : s \in Seq(ToSet(s))
  /\ \A cut \in CutScans : \A c \in ToSet(cut) :
       c.start \in Int /\ c.end \in Int /\ c.representative \in Int
  /\ \A ms \in Matchings : \A m \in ToSet(ms) : m.relationship \in Relationships
  /\ Duration \in Nat /\ MaxPuts \in Nat /\ MaxTroubles \in Nat

\* None is nothing else.
ASSUME NoneAssumption ==
  /\ None \notin Requests /\ None \notin Nat /\ None \notin File
  /\ None \notin Versions /\ None \notin Refs /\ None \notin Sessions

ASSUME RequestsAssumption == Ops \subseteq Op

---------------------------------------------------------------------------
(***************************************************************************)
(* Files                                                                   *)
(***************************************************************************)
\* preflightFile goes by the suffix, then by the bytes.
KindOf(file) ==
  CASE file.suffix \in {"pdf", "text"} -> "screenplay"
    [] file.suffix = "video" -> "cut"
    [] OTHER -> "unknown"

\* parseScreenplay: a .pdf by its text layer, anything else as UTF-8.
Parses(file) ==
  file.holds = IF file.suffix = "pdf" THEN "pdf" ELSE "text"

\* Mutant: a document is accepted unread.
AcceptedUnread(file) ==
  /\ ~file.large
  /\ \/ KindOf(file) = "screenplay"
     \/ KindOf(file) = "cut" /\ file.holds = "video"

Accepted(file) ==
  /\ ~file.large
  /\ \/ KindOf(file) = "screenplay" /\ Parses(file)
     \/ KindOf(file) = "cut" /\ file.holds = "video"

\* What a store keeps of a put: whole if the bytes are those declared.
Version(file, whole, etag) == [file |-> file, whole |-> whole, etag |-> etag]

\* What a production records of an object.
Ref(key, suffix, etag) == [key |-> key, suffix |-> suffix, etag |-> etag]

Has(key) == objects[key] # None

---------------------------------------------------------------------------
(***************************************************************************)
(* Productions and handlers                                                *)
(***************************************************************************)
\* Mutant: the record starts in a phase the schema does not know.
NewProductionUnphased(script, cut) ==
  [script |-> script, cut |-> cut, documents |-> {}, phase |-> "uploaded",
   cases |-> << >>, found |-> [script |-> << >>, cut |-> << >>]]

\* createProjectRecord.
NewProduction(script, cut) ==
  [script |-> script, cut |-> cut, documents |-> {}, phase |-> "created",
   cases |-> << >>, found |-> [script |-> << >>, cut |-> << >>]]

Phases == {"created", "scanning", "researching", "failed"}

\* What the repository answers when it has no document.
NoProduction == [phase |-> "absent"]

Present(doc) == doc.phase # "absent"

FilesOf(doc) ==
  doc.documents \cup ({doc.script, doc.cut} \ {None})

NoRun == [pc |-> "none"]
Idle  == [pc |-> "done"]

\* A request has made up its mind to create the production.
Creating(id) == \E q \in Requests : req[q].pc = "creating" /\ req[q].id = id

\* overlaid: the save replaced a document it had not read, or took away one
\* that a request was about to save anew.
Overlays(id, mem, new) == docs[id] # mem \/ (~Present(new) /\ Creating(id))

Saves(id, mem, new) ==
  /\ docs' = [docs EXCEPT ![id] = new]
  /\ history' = [history EXCEPT !.overlaid = @ \/ Overlays(id, mem, new)]

Trouble ==
  /\ troubles < MaxTroubles
  /\ troubles' = troubles + 1

Answer(q) == req' = [req EXCEPT ![q] = Idle]

Moves(q, r) == req' = [req EXCEPT ![q] = r]

\* Another object of a session's key, if the signed URL takes it.
Etag(key) == IF Has(key) THEN objects[key].etag + 1 ELSE 1

---------------------------------------------------------------------------
(***************************************************************************)
(* Upload sessions                                                         *)
(***************************************************************************)
\* create: the file's metadata are the session's; above the single limit an
\* R2 multipart upload is opened first.
Open(q, op) ==
  /\ op.kind = "session" /\ req[q].pc = "new"
  /\ sessions' = [sessions EXCEPT ![q] =
       [file |-> op.file, slot |-> op.slot, live |-> TRUE, etag |-> None,
        parts |-> IF op.multipart THEN "open" ELSE "single"]]
  /\ Answer(q)
  /\ UNCHANGED <<objects, docs, run, answers, troubles, history>>

SessionKey(s) == <<s, sessions[s].slot>>

\* The client sends bytes to the signed URL, some or all of them, perhaps again.
PutObject(s) ==
  /\ sessions[s] # None /\ sessions[s].live /\ sessions[s].parts = "single"
  /\ Etag(SessionKey(s)) <= MaxPuts
  /\ \E whole \in BOOLEAN :
       objects' = [objects EXCEPT ![SessionKey(s)] =
                     Version(sessions[s].file, whole, Etag(SessionKey(s)))]
  /\ UNCHANGED <<sessions, docs, req, run, answers, troubles, history>>

Expire(s) ==
  /\ sessions[s] # None /\ sessions[s].live
  /\ sessions' = [sessions EXCEPT ![s].live = FALSE]
  /\ UNCHANGED <<objects, docs, req, run, answers, troubles, history>>

Finalizing(q, s) ==
  req[q].pc \in {"completing", "heading", "closing"} /\ req[q].session = s

\* Mutant: a completed session is finalized again.
AnswersAgain(s) == FALSE

\* A completed session answers what it answered.
AnswersAtOnce(s) == sessions[s].etag # None

\* finalize reads the session.
ReadSession(q, op) ==
  /\ op.kind = "finalize" /\ req[q].pc = "new"
  /\ LET s == op.session
         open == sessions[s] # None /\ ~AnswersAtOnce(s) /\ sessions[s].live
     IN  /\ answers' = IF sessions[s] # None /\ AnswersAtOnce(s)
                       THEN answers \cup {<<s, sessions[s].etag>>} ELSE answers
         /\ IF open
            THEN Moves(q, [session |-> s,
                           pc |-> IF sessions[s].parts = "single"
                                  THEN "heading" ELSE "completing"])
            ELSE Answer(q)
         /\ history' = [history EXCEPT !.overlapped =
              IF open /\ \E p \in Requests : Finalizing(p, s) THEN @ \cup {s} ELSE @]
  /\ UNCHANGED <<objects, sessions, docs, run, troubles>>

\* CompleteMultipartUpload works once per upload.
Complete(q) ==
  /\ req[q].pc = "completing"
  /\ LET s == req[q].session
     IN  /\ sessions[s].parts = "open"
         /\ sessions' = [sessions EXCEPT ![s].parts = "joined"]
         /\ \E whole \in BOOLEAN :
              objects' = [objects EXCEPT ![SessionKey(s)] =
                            Version(sessions[s].file, whole, Etag(SessionKey(s)))]
  /\ Moves(q, [req[q] EXCEPT !.pc = "heading"])
  /\ UNCHANGED <<docs, run, answers, troubles, history>>

\* No parts in the body, or an upload R2 no longer knows.
CompleteFails(q) ==
  /\ req[q].pc = "completing"
  /\ Answer(q)
  /\ UNCHANGED <<objects, sessions, docs, run, answers, troubles, history>>

HeadObject(q) ==
  /\ req[q].pc = "heading"
  /\ LET key == SessionKey(req[q].session)
     IN  IF Has(key) /\ objects[key].whole
         THEN Moves(q, [pc |-> "closing", session |-> req[q].session,
                        etag |-> objects[key].etag])
         ELSE Answer(q)
  /\ UNCHANGED <<objects, sessions, docs, run, answers, troubles, history>>

CloseSession(q) ==
  /\ req[q].pc = "closing"
  /\ sessions' = [sessions EXCEPT ![req[q].session].etag = req[q].etag]
  /\ answers' = answers \cup {<<req[q].session, req[q].etag>>}
  /\ Answer(q)
  /\ UNCHANGED <<objects, docs, run, troubles, history>>

---------------------------------------------------------------------------
(***************************************************************************)
(* Creation                                                                *)
(***************************************************************************)
\* from-assets: what the client was told is still what the store has.
Verified(s, slot) ==
  /\ sessions[s] # None /\ sessions[s].slot = slot
  /\ <<s, objects[<<s, slot>>].etag>> \in answers

\* A direct upload carries no x-clearcut-filename, so stat finds it nameless.
Uploaded(s, slot) ==
  IF s = None THEN None ELSE Ref(<<s, slot>>, "", objects[<<s, slot>>].etag)

Verify(q, op) ==
  /\ op.kind = "assets" /\ req[q].pc = "new"
  /\ IF /\ op.script # None => Has(<<op.script, "script">>) /\ Verified(op.script, "script")
        /\ op.cut # None => Has(<<op.cut, "cut">>) /\ Verified(op.cut, "cut")
     THEN Moves(q, [pc |-> "creating", id |-> Cloud, left |-> << >>, mine |-> FALSE,
                    doc |-> NewProduction(Uploaded(op.script, "script"),
                                          Uploaded(op.cut, "cut"))])
     ELSE Answer(q)
  /\ UNCHANGED <<objects, sessions, docs, run, answers, troubles, history>>

Given(op) == (IF op.script # None THEN <<"script">> ELSE << >>)
             \o (IF op.cut # None THEN <<"cut">> ELSE << >>)

\* POST: both preflights, then the puts, one after the other.
Preflight(q, op) ==
  /\ op.kind = "create" /\ req[q].pc = "new"
  /\ IF \A slot \in {"script", "cut"} : op[slot] # None => Accepted(op[slot])
     THEN Moves(q, [pc |-> "creating", id |-> q, mine |-> TRUE, op |-> op,
                    left |-> Given(op), doc |-> NewProduction(None, None)])
     ELSE Answer(q)
  /\ UNCHANGED <<objects, sessions, docs, run, answers, troubles, history>>

StoreFile(q) ==
  /\ req[q].pc = "creating" /\ req[q].left # << >>
  /\ LET slot == Head(req[q].left)
         file == req[q].op[slot]
     IN  /\ objects' = [objects EXCEPT ![<<q, slot>>] = Version(file, TRUE, 1)]
         /\ Moves(q, [req[q] EXCEPT
                        !.left = Tail(@),
                        !.doc = [@ EXCEPT ![slot] = Ref(<<q, slot>>, file.suffix, 1)]])
  /\ UNCHANGED <<sessions, docs, run, answers, troubles, history>>

\* The document is saved and its analysis started.
SaveProduction(q) ==
  /\ req[q].pc = "creating" /\ req[q].left = << >>
  /\ Saves(req[q].id, NoProduction, req[q].doc)
  /\ run' = [run EXCEPT ![q] = [pc |-> "queued", id |-> req[q].id]]
  /\ Answer(q)
  /\ UNCHANGED <<objects, sessions, answers, troubles>>

\* Mutant: the catch block deletes nothing.
StoredNothing(q) == {}

\* What the catch block deletes: every file this request has stored.
Stored(q) ==
  {f.key : f \in IF req[q].mine THEN FilesOf(req[q].doc) ELSE {}}

Without(keys) == [k \in Keys |-> IF k \in keys THEN None ELSE objects[k]]

\* A put or the save rejects; the save may have reached the repository.
CreationFails(q) ==
  /\ req[q].pc = "creating" /\ Trouble
  /\ objects' = Without(Stored(q))
  /\ \/ docs' = docs /\ history' = history
     \/ /\ req[q].left = << >>
        /\ docs' = [docs EXCEPT ![req[q].id] = req[q].doc]
        /\ history' = [history EXCEPT !.unsure = TRUE,
             !.overlaid = @ \/ Overlays(req[q].id, NoProduction, req[q].doc)]
  /\ Answer(q)
  /\ UNCHANGED <<sessions, run, answers>>

---------------------------------------------------------------------------
(***************************************************************************)
(* Documents, and the deletion of a production                             *)
(***************************************************************************)
\* Attaching loads the production and its case, then stores the file.
Attach(q, op) ==
  /\ op.kind = "attach" /\ req[q].pc = "new"
  /\ IF Present(docs[op.id]) /\ docs[op.id].cases # << >>
     THEN Moves(q, [pc |-> "attaching", id |-> op.id, mem |-> docs[op.id]])
     ELSE Answer(q)
  /\ UNCHANGED <<objects, sessions, docs, run, answers, troubles, history>>

StoreDocument(q) ==
  /\ req[q].pc = "attaching" /\ ~Has(<<q, "document">>)
  /\ objects' = [objects EXCEPT ![<<q, "document">>] =
                   Version([suffix |-> "pdf", holds |-> "pdf", large |-> FALSE], TRUE, 1)]
  /\ UNCHANGED <<sessions, docs, req, run, answers, troubles, history>>

SaveDocument(q) ==
  /\ req[q].pc = "attaching" /\ Has(<<q, "document">>)
  /\ Saves(req[q].id, req[q].mem,
           [req[q].mem EXCEPT !.documents = @ \cup {Ref(<<q, "document">>, "pdf", 1)}])
  /\ Answer(q)
  /\ UNCHANGED <<objects, sessions, run, answers, troubles>>

\* Removing a document deletes its file, then saves; deleting a production
\* deletes all of its files, then the record.
Owned(doc) == {f.key : f \in FilesOf(doc)}

Detach(q, op) ==
  /\ op.kind = "detach" /\ req[q].pc = "new"
  /\ IF Present(docs[op.id]) /\ \E f \in docs[op.id].documents : f.key = op.key
     THEN Moves(q, [pc |-> "deleting", id |-> op.id, left |-> {op.key},
                    gone |-> {op.key}, mem |-> docs[op.id], all |-> FALSE])
     ELSE Answer(q)
  /\ UNCHANGED <<objects, sessions, docs, run, answers, troubles, history>>

RemoveProject(q, op) ==
  /\ op.kind = "remove" /\ req[q].pc = "new"
  /\ IF Present(docs[op.id])
     THEN Moves(q, [pc |-> "deleting", id |-> op.id, left |-> Owned(docs[op.id]),
                    gone |-> Owned(docs[op.id]), mem |-> docs[op.id], all |-> TRUE])
     ELSE Answer(q)
  /\ UNCHANGED <<objects, sessions, docs, run, answers, troubles, history>>

DeleteFile(q) ==
  /\ req[q].pc = "deleting"
  /\ \E key \in req[q].left :
       /\ objects' = [objects EXCEPT ![key] = None]
       /\ Moves(q, [req[q] EXCEPT !.left = @ \ {key}])
  /\ UNCHANGED <<sessions, docs, run, answers, troubles, history>>

\* deleteProject swallows a delete that rejects and goes on.
DeleteSwallowed(q) ==
  /\ req[q].pc = "deleting" /\ req[q].all /\ Trouble
  /\ \E key \in req[q].left : Moves(q, [req[q] EXCEPT !.left = @ \ {key}])
  /\ history' = [history EXCEPT !.unclean = TRUE]
  /\ UNCHANGED <<objects, sessions, docs, run, answers>>

\* Mutant: the record keeps naming the document.
KeepsDocument(q) ==
  /\ req[q].pc = "deleting" /\ req[q].left = {}
  /\ IF req[q].all
     THEN Saves(req[q].id, req[q].mem, NoProduction)
     ELSE Saves(req[q].id, req[q].mem, req[q].mem)
  /\ Answer(q)
  /\ UNCHANGED <<objects, sessions, run, answers, troubles>>

SaveRemoval(q) ==
  /\ req[q].pc = "deleting" /\ req[q].left = {}
  /\ IF req[q].all
     THEN Saves(req[q].id, req[q].mem, NoProduction)
     ELSE Saves(req[q].id, req[q].mem,
            [req[q].mem EXCEPT !.documents = {f \in @ : f.key \notin req[q].gone}])
  /\ Answer(q)
  /\ UNCHANGED <<objects, sessions, run, answers, troubles>>

\* A handler without a catch rejects, or its process dies: what it did stays.
\* A put that failed its size check in R2 leaves the object, too.
Vanish(q) ==
  /\ req[q].pc \notin {"new", "done"} /\ Trouble
  /\ history' = [history EXCEPT !.unclean =
                   @ \/ req[q].pc \in {"creating", "attaching", "deleting"}]
  /\ Answer(q)
  /\ UNCHANGED <<objects, sessions, docs, run, answers>>

---------------------------------------------------------------------------
(***************************************************************************)
(* The analysis, as far as it reads what was stored                        *)
(***************************************************************************)
LoadRun(q) ==
  /\ run[q].pc = "queued"
  /\ run' = [run EXCEPT ![q] =
       IF ~Present(docs[run[q].id]) THEN NoRun
       ELSE [pc |-> "announcing", id |-> run[q].id, mem |-> docs[run[q].id]]]
  /\ UNCHANGED <<objects, sessions, docs, req, answers, troubles, history>>

Announce(q) ==
  /\ run[q].pc = "announcing"
  /\ Saves(run[q].id, run[q].mem, [run[q].mem EXCEPT !.phase = "scanning"])
  /\ run' = [run EXCEPT ![q] = [pc |-> "reading", id |-> run[q].id,
                                 mem |-> [run[q].mem EXCEPT !.phase = "scanning"]]]
  /\ UNCHANGED <<objects, sessions, req, answers, troubles>>

\* screenplayStage parses by the recorded file name; cutStage only reads.
Readable(doc) ==
  /\ doc.script # None =>
       /\ Has(doc.script.key)
       /\ Parses([objects[doc.script.key].file EXCEPT !.suffix = doc.script.suffix])
  /\ doc.cut # None => Has(doc.cut.key)

\* Mutant: a screenplay that found nothing leaves the cut out.
CasesOfScript(found, m) ==
  IF found.script = << >> THEN << >>
  ELSE ReconcileStage(found.script, found.cut, m, Duration)

CasesOf(found, m) == ReconcileStage(found.script, found.cut, m, Duration)

ReadSources(q) ==
  /\ run[q].pc = "reading"
  /\ IF Readable(run[q].mem)
     THEN /\ \E s \in ScriptScans, c \in CutScans, m \in Matchings :
               LET found == [script |-> IF run[q].mem.script # None THEN s ELSE << >>,
                             cut    |-> IF run[q].mem.cut # None THEN c ELSE << >>]
               IN  run' = [run EXCEPT ![q] =
                     [pc |-> "comparing", id |-> run[q].id, mem |-> run[q].mem,
                      new |-> [run[q].mem EXCEPT !.phase = "researching", !.found = found,
                                 !.cases = CasesOf(found, m)]]]
          /\ UNCHANGED <<docs, history>>
     ELSE /\ Saves(run[q].id, run[q].mem, [run[q].mem EXCEPT !.phase = "failed"])
          /\ run' = [run EXCEPT ![q] = NoRun]
  /\ UNCHANGED <<objects, sessions, req, answers, troubles>>

SaveCases(q) ==
  /\ run[q].pc = "comparing"
  /\ Saves(run[q].id, run[q].mem, run[q].new)
  /\ run' = [run EXCEPT ![q] = NoRun]
  /\ UNCHANGED <<objects, sessions, req, answers, troubles>>

---------------------------------------------------------------------------
Init ==
  /\ objects = [k \in Keys |-> None]
  /\ sessions = [q \in Requests |-> None]
  /\ docs = [id \in Productions |-> NoProduction]
  /\ req = [q \in Requests |-> [pc |-> "new"]]
  /\ run = [q \in Requests |-> NoRun]
  /\ answers = {}
  /\ troubles = 0
  /\ history = [overlaid |-> FALSE, unsure |-> FALSE, unclean |-> FALSE,
                overlapped |-> {}]

Receive(q, op) ==
  \/ Open(q, op) \/ ReadSession(q, op)
  \/ Verify(q, op) \/ Preflight(q, op)
  \/ Attach(q, op) \/ Detach(q, op) \/ RemoveProject(q, op)

Continue(q) ==
  \/ Complete(q) \/ CompleteFails(q) \/ HeadObject(q) \/ CloseSession(q)
  \/ StoreFile(q) \/ SaveProduction(q) \/ CreationFails(q)
  \/ StoreDocument(q) \/ SaveDocument(q)
  \/ DeleteFile(q) \/ DeleteSwallowed(q) \/ SaveRemoval(q)
  \/ Vanish(q)

Analyse(q) == LoadRun(q) \/ Announce(q) \/ ReadSources(q) \/ SaveCases(q)

Next ==
  \E q \in Requests :
    \/ \E op \in Ops : Receive(q, op)
    \/ Continue(q) \/ Analyse(q)
    \/ PutObject(q) \/ Expire(q)

Spec == Init /\ [][Next]_vars

---------------------------------------------------------------------------
(***************************************************************************)
(* Properties                                                              *)
(***************************************************************************)
\* The shape of the state.
TypeOK ==
  /\ \A k \in Keys : Has(k) => objects[k] \in Versions
  /\ \A s \in Requests : sessions[s] # None => sessions[s] \in Sessions
  /\ \A id \in Productions : Present(docs[id]) =>
       /\ FilesOf(docs[id]) \subseteq Refs
       /\ docs[id].phase \in Phases
       /\ \A c \in ToSet(docs[id].cases) : c.kind \in Relationships
  /\ \A a \in answers : a[1] \in Requests /\ a[2] \in Nat
  /\ troubles \in 0 .. MaxTroubles

\* q is taking away the file of that key.
TakingAway(q, key) == req[q].pc = "deleting" /\ key \in req[q].gone

\* Every file a stored production names is in the object store, as it was when
\* it was recorded or as its owner's upload URL has replaced it since.  The
\* two stores share no transaction: the exceptions are a removal in progress
\* or cut short, a save that replaced a document it had not read, and a save
\* that took effect and still rejected.
FilesAsRecorded ==
  ~history.overlaid /\ ~history.unsure =>
    \A id \in Productions : Present(docs[id]) =>
      \A f \in FilesOf(docs[id]) :
        \/ Has(f.key) /\ objects[f.key].etag >= f.etag
        \/ \E q \in Requests : TakingAway(q, f.key)
        \/ history.unclean

\* "Assets outlive the project otherwise": an object belongs to a production, to
\* an upload session, or to a handler that has not ended; a creation that
\* rejects takes its files back.
NoOrphans ==
  ~history.overlaid /\ ~history.unclean =>
    \A key \in Keys : Has(key) =>
      \/ \E id \in Productions : Present(docs[id]) /\ key \in Owned(docs[id])
      \/ sessions[key[1]] # None /\ sessions[key[1]].slot = key[2]
      \/ req[key[1]].pc \in {"creating", "attaching"}
      \/ \E q \in Requests : TakingAway(q, key)

\* Finalizing a session again answers what it answered before, whatever the
\* client has sent to the URL since: from-assets compares the etag it was told
\* with the object.  Only finalizations that overlap may disagree.
FinalizeAgrees ==
  \A a, b \in answers :
    a[1] = b[1] /\ a[1] \notin history.overlapped => a = b

\* A production's cases account for every candidate of its scans exactly once,
\* whatever the reconciler answered, and its detections lie inside the cut.
CasesComplete ==
  \A id \in Productions : Present(docs[id]) =>
    /\ EachCandidateOnce(docs[id].found.script, docs[id].found.cut, docs[id].cases)
    /\ SpansFit(docs[id].cases, Duration)

\* What a preflight accepted, the analysis can read: a production made by POST
\* of a screenplay document and a video does not fail for its sources, unless
\* it is being deleted or its files were lost as FilesAsRecorded says.
AcceptedSourcesScan ==
  \A id \in Requests :
    /\ docs[id].phase = "failed"
    /\ ~history.overlaid /\ ~history.unsure /\ ~history.unclean
    => \/ docs[id].script # None /\ docs[id].script.suffix = "video"
       \/ \E q \in Requests, f \in FilesOf(docs[id]) : TakingAway(q, f.key)

=============================================================================
