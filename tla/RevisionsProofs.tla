-------------------------- MODULE RevisionsProofs --------------------------
(***************************************************************************)
(* The versions of a production never fork, no comparison drops a case or  *)
(* loses a record, and applying one reopens exactly the cases it affects,  *)
(* for every set of requests, every source and every interleaving.         *)
(*                                                                         *)
(* Handlers and comparisons save whole copies, which may be old.  So the   *)
(* invariants are of every copy there is: each is in order by itself       *)
(* (Good), says nothing of a request that has not been carried out yet     *)
(* (Fits), and keeps its comparisons complete (Filled).  Nothing is        *)
(* assumed of how two copies relate.                                       *)
(***************************************************************************)
EXTENDS Revisions, DispositionProofs, Recurrence, FiniteSetTheorems

States == {"processing", "ready", "applied", "failed"}

IsRevision(r) ==
  r \in [pred : {r.pred}, state : States, items : {r.items}, changes : {r.changes}]

IsCopy(p) ==
  /\ p \in [items : {p.items}, revisions : {p.revisions}, active : {p.active},
            applied : Seq(RevId)]
  /\ p.revisions = [id \in DOMAIN p.revisions |-> p.revisions[id]]
  /\ DOMAIN p.revisions \subseteq RevId
  /\ \A id \in DOMAIN p.revisions : IsRevision(p.revisions[id])

\* The trail records applied revisions, each once.
TrailOf(p) ==
  /\ \A i \in DOMAIN p.applied : p.applied[i] \in AppliedIn(p)
  /\ \A i, j \in DOMAIN p.applied : p.applied[i] = p.applied[j] => i = j

\* A copy that is in order by itself.
Good(p) == IsCopy(p) /\ OneLine(p) /\ TrailOf(p)

\* What a copy may say of each request, by how far the request is.
Fits(p, handlers, builds) ==
  \A q \in Requests :
    /\ handlers[q].pc # "done" => {Snapshot(q), Candidate(q)} \cap DOMAIN p.revisions = {}
    /\ builds[q].pc # "none" /\ Candidate(q) \in DOMAIN p.revisions =>
         p.revisions[Candidate(q)].state = "processing"
    /\ Snapshot(q) \in DOMAIN p.revisions => p.revisions[Snapshot(q)].state = "applied"

SoundHandler(q, handlers, builds) ==
  LET h == handlers[q]
  IN  /\ h.pc \in {"new", "loaded", "done"}
      /\ h.pc # "done" => builds[q].pc = "none"
      /\ h.pc = "loaded" => /\ Good(h.mem) /\ Fits(h.mem, handlers, builds)
                            /\ h.op \in Op /\ Accepts(h.mem, h.op)

SoundBuild(q, handlers, builds) ==
  LET b == builds[q]
  IN  /\ b.pc \in {"none", "queued", "scanning"}
      /\ b.pc = "scanning" => /\ Good(b.mem) /\ Fits(b.mem, handlers, builds)
                              /\ Candidate(q) \in DOMAIN b.mem.revisions

\* The inductive invariant.
VInv ==
  /\ req = [q \in Requests |-> req[q]]
  /\ build = [q \in Requests |-> build[q]]
  /\ Good(store) /\ Fits(store, req, build)
  /\ \A q \in Requests : SoundHandler(q, req, build) /\ SoundBuild(q, req, build)
  /\ troubles \in Nat
  /\ overlaid \in BOOLEAN
  /\ ProcessingHasBuilder

-----------------------------------------------------------------------------
(***************************************************************************)
(* Copies                                                                  *)
(***************************************************************************)

\* Revision ids are distinct, and none is null.
LEMMA RevisionIds ==
  /\ NoRevision \notin RevId
  /\ \A q \in Requests : Snapshot(q) \in RevId /\ Candidate(q) \in RevId
  /\ \A q, r \in Requests :
       /\ Snapshot(q) # Candidate(r)
       /\ q # r => Snapshot(q) # Snapshot(r) /\ Candidate(q) # Candidate(r)
  /\ \A id \in RevId : \E q \in Requests : id = Snapshot(q) \/ id = Candidate(q)
  BY DEF RevId, NoRevision, Snapshot, Candidate

\* A copy whose cases were edited.
LEMMA ItemsGood ==
  ASSUME NEW p, Good(p), NEW items
  PROVE  LET n == [p EXCEPT !.items = items]
         IN  Good(n) /\ n.revisions = p.revisions
<1> DEFINE n == [p EXCEPT !.items = items]
<1>1. /\ n.items = items /\ n.revisions = p.revisions /\ n.active = p.active
      /\ n.applied = p.applied
      /\ n \in [items : {items}, revisions : {p.revisions}, active : {p.active},
                applied : Seq(RevId)]
  BY DEF Good, IsCopy
<1> HIDE DEF n
<1>2. IsCopy(n)
  BY <1>1 DEF Good, IsCopy
<1>3. OneLine(n) /\ TrailOf(n)
  BY <1>1 DEF Good, OneLine, TrailOf, AppliedIn
<1> QED
  BY <1>1, <1>2, <1>3 DEF Good, n

\* A copy with a revision that is not applied and replaces none that is.
LEMMA PlacedGood ==
  ASSUME NEW p, Good(p), NEW id \in RevId, NEW rev, IsRevision(rev),
         rev.state # "applied", DOMAIN p.revisions # {},
         id \in DOMAIN p.revisions => p.revisions[id].state # "applied"
  PROVE  LET n == WithRevision(p, id, rev)
         IN  /\ Good(n)
             /\ DOMAIN n.revisions = DOMAIN p.revisions \cup {id}
             /\ n.revisions[id] = rev
             /\ \A i \in DOMAIN p.revisions \ {id} : n.revisions[i] = p.revisions[i]
<1> DEFINE n  == WithRevision(p, id, rev)
           rs == [i \in DOMAIN p.revisions \cup {id} |-> IF i = id THEN rev ELSE p.revisions[i]]
<1>1. /\ n.items = p.items /\ n.revisions = rs /\ n.active = p.active
      /\ n.applied = p.applied
      /\ n \in [items : {p.items}, revisions : {rs}, active : {p.active},
                applied : Seq(RevId)]
  BY DEF Good, IsCopy, WithRevision
<1> HIDE DEF n
<1>2. /\ DOMAIN rs = DOMAIN p.revisions \cup {id} /\ rs[id] = rev
      /\ \A i \in DOMAIN p.revisions \ {id} : rs[i] = p.revisions[i]
      /\ rs = [i \in DOMAIN rs |-> rs[i]]
  OBVIOUS
<1> HIDE DEF rs
<1>3. IsCopy(n)
  BY <1>1, <1>2 DEF Good, IsCopy
<1>4. AppliedIn(n) = AppliedIn(p)
  BY <1>1, <1>2 DEF AppliedIn
<1>5. \A i \in AppliedIn(p) : n.revisions[i] = p.revisions[i]
  BY <1>1, <1>2 DEF AppliedIn
<1>6. OneLine(n)
  BY <1>1, <1>2, <1>4, <1>5 DEF Good, OneLine
<1>7. TrailOf(n)
  BY <1>1, <1>4 DEF Good, TrailOf
<1> QED
  BY <1>1, <1>2, <1>3, <1>6, <1>7 DEF Good, n

\* The first listing or upload takes a snapshot.
LEMMA EnsuredGood ==
  ASSUME NEW p, Good(p), NEW q \in Requests
  PROVE  LET n == EnsureInitialRevision(p, q)
         IN  /\ Good(n) /\ DOMAIN n.revisions # {}
             /\ \/ n = p
                \/ /\ DOMAIN p.revisions = {} /\ DOMAIN n.revisions = {Snapshot(q)}
                   /\ n.revisions[Snapshot(q)].state = "applied"
<1> DEFINE n   == EnsureInitialRevision(p, q)
           rev == NewRevision(NoRevision, "applied", p.items)
           rs  == [i \in {Snapshot(q)} |-> rev]
<1>1. CASE DOMAIN p.revisions # {}
  BY <1>1 DEF EnsureInitialRevision
<1>2. CASE DOMAIN p.revisions = {}
  <2>1. /\ n.items = p.items /\ n.revisions = rs /\ n.active = Snapshot(q)
        /\ n.applied = p.applied
        /\ n \in [items : {p.items}, revisions : {rs}, active : {Snapshot(q)},
                  applied : Seq(RevId)]
    <3>1. rs = [i \in DOMAIN p.revisions \cup {Snapshot(q)} |->
                  IF i = Snapshot(q) THEN rev ELSE p.revisions[i]]
      BY <1>2
    <3>2. n = [[p EXCEPT !.revisions = rs] EXCEPT !.active = Snapshot(q)]
      BY <1>2, <3>1 DEF EnsureInitialRevision, WithRevision
    <3> HIDE DEF rs
    <3> QED BY <3>2 DEF Good, IsCopy
  <2>2. /\ DOMAIN rs = {Snapshot(q)} /\ rs[Snapshot(q)] = rev
        /\ rs = [i \in DOMAIN rs |-> rs[i]]
    OBVIOUS
  <2>3. IsRevision(rev) /\ rev.state = "applied" /\ rev.pred = NoRevision
    BY DEF NewRevision, IsRevision, States
  <2> HIDE DEF rs, rev, n
  <2>4. IsCopy(n)
    BY <2>1, <2>2, <2>3, RevisionIds DEF IsCopy
  <2>5. AppliedIn(n) = {Snapshot(q)} /\ AppliedIn(p) = {}
    BY <1>2, <2>1, <2>2, <2>3 DEF AppliedIn
  <2>6. OneLine(n)
    BY <2>1, <2>2, <2>3, <2>5, RevisionIds DEF OneLine
  <2>7. TrailOf(n)
    BY <2>1, <2>5 DEF Good, TrailOf
  <2> QED
    BY <1>2, <2>1, <2>2, <2>3, <2>4, <2>6, <2>7 DEF Good, n
<1> QED
  BY <1>1, <1>2

\* A copy one of whose revisions changes its state alone.
LEMMA StateFields ==
  ASSUME NEW p, Good(p), NEW id \in DOMAIN p.revisions, NEW state \in States
  PROVE  LET rs == [p.revisions EXCEPT ![id].state = state]
         IN  /\ DOMAIN rs = DOMAIN p.revisions /\ rs = [i \in DOMAIN rs |-> rs[i]]
             /\ IsRevision(rs[id])
             /\ rs[id].state = state /\ rs[id].pred = p.revisions[id].pred
             /\ rs[id].items = p.revisions[id].items
             /\ rs[id].changes = p.revisions[id].changes
             /\ \A i \in DOMAIN rs \ {id} : rs[i] = p.revisions[i]
<1>1. IsRevision(p.revisions[id])
  BY DEF Good, IsCopy
<1> QED
  BY <1>1 DEF IsRevision

\* A comparison that was stopped.
LEMMA FailedGood ==
  ASSUME NEW p, Good(p), NEW id \in DOMAIN p.revisions,
         p.revisions[id].state = "processing"
  PROVE  LET n == [p EXCEPT !.revisions[id].state = "failed"]
         IN  /\ Good(n) /\ DOMAIN n.revisions = DOMAIN p.revisions
             /\ n.revisions[id].state = "failed"
             /\ \A i \in DOMAIN p.revisions \ {id} : n.revisions[i] = p.revisions[i]
<1> DEFINE rs == [p.revisions EXCEPT ![id].state = "failed"]
           n  == [p EXCEPT !.revisions = rs]
<1>1. /\ DOMAIN rs = DOMAIN p.revisions /\ rs = [i \in DOMAIN rs |-> rs[i]]
      /\ IsRevision(rs[id])
      /\ rs[id].state = "failed" /\ rs[id].pred = p.revisions[id].pred
      /\ \A i \in DOMAIN rs \ {id} : rs[i] = p.revisions[i]
  BY StateFields DEF States
<1>2. n = [p EXCEPT !.revisions[id].state = "failed"]
  OBVIOUS
<1> HIDE DEF rs
<1>3. /\ n.items = p.items /\ n.revisions = rs /\ n.active = p.active
      /\ n.applied = p.applied
      /\ n \in [items : {p.items}, revisions : {rs}, active : {p.active},
                applied : Seq(RevId)]
  BY DEF Good, IsCopy
<1> HIDE DEF n
<1>4. IsCopy(n)
  BY <1>1, <1>3 DEF Good, IsCopy
<1>5. AppliedIn(n) = AppliedIn(p)
  BY <1>1, <1>3 DEF AppliedIn
<1>6. \A i \in AppliedIn(p) : n.revisions[i] = p.revisions[i]
  BY <1>1, <1>3 DEF AppliedIn
<1>7. OneLine(n)
  BY <1>1, <1>3, <1>5, <1>6 DEF Good, OneLine
<1>8. TrailOf(n)
  BY <1>3, <1>5 DEF Good, TrailOf
<1>9. Good(n)
  BY <1>4, <1>7, <1>8 DEF Good
<1> QED
  BY <1>1, <1>2, <1>3, <1>9

\* A revision compared with the active one becomes active: the line of descent
\* is one longer, and the trail has it for the first time.
LEMMA PromotedGood ==
  ASSUME NEW p, Good(p), NEW id \in DOMAIN p.revisions, NEW q \in Requests,
         p.revisions[id].state = "ready", p.active = p.revisions[id].pred
  PROVE  LET n == Promote(p, id, q)
         IN  /\ Good(n) /\ DOMAIN n.revisions = DOMAIN p.revisions
             /\ n.revisions[id].state = "applied"
             /\ \A i \in DOMAIN p.revisions \ {id} : n.revisions[i] = p.revisions[i]
<1> DEFINE rs    == [p.revisions EXCEPT ![id].state = "applied"]
           items == Promoted(p.revisions[id].items, p.revisions[id].changes, q)
           trail == Append(p.applied, id)
           n     == [p EXCEPT !.items = items, !.active = id, !.applied = trail,
                              !.revisions = rs]
<1>1. /\ DOMAIN rs = DOMAIN p.revisions /\ rs = [i \in DOMAIN rs |-> rs[i]]
      /\ IsRevision(rs[id])
      /\ rs[id].state = "applied" /\ rs[id].pred = p.revisions[id].pred
      /\ \A i \in DOMAIN rs \ {id} : rs[i] = p.revisions[i]
  BY StateFields DEF States
<1>2. n = Promote(p, id, q)
  BY DEF Promote
<1>3. id \in RevId /\ p.applied \in Seq(RevId)
  BY DEF Good, IsCopy
<1>4. /\ trail \in Seq(RevId) /\ Len(p.applied) \in Nat /\ Len(trail) = Len(p.applied) + 1
      /\ DOMAIN p.applied = 1 .. Len(p.applied) /\ DOMAIN trail = 1 .. Len(trail)
      /\ trail[Len(trail)] = id
      /\ \A i \in DOMAIN p.applied : trail[i] = p.applied[i]
  BY <1>3
<1> HIDE DEF rs, items, trail
<1>5. /\ n.items = items /\ n.revisions = rs /\ n.active = id
      /\ n.applied = trail
      /\ n \in [items : {items}, revisions : {rs}, active : {id},
                applied : Seq(RevId)]
  BY <1>4 DEF Good, IsCopy
<1> HIDE DEF n
<1>6. IsCopy(n)
  BY <1>1, <1>5 DEF Good, IsCopy
<1>7. AppliedIn(n) = AppliedIn(p) \cup {id} /\ id \notin AppliedIn(p)
  BY <1>1, <1>5 DEF AppliedIn
<1>8. \A i \in AppliedIn(p) : i \in DOMAIN p.revisions \ {id}
                              /\ n.revisions[i] = p.revisions[i]
  BY <1>1, <1>5 DEF AppliedIn
<1>9. OneLine(n)
  <2>1. n.revisions[id].pred = p.active /\ p.active \in AppliedIn(p)
    BY <1>1, <1>5 DEF Good, OneLine
  <2>2. \A a \in AppliedIn(p) : /\ n.revisions[a].pred # p.active
                                /\ n.revisions[a].pred \in AppliedIn(p) \cup {NoRevision}
    BY <1>8 DEF Good, OneLine
  <2>3. \A a, b \in AppliedIn(p) : n.revisions[a].pred = n.revisions[b].pred => a = b
    BY <1>8 DEF Good, OneLine
  <2>4. NoRevision # id
    BY <1>3, RevisionIds
  <2> QED
    BY <1>5, <1>7, <2>1, <2>2, <2>3, <2>4 DEF OneLine
<1>10. TrailOf(n)
  <2>1. \A i \in DOMAIN trail : i \in DOMAIN p.applied \/ i = Len(trail)
    BY <1>4
  <2>2. \A i \in DOMAIN p.applied : trail[i] \in AppliedIn(p)
    BY <1>4 DEF Good, TrailOf
  <2>3. \A i, j \in DOMAIN p.applied : trail[i] = trail[j] => i = j
    BY <1>4 DEF Good, TrailOf
  <2> QED
    BY <1>4, <1>5, <1>7, <2>1, <2>2, <2>3 DEF TrailOf
<1>11. Good(n)
  BY <1>6, <1>9, <1>10 DEF Good
<1> QED
  BY <1>1, <1>2, <1>5, <1>11

-----------------------------------------------------------------------------
(***************************************************************************)
(* What a handler saves                                                    *)
(***************************************************************************)

\* The requests clients make.
LEMMA OpKinds ==
  ASSUME NEW op \in Op
  PROVE  /\ op.kind \in {"decide", "list", "upload", "apply"}
         /\ op.kind = "apply" => op.revision \in RevId
  BY DEF Op

\* Whatever it is asked, a handler leaves its copy in order, adds nothing but
\* its own revisions and moves no revision but from ready to applied.
LEMMA EditGood ==
  ASSUME NEW p, Good(p), NEW q \in Requests, NEW op \in Op, Accepts(p, op),
         {Snapshot(q), Candidate(q)} \cap DOMAIN p.revisions = {}
  PROVE  LET n == Edit(p, q, op)
         IN  /\ Good(n)
             /\ DOMAIN p.revisions \subseteq DOMAIN n.revisions
             /\ DOMAIN n.revisions \subseteq DOMAIN p.revisions \cup {Snapshot(q), Candidate(q)}
             /\ Snapshot(q) \in DOMAIN n.revisions => n.revisions[Snapshot(q)].state = "applied"
             /\ Candidate(q) \in DOMAIN n.revisions =>
                  op.kind = "upload" /\ n.revisions[Candidate(q)].state = "processing"
             /\ \A i \in DOMAIN p.revisions :
                  \/ n.revisions[i] = p.revisions[i]
                  \/ p.revisions[i].state = "ready" /\ n.revisions[i].state = "applied"
<1> DEFINE n == Edit(p, q, op)
<1>1. /\ op.kind \in {"decide", "list", "upload", "apply"}
      /\ op.kind = "apply" => op.revision \in RevId
  BY OpKinds
<1>2. CASE op.kind = "decide"
  <2> DEFINE items == Decide(p.items, op.item, q)
  <2>1. n = [p EXCEPT !.items = items]
    BY <1>2 DEF Edit
  <2> HIDE DEF n, items
  <2>2. Good(n) /\ n.revisions = p.revisions
    BY <2>1, ItemsGood
  <2> QED BY <2>2 DEF n
<1>3. CASE op.kind = "list"
  <2>1. n = EnsureInitialRevision(p, q)
    BY <1>3 DEF Edit
  <2> HIDE DEF n
  <2>2. /\ Good(n)
        /\ \/ n = p
           \/ /\ DOMAIN p.revisions = {} /\ DOMAIN n.revisions = {Snapshot(q)}
              /\ n.revisions[Snapshot(q)].state = "applied"
    BY <2>1, EnsuredGood
  <2>3. Candidate(q) # Snapshot(q)
    BY RevisionIds
  <2> QED BY <2>2, <2>3 DEF n
<1>4. CASE op.kind = "upload"
  <2> DEFINE m   == EnsureInitialRevision(p, q)
             rev == NewRevision(m.active, "processing", << >>)
  <2>1. n = WithRevision(m, Candidate(q), rev)
    BY <1>4 DEF Edit, Upload
  <2> HIDE DEF n
  <2>2. /\ Good(m) /\ DOMAIN m.revisions # {}
        /\ \/ m = p
           \/ /\ DOMAIN p.revisions = {} /\ DOMAIN m.revisions = {Snapshot(q)}
              /\ m.revisions[Snapshot(q)].state = "applied"
    BY EnsuredGood
  <2> HIDE DEF m
  <2>3. IsRevision(rev) /\ rev.state = "processing"
    BY DEF IsRevision, NewRevision, States
  <2> HIDE DEF rev
  <2>4. Candidate(q) \in RevId /\ Candidate(q) # Snapshot(q)
    BY RevisionIds
  <2>5. Candidate(q) \notin DOMAIN m.revisions
    BY <2>2, <2>4
  <2>6. /\ Good(n)
        /\ DOMAIN n.revisions = DOMAIN m.revisions \cup {Candidate(q)}
        /\ n.revisions[Candidate(q)] = rev
        /\ \A i \in DOMAIN m.revisions \ {Candidate(q)} : n.revisions[i] = m.revisions[i]
    BY <2>1, <2>2, <2>3, <2>4, <2>5, PlacedGood
  <2> QED BY <1>4, <2>2, <2>3, <2>4, <2>5, <2>6 DEF n
<1>5. CASE op.kind = "apply"
  <2> DEFINE id == op.revision
  <2>1. n = Apply(p, id, q) /\ id \in DOMAIN p.revisions
    BY <1>5 DEF Edit, Accepts
  <2>2. CASE AlreadyApplied(p, id)
    <3>1. n = p
      BY <2>1, <2>2 DEF Apply
    <3> HIDE DEF n
    <3> QED BY <3>1 DEF n
  <2>3. CASE ~AlreadyApplied(p, id)
    <3>1. p.revisions[id].state = "ready" /\ p.active = p.revisions[id].pred
      BY <1>5, <2>3 DEF Accepts, Applicable
    <3>2. n = Promote(p, id, q)
      BY <2>1, <2>3 DEF Apply
    <3> HIDE DEF n
    <3>3. /\ Good(n) /\ DOMAIN n.revisions = DOMAIN p.revisions
          /\ n.revisions[id].state = "applied"
          /\ \A i \in DOMAIN p.revisions \ {id} : n.revisions[i] = p.revisions[i]
      BY <2>1, <3>1, <3>2, PromotedGood
    <3> QED BY <2>1, <3>1, <3>3 DEF n
  <2> QED BY <2>2, <2>3
<1> QED
  BY <1>1, <1>2, <1>3, <1>4, <1>5

\* A copy that nobody saves still fits when requests and builds only end, or a
\* build starts for a request that had not been carried out.
LEMMA FitsKept ==
  ASSUME NEW p, NEW handlers, NEW builds, NEW handlers2, NEW builds2,
         Fits(p, handlers, builds),
         \A q \in Requests :
           /\ handlers2[q].pc # "done" => handlers[q].pc # "done"
           /\ builds2[q].pc # "none" => builds[q].pc # "none" \/ handlers[q].pc # "done"
  PROVE  Fits(p, handlers2, builds2)
  BY DEF Fits

\* What a handler saves fits when the request is done.
LEMMA EditFits ==
  ASSUME NEW p, NEW n, NEW handlers, NEW builds, NEW handlers2, NEW builds2,
         NEW q \in Requests,
         Fits(p, handlers, builds), handlers[q].pc # "done",
         handlers2[q].pc = "done",
         \A r \in Requests \ {q} : handlers2[r] = handlers[r] /\ builds2[r] = builds[r],
         DOMAIN n.revisions \subseteq DOMAIN p.revisions \cup {Snapshot(q), Candidate(q)},
         Snapshot(q) \in DOMAIN n.revisions => n.revisions[Snapshot(q)].state = "applied",
         Candidate(q) \in DOMAIN n.revisions => n.revisions[Candidate(q)].state = "processing",
         \A i \in DOMAIN p.revisions :
           \/ n.revisions[i] = p.revisions[i]
           \/ p.revisions[i].state = "ready" /\ n.revisions[i].state = "applied"
  PROVE  Fits(n, handlers2, builds2)
<1>1. SUFFICES ASSUME NEW r \in Requests
      PROVE /\ handlers2[r].pc # "done" => {Snapshot(r), Candidate(r)} \cap DOMAIN n.revisions = {}
            /\ builds2[r].pc # "none" /\ Candidate(r) \in DOMAIN n.revisions =>
                 n.revisions[Candidate(r)].state = "processing"
            /\ Snapshot(r) \in DOMAIN n.revisions => n.revisions[Snapshot(r)].state = "applied"
  BY DEF Fits
<1>2. CASE r = q
  BY <1>2
<1>3. CASE r # q
  <2>1. /\ handlers2[r] = handlers[r] /\ builds2[r] = builds[r]
        /\ {Snapshot(r), Candidate(r)} \cap {Snapshot(q), Candidate(q)} = {}
    BY <1>3, RevisionIds
  <2>2. /\ Snapshot(r) \in DOMAIN n.revisions => Snapshot(r) \in DOMAIN p.revisions
        /\ Candidate(r) \in DOMAIN n.revisions => Candidate(r) \in DOMAIN p.revisions
    BY <2>1
  <2> QED BY <2>1, <2>2 DEF Fits
<1> QED
  BY <1>2, <1>3

\* What a comparison saves fits when it is over.
LEMMA BuildFits ==
  ASSUME NEW p, NEW n, NEW handlers, NEW builds, NEW builds2, NEW q \in Requests,
         Fits(p, handlers, builds), handlers[q].pc = "done",
         builds2[q].pc = "none", Candidate(q) \in DOMAIN p.revisions,
         \A r \in Requests \ {q} : builds2[r] = builds[r],
         DOMAIN n.revisions = DOMAIN p.revisions,
         \A i \in DOMAIN p.revisions \ {Candidate(q)} : n.revisions[i] = p.revisions[i]
  PROVE  Fits(n, handlers, builds2)
<1>1. SUFFICES ASSUME NEW r \in Requests
      PROVE /\ handlers[r].pc # "done" => {Snapshot(r), Candidate(r)} \cap DOMAIN n.revisions = {}
            /\ builds2[r].pc # "none" /\ Candidate(r) \in DOMAIN n.revisions =>
                 n.revisions[Candidate(r)].state = "processing"
            /\ Snapshot(r) \in DOMAIN n.revisions => n.revisions[Snapshot(r)].state = "applied"
  BY DEF Fits
<1>2. Snapshot(r) # Candidate(q) /\ (r # q => Candidate(r) # Candidate(q))
  BY RevisionIds
<1> QED
  BY <1>2 DEF Fits

-----------------------------------------------------------------------------
(***************************************************************************)
(* The steps                                                               *)
(***************************************************************************)

\* require answers from the stored document, or the handler ends.
LEMMA LoadKeeps ==
  ASSUME VInv, NEW q \in Requests, NEW op \in Ops, Load(q, op)
  PROVE  VInv'
<1>1. /\ UNCHANGED <<store, build, troubles, overlaid>>
      /\ \A r \in Requests \ {q} : req'[r] = req[r]
      /\ req' = [r \in Requests |-> req'[r]]
      /\ \/ req'[q].pc = "done"
         \/ /\ req'[q].pc = "loaded" /\ req'[q].mem = store /\ req'[q].op = op
            /\ Accepts(store, op)
      /\ req[q].pc = "new" /\ op \in Op
  BY RevisionsAssumption DEF Load, VInv, Idle
<1>2. \A p : Fits(p, req, build) => Fits(p, req', build')
  <2>1. \A r \in Requests : /\ req'[r].pc # "done" => req[r].pc # "done"
                            /\ build'[r].pc # "none" => build[r].pc # "none"
    BY <1>1
  <2> QED BY <2>1, FitsKept
<1>3. \A r \in Requests : SoundHandler(r, req', build')
  BY <1>1, <1>2 DEF VInv, SoundHandler
<1>4. \A r \in Requests : SoundBuild(r, req', build')
  BY <1>1, <1>2 DEF VInv, SoundBuild
<1>5. ProcessingHasBuilder'
  BY <1>1 DEF VInv, ProcessingHasBuilder
<1> QED
  BY <1>1, <1>2, <1>3, <1>4, <1>5 DEF VInv

\* Handlers and comparisons that end without a save, one by one or all at once.
LEMMA EndsKeep ==
  ASSUME VInv, UNCHANGED store,
         req' = [r \in Requests |-> req'[r]], build' = [r \in Requests |-> build'[r]],
         \A r \in Requests :
           /\ req'[r] = req[r] \/ req'[r].pc = "done"
           /\ build'[r] = build[r] \/ build'[r].pc = "none",
         troubles' \in Nat, overlaid' = overlaid,
         troubles' > 0 \/ (troubles' = troubles /\ build' = build)
  PROVE  VInv'
<1>1. \A p : Fits(p, req, build) => Fits(p, req', build')
  <2>1. \A r \in Requests : /\ req'[r].pc # "done" => req[r].pc # "done"
                            /\ build'[r].pc # "none" => build[r].pc # "none"
    OBVIOUS
  <2> QED BY <2>1, FitsKept
<1>2. \A r \in Requests : SoundHandler(r, req', build')
  BY <1>1 DEF VInv, SoundHandler
<1>3. \A r \in Requests : SoundBuild(r, req', build')
  BY <1>1 DEF VInv, SoundBuild
<1>4. ProcessingHasBuilder'
  BY DEF VInv, ProcessingHasBuilder
<1> QED
  BY <1>1, <1>2, <1>3, <1>4 DEF VInv

\* A handler saves.
LEMMA CommitKeeps ==
  ASSUME VInv, NEW q \in Requests, Commit(q) \/ CommitRejects(q)
  PROVE  VInv'
<1> DEFINE p  == req[q].mem
           op == req[q].op
           n  == Edit(p, q, op)
<1>1. /\ req[q].pc = "loaded" /\ build[q].pc = "none" /\ op \in Op
      /\ Good(p) /\ Fits(p, req, build) /\ Accepts(p, op)
  BY DEF Commit, CommitRejects, SavesEdit, VInv, SoundHandler
<1>2. /\ Good(n)
      /\ DOMAIN p.revisions \subseteq DOMAIN n.revisions
      /\ DOMAIN n.revisions \subseteq DOMAIN p.revisions \cup {Snapshot(q), Candidate(q)}
      /\ Snapshot(q) \in DOMAIN n.revisions => n.revisions[Snapshot(q)].state = "applied"
      /\ Candidate(q) \in DOMAIN n.revisions =>
           op.kind = "upload" /\ n.revisions[Candidate(q)].state = "processing"
      /\ \A i \in DOMAIN p.revisions :
           \/ n.revisions[i] = p.revisions[i]
           \/ p.revisions[i].state = "ready" /\ n.revisions[i].state = "applied"
  <2>1. {Snapshot(q), Candidate(q)} \cap DOMAIN p.revisions = {}
    BY <1>1 DEF Fits
  <2> HIDE DEF p, op
  <2> QED BY <1>1, <2>1, EditGood
<1>3. /\ store' = n /\ (overlaid' = (overlaid \/ p # store))
      /\ req' = [req EXCEPT ![q] = Idle]
      /\ \/ /\ troubles' = troubles
            /\ build' = IF op.kind = "upload"
                        THEN [build EXCEPT ![q] = [pc |-> "queued"]] ELSE build
         \/ troubles' = troubles + 1 /\ build' = build
  BY DEF Commit, CommitRejects, SavesEdit, Saves
<1> HIDE DEF n, p, op
<1>4. /\ req' = [r \in Requests |-> req'[r]] /\ build' = [r \in Requests |-> build'[r]]
      /\ req'[q].pc = "done" /\ build'[q].pc \in {"none", "queued"}
      /\ troubles' \in Nat
      /\ \/ troubles' > 0
         \/ troubles' = troubles /\ (op.kind = "upload" => build'[q].pc = "queued")
      /\ \A r \in Requests \ {q} : req'[r] = req[r] /\ build'[r] = build[r]
  BY <1>1, <1>3 DEF VInv, Idle
<1>5. Fits(n, req', build')
  <2>1. /\ req[q].pc # "done" /\ req'[q].pc = "done"
        /\ \A r \in Requests \ {q} : req'[r] = req[r] /\ build'[r] = build[r]
        /\ Candidate(q) \in DOMAIN n.revisions => n.revisions[Candidate(q)].state = "processing"
    BY <1>1, <1>2, <1>4
  <2> QED BY <1>1, <1>2, <2>1, EditFits
<1>6. \A c : Fits(c, req, build) => Fits(c, req', build')
  <2>1. \A r \in Requests :
          /\ req'[r].pc # "done" => req[r].pc # "done"
          /\ build'[r].pc # "none" => build[r].pc # "none" \/ req[r].pc # "done"
    BY <1>1, <1>4
  <2> QED BY <2>1, FitsKept
<1>7. \A r \in Requests : SoundHandler(r, req', build')
  BY <1>4, <1>6 DEF VInv, SoundHandler
<1>8. \A r \in Requests : SoundBuild(r, req', build')
  BY <1>4, <1>6 DEF VInv, SoundBuild
<1>9. ProcessingHasBuilder'
  <2>1. SUFFICES ASSUME NEW id \in DOMAIN n.revisions,
                        n.revisions[id].state = "processing", p = store, ~(troubles' > 0), ~overlaid
                 PROVE  \E r \in Requests :
                          id = Candidate(r) /\ build'[r].pc \in {"queued", "scanning"}
    BY <1>3 DEF ProcessingHasBuilder, VInv
  <2>2. CASE id \in DOMAIN p.revisions
    <3>1. p.revisions[id].state = "processing"
      BY <1>2, <2>1, <2>2
    <3>2. PICK r \in Requests : id = Candidate(r) /\ build[r].pc \in {"queued", "scanning"}
      BY <1>4, <2>1, <2>2, <3>1 DEF VInv, ProcessingHasBuilder
    <3> QED BY <1>1, <1>4, <3>2
  <2>3. CASE id = Candidate(q)
    BY <1>2, <1>4, <2>1, <2>3
  <2> QED BY <1>2, <2>1, <2>2, <2>3
<1> QED
  BY <1>2, <1>3, <1>4, <1>5, <1>7, <1>8, <1>9 DEF VInv

\* The comparison loads the document.
LEMMA BeginKeeps ==
  ASSUME VInv, NEW q \in Requests, Begin(q)
  PROVE  VInv'
<1>1. /\ UNCHANGED <<store, req, troubles, overlaid>>
      /\ \A r \in Requests \ {q} : build'[r] = build[r]
      /\ build' = [r \in Requests |-> build'[r]]
      /\ \/ build'[q].pc = "none" /\ Candidate(q) \notin DOMAIN store.revisions
         \/ /\ build'[q].pc = "scanning" /\ build'[q].mem = store
            /\ Candidate(q) \in DOMAIN store.revisions
      /\ build[q].pc = "queued"
  BY DEF Begin, VInv, NoBuild
<1>2. \A p : Fits(p, req, build) => Fits(p, req', build')
  <2>1. \A r \in Requests : /\ req'[r].pc # "done" => req[r].pc # "done"
                            /\ build'[r].pc # "none" => build[r].pc # "none"
    BY <1>1
  <2> QED BY <2>1, FitsKept
<1>3. \A r \in Requests : SoundHandler(r, req', build')
  BY <1>1, <1>2 DEF VInv, SoundHandler
<1>4. \A r \in Requests : SoundBuild(r, req', build')
  BY <1>1, <1>2 DEF VInv, SoundBuild
<1>5. ProcessingHasBuilder'
  BY <1>1 DEF VInv, ProcessingHasBuilder
<1> QED
  BY <1>1, <1>2, <1>3, <1>4, <1>5 DEF VInv

\* A comparison saves the copy it loaded, its own revision decided.
LEMMA BuildKeeps ==
  ASSUME VInv, NEW q \in Requests, NEW n, build[q].pc = "scanning",
         Good(n), DOMAIN n.revisions = DOMAIN build[q].mem.revisions,
         n.revisions[Candidate(q)].state # "processing",
         \A i \in DOMAIN n.revisions \ {Candidate(q)} :
           n.revisions[i] = build[q].mem.revisions[i],
         Saves(build[q].mem, n), build' = [build EXCEPT ![q] = NoBuild],
         UNCHANGED <<req, troubles>>
  PROVE  VInv'
<1> DEFINE p == build[q].mem
<1>1. /\ Good(p) /\ Fits(p, req, build) /\ Candidate(q) \in DOMAIN p.revisions
      /\ req[q].pc = "done"
  BY DEF VInv, SoundBuild, SoundHandler
<1>2. /\ build' = [r \in Requests |-> build'[r]] /\ build'[q].pc = "none"
      /\ \A r \in Requests \ {q} : build'[r] = build[r]
      /\ req' = req /\ store' = n /\ (overlaid' = (overlaid \/ p # store))
      /\ troubles' = troubles
  BY DEF VInv, NoBuild, Saves
<1> HIDE DEF p
<1>3. Fits(n, req', build')
  BY <1>1, <1>2, BuildFits DEF p
<1>4. \A c : Fits(c, req, build) => Fits(c, req', build')
  <2>1. \A r \in Requests : /\ req'[r].pc # "done" => req[r].pc # "done"
                            /\ build'[r].pc # "none" => build[r].pc # "none"
    BY <1>2
  <2> QED BY <2>1 DEF Fits
<1>5. \A r \in Requests : SoundHandler(r, req', build')
  BY <1>2, <1>4 DEF VInv, SoundHandler
<1>6. \A r \in Requests : SoundBuild(r, req', build')
  BY <1>2, <1>4 DEF VInv, SoundBuild
<1>7. ProcessingHasBuilder'
  <2>1. SUFFICES ASSUME NEW id \in DOMAIN n.revisions,
                        n.revisions[id].state = "processing", p = store, ~(troubles > 0), ~overlaid
                 PROVE  \E r \in Requests :
                          id = Candidate(r) /\ build'[r].pc \in {"queued", "scanning"}
    BY <1>2 DEF ProcessingHasBuilder, VInv
  <2>2. id # Candidate(q) /\ id \in DOMAIN p.revisions /\ p.revisions[id].state = "processing"
    BY <2>1 DEF p
  <2>3. PICK r \in Requests : id = Candidate(r) /\ build[r].pc \in {"queued", "scanning"}
    BY <2>1, <2>2 DEF VInv, ProcessingHasBuilder
  <2> QED BY <1>2, <2>2, <2>3
<1> QED
  BY <1>2, <1>3, <1>5, <1>6, <1>7 DEF VInv

\* The comparison succeeds, or a stage of it throws.
LEMMA DecidedKeeps ==
  ASSUME VInv, NEW q \in Requests, Ready(q) \/ Stopped(q)
  PROVE  VInv'
<1> DEFINE p == build[q].mem
<1>1. /\ build[q].pc = "scanning" /\ build' = [build EXCEPT ![q] = NoBuild]
      /\ UNCHANGED <<req, troubles>>
  BY DEF Ready, Stopped
<1>2. /\ Good(p) /\ Fits(p, req, build) /\ Candidate(q) \in DOMAIN p.revisions
      /\ p.revisions[Candidate(q)].state = "processing"
  BY <1>1 DEF VInv, SoundBuild, Fits
<1>3. CASE Stopped(q)
  <2> DEFINE n == [p EXCEPT !.revisions[Candidate(q)].state = "failed"]
  <2>1. Saves(p, n)
    BY <1>3 DEF Stopped
  <2> HIDE DEF p
  <2>2. /\ Good(n) /\ DOMAIN n.revisions = DOMAIN p.revisions
        /\ n.revisions[Candidate(q)].state = "failed"
        /\ \A i \in DOMAIN p.revisions \ {Candidate(q)} : n.revisions[i] = p.revisions[i]
    BY <1>2, FailedGood
  <2> HIDE DEF n
  <2> QED BY <1>1, <2>1, <2>2, BuildKeeps DEF p
<1>4. CASE Ready(q)
  <2>1. PICK found \in Scans : Saves(p, Compared(p, q, found))
    BY <1>4 DEF Ready
  <2> DEFINE n    == Compared(p, q, found)
             prev == p.revisions[p.active].items
             cand == ItemsOf(q, found)
             rev  == [pred |-> p.active, state |-> "ready", items |-> Carried(prev, cand),
                      changes |-> Compare(prev, cand)]
  <2>2. n = WithRevision(p, Candidate(q), rev)
    BY DEF Compared
  <2>3. IsRevision(rev) /\ rev.state = "ready"
    BY DEF IsRevision, States
  <2>4. Candidate(q) \in RevId
    BY RevisionIds
  <2> HIDE DEF p, rev, n
  <2>5. /\ Good(n)
        /\ DOMAIN n.revisions = DOMAIN p.revisions \cup {Candidate(q)}
        /\ n.revisions[Candidate(q)] = rev
        /\ \A i \in DOMAIN p.revisions \ {Candidate(q)} : n.revisions[i] = p.revisions[i]
    BY <1>2, <2>2, <2>3, <2>4, PlacedGood
  <2>6. DOMAIN n.revisions = DOMAIN p.revisions /\ Saves(p, n)
    BY <1>2, <2>1, <2>5 DEF n
  <2> QED BY <1>1, <2>3, <2>5, <2>6, BuildKeeps DEF p
<1> QED
  BY <1>3, <1>4

-----------------------------------------------------------------------------
(***************************************************************************)
(* Comparisons                                                             *)
(***************************************************************************)

\* Cases no two of which have the same id.
Listed(items) ==
  /\ items \in Seq(Item)
  /\ \A a, b \in DOMAIN items : items[a].id = items[b].id => a = b

\* A candidate claims at most one of the previous cases, and none is claimed
\* by two.
Matching(m, prev, cand) ==
  /\ m \in [DOMAIN cand -> DOMAIN prev \cup {0}]
  /\ \A c, d \in DOMAIN cand : m[c] = m[d] => m[c] = 0 \/ c = d

\* What a comparison says of the cases of both revisions.
Tells(changes, prev, items) ==
  /\ IsFiniteSet(changes)
  /\ \A k \in DOMAIN prev :
       Cardinality({ch \in changes : ch.before = prev[k].id}) = 1
  /\ \A k \in DOMAIN items :
       Cardinality({ch \in changes : ch.after = items[k].id}) = 1
  /\ \A ch \in changes :
       /\ ch.before # NoItem /\ ch.after # NoItem =>
            \E b \in ToSet(prev), a \in ToSet(items) :
              b.id = ch.before /\ a.id = ch.after /\ a.case = b.case
       /\ Affects(ch) =>
            \E k \in DOMAIN items :
              items[k].id = ch.after /\ items[k].stable = ch.stable

\* A set of numbers has a least one, which is what Min chooses.
LEMMA LeastFound ==
  ASSUME NEW S, S \subseteq Nat, S # {}
  PROVE  Min(S) \in S
<1> DEFINE R == OpToRel(<, Nat)
<1>1. \E x \in S : \A y \in S : ~ (<<y, x>> \in R)
  <2> HIDE DEF R
  <2>1. IsWellFoundedOn(R, Nat)
    BY NatLessThanWellFounded DEF R
  <2> QED
    BY <2>1, WFMin
<1>2. PICK x \in S : \A y \in S : ~ (<<y, x>> \in R)
  BY <1>1
<1>3. \A y \in S : x <= y
  <2> SUFFICES ASSUME NEW y \in S, y < x PROVE FALSE
    OBVIOUS
  <2>1. <<y, x>> \in R
    BY DEF OpToRel
  <2> QED
    BY <1>2, <2>1
<1> QED
  BY <1>3 DEF Min

\* Each pass finds a case that is still free, or none.
LEMMA FindFree ==
  ASSUME NEW prev \in Seq(Item), NEW m, NEW c,
         NEW pass \in {"stable_id", "name", "proximity"}
  PROVE  Find(pass, prev, m, c) \in Free(prev, m) \cup {0}
<1>1. Free(prev, m) \subseteq Nat
  <2>1. DOMAIN prev = 1 .. Len(prev) /\ Len(prev) \in Nat
    OBVIOUS
  <2> QED
    BY <2>1 DEF Free
<1>2. ByStableId(prev, m, c) \in Free(prev, m) \cup {0}
  BY DEF ByStableId
<1>3. ByName(prev, m, c) \in Free(prev, m) \cup {0}
  <2> DEFINE same == {i \in Free(prev, m) : prev[i].name = c.name}
  <2>1. same # {} => Min(same) \in same
    <3>1. same \subseteq Nat
      BY <1>1
    <3> HIDE DEF same
    <3> QED
      BY <3>1, LeastFound
  <2> QED
    BY <2>1 DEF ByName
<1>4. ByProximity(prev, m, c) \in Free(prev, m) \cup {0}
  <2> DEFINE near == {i \in Free(prev, m) : /\ CategoryOf[prev[i].name] = CategoryOf[c.name]
                                            /\ Close(prev[i], c)}
  <2>1. near \subseteq Free(prev, m)
    OBVIOUS
  <2>2. ByProximity(prev, m, c) = IF Cardinality(near) = 1 THEN CHOOSE i \in near : TRUE ELSE 0
    BY DEF ByProximity
  <2> HIDE DEF near
  <2>3. Cardinality({}) = 0
    BY FS_EmptySet
  <2>4. near = {} => Cardinality(near) = 0
    BY <2>3, Zenon
  <2>5. Cardinality(near) = 1 => near # {}
    BY <2>4
  <2> QED
    BY <2>1, <2>2, <2>5
<1> QED
  BY <1>2, <1>3, <1>4 DEF Find

\* A step of a pass keeps the matching one to one.
LEMMA ClaimMatches ==
  ASSUME NEW prev \in Seq(Item), NEW cand \in Seq(Item), NEW m,
         Matching(m, prev, cand), NEW c \in DOMAIN cand,
         NEW pass \in {"stable_id", "name", "proximity"}
  PROVE  Matching(Claim(pass, prev, cand, m, c), prev, cand)
<1> DEFINE i == Find(pass, prev, m, cand[c])
           n == [m EXCEPT ![c] = i]
<1>1. CASE m[c] # 0
  BY <1>1 DEF Claim
<1>2. CASE m[c] = 0
  <2>1. i \in Free(prev, m) \cup {0}
    BY FindFree
  <2>2. i \in DOMAIN prev \cup {0} /\ (i # 0 => \A d \in DOMAIN cand : m[d] # i)
    BY <2>1 DEF Free, Matching
  <2>3. Claim(pass, prev, cand, m, c) = n
    BY <1>2 DEF Claim
  <2> HIDE DEF i
  <2>4. Matching(n, prev, cand)
    BY <2>2 DEF Matching
  <2> QED
    BY <2>3, <2>4
<1> QED
  BY <1>1, <1>2

\* A pass over the candidates keeps the matching one to one.
LEMMA PassMatches ==
  ASSUME NEW prev \in Seq(Item), NEW cand \in Seq(Item), NEW start,
         Matching(start, prev, cand),
         NEW pass \in {"stable_id", "name", "proximity"}
  PROVE  Matching(Pass(pass, prev, cand, start), prev, cand)
<1> DEFINE N == Len(cand)
           A == {m \in [DOMAIN cand -> DOMAIN prev \cup {0}] : Matching(m, prev, cand)}
           Next1(m, n) == Claim(pass, prev, cand, m, n)
           Solves(f) == f = [n \in 0 .. N |-> IF n = 0 THEN start ELSE Next1(f[n - 1], n)]
           steps == CHOOSE f : Solves(f)
<1>1. N \in Nat /\ DOMAIN cand = 1 .. N
  OBVIOUS
<1>2. Pass(pass, prev, cand, start) = steps[N]
  BY DEF Pass
<1>3. start \in A /\ \A m : m \in A <=> Matching(m, prev, cand)
  BY DEF Matching
<1> HIDE DEF A, N
<1>4. \A m \in A, n \in 1 .. N : Next1(m, n) \in A
  BY <1>1, <1>3, ClaimMatches
<1> HIDE DEF Next1
<1>5. Solves(steps)
  <2> DEFINE next == [p \in A \X (1 .. N) |-> Next1(p[1], p[2])]
  <2>1. Advances(next, N, A) /\ \A m \in A, n \in 1 .. N : next[<<m, n>>] = Next1(m, n)
    BY <1>4 DEF Advances
  <2> HIDE DEF next
  <2>2. PICK g : Solution(g, N, A, start, next)
    BY <1>1, <1>3, <2>1, Recurrence
  <2>3. /\ g \in [0 .. N -> A] /\ g[0] = start
        /\ \A n \in 1 .. N : g[n - 1] \in A /\ g[n] = Next1(g[n - 1], n)
    <3>1. /\ g \in [0 .. N -> A] /\ g[0] = start
          /\ \A n \in 1 .. N : g[n] = next[<<g[n - 1], n>>]
      BY <2>2 DEF Solution
    <3>2. \A n \in 1 .. N : n - 1 \in 0 .. N
      BY <1>1
    <3>3. \A n \in 1 .. N : g[n - 1] \in A
      BY <3>1, <3>2
    <3> QED
      BY <2>1, <3>1, <3>3
  <2>4. Solves(g)
    <3>1. \A n \in 0 .. N : n # 0 => n \in 1 .. N
      BY <1>1
    <3> QED
      BY <2>3, <3>1
  <2> HIDE DEF Solves
  <2> QED
    BY <2>4
<1> HIDE DEF steps
<1>6. steps[0] = start /\ \A n \in 1 .. N : steps[n] = Next1(steps[n - 1], n)
  BY <1>1, <1>5
<1> HIDE DEF Solves
<1>7. \A n \in 0 .. N : steps[n] \in A
  <2>1. \A n \in 1 .. N : steps[n - 1] \in A => steps[n] \in A
    BY <1>4, <1>6
  <2> QED
    BY <1>1, <1>3, <1>6, <2>1, AllValues
<1> QED
  BY <1>1, <1>2, <1>3, <1>7

\* The three passes match one to one.
LEMMA MatchesFit ==
  ASSUME NEW prev \in Seq(Item), NEW cand \in Seq(Item)
  PROVE  Matching(Matches(prev, cand), prev, cand)
<1> DEFINE none == [c \in DOMAIN cand |-> 0]
           one  == Pass("stable_id", prev, cand, none)
           two  == Pass("name", prev, cand, one)
<1>1. Matching(none, prev, cand)
  BY DEF Matching
<1> HIDE DEF none
<1>2. Matching(one, prev, cand)
  BY <1>1, PassMatches
<1> HIDE DEF one
<1>3. Matching(two, prev, cand)
  BY <1>2, PassMatches
<1> HIDE DEF two
<1>4. Matching(Pass("proximity", prev, cand, two), prev, cand)
  BY <1>3, PassMatches
<1> QED
  BY <1>4 DEF Matches, none, one, two

---------------------------------------------------------------------------
\* The values of a function on a finite set are finitely many.
LEMMA ImageFinite ==
  ASSUME NEW f, IsFiniteSet(DOMAIN f), f = [x \in DOMAIN f |-> f[x]]
  PROVE  IsFiniteSet({f[x] : x \in DOMAIN f})
<1>1. f \in Surjection(DOMAIN f, {f[x] : x \in DOMAIN f})
  BY DEF Surjection
<1> QED
  BY <1>1, FS_Surjection

\* A carried case keeps its id, takes the stable id of the case it was matched
\* with, and is a case.
LEMMA CarryFields ==
  ASSUME NEW before \in Item, NEW after \in Item
  PROVE  LET item == CarryRecord(before, after)
         IN  /\ item \in Item /\ item.id = after.id
             /\ item.stable = before.stable /\ item.case = before.case
  BY DEF CarryRecord, Item

\* What Carried makes of each candidate.
LEMMA CarriedFields ==
  ASSUME NEW prev \in Seq(Item), NEW cand, Listed(cand)
  PROVE  LET m     == Matches(prev, cand)
             items == Carried(prev, cand)
         IN  /\ Listed(items) /\ DOMAIN items = DOMAIN cand
             /\ \A c \in DOMAIN cand :
                  /\ items[c].id = cand[c].id
                  /\ m[c] # 0 => /\ m[c] \in DOMAIN prev
                                 /\ items[c].stable = prev[m[c]].stable
                                 /\ items[c].case = prev[m[c]].case
<1> DEFINE m     == Matches(prev, cand)
           items == Carried(prev, cand)
<1>1. cand \in Seq(Item) /\ DOMAIN cand = 1 .. Len(cand) /\ Len(cand) \in Nat
  BY DEF Listed
<1>2. m \in [DOMAIN cand -> DOMAIN prev \cup {0}]
  BY <1>1, MatchesFit DEF Matching
<1>3. items = [c \in DOMAIN cand |-> IF m[c] = 0 THEN cand[c] ELSE CarryRecord(prev[m[c]], cand[c])]
  BY DEF Carried
<1> HIDE DEF m, items
<1>4. ASSUME NEW c \in DOMAIN cand
      PROVE  /\ items[c] \in Item /\ items[c].id = cand[c].id
             /\ m[c] # 0 => /\ m[c] \in DOMAIN prev
                            /\ items[c].stable = prev[m[c]].stable
                            /\ items[c].case = prev[m[c]].case
  <2>1. cand[c] \in Item
    BY <1>1
  <2>2. CASE m[c] = 0
    BY <1>3, <2>1, <2>2
  <2>3. CASE m[c] # 0
    <3>1. m[c] \in DOMAIN prev /\ prev[m[c]] \in Item
      BY <1>2, <2>3
    <3> QED
      BY <1>3, <2>1, <2>3, <3>1, CarryFields
  <2> QED
    BY <2>2, <2>3
<1>5. items \in Seq(Item) /\ DOMAIN items = DOMAIN cand
  <2>1. items \in [1 .. Len(cand) -> Item]
    BY <1>1, <1>3, <1>4
  <2> QED
    BY <1>1, <1>3, <2>1
<1>6. Listed(items)
  BY <1>4, <1>5 DEF Listed
<1> QED
  BY <1>4, <1>5, <1>6 DEF m, items

\* The changes of a comparison: one per candidate, one per case left over.
THEOREM CompareTells ==
  ASSUME NEW prev, Listed(prev), NEW cand, Listed(cand)
  PROVE  Tells(Compare(prev, cand), prev, Carried(prev, cand))
<1> DEFINE m     == Matches(prev, cand)
           items == Carried(prev, cand)
           Of(c) == IF m[c] = 0 THEN RippleChange("added", cand[c].stable, NoItem, cand[c].id)
                    ELSE RippleChange(Kind(prev[m[c]], cand[c]), prev[m[c]].stable,
                                      prev[m[c]].id, cand[c].id)
           Left(i) == RippleChange("removed", prev[i].stable, prev[i].id, NoItem)
           C == DOMAIN cand
           L == DOMAIN prev \ {m[c] : c \in C}
           changes == {Of(c) : c \in C} \cup {Left(i) : i \in L}
<1>1. /\ prev \in Seq(Item) /\ DOMAIN prev = 1 .. Len(prev) /\ Len(prev) \in Nat
      /\ cand \in Seq(Item) /\ C = 1 .. Len(cand) /\ Len(cand) \in Nat
  BY DEF Listed
<1>2. Matching(m, prev, cand)
  BY <1>1, MatchesFit
<1>3. /\ DOMAIN items = C
      /\ \A c \in C : /\ items[c].id = cand[c].id
                      /\ m[c] # 0 => /\ m[c] \in DOMAIN prev
                                     /\ items[c].stable = prev[m[c]].stable
                                     /\ items[c].case = prev[m[c]].case
  BY <1>1, CarriedFields
<1>4. Compare(prev, cand) = changes
  BY <1>2 DEF Compare, Free, Matching
<1>5. /\ \A c \in C : cand[c].id # NoItem
      /\ \A i \in DOMAIN prev : prev[i].id # NoItem
  <2>1. \A item \in Item : item.id # NoItem
    BY DEF NoItem, ItemId, Item
  <2>2. (\A c \in C : cand[c] \in Item) /\ \A i \in DOMAIN prev : prev[i] \in Item
    BY <1>1
  <2> QED
    BY <2>1, <2>2
<1>6. /\ \A c \in C : /\ Of(c).after = cand[c].id
                      /\ m[c] = 0 => Of(c).before = NoItem /\ Of(c).kind = "added"
                      /\ m[c] # 0 => /\ Of(c).before = prev[m[c]].id
                                     /\ Of(c).stable = prev[m[c]].stable
      /\ \A i \in L : /\ Left(i).before = prev[i].id /\ Left(i).after = NoItem
                      /\ Left(i).kind = "removed"
  BY DEF RippleChange
<1> HIDE DEF items, Of, Left
<1>7. IsFiniteSet(changes)
  <2>1. IsFiniteSet(C) /\ IsFiniteSet(DOMAIN prev)
    BY <1>1, FS_Interval
  <2>2. IsFiniteSet(L)
    BY <2>1, FS_Subset
  <2>3. IsFiniteSet({Of(c) : c \in C}) /\ IsFiniteSet({Left(i) : i \in L})
    <3> DEFINE f == [c \in C |-> Of(c)]
               g == [i \in L |-> Left(i)]
    <3> HIDE DEF C, L
    <3>1. {Of(c) : c \in C} = {f[c] : c \in C} /\ {Left(i) : i \in L} = {g[i] : i \in L}
      OBVIOUS
    <3>2. DOMAIN f = C /\ DOMAIN g = L /\ f = [c \in C |-> f[c]] /\ g = [i \in L |-> g[i]]
      OBVIOUS
    <3> HIDE DEF f, g
    <3> QED
      BY <2>1, <2>2, <3>1, <3>2, ImageFinite
  <2> QED
    BY <2>3, FS_Union
<1>8. ASSUME NEW k \in DOMAIN prev
      PROVE  \E x : {ch \in changes : ch.before = prev[k].id} = {x}
  <2>1. CASE k \in L
    <3>1. \A i \in L : Left(i).before = prev[k].id => i = k
      BY <1>6 DEF Listed
    <3>2. \A c \in C : Of(c).before # prev[k].id
      BY <1>2, <1>5, <1>6, <2>1 DEF Listed, Matching
    <3>3. {ch \in changes : ch.before = prev[k].id} = {Left(k)}
      BY <1>6, <2>1, <3>1, <3>2
    <3> QED
      BY <3>3
  <2>2. CASE k \notin L
    <3>1. PICK d \in C : m[d] = k
      BY <2>2
    <3>2. k # 0
      BY <1>1
    <3>3. \A c \in C : Of(c).before = prev[k].id => c = d
      BY <1>2, <1>5, <1>6, <3>1, <3>2 DEF Listed, Matching
    <3>4. \A i \in L : Left(i).before # prev[k].id
      BY <1>6, <2>2 DEF Listed
    <3>5. {ch \in changes : ch.before = prev[k].id} = {Of(d)}
      BY <1>6, <3>1, <3>2, <3>3, <3>4
    <3> QED
      BY <3>5
  <2> QED
    BY <2>1, <2>2
<1>9. ASSUME NEW k \in C
      PROVE  \E x : {ch \in changes : ch.after = items[k].id} = {x}
  <2>1. \A c \in C : Of(c).after = items[k].id => c = k
    BY <1>3, <1>6 DEF Listed
  <2>2. \A i \in L : Left(i).after # items[k].id
    BY <1>3, <1>5, <1>6
  <2>3. {ch \in changes : ch.after = items[k].id} = {Of(k)}
    BY <1>3, <1>6, <2>1, <2>2
  <2> QED
    BY <2>3
<1>10. ASSUME NEW ch \in changes, ch.before # NoItem, ch.after # NoItem
       PROVE  \E b \in ToSet(prev), a \in ToSet(items) :
                b.id = ch.before /\ a.id = ch.after /\ a.case = b.case
  <2>1. PICK c \in C : ch = Of(c) /\ m[c] # 0
    BY <1>6, <1>10
  <2>2. m[c] \in DOMAIN prev
    BY <1>3, <2>1
  <2>3. prev[m[c]] \in ToSet(prev) /\ items[c] \in ToSet(items)
    BY <1>3, <2>2 DEF ToSet
  <2>4. /\ prev[m[c]].id = ch.before /\ items[c].id = ch.after
        /\ items[c].case = prev[m[c]].case
    BY <1>3, <1>6, <2>1
  <2> QED
    BY <2>3, <2>4
<1>11. ASSUME NEW ch \in changes, Affects(ch)
       PROVE  \E k \in C : items[k].id = ch.after /\ items[k].stable = ch.stable
  <2>1. PICK c \in C : ch = Of(c) /\ m[c] # 0
    BY <1>6, <1>11 DEF Affects
  <2> QED
    BY <1>3, <1>6, <2>1
<1> HIDE DEF changes, m, C
<1>12. \A S : (\E x : S = {x}) => Cardinality(S) = 1
  BY FS_Singleton
<1>13. /\ \A k \in DOMAIN prev : Cardinality({ch \in changes : ch.before = prev[k].id}) = 1
       /\ \A k \in C : Cardinality({ch \in changes : ch.after = items[k].id}) = 1
  <2>1. ASSUME NEW k \in DOMAIN prev
        PROVE  Cardinality({ch \in changes : ch.before = prev[k].id}) = 1
    BY <1>8, <1>12
  <2>2. ASSUME NEW k \in C
        PROVE  Cardinality({ch \in changes : ch.after = items[k].id}) = 1
    BY <1>9, <1>12
  <2> QED
    BY <2>1, <2>2
<1>14. Tells(changes, prev, items)
  BY <1>3, <1>7, <1>10, <1>11, <1>13 DEF Tells
<1> QED
  BY <1>4, <1>14 DEF items

-----------------------------------------------------------------------------
(***************************************************************************)
(* What an application makes of the cases                                  *)
(***************************************************************************)

\* applyDisposition gives a case again, and nobody but the actor has acted.
LEMMA AppliedFields ==
  ASSUME NEW case \in Case, NEW change \in Change
  PROVE  LET n == ApplyDisposition(case, change)
         IN  /\ n \in Case
             /\ Muted(case, change) => n = case
             /\ ~Muted(case, change) =>
                  /\ n.status = change.status
                  /\ HasHumanDecision(n) <=> HasHumanDecision(case) \/ change.actor \in Humans
<1>1. CASE Muted(case, change)
  BY <1>1 DEF ApplyDisposition
<1>2. CASE ~Muted(case, change)
  <2> DEFINE e == [by |-> change.by, actor |-> change.actor, action |-> "status_change",
                   from |-> case.status, to |-> change.status, docs |-> change.docs]
             n == Record(case, change)
  <2>1. case.trail \in Seq(Event) /\ case.status \in Statuses /\ change.status \in Statuses
    BY DEF Case, Change
  <2>2. e \in Event /\ e.actor = change.actor
    BY <2>1 DEF Event, Change, Actions
  <2>3. n = Moved(case, change.status, Append(case.trail, e))
    BY DEF Record, Moved
  <2> HIDE DEF e, n
  <2>4. Append(case.trail, e) \in Seq(Event)
    BY <2>1, <2>2, AppendEvent
  <2>5. n \in Case /\ n.status = change.status /\ n.trail = Append(case.trail, e)
    BY <2>1, <2>3, <2>4, MovedFields
  <2>6. HasHumanDecision(n) <=> HasHumanDecision(case) \/ change.actor \in Humans
    <3>1. /\ Len(case.trail) \in Nat /\ Len(n.trail) = Len(case.trail) + 1
          /\ n.trail[Len(case.trail) + 1] = e
          /\ \A i \in 1 .. Len(case.trail) : n.trail[i] = case.trail[i]
      BY <2>1, <2>2, <2>5, AppendEvent
    <3> QED
      BY <2>2, <3>1 DEF HasHumanDecision
  <2> QED
    BY <1>2, <2>5, <2>6 DEF ApplyDisposition, n
<1> QED
  BY <1>1, <1>2

\* A case reopens at the first change that affects it, unless a person has
\* acted on it: then it stays what it is.
LEMMA ReopenedFields ==
  ASSUME NEW case \in Case, NEW changes \in Nat, NEW by \in Requests
  PROVE  LET n == Reopened(case, changes, by)
         IN  /\ n \in Case
             /\ n.status = IF changes > 0 /\ ~HasHumanDecision(case)
                           THEN "reopened_by_revision" ELSE case.status
<1> DEFINE Once(n) == ApplyDisposition(n, ReopenedByRevision(by))
           Fine(n) == /\ n \in Case
                      /\ HasHumanDecision(n) <=> HasHumanDecision(case)
                      /\ HasHumanDecision(case) => n = case
           A == {n \in Case : Fine(n)}
           Solves(f) == f = [n \in 0 .. changes |-> IF n = 0 THEN case ELSE Once(f[n - 1])]
           after == CHOOSE f : Solves(f)
<1>1. Reopened(case, changes, by) = after[changes]
  BY DEF Reopened
<1>2. ASSUME NEW n \in Case
      PROVE  /\ Once(n) \in Case
             /\ HasHumanDecision(n) => Once(n) = n
             /\ ~HasHumanDecision(n) => /\ Once(n).status = "reopened_by_revision"
                                        /\ ~HasHumanDecision(Once(n))
  <2>1. /\ ReopenedByRevision(by) \in Change /\ ReopenedByRevision(by).actor = "system"
        /\ ReopenedByRevision(by).status = "reopened_by_revision"
    BY DEF ReopenedByRevision, Change, Actors, Machines, Statuses
  <2>2. Muted(n, ReopenedByRevision(by)) <=> HasHumanDecision(n)
    BY <2>1 DEF Muted, Machines
  <2> QED
    BY <2>1, <2>2, AppliedFields DEF Humans
<1> HIDE DEF Once
<1>3. \A n \in A : Once(n) \in A
  BY <1>2
<1>4. case \in A
  OBVIOUS
<1>5. Solves(after)
  <2> DEFINE next == [p \in A \X (1 .. changes) |-> Once(p[1])]
  <2>1. Advances(next, changes, A) /\ \A n \in A, k \in 1 .. changes : next[<<n, k>>] = Once(n)
    <3> HIDE DEF A
    <3> QED
      BY <1>3 DEF Advances
  <2> HIDE DEF next, A
  <2>2. PICK g : Solution(g, changes, A, case, next)
    BY <1>4, <2>1, Recurrence
  <2>3. /\ g \in [0 .. changes -> A] /\ g[0] = case
        /\ \A n \in 1 .. changes : g[n] = Once(g[n - 1])
    <3>1. /\ g \in [0 .. changes -> A] /\ g[0] = case
          /\ \A n \in 1 .. changes : g[n] = next[<<g[n - 1], n>>]
      BY <2>2 DEF Solution
    <3>2. \A n \in 1 .. changes : n - 1 \in 0 .. changes
      OBVIOUS
    <3>3. \A n \in 1 .. changes : g[n - 1] \in A
      BY <3>1, <3>2
    <3> QED
      BY <2>1, <3>1, <3>3
  <2>4. Solves(g)
    <3>1. \A n \in 0 .. changes : n # 0 => n \in 1 .. changes
      OBVIOUS
    <3> QED
      BY <2>3, <3>1
  <2> HIDE DEF Solves
  <2> QED
    BY <2>4
<1> HIDE DEF after
<1>6. after[0] = case /\ \A n \in 1 .. changes : after[n] = Once(after[n - 1])
  BY <1>5
<1> HIDE DEF Solves
<1>7. \A n \in 0 .. changes : after[n] \in A
  <2>1. \A n \in 1 .. changes : after[n - 1] \in A => after[n] \in A
    BY <1>3, <1>6
  <2> HIDE DEF A
  <2> QED
    BY <1>4, <1>6, <2>1, AllValues
<1>8. after[changes] \in Case /\ (HasHumanDecision(case) => after[changes] = case)
  BY <1>7
<1>9. ASSUME changes > 0, ~HasHumanDecision(case)
      PROVE  after[changes].status = "reopened_by_revision"
  <2>1. changes \in 1 .. changes /\ changes - 1 \in 0 .. changes
    BY <1>9
  <2>2. after[changes - 1] \in Case /\ ~HasHumanDecision(after[changes - 1])
    BY <1>7, <1>9, <2>1
  <2> QED
    BY <1>2, <1>6, <2>1, <2>2
<1>10. changes = 0 => after[changes] = case
  BY <1>6
<1> QED
  BY <1>1, <1>8, <1>9, <1>10

\* The promoted cases are those of the comparison, some of them reopened.
LEMMA PromotedFields ==
  ASSUME NEW items, Listed(items), NEW changes, IsFiniteSet(changes),
         NEW by \in Requests
  PROVE  LET n == Promoted(items, changes, by)
         IN  /\ Listed(n) /\ DOMAIN n = DOMAIN items
             /\ StableIdsDiffer(items) =>
                  \A k \in DOMAIN items :
                    n[k].case.status =
                      IF /\ \E ch \in changes : Affects(ch) /\ ch.stable = items[k].stable
                         /\ ~HasHumanDecision(items[k].case)
                      THEN "reopened_by_revision" ELSE items[k].case.status
<1> DEFINE n == Promoted(items, changes, by)
           Hits(k) == {change \in changes : Affects(change) /\ change.stable = items[k].stable}
           Later(k) == \E j \in DOMAIN items : j > k /\ items[j].stable = items[k].stable
           Again(k) == Reopened(items[k].case, Cardinality(Hits(k)), by)
<1>1. items \in Seq(Item) /\ DOMAIN items = 1 .. Len(items) /\ Len(items) \in Nat
  BY DEF Listed
<1>2. n = [k \in DOMAIN items |-> IF Later(k) THEN items[k]
                                  ELSE [items[k] EXCEPT !.case = Again(k)]]
  BY DEF Promoted
<1>3. ASSUME NEW k \in DOMAIN items
      PROVE  /\ Cardinality(Hits(k)) \in Nat
             /\ Cardinality(Hits(k)) > 0 <=> Hits(k) # {}
  <2>1. IsFiniteSet(Hits(k))
    BY FS_Subset
  <2> HIDE DEF Hits
  <2>2. Cardinality(Hits(k)) \in Nat /\ (Cardinality(Hits(k)) = 0 <=> Hits(k) = {})
    BY <2>1, FS_EmptySet, FS_CardinalityType
  <2> QED
    BY <2>2
<1>4. ASSUME NEW k \in DOMAIN items
      PROVE  /\ items[k] \in Item /\ Again(k) \in Case
             /\ Again(k).status = IF Hits(k) # {} /\ ~HasHumanDecision(items[k].case)
                                  THEN "reopened_by_revision" ELSE items[k].case.status
  <2>1. items[k] \in Item
    BY <1>1
  <2>2. items[k].case \in Case
    BY <2>1 DEF Item
  <2> HIDE DEF Hits
  <2> QED
    BY <1>3, <2>1, <2>2, ReopenedFields
<1> HIDE DEF n, Later, Again, Hits
<1>5. ASSUME NEW k \in DOMAIN items
      PROVE  /\ n[k] \in Item /\ n[k].id = items[k].id
             /\ ~Later(k) => n[k].case = Again(k)
  BY <1>2, <1>4 DEF Item
<1>6. n \in Seq(Item) /\ DOMAIN n = DOMAIN items
  <2>1. n \in [1 .. Len(items) -> Item]
    BY <1>1, <1>2, <1>5
  <2> QED
    BY <1>1, <1>2, <2>1
<1>7. Listed(n)
  BY <1>5, <1>6 DEF Listed
<1>8. ASSUME StableIdsDiffer(items), NEW k \in DOMAIN items
      PROVE  n[k].case.status =
               IF /\ \E ch \in changes : Affects(ch) /\ ch.stable = items[k].stable
                  /\ ~HasHumanDecision(items[k].case)
               THEN "reopened_by_revision" ELSE items[k].case.status
  <2>1. ~Later(k)
    BY <1>1, <1>8 DEF StableIdsDiffer, Later
  <2>2. Hits(k) # {} <=> \E ch \in changes : Affects(ch) /\ ch.stable = items[k].stable
    BY DEF Hits
  <2> QED
    BY <1>4, <1>5, <2>1, <2>2
<1> QED
  BY <1>6, <1>7, <1>8 DEF n

-----------------------------------------------------------------------------
(***************************************************************************)
(* Every copy keeps its comparisons complete                               *)
(***************************************************************************)

\* A revision without a comparison replaces nothing; one with a comparison was
\* compared with an applied revision of the same copy.
Linked(p, r) ==
  /\ Listed(r.items) /\ r.pred \in RevId \cup {NoRevision}
  /\ \/ r.changes = {} /\ (r.state \in {"ready", "applied"} => r.pred = NoRevision)
     \/ r.pred \in AppliedIn(p) /\ Tells(r.changes, p.revisions[r.pred].items, r.items)

\* A copy whose cases and comparisons are in order.
Filled(p) ==
  /\ Listed(p.items) /\ p.active \in RevId \cup {NoRevision}
  /\ \A id \in DOMAIN p.revisions : Linked(p, p.revisions[id])

\* The second inductive invariant, beside VInv.
FInv ==
  /\ Filled(store)
  /\ \A q \in Requests : /\ req[q].pc = "loaded" => Filled(req[q].mem)
                         /\ build[q].pc = "scanning" => Filled(build[q].mem)

\* What a revision is linked to stays when applied revisions stay.
LEMMA LinkedKept ==
  ASSUME NEW p, NEW n, NEW r, NEW s, Linked(p, r),
         \A a \in AppliedIn(p) : /\ a \in AppliedIn(n)
                                 /\ n.revisions[a].items = p.revisions[a].items,
         s.items = r.items, s.changes = r.changes, s.pred = r.pred,
         s.state \in {"ready", "applied"} => r.state \in {"ready", "applied"}
  PROVE  Linked(n, s)
<1>1. CASE r.changes = {} /\ (r.state \in {"ready", "applied"} => r.pred = NoRevision)
  BY <1>1 DEF Linked
<1>2. CASE r.pred \in AppliedIn(p) /\ Tells(r.changes, p.revisions[r.pred].items, r.items)
  BY <1>2 DEF Linked
<1> QED
  BY <1>1, <1>2 DEF Linked

\* An edit of the cases alone.
LEMMA ItemsFilled ==
  ASSUME NEW p, Good(p), Filled(p), NEW items, Listed(items)
  PROVE  Filled([p EXCEPT !.items = items])
<1> DEFINE n == [p EXCEPT !.items = items]
<1>1. n.items = items /\ n.revisions = p.revisions /\ n.active = p.active
  BY DEF Good, IsCopy
<1> HIDE DEF n
<1>2. \A id \in DOMAIN n.revisions : Linked(n, n.revisions[id])
  BY <1>1 DEF Filled, Linked, AppliedIn
<1>3. Filled(n)
  BY <1>1, <1>2 DEF Filled
<1> QED
  BY <1>3 DEF n

\* The snapshot holds the cases there are and replaces nothing.
LEMMA EnsuredFilled ==
  ASSUME NEW p, Good(p), Filled(p), NEW q \in Requests
  PROVE  Filled(EnsureInitialRevision(p, q))
<1> DEFINE n   == EnsureInitialRevision(p, q)
           rev == NewRevision(NoRevision, "applied", p.items)
           rs  == [i \in {Snapshot(q)} |-> rev]
<1>1. CASE DOMAIN p.revisions # {}
  BY <1>1 DEF EnsureInitialRevision
<1>2. CASE DOMAIN p.revisions = {}
  <2>1. n.items = p.items /\ n.revisions = rs /\ n.active = Snapshot(q)
    <3>1. rs = [i \in DOMAIN p.revisions \cup {Snapshot(q)} |->
                  IF i = Snapshot(q) THEN rev ELSE p.revisions[i]]
      BY <1>2
    <3>2. n = [[p EXCEPT !.revisions = rs] EXCEPT !.active = Snapshot(q)]
      BY <1>2, <3>1 DEF EnsureInitialRevision, WithRevision
    <3> HIDE DEF rs
    <3> QED BY <3>2 DEF Good, IsCopy
  <2>2. DOMAIN rs = {Snapshot(q)} /\ rs[Snapshot(q)] = rev
    OBVIOUS
  <2>3. rev.pred = NoRevision /\ rev.items = p.items /\ rev.changes = {}
    BY DEF NewRevision
  <2> HIDE DEF rs, rev, n
  <2>4. Linked(n, rev)
    BY <2>3 DEF Filled, Linked
  <2>5. Filled(n)
    BY <2>1, <2>2, <2>4, RevisionIds DEF Filled
  <2> QED
    BY <2>5 DEF n
<1> QED
  BY <1>1, <1>2

\* A revision that takes the place of none that is applied.
LEMMA PlacedFilled ==
  ASSUME NEW p, Good(p), Filled(p), NEW id \in RevId, NEW rev, Linked(p, rev),
         id \in DOMAIN p.revisions => p.revisions[id].state # "applied"
  PROVE  Filled(WithRevision(p, id, rev))
<1> DEFINE n  == WithRevision(p, id, rev)
           rs == [i \in DOMAIN p.revisions \cup {id} |-> IF i = id THEN rev ELSE p.revisions[i]]
<1>1. n.items = p.items /\ n.revisions = rs /\ n.active = p.active
  BY DEF Good, IsCopy, WithRevision
<1>2. /\ DOMAIN rs = DOMAIN p.revisions \cup {id} /\ rs[id] = rev
      /\ \A i \in DOMAIN p.revisions \ {id} : rs[i] = p.revisions[i]
  OBVIOUS
<1> HIDE DEF n, rs
<1>3. \A a \in AppliedIn(p) : a \in AppliedIn(n) /\ n.revisions[a].items = p.revisions[a].items
  BY <1>1, <1>2 DEF AppliedIn
<1>4. ASSUME NEW i \in DOMAIN rs PROVE Linked(n, rs[i])
  <2>1. CASE i = id
    BY <1>2, <1>3, <2>1, LinkedKept
  <2>2. CASE i # id
    <3>1. Linked(p, p.revisions[i]) /\ rs[i] = p.revisions[i]
      BY <1>2, <2>2 DEF Filled
    <3> QED
      BY <1>3, <3>1, LinkedKept
  <2> QED
    BY <2>1, <2>2
<1>5. Filled(n)
  BY <1>1, <1>4 DEF Filled
<1> QED
  BY <1>5 DEF n

\* A revision whose state alone changes, and not from applied.
LEMMA StateFilled ==
  ASSUME NEW p, Good(p), Filled(p), NEW id \in DOMAIN p.revisions,
         NEW state \in States, p.revisions[id].state # "applied",
         state \in {"ready", "applied"} => p.revisions[id].state \in {"ready", "applied"},
         NEW n, n.revisions = [p.revisions EXCEPT ![id].state = state],
         Listed(n.items), n.active \in RevId \cup {NoRevision}
  PROVE  Filled(n)
<1> DEFINE rs == [p.revisions EXCEPT ![id].state = state]
<1>1. /\ DOMAIN rs = DOMAIN p.revisions
      /\ rs[id].state = state /\ rs[id].pred = p.revisions[id].pred
      /\ rs[id].items = p.revisions[id].items /\ rs[id].changes = p.revisions[id].changes
      /\ \A i \in DOMAIN rs \ {id} : rs[i] = p.revisions[i]
  BY StateFields
<1> HIDE DEF rs
<1>2. n.revisions = rs
  BY DEF rs
<1>3. \A a \in AppliedIn(p) : a \in AppliedIn(n) /\ n.revisions[a].items = p.revisions[a].items
  BY <1>1, <1>2 DEF AppliedIn
<1>4. ASSUME NEW i \in DOMAIN rs PROVE Linked(n, rs[i])
  <2>1. Linked(p, p.revisions[i])
    BY <1>1 DEF Filled
  <2>2. CASE i = id
    BY <1>1, <1>3, <2>1, <2>2, LinkedKept
  <2>3. CASE i # id
    <3>1. rs[i] = p.revisions[i]
      BY <1>1, <2>3
    <3> QED
      BY <1>3, <2>1, <3>1, LinkedKept
  <2> QED
    BY <2>2, <2>3
<1> QED
  BY <1>2, <1>4 DEF Filled

\* The changes of a stored revision are finitely many, each that affects a case
\* names one of the revision's.
LEMMA LinkedChanges ==
  ASSUME NEW p, NEW r, Linked(p, r)
  PROVE  /\ IsFiniteSet(r.changes)
         /\ \A ch \in r.changes : Affects(ch) =>
              \E k \in DOMAIN r.items : r.items[k].id = ch.after /\ r.items[k].stable = ch.stable
<1>1. IsFiniteSet({})
  BY FS_EmptySet
<1>2. CASE r.changes = {}
  BY <1>1, <1>2
<1>3. CASE Tells(r.changes, p.revisions[r.pred].items, r.items)
  BY <1>3 DEF Tells
<1> QED
  BY <1>2, <1>3 DEF Linked

\* What an application saves.
LEMMA PromoteFields ==
  ASSUME NEW p, Good(p), NEW id, NEW q
  PROVE  /\ Promote(p, id, q).items =
              Promoted(p.revisions[id].items, p.revisions[id].changes, q)
         /\ Promote(p, id, q).active = id
         /\ Promote(p, id, q).revisions = [p.revisions EXCEPT ![id].state = "applied"]
<1> DEFINE rs    == [p.revisions EXCEPT ![id].state = "applied"]
           items == Promoted(p.revisions[id].items, p.revisions[id].changes, q)
           trail == Append(p.applied, id)
           n     == [p EXCEPT !.items = items, !.active = id, !.applied = trail,
                              !.revisions = rs]
<1>1. n = Promote(p, id, q)
  BY DEF Promote
<1> HIDE DEF rs, items, trail
<1>2. n.items = items /\ n.active = id /\ n.revisions = rs
  BY DEF Good, IsCopy
<1> QED
  BY <1>1, <1>2 DEF rs, items

\* Whatever it is asked, a handler leaves its copy filled in.
LEMMA EditFilled ==
  ASSUME NEW p, Good(p), Filled(p), NEW q \in Requests, NEW op \in Op, Accepts(p, op),
         {Snapshot(q), Candidate(q)} \cap DOMAIN p.revisions = {}
  PROVE  Filled(Edit(p, q, op))
<1> DEFINE n == Edit(p, q, op)
<1>1. /\ op.kind \in {"decide", "list", "upload", "apply"}
      /\ op.kind = "apply" => op.revision \in RevId
  BY OpKinds
<1>2. CASE op.kind = "decide"
  <2> DEFINE items == Decide(p.items, op.item, q)
  <2>1. n = [p EXCEPT !.items = items]
    BY <1>2 DEF Edit
  <2>2. Listed(items)
    <3>1. p.items \in Seq(Item) /\ DOMAIN p.items = 1 .. Len(p.items) /\ Len(p.items) \in Nat
      BY DEF Filled, Listed
    <3>2. Approval(q) \in Change
      BY DEF Approval, Change, Actors, Humans, Statuses, HumanOwned
    <3>3. ASSUME NEW i \in DOMAIN p.items
          PROVE  items[i] \in Item /\ items[i].id = p.items[i].id
      <4>0. p.items[i] \in Item
        BY <3>1
      <4>1. p.items[i] \in Item /\ p.items[i].case \in Case
        BY <4>0 DEF Item
      <4>2. ApplyDisposition(p.items[i].case, Approval(q)) \in Case
        BY <3>2, <4>1, AppliedFields
      <4>3. items[i] = IF p.items[i].id = op.item
                       THEN [p.items[i] EXCEPT !.case = ApplyDisposition(@, Approval(q))]
                       ELSE p.items[i]
        BY DEF Decide
      <4> HIDE DEF items
      <4> QED
        BY <4>1, <4>2, <4>3 DEF Item
    <3>4. DOMAIN items = DOMAIN p.items /\ items = [i \in DOMAIN p.items |-> items[i]]
      BY DEF Decide
    <3> HIDE DEF items
    <3>5. items \in [1 .. Len(p.items) -> Item]
      BY <3>1, <3>3, <3>4
    <3>6. items \in Seq(Item)
      BY <3>1, <3>5
    <3> QED
      BY <3>3, <3>4, <3>6 DEF Filled, Listed
  <2> HIDE DEF items
  <2> QED
    BY <2>1, <2>2, ItemsFilled
<1>3. CASE op.kind = "list"
  BY <1>3, EnsuredFilled DEF Edit
<1>4. CASE op.kind = "upload"
  <2> DEFINE m   == EnsureInitialRevision(p, q)
             rev == NewRevision(m.active, "processing", << >>)
  <2>1. n = WithRevision(m, Candidate(q), rev)
    BY <1>4 DEF Edit, Upload
  <2>2. /\ Good(m) /\ Filled(m)
        /\ \/ m = p
           \/ DOMAIN p.revisions = {} /\ DOMAIN m.revisions = {Snapshot(q)}
    BY EnsuredGood, EnsuredFilled
  <2>3. /\ rev.items = << >> /\ rev.changes = {} /\ rev.pred = m.active
        /\ rev.state = "processing"
    BY DEF NewRevision
  <2> HIDE DEF n, m, rev
  <2>4. Candidate(q) \in RevId /\ Candidate(q) \notin DOMAIN m.revisions
    BY <2>2, RevisionIds
  <2>5. Linked(m, rev)
    <3>1. Listed(<< >>)
      BY DEF Listed
    <3> QED
      BY <2>2, <2>3, <3>1 DEF Linked, Filled
  <2>6. Filled(n)
    BY <2>1, <2>2, <2>4, <2>5, PlacedFilled
  <2> QED
    BY <2>6 DEF n
<1>5. CASE op.kind = "apply"
  <2> DEFINE id == op.revision
  <2>1. n = Apply(p, id, q) /\ id \in DOMAIN p.revisions /\ id \in RevId
    BY <1>1, <1>5 DEF Edit, Accepts
  <2>2. CASE AlreadyApplied(p, id)
    BY <2>1, <2>2 DEF Apply
  <2>3. CASE ~AlreadyApplied(p, id)
    <3>1. p.revisions[id].state = "ready"
      BY <1>5, <2>3 DEF Accepts, Applicable
    <3>2. n = Promote(p, id, q)
      BY <2>1, <2>3 DEF Apply
    <3> HIDE DEF n, id
    <3>3. Listed(p.revisions[id].items) /\ IsFiniteSet(p.revisions[id].changes)
      BY <2>1, LinkedChanges DEF Filled, Linked
    <3>4. /\ Listed(n.items) /\ n.active = id
          /\ n.revisions = [p.revisions EXCEPT ![id].state = "applied"]
      BY <2>1, <3>2, <3>3, PromoteFields, PromotedFields
    <3>5. Filled(n)
      BY <2>1, <3>1, <3>4, StateFilled DEF States
    <3> QED
      BY <3>5 DEF n
  <2> QED
    BY <2>2, <2>3
<1> QED
  BY <1>1, <1>2, <1>3, <1>4, <1>5

\* What a scan finds becomes a list of cases.
LEMMA FoundListed ==
  ASSUME NEW author \in Requests \cup {Pipeline}, NEW found \in Seq(Finding)
  PROVE  Listed(ItemsOf(author, found))
<1> DEFINE items == ItemsOf(author, found)
<1>1. /\ DOMAIN found = 1 .. Len(found) /\ Len(found) \in Nat
      /\ items = [k \in DOMAIN found |-> Detected(<<author, k>>, found[k])]
  BY DEF ItemsOf
<1>2. NewCase \in Case
  BY NewCaseSound DEF Sound
<1>3. ASSUME NEW k \in DOMAIN found
      PROVE  items[k] \in Item /\ items[k].id = <<author, k>>
  <2>1. <<author, k>> \in ItemId
    BY <1>1 DEF ItemId
  <2>2. found[k] \in Finding
    OBVIOUS
  <2> QED
    BY <1>1, <1>2, <2>1, <2>2 DEF Item, Finding, Detected
<1> HIDE DEF items
<1>4. items \in [1 .. Len(found) -> Item]
  BY <1>1, <1>3
<1>5. items \in Seq(Item) /\ DOMAIN items = DOMAIN found
  BY <1>1, <1>4
<1> QED
  BY <1>3, <1>5 DEF Listed, items

\* What a comparison saves.
LEMMA ComparedFilled ==
  ASSUME NEW p, Good(p), Filled(p), NEW q \in Requests, NEW found \in Seq(Finding),
         Candidate(q) \in DOMAIN p.revisions, p.revisions[Candidate(q)].state = "processing"
  PROVE  Filled(Compared(p, q, found))
<1> DEFINE prev == p.revisions[p.active].items
           cand == ItemsOf(q, found)
           rev  == [pred |-> p.active, state |-> "ready", items |-> Carried(prev, cand),
                    changes |-> Compare(prev, cand)]
<1>1. Compared(p, q, found) = WithRevision(p, Candidate(q), rev)
  BY DEF Compared
<1>2. p.active \in AppliedIn(p) /\ p.active \in DOMAIN p.revisions
  BY DEF Good, OneLine, AppliedIn
<1>3. Listed(prev) /\ Listed(cand)
  BY <1>2, FoundListed DEF Filled, Linked
<1>4. /\ rev.pred = p.active /\ rev.items = Carried(prev, cand)
      /\ rev.changes = Compare(prev, cand)
  OBVIOUS
<1>5. Listed(rev.items) /\ Tells(rev.changes, prev, rev.items)
  <2>1. prev \in Seq(Item)
    BY <1>3 DEF Listed
  <2> HIDE DEF prev, cand, rev
  <2> QED
    BY <1>3, <1>4, <2>1, CarriedFields, CompareTells
<1> HIDE DEF cand, rev
<1>6. Linked(p, rev)
  BY <1>2, <1>4, <1>5 DEF Linked, Filled
<1>7. Candidate(q) \in RevId
  BY RevisionIds
<1> QED
  BY <1>1, <1>6, <1>7, PlacedFilled

LEMMA InitFills == Init => FInv
<1> SUFFICES ASSUME Init PROVE FInv
  OBVIOUS
<1>1. /\ store.items = ItemsOf(Pipeline, First) /\ DOMAIN store.revisions = {}
      /\ store.active = NoRevision
      /\ \A q \in Requests : req[q].pc = "new" /\ build[q].pc = "none"
  BY DEF Init, NoBuild
<1>2. Listed(ItemsOf(Pipeline, First))
  BY FoundListed, RevisionsAssumption
<1> QED
  BY <1>1, <1>2 DEF FInv, Filled

\* Every step leaves every copy filled in.
LEMMA StepFills == VInv /\ FInv /\ [Next]_vars => FInv'
<1> SUFFICES ASSUME VInv, FInv, [Next]_vars PROVE FInv'
  OBVIOUS
<1>0. req = [q \in Requests |-> req[q]] /\ build = [q \in Requests |-> build[q]]
  BY DEF VInv
<1>1. ASSUME NEW q \in Requests, NEW op \in Ops, Load(q, op) PROVE FInv'
  <2>1. /\ store' = store /\ build' = build
        /\ \A r \in Requests \ {q} : req'[r] = req[r]
        /\ req'[q].pc = "done" \/ req'[q].mem = store
    BY <1>0, <1>1 DEF Load, Idle
  <2> QED
    BY <2>1 DEF FInv
<1>2. ASSUME NEW q \in Requests, Commit(q) \/ CommitRejects(q) PROVE FInv'
  <2> DEFINE n == Edit(req[q].mem, q, req[q].op)
  <2>1. /\ store' = n
        /\ req'[q].pc = "done" /\ build'[q].pc \in {"queued", build[q].pc}
        /\ build'[q].pc = "queued" \/ build'[q] = build[q]
        /\ \A r \in Requests \ {q} : req'[r] = req[r] /\ build'[r] = build[r]
    BY <1>0, <1>2 DEF Commit, CommitRejects, SavesEdit, Saves, Idle
  <2>2. Filled(n)
    <3> DEFINE p  == req[q].mem
               op == req[q].op
    <3>1. /\ Good(p) /\ Filled(p) /\ op \in Op /\ Accepts(p, op)
          /\ {Snapshot(q), Candidate(q)} \cap DOMAIN p.revisions = {}
      BY <1>2 DEF Commit, CommitRejects, SavesEdit, VInv, SoundHandler, Fits, FInv
    <3> HIDE DEF p, op
    <3>2. Filled(Edit(p, q, op))
      BY <3>1, EditFilled
    <3> QED
      BY <3>2 DEF p, op
  <2> HIDE DEF n
  <2> QED
    BY <2>1, <2>2 DEF FInv
<1>3. ASSUME NEW q \in Requests, Abandon(q) PROVE FInv'
  BY <1>0, <1>3 DEF Abandon, Idle, FInv
<1>4. ASSUME NEW q \in Requests, Begin(q) PROVE FInv'
  <2>1. /\ store' = store /\ req' = req
        /\ \A r \in Requests \ {q} : build'[r] = build[r]
        /\ build'[q].pc = "none" \/ build'[q].mem = store
    BY <1>0, <1>4 DEF Begin, NoBuild
  <2> QED
    BY <2>1 DEF FInv
<1>5. ASSUME NEW q \in Requests, Ready(q) \/ Stopped(q) PROVE FInv'
  <2> DEFINE p == build[q].mem
  <2>1. /\ req' = req /\ build'[q].pc = "none"
        /\ \A r \in Requests \ {q} : build'[r] = build[r]
        /\ build[q].pc = "scanning"
    BY <1>0, <1>5 DEF Ready, Stopped, NoBuild
  <2>2. /\ Good(p) /\ Filled(p) /\ Candidate(q) \in DOMAIN p.revisions
        /\ p.revisions[Candidate(q)].state = "processing"
    BY <2>1 DEF VInv, SoundBuild, Fits, FInv
  <2>3. CASE Ready(q)
    <3>1. PICK found \in Scans : store' = Compared(p, q, found)
      BY <2>3 DEF Ready, Saves
    <3>2. found \in Seq(Finding)
      BY RevisionsAssumption
    <3> HIDE DEF p
    <3>3. Filled(store')
      BY <2>2, <3>1, <3>2, ComparedFilled
    <3> QED
      BY <2>1, <3>3 DEF FInv
  <2>4. CASE Stopped(q)
    <3> DEFINE rs == [p.revisions EXCEPT ![Candidate(q)].state = "failed"]
               n  == [p EXCEPT !.revisions = rs]
    <3>1. store' = n
      BY <2>4 DEF Stopped, Saves
    <3> HIDE DEF p, rs
    <3>2. n.revisions = rs /\ n.items = p.items /\ n.active = p.active
      BY <2>2 DEF Good, IsCopy
    <3> HIDE DEF n
    <3>3. /\ Listed(n.items) /\ n.active \in RevId \cup {NoRevision} /\ "failed" \in States
          /\ n.revisions = [p.revisions EXCEPT ![Candidate(q)].state = "failed"]
      BY <2>2, <3>2 DEF States, Filled, rs
    <3>4. Filled(n)
      BY <2>2, <3>3, StateFilled
    <3> QED
      BY <2>1, <3>1, <3>4 DEF FInv
  <2> QED
    BY <1>5, <2>3, <2>4
<1>6. ASSUME NEW q \in Requests, Vanish(q) PROVE FInv'
  BY <1>0, <1>6 DEF Vanish, NoBuild, FInv
<1>7. CASE Crash
  BY <1>7 DEF Crash, NoBuild, Idle, FInv
<1>8. CASE UNCHANGED vars
  BY <1>8 DEF vars, FInv
<1> QED
  BY <1>1, <1>2, <1>3, <1>4, <1>5, <1>6, <1>7, <1>8 DEF Next, Handle, Build

-----------------------------------------------------------------------------
(***************************************************************************)
(* The step that applies a revision                                        *)
(***************************************************************************)

\* The comparison affects the case, and no person has acted on it: what the
\* code reopens.
Reopens(r, item) ==
  /\ \E ch \in r.changes : ch.after = item.id /\ Affects(ch)
  /\ ~HasHumanDecision(item.case)

\* What applying the revision id of p makes of its k-th case.
Settled(p, id, q, k) ==
  LET item == p.revisions[id].items[k]
  IN  Promote(p, id, q).items[k].case.status =
        IF Reopens(p.revisions[id], item)
        THEN "reopened_by_revision" ELSE item.case.status

\* While stable ids differ, a change that affects a case finds that case.
LEMMA PromoteSettles ==
  ASSUME NEW p, Good(p), Filled(p), NEW id \in DOMAIN p.revisions, NEW q \in Requests,
         StableIdsDiffer(p.revisions[id].items)
  PROVE  \A k \in DOMAIN p.revisions[id].items : Settled(p, id, q, k)
<1> DEFINE r == p.revisions[id]
           n == Promoted(r.items, r.changes, q)
<1>1. /\ Listed(r.items) /\ IsFiniteSet(r.changes)
      /\ \A ch \in r.changes : Affects(ch) =>
           \E k \in DOMAIN r.items : r.items[k].id = ch.after /\ r.items[k].stable = ch.stable
  BY LinkedChanges DEF Filled, Linked
<1>2. /\ Promote(p, id, q).items = n
      /\ Promote(p, id, q).revisions = [p.revisions EXCEPT ![id].state = "applied"]
  BY PromoteFields
<1>3. StableIdsDiffer(r.items)
  OBVIOUS
<1>4. p.revisions[id] = r
  OBVIOUS
<1> HIDE DEF r, n
<1>5. \A k \in DOMAIN r.items :
        n[k].case.status =
          IF /\ \E ch \in r.changes : Affects(ch) /\ ch.stable = r.items[k].stable
             /\ ~HasHumanDecision(r.items[k].case)
          THEN "reopened_by_revision" ELSE r.items[k].case.status
  BY <1>1, <1>3, PromotedFields DEF n
<1>6. \A k \in DOMAIN r.items :
        (\E ch \in r.changes : Affects(ch) /\ ch.stable = r.items[k].stable)
          <=> (\E ch \in r.changes : ch.after = r.items[k].id /\ Affects(ch))
  BY <1>1, <1>3 DEF Listed, StableIdsDiffer
<1> QED
  BY <1>2, <1>4, <1>5, <1>6 DEF Reopens, Settled

\* The property of one step.
SettlesCases ==
  \A q \in Requests :
    Applies(q) /\ StableIdsDiffer(AppliedBy(q).items) =>
      \A k \in DOMAIN AppliedBy(q).items :
        LET item   == AppliedBy(q).items[k]
            status == store'.items[k].case.status
        IN  /\ status # item.case.status =>
                 /\ MayReopen(AppliedBy(q), item)
                 /\ status = "reopened_by_revision"
            /\ MustReopen(AppliedBy(q), item) =>
                 status = "reopened_by_revision"

\* Of the handlers' steps, only a commit saves what a handler loaded.
LEMMA AppliesByCommit ==
  ASSUME VInv, [Next]_vars, NEW q \in Requests, Applies(q)
  PROVE  Commit(q) \/ CommitRejects(q)
<1>1. req = [r \in Requests |-> req[r]] /\ req[q].pc = "loaded" /\ req'[q].pc = "done"
      /\ store' # store /\ "loaded" # "done"
  BY DEF VInv, Applies
<1>2. ASSUME NEW r \in Requests, Build(r) PROVE FALSE
  BY <1>1, <1>2 DEF Build, Begin, Ready, Stopped, Vanish
<1>3. ASSUME NEW r \in Requests, Commit(r) \/ CommitRejects(r) PROVE r = q
  BY <1>1, <1>3 DEF Commit, CommitRejects, SavesEdit
<1>4. ~(\E r \in Requests, op \in Ops : Load(r, op)) /\ ~(\E r \in Requests : Abandon(r))
      /\ ~Crash /\ ~UNCHANGED vars
  BY <1>1 DEF Load, Abandon, Crash, vars
<1> QED
  BY <1>2, <1>3, <1>4 DEF Next, Handle

-----------------------------------------------------------------------------
(***************************************************************************)
(* The theorems                                                            *)
(***************************************************************************)

\* A production without revisions; nobody has asked for anything.
LEMMA InitKeeps == Init => VInv
<1> SUFFICES ASSUME Init PROVE VInv
  OBVIOUS
<1>1. /\ \A q \in Requests : req[q].pc = "new" /\ build[q].pc = "none"
      /\ req = [q \in Requests |-> req[q]] /\ build = [q \in Requests |-> build[q]]
      /\ troubles = 0 /\ overlaid = FALSE
  BY DEF Init, NoBuild
<1>2. /\ DOMAIN store.revisions = {} /\ store.applied = << >>
      /\ store.revisions = [id \in DOMAIN store.revisions |-> store.revisions[id]]
      /\ store \in [items : {store.items}, revisions : {store.revisions},
                    active : {store.active}, applied : Seq(RevId)]
  BY DEF Init
<1>3. IsCopy(store) /\ AppliedIn(store) = {}
  BY <1>2 DEF IsCopy, AppliedIn
<1>4. OneLine(store) /\ TrailOf(store)
  BY <1>2, <1>3 DEF OneLine, TrailOf
<1>5. Good(store) /\ Fits(store, req, build)
  BY <1>1, <1>2, <1>3, <1>4 DEF Good, Fits
<1>6. \A q \in Requests : SoundHandler(q, req, build) /\ SoundBuild(q, req, build)
  BY <1>1 DEF SoundHandler, SoundBuild
<1>7. ProcessingHasBuilder
  BY <1>2 DEF ProcessingHasBuilder
<1> QED
  BY <1>1, <1>5, <1>6, <1>7 DEF VInv

\* Every step keeps every copy in order.
LEMMA StepKeeps == VInv /\ [Next]_vars => VInv'
<1> SUFFICES ASSUME VInv, [Next]_vars PROVE VInv'
  OBVIOUS
<1>1. ASSUME NEW q \in Requests, NEW op \in Ops, Load(q, op) PROVE VInv'
  BY <1>1, LoadKeeps
<1>2. ASSUME NEW q \in Requests, Commit(q) \/ CommitRejects(q) PROVE VInv'
  BY <1>2, CommitKeeps
<1>3. ASSUME NEW q \in Requests, Abandon(q) PROVE VInv'
  <2>1. /\ UNCHANGED <<store, build, troubles, overlaid>>
        /\ req' = [r \in Requests |-> req'[r]]
        /\ build' = [r \in Requests |-> build'[r]]
        /\ \A r \in Requests : req'[r] = req[r] \/ req'[r].pc = "done"
    BY <1>3 DEF Abandon, VInv, Idle
  <2> QED BY <2>1, EndsKeep DEF VInv
<1>4. ASSUME NEW q \in Requests, Begin(q) PROVE VInv'
  BY <1>4, BeginKeeps
<1>5. ASSUME NEW q \in Requests, Ready(q) \/ Stopped(q) PROVE VInv'
  BY <1>5, DecidedKeeps
<1>6. ASSUME NEW q \in Requests, Vanish(q) PROVE VInv'
  <2>1. /\ UNCHANGED <<store, req, overlaid>>
        /\ req' = [r \in Requests |-> req'[r]]
        /\ build' = [r \in Requests |-> build'[r]]
        /\ \A r \in Requests : build'[r] = build[r] \/ build'[r].pc = "none"
        /\ troubles' = troubles + 1 /\ troubles \in Nat
    BY <1>6 DEF Vanish, VInv, NoBuild
  <2>2. /\ troubles' \in Nat /\ overlaid' = overlaid /\ store' = store
        /\ troubles' > 0 \/ (troubles' = troubles /\ build' = build)
    BY <2>1
  <2>3. \A r \in Requests : /\ req'[r] = req[r] \/ req'[r].pc = "done"
                            /\ build'[r] = build[r] \/ build'[r].pc = "none"
    BY <2>1
  <2> QED BY <2>1, <2>2, <2>3, EndsKeep
<1>7. CASE Crash
  <2>1. /\ UNCHANGED <<store, overlaid>>
        /\ req' = [r \in Requests |-> req'[r]]
        /\ build' = [r \in Requests |-> build'[r]]
        /\ \A r \in Requests : /\ req'[r] = req[r] \/ req'[r].pc = "done"
                              /\ build'[r].pc = "none"
        /\ troubles' = troubles + 1 /\ troubles \in Nat
    BY <1>7 DEF Crash, VInv, NoBuild, Idle
  <2>2. /\ troubles' \in Nat /\ overlaid' = overlaid /\ store' = store
        /\ troubles' > 0 \/ (troubles' = troubles /\ build' = build)
    BY <2>1
  <2>3. \A r \in Requests : /\ req'[r] = req[r] \/ req'[r].pc = "done"
                            /\ build'[r] = build[r] \/ build'[r].pc = "none"
    BY <2>1
  <2> QED BY <2>1, <2>2, <2>3, EndsKeep
<1>8. CASE UNCHANGED vars
  BY <1>8 DEF vars, VInv, ProcessingHasBuilder
<1> QED
  BY <1>1, <1>2, <1>3, <1>4, <1>5, <1>6, <1>7, <1>8 DEF Next, Handle, Build

\* Every copy of the production is in order, always.
THEOREM VersionInvariance == Spec => []VInv
<1>1. Init => VInv
  BY InitKeeps
<1>2. VInv /\ [Next]_vars => VInv'
  BY StepKeeps
<1> QED
  BY <1>1, <1>2, PTL DEF Spec

\* The applied versions of a stored production form one line of descent,
\* whichever comparisons, applications and saves of old copies interleave.
THEOREM VersionsNeverFork == Spec => []LinearHistory
<1>1. VInv => LinearHistory
  BY DEF VInv, Good, LinearHistory
<1> QED
  BY <1>1, VersionInvariance, PTL

\* The trail of a production has each application once, although requests are
\* repeated and old copies are saved.
THEOREM AppliesAreRecordedOnce == Spec => []AppliedOnce
<1>1. VInv => AppliedOnce
  BY DEF VInv, Good, TrailOf, AppliedOnce
<1> QED
  BY <1>1, VersionInvariance, PTL

\* A version is not left processing while nothing went wrong.
THEOREM ComparisonsAreAttended == Spec => []ProcessingHasBuilder
<1>1. VInv => ProcessingHasBuilder
  BY DEF VInv
<1> QED
  BY <1>1, VersionInvariance, PTL

\* Every copy of the production keeps its comparisons complete, always.
THEOREM ComparisonInvariance == Spec => []FInv
<1>1. Init => FInv
  BY InitFills
<1>2. VInv /\ FInv /\ [Next]_vars => FInv'
  BY StepFills
<1> QED
  BY <1>1, <1>2, VersionInvariance, PTL DEF Spec

\* The shape of the state.
THEOREM ShapeOK == Spec => []TypeOK
<1>1. ASSUME NEW p, Good(p), Filled(p) PROVE IsDocument(p)
  <2>1. DOMAIN p = {"items", "revisions", "active", "applied"} /\ p.applied \in Seq(RevId)
    BY <1>1 DEF Good, IsCopy
  <2>2. /\ p.items \in Seq(Item) /\ p.active \in RevId \cup {NoRevision}
        /\ DOMAIN p.revisions \subseteq RevId
    BY <1>1 DEF Good, IsCopy, Filled, Listed
  <2>3. ASSUME NEW id \in DOMAIN p.revisions
        PROVE  /\ p.revisions[id].pred \in RevId \cup {NoRevision}
               /\ p.revisions[id].state \in {"processing", "ready", "applied", "failed"}
               /\ p.revisions[id].items \in Seq(Item)
    <3>1. IsRevision(p.revisions[id]) /\ Linked(p, p.revisions[id])
      BY <1>1 DEF Good, IsCopy, Filled
    <3> QED
      BY <3>1 DEF IsRevision, States, Linked, Listed
  <2> QED
    BY <2>1, <2>2, <2>3 DEF IsDocument
<1>2. VInv /\ FInv => TypeOK
  BY <1>1 DEF VInv, FInv, SoundHandler, SoundBuild, TypeOK
<1> QED
  BY <1>2, VersionInvariance, ComparisonInvariance, PTL

\* No case is dropped by a stored comparison or claimed twice by it.
THEOREM NoCaseIsDropped == Spec => []ComparisonComplete
<1>1. FInv => ComparisonComplete
  <2> SUFFICES ASSUME FInv, NEW id \in DOMAIN store.revisions,
                      store.revisions[id].state \in {"ready", "applied"},
                      store.revisions[id].pred # NoRevision
               PROVE  LET r    == store.revisions[id]
                          prev == store.revisions[r.pred].items
                      IN  /\ \A k \in DOMAIN prev :
                               Cardinality({ch \in r.changes : ch.before = prev[k].id}) = 1
                          /\ \A k \in DOMAIN r.items :
                               Cardinality({ch \in r.changes : ch.after = r.items[k].id}) = 1
    BY DEF ComparisonComplete
  <2> DEFINE r == store.revisions[id]
  <2>1. Tells(r.changes, store.revisions[r.pred].items, r.items)
    BY DEF FInv, Filled, Linked
  <2> QED
    BY <2>1 DEF Tells
<1> QED
  BY <1>1, ComparisonInvariance, PTL

\* Every matched case starts with the record of the case it was matched with.
THEOREM RecordsAreCarried == Spec => []MatchedCasesInherit
<1>1. FInv => MatchedCasesInherit
  <2> SUFFICES ASSUME FInv, NEW id \in DOMAIN store.revisions
               PROVE  LET r == store.revisions[id]
                      IN  \A ch \in r.changes : ch.before # NoItem /\ ch.after # NoItem =>
                            \E b \in ToSet(store.revisions[r.pred].items),
                               a \in ToSet(r.items) :
                              b.id = ch.before /\ a.id = ch.after /\ a.case = b.case
    BY DEF MatchedCasesInherit
  <2> DEFINE r == store.revisions[id]
  <2>1. r.changes = {} \/ Tells(r.changes, store.revisions[r.pred].items, r.items)
    BY DEF FInv, Filled, Linked
  <2> QED
    BY <2>1 DEF Tells
<1> QED
  BY <1>1, ComparisonInvariance, PTL

\* Applying a revision reopens every materially changed case nobody has acted
\* on and moves no unchanged one, however old the copy it works on.
THEOREM OnlyAffectedReopen == Spec => AffectedCasesReopen
<1>1. VInv /\ FInv /\ [Next]_vars => SettlesCases
  <2> SUFFICES ASSUME VInv, FInv, [Next]_vars, NEW q \in Requests, Applies(q),
                      StableIdsDiffer(AppliedBy(q).items),
                      NEW k \in DOMAIN AppliedBy(q).items
               PROVE  LET item   == AppliedBy(q).items[k]
                          status == store'.items[k].case.status
                      IN  /\ status # item.case.status =>
                               /\ MayReopen(AppliedBy(q), item)
                               /\ status = "reopened_by_revision"
                          /\ MustReopen(AppliedBy(q), item) =>
                               status = "reopened_by_revision"
    BY DEF SettlesCases
  <2> DEFINE p  == req[q].mem
             id == req[q].op.revision
             r  == AppliedBy(q)
  <2>1. SavesEdit(q)
    BY AppliesByCommit DEF Commit, CommitRejects
  <2>2. /\ Good(p) /\ Filled(p) /\ Accepts(p, req[q].op) /\ req[q].op.kind = "apply"
        /\ ~AlreadyApplied(p, id)
    BY DEF Applies, VInv, FInv, SoundHandler
  <2>3. id \in DOMAIN p.revisions
    BY <2>2 DEF Accepts
  <2>4. store' = Promote(p, id, q)
    BY <2>1, <2>2 DEF SavesEdit, Saves, Edit, Apply
  <2>5. r = p.revisions[id] /\ StableIdsDiffer(r.items) /\ k \in DOMAIN r.items
    BY DEF AppliedBy
  <2> HIDE DEF p, id
  <2>6. StableIdsDiffer(p.revisions[id].items) /\ k \in DOMAIN p.revisions[id].items
    BY <2>5
  <2>7. Settled(p, id, q, k)
    BY <2>2, <2>3, <2>6, PromoteSettles
  <2>8. store'.items[k].case.status =
          IF Reopens(r, r.items[k])
          THEN "reopened_by_revision" ELSE r.items[k].case.status
    BY <2>4, <2>5, <2>7 DEF Settled
  <2>9. /\ Reopens(r, r.items[k]) => MayReopen(r, r.items[k])
        /\ MustReopen(r, r.items[k]) => Reopens(r, r.items[k])
    BY DEF Reopens, MayReopen, MustReopen, Reported, Affects
  <2> QED
    BY <2>8, <2>9
<1>2. [](VInv /\ FInv) /\ [][Next]_vars => [][SettlesCases]_vars
  BY <1>1, PTL
<1>3. AffectedCasesReopen <=> [][SettlesCases]_vars
  BY DEF AffectedCasesReopen, SettlesCases
<1> QED
  BY <1>2, <1>3, VersionInvariance, ComparisonInvariance, PTL DEF Spec

=============================================================================
