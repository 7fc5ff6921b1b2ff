--------------------------- MODULE DeliveryProofs ---------------------------
(***************************************************************************)
(* What holds of those who watch a production, for any number of cases,    *)
(* pages and requests, whatever providers answer and however often the     *)
(* server restarts.                                                        *)
(*                                                                         *)
(* Two things are known of everybody's copy.  Nobody has heard of a ready  *)
(* production that was not read as such, and nobody was told of one by the *)
(* event of the end before a restart would find it.  And every copy of the *)
(* document that can still be read, saved or recovered says of each case   *)
(* what happened.                                                          *)
(***************************************************************************)
EXTENDS Delivery, FiniteSetTheorems, TLAPS

---------------------------------------------------------------------------
(***************************************************************************)
(* Those who watch                                                         *)
(***************************************************************************)
\* The analysis has ended well, and nobody saves any more.
Final ==
  /\ doc.phase = "ready" /\ kept.phase = "ready"
  /\ worker.pc = "off" /\ worker.saves = {}
  /\ \A h \in Hooks : hook[h].pc = "done"

\* What may be known of the end of the analysis: that it was read as ready,
\* that it is so for good, that a save of it was lost.
Now ==
  {x \in {"read", "final", "lost"} :
     \/ x = "read" /\ (doc.phase = "ready" \/ history.lost)
     \/ x = "final" /\ Final
     \/ x = "lost" /\ history.lost}

\* Who says that a production is ready has read so.
Knows(phase, now) == phase \in Phases /\ (phase = "ready" => "read" \in now)

IsShown(x, now) == x \in [phase : Phases, items : {x.items}] /\ Knows(x.phase, now)

\* What tells of the end tells of what stays.
IsEvent(e, now) ==
  /\ e.type = "progress" => e.about \in Phases \ {"ready"}
  /\ e.type = "done" => e.about = "ready" /\ {"read", "final"} \subseteq now
  /\ e.type = "snapshot" => Knows(e.about.phase, now)

Queue(s, now) ==
  /\ s \in Seq({s[i] : i \in DOMAIN s})
  /\ \A i \in DOMAIN s : s[i].id \in Nat /\ IsEvent(s[i].event, now)

IsStream(x, now) ==
  \/ x \in [pc : {"off", "refused"}]
  \/ x \in [pc : {"loading"}, mem : {x.mem}] /\ Knows(x.mem.phase, now)
  \/ x \in [pc : {"on"}, queue : {x.queue}] /\ Queue(x.queue, now)

IsPage(x, now) ==
  /\ x \in [open : BOOLEAN, shown : {x.shown}, last : Nat, polling : BOOLEAN,
            view : {"analysis", "review", "stuck"}, heard : BOOLEAN]
  /\ IsShown(x.shown, now)
  /\ x.heard => "final" \in now
  /\ x.view = "stuck" => ~x.heard /\ "lost" \in now

ArePolls(answers, now) ==
  /\ IsFiniteSet(answers) /\ Cardinality(answers) <= MaxPolls
  /\ \A x \in answers : IsShown(x, now)

BusInv ==
  /\ bus \in [next : Nat \ {0}, log : {bus.log}]
  /\ Queue(bus.log, Now) /\ Len(bus.log) <= HistoryLimit

StreamInv ==
  /\ stream = [p \in Pages |-> stream[p]]
  /\ \A p \in Pages : IsStream(stream[p], Now)

PageInv ==
  /\ page = [p \in Pages |-> page[p]] /\ polls = [p \in Pages |-> polls[p]]
  /\ \A p \in Pages : IsPage(page[p], Now) /\ ArePolls(polls[p], Now)

---------------------------------------------------------------------------
(***************************************************************************)
(* Documents                                                               *)
(***************************************************************************)
Ids == {DeliveryId(op) : op \in Deliveries}

IsItem(i) ==
  i \in [status : Statuses, sources : {i.sources}, error : {"none", "search", "assembly"},
         holders : Nat, cited : {i.cited}, monitor : Hooks \cup {None}, trail : Seq(Ids)]

\* A case whose evidence is what happened, and whose reopenings are by
\* deliveries that nobody will act on again, or that are loose.
Orderly(i, answered, loose, explained) ==
  /\ i.status \in {"unresolved", "evidence_ready"} => Honest(i, answered)
  /\ \A m, n \in DOMAIN i.trail :
       i.trail[m] = i.trail[n] /\ i.trail[m] \notin loose => m = n
  /\ \A n \in DOMAIN i.trail : i.trail[n] \in explained \cup loose

Full(d) == d.items = [c \in Cases |-> d.items[c]]

IsDoc(d) ==
  /\ d \in [phase : Phases \cup {"absent"}, items : {d.items}]
  /\ d.items # << >> => Full(d)
  /\ Full(d) => \A c \in Cases : IsItem(d.items[c])

GoodDoc(d, answered, loose, explained) ==
  /\ IsDoc(d)
  /\ Full(d) => \A c \in Cases : Orderly(d.items[c], c \in answered, loose, explained)

---------------------------------------------------------------------------
(***************************************************************************)
(* Deliveries                                                              *)
(***************************************************************************)
\* The monitor a delivery is about.
Senders(id) == {op.monitor : op \in {o \in Deliveries : DeliveryId(o) = id}}

\* No request will register the monitor any more.
Past(m) == m \in Hooks => hook[m].pc \notin {"new", "creating"}

\* A delivery that is recorded, or about to be, or of a monitor that is lost.
Explained ==
  {id \in Ids : \A m \in Senders(id) :
     /\ Past(m)
     /\ \/ id \in monitors.delivered
        \/ \E g \in Hooks : hook[g].pc = "telling" /\ hook[g].id = id
        \/ Registered(m) = {}}

Good(d) == GoodDoc(d, history.answered, history.loose, Explained)

\* Handlers that have loaded the document.
Holds(h) == hook[h].pc \in {"creating", "linking", "deciding", "loaded"}

IsHook(x) ==
  \/ x \in [pc : {"new", "done"}]
  \/ x \in [pc : {"creating", "linking", "deciding"}, case : Cases, mem : {x.mem}]
  \/ x \in [pc : {"reading", "fetching", "telling", "recording"}, id : Ids, case : Cases]
  \/ x \in [pc : {"loaded"}, id : Ids, case : Cases, mem : {x.mem}]

IsHistory(x) == x \in [answered : SUBSET Cases, loose : {x.loose}, lost : BOOLEAN]

\* A save in progress.  Once the run has nothing else to do, it is the last
\* one; it is the one of a ready production only then.
IsSave(s) ==
  /\ s \in [mem : {s.mem}, event : {s.event}, thrown : {"failing", "off"}]
  /\ Good(s.mem)
  /\ s.event.type # "snapshot"
  /\ s.event.type = "progress" => s.event.about \in Phases \ {"ready"}
  /\ s.event.type = "done" => s.event.about = "ready" /\ s.mem.phase = "ready"
  /\ s.mem.phase = "ready" \/ s.thrown = "off" => worker.pc = "off"
  /\ worker.pc = "off" =>
       /\ worker.saves = {s} /\ doc.phase = s.mem.phase
       /\ s.thrown = "off" \/ s.mem.phase = "ready"

WorkerInv ==
  /\ worker \in [pc : {"off", "queued", "scan", "reconcile", "open", "research", "finish",
                       "failing"},
                 mem : {worker.mem}, saves : {worker.saves}, work : {worker.work}]
  /\ worker.pc # "off" => doc.phase # "ready" \/ history.lost
  /\ worker.pc = "queued" => worker.saves = {}
  /\ worker.pc \notin {"off", "queued"} \/ worker.saves # {} => Good(worker.mem)
  /\ worker.pc \in {"open", "research", "finish"} => Full(worker.mem)
  /\ worker.pc = "research" => worker.mem.phase = "researching"
  /\ \A s \in worker.saves : IsSave(s)

\* What people decide on: a ready production, or none.
Rests(d) == d = Gone \/ (d.phase = "ready" /\ Full(d))

HookInv ==
  /\ hook = [h \in Hooks |-> hook[h]]
  /\ \A h \in Hooks :
       /\ IsHook(hook[h])
       /\ hook[h].pc # "done" =>
            worker.pc = "off" /\ worker.saves = {} /\ Rests(doc) /\ Rests(kept)
       /\ Holds(h) => Good(hook[h].mem) /\ Full(hook[h].mem) /\ hook[h].mem.phase = "ready"
  /\ monitors \in [known : SUBSET [id : Hooks, case : Cases], delivered : SUBSET Ids]
  /\ \A m \in monitors.known : hook[m.id].pc \notin {"new", "creating"}
  /\ IsHistory(history)

DeliveryInv ==
  \A h \in Hooks : Delivering(h) =>
    /\ \E m \in Senders(hook[h].id) : Registered(m) # {}
    /\ hook[h].id \notin history.loose =>
         /\ hook[h].id \notin monitors.delivered
         /\ \A g \in Hooks : Delivering(g) /\ hook[g].id = hook[h].id => g = h

IInv ==
  /\ BusInv /\ StreamInv /\ PageInv
  /\ Good(doc) /\ Good(kept) /\ WorkerInv /\ HookInv /\ DeliveryInv

---------------------------------------------------------------------------
(***************************************************************************)
(* Facts about the operators                                               *)
(***************************************************************************)
\* What is right of a production stays right when more may be known.
LEMMA KnowsOn ==
  ASSUME NEW now, NEW later, now \subseteq later
  PROVE  /\ \A x : IsShown(x, now) => IsShown(x, later)
         /\ \A e : IsEvent(e, now) => IsEvent(e, later)
         /\ \A s : Queue(s, now) => Queue(s, later)
         /\ \A x : IsStream(x, now) => IsStream(x, later)
         /\ \A x : IsPage(x, now) => IsPage(x, later)
         /\ \A x : ArePolls(x, now) => ArePolls(x, later)
<1>1. \A phase : Knows(phase, now) => Knows(phase, later)
  BY DEF Knows
<1>2. \A x : IsShown(x, now) => IsShown(x, later)
  BY <1>1 DEF IsShown
<1>3. \A e : IsEvent(e, now) => IsEvent(e, later)
  BY <1>1 DEF IsEvent
<1>4. \A s : Queue(s, now) => Queue(s, later)
  BY <1>3 DEF Queue
<1>5. \A x : IsStream(x, now) => IsStream(x, later)
  BY <1>1, <1>4 DEF IsStream
<1>6. \A x : IsPage(x, now) => IsPage(x, later)
  BY <1>2 DEF IsPage
<1>7. \A x : ArePolls(x, now) => ArePolls(x, later)
  BY <1>2 DEF ArePolls
<1> QED
  BY <1>2, <1>3, <1>4, <1>5, <1>6, <1>7

\* A sequence of right events, said of any set its elements are in.
LEMMA QueueOf ==
  ASSUME NEW S, NEW s \in Seq(S), NEW now,
         \A i \in 1 .. Len(s) : s[i].id \in Nat /\ IsEvent(s[i].event, now)
  PROVE  Queue(s, now)
<1>1. DOMAIN s = 1 .. Len(s) /\ Len(s) \in Nat
  OBVIOUS
<1> DEFINE E == {s[i] : i \in DOMAIN s}
<1>2. s = [i \in 1 .. Len(s) |-> s[i]]
  OBVIOUS
<1>3. s \in [1 .. Len(s) -> E]
  <2>1. \A i \in 1 .. Len(s) : s[i] \in E
    BY <1>1
  <2> HIDE DEF E
  <2> QED
    BY <1>2, <2>1
<1>4. s \in Seq(E)
  <2> HIDE DEF E
  <2> QED
    BY <1>1, <1>3
<1> QED
  BY <1>1, <1>4 DEF Queue

\* Another event at the end.
LEMMA QueueAppend ==
  ASSUME NEW s, NEW now, Queue(s, now), NEW e, e.id \in Nat, IsEvent(e.event, now)
  PROVE  /\ Queue(Append(s, e), now) /\ Len(s) \in Nat
         /\ Len(Append(s, e)) = Len(s) + 1
<1> DEFINE E == {s[i] : i \in DOMAIN s}
<1>1. /\ s \in Seq(E)
      /\ \A i \in DOMAIN s : s[i].id \in Nat /\ IsEvent(s[i].event, now)
  BY DEF Queue
<1> HIDE DEF E
<1>2. s \in Seq(E \cup {e}) /\ DOMAIN s = 1 .. Len(s)
  BY <1>1
<1>3. /\ Append(s, e) \in Seq(E \cup {e}) /\ Len(Append(s, e)) = Len(s) + 1
      /\ \A i \in 1 .. Len(s) : Append(s, e)[i] = s[i]
      /\ Append(s, e)[Len(s) + 1] = e /\ Len(s) \in Nat
  BY <1>2
<1>4. \A i \in 1 .. Len(Append(s, e)) :
        Append(s, e)[i].id \in Nat /\ IsEvent(Append(s, e)[i].event, now)
  <2> TAKE i \in 1 .. Len(Append(s, e))
  <2>1. CASE i \in 1 .. Len(s)
    BY <1>1, <1>2, <1>3, <2>1
  <2>2. CASE i = Len(s) + 1
    BY <1>3, <2>2
  <2> QED
    BY <1>3, <2>1, <2>2
<1> QED
  BY <1>3, <1>4, QueueOf

\* The end of a sequence.
LEMMA QueueEnd ==
  ASSUME NEW s, NEW now, Queue(s, now), NEW m \in Nat, m >= 1
  PROVE  /\ Queue(SubSeq(s, m, Len(s)), now)
         /\ Len(SubSeq(s, m, Len(s))) = IF m <= Len(s) THEN Len(s) - m + 1 ELSE 0
<1> DEFINE E == {s[i] : i \in DOMAIN s}
<1>1. /\ s \in Seq(E)
      /\ \A i \in DOMAIN s : s[i].id \in Nat /\ IsEvent(s[i].event, now)
  BY DEF Queue
<1> HIDE DEF E
<1> DEFINE t == SubSeq(s, m, Len(s))
<1>2. DOMAIN s = 1 .. Len(s) /\ Len(s) \in Nat
  BY <1>1
<1>3. /\ t \in Seq(E) /\ Len(t) = IF m <= Len(s) THEN Len(s) - m + 1 ELSE 0
      /\ \A i \in 1 .. Len(t) : t[i] = s[m + i - 1] /\ m + i - 1 \in 1 .. Len(s)
  BY <1>1, <1>2
<1>4. \A i \in 1 .. Len(t) : t[i].id \in Nat /\ IsEvent(t[i].event, now)
  BY <1>1, <1>2, <1>3
<1> HIDE DEF t
<1>5. Queue(t, now)
  BY <1>3, <1>4, QueueOf
<1> QED
  BY <1>3, <1>5 DEF t

\* The first event, and the rest.
LEMMA QueueHead ==
  ASSUME NEW s, NEW now, Queue(s, now), s # << >>
  PROVE  Queue(Tail(s), now) /\ Head(s).id \in Nat /\ IsEvent(Head(s).event, now)
<1> DEFINE E == {s[i] : i \in DOMAIN s}
<1>1. /\ s \in Seq(E)
      /\ \A i \in DOMAIN s : s[i].id \in Nat /\ IsEvent(s[i].event, now)
  BY DEF Queue
<1> HIDE DEF E
<1>2. DOMAIN s = 1 .. Len(s) /\ Len(s) \in Nat /\ 1 \in 1 .. Len(s) /\ Head(s) = s[1]
  BY <1>1
<1>3. /\ Tail(s) \in Seq(E)
      /\ \A i \in 1 .. Len(Tail(s)) : Tail(s)[i] = s[i + 1] /\ i + 1 \in 1 .. Len(s)
  BY <1>1
<1>4. \A i \in 1 .. Len(Tail(s)) :
        Tail(s)[i].id \in Nat /\ IsEvent(Tail(s)[i].event, now)
  BY <1>1, <1>2, <1>3
<1>5. Queue(Tail(s), now)
  BY <1>3, <1>4, QueueOf
<1> QED
  BY <1>1, <1>2, <1>5

\* The bus keeps a right history within its limit.
LEMMA QueueLast ==
  ASSUME NEW s, NEW now, Queue(s, now), Len(s) \in Nat
  PROVE  Queue(LastOf(s), now) /\ Len(LastOf(s)) <= HistoryLimit
<1>1. HistoryLimit \in Nat /\ HistoryLimit >= 1
  BY DeliveryAssumption
<1> DEFINE m == IF Len(s) > HistoryLimit THEN Len(s) - HistoryLimit + 1 ELSE 1
<1>2. m \in Nat /\ m >= 1
  BY <1>1
<1>3. (IF m <= Len(s) THEN Len(s) - m + 1 ELSE 0) <= HistoryLimit
  BY <1>1
<1>4. LastOf(s) = SubSeq(s, m, Len(s))
  BY DEF LastOf
<1> HIDE DEF m
<1> QED
  BY <1>2, <1>3, <1>4, QueueEnd

---------------------------------------------------------------------------
(***************************************************************************)
(* Cases and documents                                                     *)
(***************************************************************************)
\* A good document stays good while more is answered, loose, explained.
LEMMA GoodOn ==
  ASSUME NEW d, NEW A, NEW O, NEW E, NEW A2, NEW O2, NEW E2,
         A \subseteq A2, O \subseteq O2, E \subseteq E2, GoodDoc(d, A, O, E)
  PROVE  GoodDoc(d, A2, O2, E2)
<1> SUFFICES ASSUME Full(d), NEW c \in Cases
             PROVE  Orderly(d.items[c], c \in A2, O2, E2)
  BY DEF GoodDoc
<1>1. Orderly(d.items[c], c \in A, O, E)
  BY DEF GoodDoc
<1>2. Honest(d.items[c], c \in A) => Honest(d.items[c], c \in A2)
  BY DEF Honest
<1> QED
  BY <1>1, <1>2 DEF Orderly

\* A document in which one case is another.
LEMMA Replaced ==
  ASSUME NEW d, NEW A, NEW O, NEW E, GoodDoc(d, A, O, E), Full(d),
         NEW c \in Cases, NEW i, IsItem(i), Orderly(i, c \in A, O, E),
         NEW e, e = [d EXCEPT !.items[c] = i]
  PROVE  GoodDoc(e, A, O, E) /\ Full(e) /\ e.phase = d.phase
<1>1. /\ d \in [phase : Phases \cup {"absent"}, items : {d.items}]
      /\ d.items = [x \in Cases |-> d.items[x]]
      /\ \A x \in Cases : IsItem(d.items[x]) /\ Orderly(d.items[x], x \in A, O, E)
  BY DEF GoodDoc, IsDoc, Full
<1>2. /\ e \in [phase : Phases \cup {"absent"}, items : {e.items}] /\ e.phase = d.phase
      /\ e.items = [d.items EXCEPT ![c] = i]
  BY <1>1
<1>3. /\ e.items = [x \in Cases |-> e.items[x]] /\ e.items[c] = i
      /\ \A x \in Cases : x # c => e.items[x] = d.items[x]
  BY <1>1, <1>2
<1>4. \A x \in Cases : IsItem(e.items[x]) /\ Orderly(e.items[x], x \in A, O, E)
  BY <1>1, <1>3
<1> QED
  BY <1>2, <1>3, <1>4 DEF GoodDoc, IsDoc, Full

\* A document in another phase.
LEMMA Rephased ==
  ASSUME NEW d, NEW A, NEW O, NEW E, GoodDoc(d, A, O, E), NEW phase \in Phases,
         NEW e, e = [d EXCEPT !.phase = phase]
  PROVE  GoodDoc(e, A, O, E) /\ (Full(d) => Full(e)) /\ e.phase = phase
<1>1. /\ e \in [phase : Phases, items : {e.items}] /\ e.phase = phase
      /\ e.items = d.items
  BY DEF GoodDoc, IsDoc
<1> QED
  BY <1>1 DEF GoodDoc, IsDoc, Full

\* A document whose cases are all new.
LEMMA NewCases ==
  ASSUME NEW d, NEW A, NEW O, NEW E, GoodDoc(d, A, O, E),
         NEW i, IsItem(i), \A c \in Cases : Orderly(i, c \in A, O, E),
         NEW e, e = [d EXCEPT !.items = [c \in Cases |-> i]]
  PROVE  GoodDoc(e, A, O, E) /\ Full(e) /\ e.phase = d.phase
<1>1. /\ e \in [phase : Phases \cup {"absent"}, items : {e.items}] /\ e.phase = d.phase
      /\ e.items = [c \in Cases |-> i]
  BY DEF GoodDoc, IsDoc
<1>2. \A c \in Cases : e.items[c] = i
  BY <1>1
<1>3. Full(e)
  BY <1>1, <1>2 DEF Full
<1>4. \A c \in Cases : IsItem(e.items[c]) /\ Orderly(e.items[c], c \in A, O, E)
  BY <1>2
<1> QED
  BY <1>1, <1>3, <1>4 DEF GoodDoc, IsDoc

\* A new case is a case, about which nothing is claimed.
LEMMA NewCaseFits ==
  /\ IsItem(NewCase)
  /\ \A answered, O, E : Orderly(NewCase, answered, O, E)
<1>1. ASSUME NEW i, i \in [status : {"detected"}, sources : {i.sources}, error : {"none"},
                          holders : {0}, cited : {i.cited}, monitor : {None},
                          trail : {<< >>}]
      PROVE  IsItem(i) /\ \A answered, O, E : Orderly(i, answered, O, E)
  <2>1. << >> \in Seq(Ids) /\ "detected" \in Statuses
    BY DEF Statuses
  <2>2. /\ i.status = "detected" /\ i.trail = << >> /\ i.error = "none" /\ i.holders = 0
        /\ i.monitor = None
    BY <1>1
  <2>3. i \in [status : {i.status}, sources : {i.sources}, error : {i.error},
              holders : {i.holders}, cited : {i.cited}, monitor : {i.monitor},
              trail : {i.trail}]
    BY <1>1
  <2>4. /\ i.trail \in Seq(Ids) /\ i.status \in Statuses /\ i.holders \in Nat
        /\ i.error \in {"none", "search", "assembly"} /\ i.monitor \in Hooks \cup {None}
    BY <2>1, <2>2
  <2>5. IsItem(i)
    BY <2>3, <2>4 DEF IsItem
  <2> QED
    BY <2>2, <2>5 DEF Orderly
<1>2. NewCase \in [status : {"detected"}, sources : {NewCase.sources}, error : {"none"},
                   holders : {0}, cited : {NewCase.cited}, monitor : {None},
                   trail : {<< >>}]
  BY DEF NewCase
<1> QED
  BY <1>1, <1>2

\* Nothing is wrong with a production that is gone.
LEMMA GoneFits ==
  ASSUME NEW A, NEW O, NEW E
  PROVE  GoodDoc(Gone, A, O, E)
<1>1. /\ Gone \in [phase : {"absent"}, items : {Gone.items}] /\ Gone.items = << >>
  BY DEF Gone
<1>2. ASSUME Full(Gone), NEW c \in Cases PROVE FALSE
  <2>1. Gone.items = [x \in Cases |-> Gone.items[x]]
    BY <1>2 DEF Full
  <2>2. DOMAIN Gone.items = Cases /\ DOMAIN << >> = {}
    BY <2>1
  <2> QED
    BY <1>1, <1>2, <2>2
<1> QED
  BY <1>1, <1>2 DEF GoodDoc, IsDoc

\* A case of which only its search, its status or its monitor changes.
LEMMA EditedFits ==
  ASSUME NEW i, IsItem(i), NEW answered, NEW O, NEW E, Orderly(i, answered, O, E)
  PROVE  /\ \A status \in Statuses \ {"unresolved", "evidence_ready"} :
              LET j == [i EXCEPT !.status = status]
              IN  IsItem(j) /\ Orderly(j, answered, O, E)
         /\ \A h \in Hooks :
              LET j == [i EXCEPT !.monitor = h]
              IN  IsItem(j) /\ Orderly(j, answered, O, E)
<1>1. ASSUME NEW status \in Statuses \ {"unresolved", "evidence_ready"},
             NEW j, j = [i EXCEPT !.status = status]
      PROVE  IsItem(j) /\ Orderly(j, answered, O, E)
  <2>1. IsItem(j) /\ j.status = status /\ j.trail = i.trail
    BY <1>1 DEF IsItem
  <2> QED
    BY <1>1, <2>1 DEF Orderly
<1>2. ASSUME NEW h \in Hooks, NEW j, j = [i EXCEPT !.monitor = h]
      PROVE  IsItem(j) /\ Orderly(j, answered, O, E)
  <2>1. /\ IsItem(j) /\ j.status = i.status /\ j.trail = i.trail /\ j.error = i.error
        /\ j.holders = i.holders /\ j.cited = i.cited /\ j.sources = i.sources
    BY <1>2 DEF IsItem
  <2> QED
    BY <1>2, <2>1 DEF Orderly, Honest
<1> QED
  BY <1>1, <1>2

\* A search leaves a case that awaits its research as it was, but for sources
\* and the error.
LEMMA SearchFits ==
  ASSUME NEW i, IsItem(i), Awaits(i), NEW answered, NEW O, NEW E, Orderly(i, answered, O, E)
  PROVE  /\ \A found : /\ IsItem(Searched(i, found))
                       /\ Orderly(Searched(i, found), answered, O, E)
         /\ IsItem(SearchFailed(i)) /\ Orderly(SearchFailed(i), answered, O, E)
<1>1. ASSUME NEW j, IsItem(j), j.status = i.status, j.trail = i.trail
      PROVE  Orderly(j, answered, O, E)
  BY <1>1 DEF Orderly, Awaits
<1>2. \A found : LET j == Searched(i, found)
                 IN  IsItem(j) /\ j.status = i.status /\ j.trail = i.trail
  <2> TAKE found
  <2> DEFINE sources == WithSearch(i.sources, found)
             j == Searched(i, found)
  <2>1. j = [i EXCEPT !.sources = sources]
    BY DEF Searched
  <2> HIDE DEF sources, j
  <2>2. IsItem(j) /\ j.status = i.status /\ j.trail = i.trail
    BY <2>1 DEF IsItem
  <2> QED
    BY <2>2 DEF j
<1>3. LET j == SearchFailed(i)
      IN  IsItem(j) /\ j.status = i.status /\ j.trail = i.trail
  BY DEF SearchFailed, IsItem
<1> QED
  BY <1>1, <1>2, <1>3

\* The end of a case's research says what happened (EvidenceHonest).
LEMMA ConcludedFits ==
  ASSUME NEW i, IsItem(i), NEW c, NEW A, NEW A2, NEW O, NEW E, Orderly(i, c \in A, O, E),
         NEW answer, answer # None => answer.holders \in Nat /\ c \in A2,
         NEW j, j = Concluded(i, answer)
  PROVE  IsItem(j) /\ Orderly(j, c \in A2, O, E)
<1>1. \A k : LET m == Counted(k) IN m = [k EXCEPT !.cited = Cardinality(Urls(k.sources))]
  BY DEF Counted
<1>2. CASE answer = None
  <2> DEFINE k == [i EXCEPT !.error = "assembly", !.status = "unresolved"]
  <2>1. j = Counted(k)
    BY <1>2 DEF Concluded, Unanswered
  <2>2. IsItem(k) /\ k.error = "assembly" /\ k.status = "unresolved" /\ k.trail = i.trail
    BY DEF IsItem, Statuses
  <2> HIDE DEF k
  <2>3. /\ IsItem(j) /\ j.error = "assembly" /\ j.status = "unresolved"
        /\ j.trail = i.trail /\ j.cited = Cardinality(Urls(j.sources))
    BY <1>1, <2>1, <2>2 DEF IsItem
  <2> QED
    BY <2>3 DEF Orderly, Honest
<1>3. CASE answer # None
  <2> DEFINE sources == i.sources \o TaskSources(i.sources, answer.cites)
             status == IF answer.holders > 0 THEN "evidence_ready" ELSE "unresolved"
             k == [i EXCEPT !.holders = answer.holders, !.sources = sources, !.status = status]
  <2>1. j = Counted(k)
    BY <1>3 DEF Concluded, Answered
  <2>2. /\ status \in Statuses /\ status \in {"evidence_ready", "unresolved"}
        /\ status = "evidence_ready" => answer.holders > 0
        /\ status = "unresolved" => answer.holders = 0
    BY <1>3 DEF Statuses
  <2> HIDE DEF sources, status
  <2>3. IsItem(k) /\ k.holders = answer.holders /\ k.status = status /\ k.trail = i.trail
    BY <1>3, <2>2 DEF IsItem
  <2> HIDE DEF k
  <2>4. /\ IsItem(j) /\ j.holders = answer.holders /\ j.status = status
        /\ j.trail = i.trail /\ j.cited = Cardinality(Urls(j.sources))
    BY <1>1, <2>1, <2>3 DEF IsItem
  <2>5. Honest(j, c \in A2)
    BY <1>3, <2>2, <2>4 DEF Honest
  <2> QED
    BY <2>4, <2>5 DEF Orderly
<1> QED
  BY <1>2, <1>3

---------------------------------------------------------------------------
(***************************************************************************)
(* The analysis                                                            *)
(***************************************************************************)
Pcs == {"off", "queued", "scan", "reconcile", "open", "research", "finish", "failing"}

\* What has been answered, loose or explained stays so.
PastGrows ==
  /\ history.answered \subseteq history'.answered
  /\ history.loose \subseteq history'.loose
  /\ Explained \subseteq Explained'

GoodThen(d) == GoodDoc(d, history'.answered, history'.loose, Explained')

\* A copy that is good stays good.
LEMMA GoodStays ==
  ASSUME PastGrows
  PROVE  \A d : Good(d) => GoodThen(d)
  BY GoodOn DEF PastGrows, Good, GoodThen

\* More is known of the end of the analysis if it was not final.
LEMMA NowGrows ==
  ASSUME ~Final, history.lost => history'.lost,
         doc.phase = "ready" => doc'.phase = "ready" \/ history'.lost
  PROVE  Now \subseteq Now'
  BY DEF Now

\* As much is known of it.
LEMMA SameNow ==
  ASSUME UNCHANGED <<stored, hook>>, history'.lost = history.lost,
         worker'.pc = worker.pc, worker'.saves = worker.saves
  PROVE  Now' = Now
<1>1. doc' = doc /\ kept' = kept /\ hook' = hook
  BY DEF stored
<1>2. Final' = Final
  BY <1>1 DEF Final
<1> QED
  BY <1>1, <1>2 DEF Now

\* What was sent and is shown stays right.
LEMMA FeedKeeps ==
  ASSUME IInv, UNCHANGED <<feedVars, pageVars>>, Now \subseteq Now'
  PROVE  BusInv' /\ StreamInv' /\ PageInv'
<1>1. bus' = bus /\ stream' = stream /\ page' = page /\ polls' = polls
  BY DEF feedVars, pageVars
<1>2. BusInv'
  BY <1>1, KnowsOn DEF IInv, BusInv
<1>3. StreamInv'
  BY <1>1, KnowsOn DEF IInv, StreamInv
<1>4. PageInv'
  BY <1>1, KnowsOn DEF IInv, PageInv
<1> QED
  BY <1>2, <1>3, <1>4

\* What a step of the analysis saves, or that it rejects at once.
Wrote(mem, pc, event, thrown) ==
  /\ kept' = kept
  /\ worker' \in [pc : {pc, thrown}, mem : {mem}, saves : {worker'.saves}, work : {worker'.work}]
  /\ \/ /\ doc' = mem /\ worker'.pc = pc
        /\ worker'.saves = worker.saves \cup {[mem |-> mem, event |-> event, thrown |-> thrown]}
     \/ doc' = doc /\ worker'.pc = thrown /\ worker'.saves = worker.saves

\* A worker before its save.
Poised(next, mem, pc) ==
  next \in [pc : {pc}, mem : {mem}, saves : {worker.saves}, work : {next.work}]

\* A save leaves the document and the worker as Wrote says.
LEMMA SaveShape ==
  ASSUME NEW next, NEW mem, NEW pc, Poised(next, mem, pc), NEW event, NEW thrown,
         SaveAndTell(next, event, thrown)
  PROVE  Wrote(mem, pc, event, thrown)
<1> DEFINE save == [mem |-> mem, event |-> event, thrown |-> thrown]
<1>1. CASE doc' = next.mem /\ worker' = [next EXCEPT !.saves = @ \cup {save}]
  <2> HIDE DEF save
  <2>1. /\ worker' \in [pc : {pc}, mem : {mem}, saves : {worker'.saves}, work : {worker'.work}]
        /\ worker'.saves = worker.saves \cup {save} /\ next.mem = mem /\ worker'.pc = pc
    BY <1>1 DEF Poised
  <2> QED
    BY <1>1, <2>1 DEF Wrote, SaveAndTell, save
<1>2. CASE doc' = doc /\ worker' = [next EXCEPT !.pc = thrown]
  <2>1. /\ worker' \in [pc : {thrown}, mem : {mem}, saves : {worker'.saves}, work : {worker'.work}]
        /\ worker'.saves = worker.saves /\ worker'.pc = thrown
    BY <1>2 DEF Poised
  <2> QED
    BY <1>2, <2>1 DEF Wrote, SaveAndTell
<1>3. next.mem = mem
  BY DEF Poised
<1> QED
  BY <1>1, <1>2, <1>3 DEF SaveAndTell

\* A save with its progress.
LEMMA ProgressShape ==
  ASSUME NEW phase, NEW next, NEW mem, NEW pc, Poised(next, mem, pc), Progress(phase, next),
         NEW A, NEW O, NEW E, GoodDoc(mem, A, O, E)
  PROVE  Wrote([mem EXCEPT !.phase = phase], pc, Event("progress", phase), "failing")
<1> DEFINE new == [mem EXCEPT !.phase = phase]
           then == [next EXCEPT !.mem.phase = phase]
<1>1. Poised(then, new, pc)
  BY DEF Poised
<1>2. SaveAndTell(then, Event("progress", phase), "failing")
  BY DEF Progress
<1> HIDE DEF then, new
<1>3. Wrote(new, pc, Event("progress", phase), "failing")
  BY <1>1, <1>2, SaveShape
<1> QED
  BY <1>3 DEF new

\* What the analysis may publish when it has saved mem.
Tells(event, mem) ==
  /\ event.type # "snapshot"
  /\ event.type = "progress" => event.about \in Phases \ {"ready"}
  /\ event.type = "done" => event.about = "ready" /\ mem.phase = "ready"

\* How a step of the analysis may save: the last save of a run is its only one.
MaySave(mem, pc, event, thrown) ==
  /\ pc \in Pcs \ {"queued"} /\ thrown \in {"failing", "off"}
  /\ Tells(event, mem)
  /\ mem.phase = "ready" => pc = "off"
  /\ pc \in {"open", "research", "finish"} => Full(mem)
  /\ pc = "research" => mem.phase = "researching"
  /\ pc = "off" => worker.saves = {} /\ (thrown = "off" \/ mem.phase = "ready")
  /\ thrown = "off" => pc = "off"

\* A save of the analysis keeps the documents and the worker in order.
LEMMA SavedWell ==
  ASSUME WorkerInv, Good(doc), Good(kept), PastGrows, history'.lost = history.lost,
         worker.pc # "off",
         NEW mem, GoodThen(mem), NEW pc, NEW event, NEW thrown,
         MaySave(mem, pc, event, thrown), Wrote(mem, pc, event, thrown)
  PROVE  Good(doc)' /\ Good(kept)' /\ WorkerInv'
<1> DEFINE save == [mem |-> mem, event |-> event, thrown |-> thrown]
<1>1. /\ worker' \in [pc : Pcs, mem : {worker'.mem}, saves : {worker'.saves},
                      work : {worker'.work}]
      /\ worker'.mem = mem /\ worker'.pc # "queued"
  BY DEF Wrote, MaySave, Pcs
<1>2. /\ doc.phase # "ready" \/ history'.lost
      /\ \A s \in worker.saves : IsSave(s)
  BY DEF WorkerInv
<1>3. Good(kept)'
  <2>1. kept' = kept /\ GoodThen(kept)
    BY GoodStays DEF Wrote
  <2> QED
    BY <2>1 DEF Good, GoodThen
<1>4. \A s \in worker.saves :
        /\ s \in [mem : {s.mem}, event : {s.event}, thrown : {"failing", "off"}]
        /\ GoodThen(s.mem) /\ Tells(s.event, s.mem)
        /\ s.mem.phase # "ready" /\ s.thrown # "off"
  BY <1>2, GoodStays DEF IsSave, Tells
<1>5. GoodThen(worker'.mem)
  BY <1>1
<1>6. CASE doc' = mem /\ worker'.pc = pc /\ worker'.saves = worker.saves \cup {save}
  <2>1. GoodThen(doc')
    BY <1>6
  <2>2. ASSUME NEW s \in worker'.saves
        PROVE  /\ s \in [mem : {s.mem}, event : {s.event}, thrown : {"failing", "off"}]
               /\ GoodThen(s.mem) /\ Tells(s.event, s.mem)
               /\ s.mem.phase = "ready" \/ s.thrown = "off" => pc = "off"
               /\ pc = "off" => /\ worker'.saves = {s} /\ doc'.phase = s.mem.phase
                                /\ s.thrown = "off" \/ s.mem.phase = "ready"
    <3>1. CASE s = save
      BY <1>6, <3>1 DEF MaySave
    <3>2. CASE s \in worker.saves
      BY <1>4, <3>2 DEF MaySave
    <3> QED
      BY <1>6, <2>2, <3>1, <3>2
  <2>3. worker'.pc # "off" => doc'.phase # "ready"
    BY <1>6 DEF MaySave
  <2>4. /\ worker'.pc \in {"open", "research", "finish"} => Full(worker'.mem)
        /\ worker'.pc = "research" => worker'.mem.phase = "researching"
    BY <1>1, <1>6 DEF MaySave
  <2>5. \A s \in worker'.saves : IsSave(s)'
    BY <1>6, <2>2 DEF IsSave, Good, GoodThen, Tells
  <2> HIDE DEF save
  <2> QED
    BY <1>1, <1>3, <1>5, <2>1, <2>3, <2>4, <2>5 DEF Good, GoodThen, WorkerInv, Pcs, Full
<1>7. CASE doc' = doc /\ worker'.pc = thrown /\ worker'.saves = worker.saves
  <2>1. GoodThen(doc')
    BY <1>7, GoodStays
  <2>2. ASSUME NEW s \in worker'.saves PROVE IsSave(s)'
    <3>1. worker'.pc # "off"
      BY <1>7, <2>2 DEF MaySave
    <3> QED
      BY <1>4, <1>7, <2>2, <3>1 DEF IsSave, Good, GoodThen, Tells
  <2>3. worker'.pc # "off" => doc'.phase # "ready" \/ history'.lost
    BY <1>2, <1>7
  <2>4. worker'.pc \notin {"open", "research", "finish"}
    BY <1>7 DEF MaySave
  <2> QED
    BY <1>1, <1>3, <1>5, <2>1, <2>2, <2>3, <2>4 DEF Good, GoodThen, WorkerInv, Pcs, Full
<1> QED
  BY <1>6, <1>7 DEF Wrote

\* Deliveries are explained as before if neither handlers nor the registry move.
LEMMA ExplainedSame ==
  ASSUME UNCHANGED hookVars
  PROVE  Explained' = Explained
  BY DEF hookVars, Explained, Past, Registered, Senders

\* While the analysis runs or saves, no handler does, and nothing is final.
LEMMA HandlersWait ==
  ASSUME IInv, worker.pc # "off" \/ worker.saves # {}
  PROVE  ~Final /\ \A h \in Hooks : hook[h].pc = "done"
  BY DEF IInv, HookInv, Final

\* A step of the analysis.
LEMMA AnalysisKeeps ==
  ASSUME IInv, worker.pc # "off" \/ worker.saves # {}, UNCHANGED hookVars,
         IsHistory(history'), BusInv', StreamInv', PageInv',
         Good(doc)', Good(kept)', WorkerInv'
  PROVE  IInv'
<1>1. \A h \in Hooks : hook[h].pc = "done"
  BY HandlersWait
<1>2. hook' = hook /\ monitors' = monitors
  BY DEF hookVars
<1>3. HookInv'
  <2>1. /\ hook' = [h \in Hooks |-> hook'[h]]
        /\ \A h \in Hooks : IsHook(hook'[h]) /\ hook'[h].pc = "done"
        /\ monitors' \in [known : SUBSET [id : Hooks, case : Cases], delivered : SUBSET Ids]
        /\ \A m \in monitors'.known : hook'[m.id].pc \notin {"new", "creating"}
    BY <1>1, <1>2 DEF IInv, HookInv
  <2> QED
    BY <2>1 DEF HookInv, Holds
<1>4. DeliveryInv'
  BY <1>1, <1>2 DEF DeliveryInv, Delivering
<1> QED
  BY <1>3, <1>4 DEF IInv

\* What a run makes of the stored record when it starts.
LEMMA StartKeeps ==
  ASSUME IInv, Start
  PROVE  IInv'
<1>1. /\ worker.pc = "queued" /\ doc' = doc /\ kept' = kept /\ history' = history
      /\ UNCHANGED <<feedVars, pageVars, hookVars>>
  BY DEF Start, Unheard, stored
<1>2. Explained' = Explained
  BY <1>1, ExplainedSame
<1>3. /\ Good(doc) /\ Good(kept) /\ WorkerInv /\ worker.saves = {}
      /\ doc.phase # "ready" \/ history.lost
  BY <1>1 DEF IInv, WorkerInv
<1>4. PICK pc : /\ pc = IF doc.phase \in Over THEN "off"
                        ELSE IF doc.items = << >> THEN "scan"
                        ELSE IF \E c \in Cases : Awaits(doc.items[c]) THEN "open"
                        ELSE "finish"
                /\ worker' = [worker EXCEPT !.mem = doc, !.pc = pc]
  BY DEF Start
<1>5. /\ worker' \in [pc : {"off", "scan", "open", "finish"}, mem : {worker'.mem},
                      saves : {worker'.saves}, work : {worker'.work}]
      /\ worker'.mem = doc /\ worker'.saves = {}
      /\ worker'.pc \in {"open", "finish"} => doc.items # << >>
  BY <1>3, <1>4 DEF WorkerInv
<1>6. Good(doc)' /\ Good(kept)' /\ (doc.items # << >> => Full(doc))
  BY <1>1, <1>2, <1>3 DEF Good, GoodDoc, IsDoc
<1>7. WorkerInv'
  <2>1. GoodDoc(worker'.mem, history'.answered, history'.loose, Explained')
    BY <1>1, <1>2, <1>3, <1>5 DEF Good
  <2>2. doc'.phase # "ready" \/ history'.lost
    BY <1>1, <1>3
  <2> QED
    BY <1>5, <1>6, <2>1, <2>2 DEF WorkerInv, Good, Full
<1>8. IsHistory(history')
  BY <1>1 DEF IInv, HookInv
<1>9. Now \subseteq Now'
  BY <1>1, HandlersWait, NowGrows
<1>10. BusInv' /\ StreamInv' /\ PageInv'
  BY <1>1, <1>9, FeedKeeps
<1> QED
  BY <1>1, <1>6, <1>7, <1>8, <1>10, AnalysisKeeps

\* A save of the analysis, whichever it is.
LEMMA SaveKeeps ==
  ASSUME IInv, worker.pc # "off", UNCHANGED <<feedVars, pageVars, hookVars>>,
         history'.loose = history.loose, history'.lost = history.lost,
         history.answered \subseteq history'.answered,
         IsHistory(history'),
         NEW mem, GoodThen(mem), NEW pc, NEW event, NEW thrown,
         MaySave(mem, pc, event, thrown), Wrote(mem, pc, event, thrown)
  PROVE  IInv'
<1>1. PastGrows
  BY ExplainedSame DEF PastGrows
<1>2. Good(doc)' /\ Good(kept)' /\ WorkerInv'
  BY <1>1, SavedWell DEF IInv
<1>3. Now \subseteq Now'
  BY HandlersWait, NowGrows DEF IInv, WorkerInv
<1>4. BusInv' /\ StreamInv' /\ PageInv'
  BY <1>3, FeedKeeps
<1> QED
  BY <1>2, <1>4, AnalysisKeeps

\* The phases before the research.
LEMMA PhasesKeep ==
  ASSUME IInv, Scan \/ Reconcile \/ OpenResearch
  PROVE  IInv'
<1>1. /\ history' = history /\ UNCHANGED <<feedVars, pageVars, hookVars>>
      /\ worker.pc \in {"scan", "reconcile", "open"}
  BY DEF Scan, Reconcile, OpenResearch, Unheard
<1>2. /\ WorkerInv /\ Good(worker.mem)
      /\ worker.pc = "open" => Full(worker.mem)
      /\ IsHistory(history)
  BY <1>1 DEF IInv, WorkerInv, HookInv
<1>3. PastGrows
  BY <1>1, ExplainedSame DEF PastGrows
<1>4. GoodThen(worker.mem)
  BY <1>2, <1>3, GoodStays
<1>5. ASSUME NEW phase \in {"scanning", "reconciling", "researching"},
             NEW pc \in {"reconcile", "open", "research"}, NEW next, NEW m, GoodThen(m),
             Poised(next, m, pc), Progress(phase, next),
             pc \in {"open", "research"} => Full(m),
             pc = "research" => phase = "researching"
      PROVE  IInv'
  <2> DEFINE mem == [m EXCEPT !.phase = phase]
             event == Event("progress", phase)
  <2>1. phase \in Phases /\ phase # "ready"
    BY DEF Phases
  <2>2. Wrote(mem, pc, event, "failing")
    BY <1>5, ProgressShape DEF GoodThen
  <2>3. GoodThen(mem) /\ (Full(m) => Full(mem)) /\ mem.phase = phase
    BY <1>5, <2>1, Rephased DEF GoodThen
  <2> HIDE DEF mem
  <2>4. Tells(event, mem)
    BY <2>1 DEF Tells, Event
  <2> HIDE DEF event
  <2>5. MaySave(mem, pc, event, "failing")
    BY <1>5, <2>1, <2>3, <2>4 DEF MaySave, Pcs
  <2> QED
    BY <1>1, <1>2, <2>2, <2>3, <2>5, SaveKeeps
<1>6. CASE Scan
  <2> DEFINE next == [worker EXCEPT !.pc = "reconcile"]
  <2>1. Poised(next, worker.mem, "reconcile")
    BY <1>2 DEF Poised, WorkerInv
  <2>2. Progress("scanning", next)
    BY <1>6 DEF Scan
  <2> HIDE DEF next
  <2> QED
    BY <1>4, <1>5, <2>1, <2>2
<1>7. CASE Reconcile
  <2> DEFINE items == [c \in Cases |-> NewCase]
             m == [worker.mem EXCEPT !.items = items]
             next == [worker EXCEPT !.mem.items = items, !.pc = "open"]
  <2>1. Poised(next, m, "open")
    BY <1>2 DEF Poised, WorkerInv
  <2>2. Progress("reconciling", next)
    BY <1>7 DEF Reconcile
  <2>3. GoodThen(m) /\ Full(m)
    BY <1>4, NewCaseFits, NewCases DEF GoodThen
  <2> HIDE DEF next, m
  <2> QED
    BY <1>5, <2>1, <2>2, <2>3
<1>8. CASE OpenResearch
  <2> DEFINE next == [worker EXCEPT !.pc = "research"]
  <2>1. Poised(next, worker.mem, "research")
    BY <1>2 DEF Poised, WorkerInv
  <2>2. Progress("researching", next) /\ worker.pc = "open"
    BY <1>8 DEF OpenResearch
  <2> HIDE DEF next
  <2> QED
    BY <1>2, <1>4, <1>5, <2>1, <2>2
<1> QED
  BY <1>6, <1>7, <1>8

\* A stage throws before it has saved.
LEMMA StageThrowsKeeps ==
  ASSUME IInv, StageThrows
  PROVE  IInv'
<1>1. /\ worker.pc \in {"scan", "reconcile"} /\ doc' = doc /\ kept' = kept
      /\ history' = history /\ worker.saves = {}
      /\ UNCHANGED <<feedVars, pageVars, hookVars>>
      /\ worker' = [worker EXCEPT !.pc = "failing"]
  BY DEF StageThrows, Unheard, stored, Quiet
<1>2. Explained' = Explained
  BY <1>1, ExplainedSame
<1>3. /\ worker' \in [pc : {"failing"}, mem : {worker'.mem}, saves : {worker'.saves},
                      work : {worker'.work}]
      /\ worker'.mem = worker.mem /\ worker'.saves = {}
  BY <1>1 DEF IInv, WorkerInv
<1>4. Good(doc)' /\ Good(kept)' /\ WorkerInv'
  BY <1>1, <1>2, <1>3 DEF IInv, WorkerInv, Good
<1>5. Now \subseteq Now'
  BY <1>1, HandlersWait, NowGrows
<1>6. BusInv' /\ StreamInv' /\ PageInv'
  BY <1>1, <1>5, FeedKeeps
<1> QED
  BY <1>1, <1>4, <1>6, AnalysisKeeps DEF IInv, HookInv

\* A case of the running research.
LEMMA MineGood ==
  ASSUME IInv, NEW c \in Cases, Mine(c)
  PROVE  /\ worker.pc = "research" /\ worker.mem.phase = "researching"
         /\ Good(worker.mem) /\ Full(worker.mem)
         /\ IsItem(worker.mem.items[c]) /\ Awaits(worker.mem.items[c])
         /\ Orderly(worker.mem.items[c], c \in history.answered, history.loose, Explained)
         /\ IsHistory(history)
         /\ worker \in [pc : {"research"}, mem : {worker.mem}, saves : {worker.saves},
                        work : {worker.work}]
  BY DEF Mine, IInv, WorkerInv, HookInv, Good, GoodDoc, IsDoc

\* A case is taken up.
LEMMA TakeKeeps ==
  ASSUME IInv, NEW c \in Cases, Take(c)
  PROVE  IInv'
<1>1. /\ Mine(c) /\ history' = history /\ UNCHANGED <<feedVars, pageVars, hookVars>>
  BY DEF Take, Unheard
<1> DEFINE old == worker.mem.items[c]
           item == [old EXCEPT !.status = "researching"]
           mem == [worker.mem EXCEPT !.items[c] = item]
           next == [worker EXCEPT !.mem.items[c] = item, !.work[c] = "search"]
           event == Event("item_status", Told(c, item))
<1>2. SaveAndTell(next, event, "failing")
  BY DEF Take
<1>3. Poised(next, mem, "research")
  BY <1>1, MineGood DEF Poised
<1>4. \A m : Tells(event, m)
  BY DEF Tells, Event
<1>5. IsItem(item) /\ Orderly(item, c \in history.answered, history.loose, Explained)
  BY <1>1, MineGood, EditedFits DEF Statuses
<1> HIDE DEF next, event, item
<1>6. Good(mem) /\ Full(mem) /\ mem.phase = "researching"
  BY <1>1, <1>5, MineGood, Replaced DEF Good
<1> HIDE DEF mem
<1>7. Wrote(mem, "research", event, "failing")
  BY <1>2, <1>3, SaveShape
<1>8. GoodThen(mem)
  BY <1>1, <1>6, ExplainedSame, GoodStays DEF PastGrows
<1>9. MaySave(mem, "research", event, "failing")
  BY <1>4, <1>6 DEF MaySave, Pcs
<1> QED
  BY <1>1, <1>7, <1>8, <1>9, MineGood, SaveKeeps

\* The research of a case is over.
LEMMA ConcludeKeeps ==
  ASSUME IInv, NEW c \in Cases, Conclude(c)
  PROVE  IInv'
<1>1. Mine(c) /\ UNCHANGED <<feedVars, pageVars, hookVars>>
  BY DEF Conclude
<1>2. PICK answer, item :
        /\ answer \in Answers \cup {None}
        /\ item = Concluded(worker.mem.items[c],
                            IF answer = None THEN None
                            ELSE Dossier(answer, worker.mem.items[c].sources))
        /\ SaveAndTell([worker EXCEPT !.mem.items[c] = item, !.work[c] = "free"],
                       Event("item_researched", Told(c, item)), "failing")
        /\ history' = [history EXCEPT !.answered =
                         IF answer # None THEN @ \cup {c} ELSE @]
  BY DEF Conclude
<1> DEFINE mem == [worker.mem EXCEPT !.items[c] = item]
           next == [worker EXCEPT !.mem.items[c] = item, !.work[c] = "free"]
           event == Event("item_researched", Told(c, item))
<1>3. /\ history'.loose = history.loose /\ history'.lost = history.lost
      /\ history.answered \subseteq history'.answered
      /\ IsHistory(history')
      /\ answer # None => c \in history'.answered
  BY <1>1, <1>2, MineGood DEF IsHistory
<1>4. Explained' = Explained /\ PastGrows
  BY <1>1, <1>3, ExplainedSame DEF PastGrows
<1>5. PICK dossier : /\ item = Concluded(worker.mem.items[c], dossier)
                     /\ dossier # None => dossier.holders \in Nat /\ c \in history'.answered
  <2> DEFINE sources == worker.mem.items[c].sources
             d == IF answer = None THEN None ELSE Dossier(answer, sources)
  <2>1. d # None => d.holders = answer.holders /\ answer # None
    BY DEF Dossier, Task, Synthesis
  <2>2. answer # None => answer.holders \in Nat
    BY <1>2, DeliveryAssumption
  <2>3. d # None => d.holders \in Nat /\ c \in history'.answered
    BY <1>3, <2>1, <2>2
  <2>4. item = Concluded(worker.mem.items[c], d)
    BY <1>2
  <2> HIDE DEF d
  <2> QED
    BY <2>3, <2>4
<1>6. /\ IsItem(item)
      /\ Orderly(item, c \in history'.answered, history.loose, Explained)
  <2> DEFINE old == worker.mem.items[c]
  <2>1. /\ IsItem(old)
        /\ Orderly(old, c \in history.answered, history.loose, Explained)
    BY <1>1, MineGood
  <2>2. PICK B : B = history'.answered
    OBVIOUS
  <2>3. item = Concluded(old, dossier) /\ (dossier # None => dossier.holders \in Nat /\ c \in B)
    BY <1>5, <2>2
  <2> HIDE DEF old
  <2>4. IsItem(item) /\ Orderly(item, c \in B, history.loose, Explained)
    BY <2>1, <2>3, ConcludedFits
  <2> QED
    BY <2>2, <2>4
<1>7. GoodThen(worker.mem) /\ Full(worker.mem) /\ worker.mem.phase = "researching"
  BY <1>1, <1>4, MineGood, GoodStays
<1>8. GoodThen(mem) /\ Full(mem) /\ mem.phase = "researching"
  BY <1>3, <1>4, <1>6, <1>7, Replaced DEF GoodThen
<1>9. Poised(next, mem, "research")
  BY <1>1, MineGood DEF Poised
<1>10. SaveAndTell(next, event, "failing") /\ Tells(event, mem)
  BY <1>2 DEF Tells, Event
<1> HIDE DEF next, event, mem
<1>11. Wrote(mem, "research", event, "failing")
  BY <1>9, <1>10, SaveShape
<1>12. MaySave(mem, "research", event, "failing")
  BY <1>8, <1>10 DEF MaySave, Pcs
<1> QED
  BY <1>1, <1>3, <1>8, <1>11, <1>12, MineGood, SaveKeeps

\* The analysis ends.
LEMMA EndKeeps ==
  ASSUME IInv, Finish \/ Fail
  PROVE  IInv'
<1>1. /\ history' = history /\ UNCHANGED <<feedVars, pageVars, hookVars>>
      /\ worker.pc \in {"research", "finish", "failing"} /\ worker.saves = {}
  BY DEF Finish, Fail, Researched, Unheard, Quiet
<1>2. /\ Good(worker.mem) /\ PastGrows
      /\ IsHistory(history)
  BY <1>1, ExplainedSame DEF IInv, WorkerInv, HookInv, PastGrows
<1>3. ASSUME NEW phase \in {"ready", "failed"}, NEW event, NEW thrown \in {"failing", "off"},
             event.type = IF phase = "ready" THEN "done" ELSE "error",
             event.about = phase, phase = "failed" => thrown = "off",
             SaveAndTell([worker EXCEPT !.mem.phase = phase, !.pc = "off"], event, thrown)
      PROVE  IInv'
  <2> DEFINE mem == [worker.mem EXCEPT !.phase = phase]
             next == [worker EXCEPT !.mem.phase = phase, !.pc = "off"]
  <2>1. phase \in Phases
    BY DEF Phases
  <2>2. Poised(next, mem, "off")
    BY <1>1 DEF Poised, IInv, WorkerInv
  <2>3. GoodThen(mem) /\ mem.phase = phase
    BY <1>2, <2>1, GoodStays, Rephased DEF GoodThen
  <2>4. SaveAndTell(next, event, thrown)
    BY <1>3
  <2> HIDE DEF next, mem
  <2>5. MaySave(mem, "off", event, thrown)
    BY <1>1, <1>3, <2>3 DEF MaySave, Tells, Pcs
  <2>6. Wrote(mem, "off", event, thrown)
    BY <2>2, <2>4, SaveShape
  <2> QED
    BY <1>1, <1>2, <2>3, <2>5, <2>6, SaveKeeps
<1>4. CASE Finish
  BY <1>3, <1>4 DEF Finish, Event
<1>5. CASE Fail
  BY <1>3, <1>5 DEF Fail, Event
<1> QED
  BY <1>4, <1>5

\* Streams at which each page's is in order.
AreStreams(streams, now) ==
  /\ streams = [p \in Pages |-> streams[p]]
  /\ \A p \in Pages : IsStream(streams[p], now)

\* The bus hands out a right event under its next id, and keeps it.
LEMMA LogKeeps ==
  ASSUME BusInv, Now \subseteq Now', NEW event, IsEvent(event, Now'),
         bus' = [next |-> bus.next + 1, log |-> LastOf(Append(bus.log, Envelope(event)))]
  PROVE  BusInv'
<1>1. PICK now : now = Now'
  OBVIOUS
<1>2. bus.next \in Nat \ {0} /\ Queue(bus.log, now)
  BY <1>1, KnowsOn DEF BusInv
<1>3. Envelope(event).id \in Nat /\ IsEvent(Envelope(event).event, now)
  BY <1>1, <1>2 DEF Envelope
<1>4. /\ Queue(Append(bus.log, Envelope(event)), now)
      /\ Len(Append(bus.log, Envelope(event))) \in Nat
  BY <1>2, <1>3, QueueAppend
<1>5. /\ Queue(LastOf(Append(bus.log, Envelope(event))), now)
      /\ Len(LastOf(Append(bus.log, Envelope(event)))) <= HistoryLimit
  BY <1>4, QueueLast
<1> QED
  BY <1>1, <1>2, <1>5 DEF BusInv

\* A right event joins the queue of every subscriber.
LEMMA ForwardKeeps ==
  ASSUME BusInv, NEW now, NEW event, IsEvent(event, now),
         NEW streams, AreStreams(streams, now)
  PROVE  AreStreams(Forward(streams, event), now)
<1>1. Envelope(event).id \in Nat /\ IsEvent(Envelope(event).event, now)
  BY DEF Envelope, BusInv
<1> DEFINE next == Forward(streams, event)
<1>2. next = [p \in Pages |->
        IF streams[p].pc = "on"
        THEN [streams[p] EXCEPT !.queue = Append(@, Envelope(event))]
        ELSE streams[p]]
  BY DEF Forward
<1> HIDE DEF next
<1>3. ASSUME NEW p \in Pages PROVE IsStream(next[p], now)
  <2>1. IsStream(streams[p], now)
    BY DEF AreStreams
  <2>2. CASE streams[p].pc = "on"
    <3>1. /\ streams[p] \in [pc : {"on"}, queue : {streams[p].queue}]
          /\ Queue(streams[p].queue, now)
      BY <2>1, <2>2 DEF IsStream
    <3>2. Queue(Append(streams[p].queue, Envelope(event)), now)
      BY <1>1, <3>1, QueueAppend
    <3>3. /\ next[p] \in [pc : {"on"}, queue : {next[p].queue}]
          /\ next[p].queue = Append(streams[p].queue, Envelope(event))
      BY <1>2, <2>2, <3>1
    <3> QED
      BY <3>2, <3>3 DEF IsStream
  <2>3. CASE streams[p].pc # "on"
    BY <1>2, <2>1, <2>3
  <2> QED
    BY <2>2, <2>3
<1>4. AreStreams(next, now)
  BY <1>2, <1>3 DEF AreStreams
<1> QED
  BY <1>4 DEF next

\* Publishing a right event.
LEMMA PublishKeeps ==
  ASSUME IInv, Now \subseteq Now', NEW event, IsEvent(event, Now'), Publish(event),
         UNCHANGED pageVars
  PROVE  BusInv' /\ StreamInv' /\ PageInv'
<1>1. BusInv'
  BY LogKeeps DEF IInv, Publish
<1>2. AreStreams(stream', Now')
  <2>1. PICK now : now = Now'
    OBVIOUS
  <2>2. AreStreams(stream, now)
    BY <2>1, KnowsOn DEF IInv, StreamInv, AreStreams
  <2>3. AreStreams(Forward(stream, event), now)
    BY <2>1, <2>2, ForwardKeeps DEF IInv
  <2> QED
    BY <2>1, <2>3 DEF Publish
<1>3. PageInv'
  <2>1. page' = page /\ polls' = polls
    BY DEF pageVars
  <2> QED
    BY <2>1, KnowsOn DEF IInv, PageInv
<1> QED
  BY <1>1, <1>2, <1>3 DEF StreamInv, AreStreams

\* A step of those who watch leaves the documents and the handlers in order.
LEMMA RestKeeps ==
  ASSUME IInv, UNCHANGED <<stored, hookVars, history>>,
         worker'.pc = worker.pc, worker'.saves = worker.saves
  PROVE  /\ Good(doc)' /\ Good(kept)' /\ HookInv' /\ DeliveryInv'
         /\ Explained' = Explained /\ Now' = Now
         /\ worker' = worker => WorkerInv'
<1>1. Explained' = Explained
  BY ExplainedSame
<1>2. /\ doc' = doc /\ kept' = kept /\ hook' = hook /\ monitors' = monitors
      /\ history' = history
  BY DEF hookVars, stored
<1>3. Good(doc)' /\ Good(kept)'
  BY <1>1, <1>2 DEF IInv, Good
<1>4. HookInv'
  BY <1>1, <1>2 DEF IInv, HookInv, Holds, Good
<1>5. DeliveryInv'
  BY <1>2 DEF IInv, DeliveryInv, Delivering, Registered
<1>6. ASSUME worker' = worker PROVE WorkerInv'
  BY <1>1, <1>2, <1>6 DEF IInv, WorkerInv, IsSave, Good
<1>7. Now' = Now
  BY <1>2, SameNow
<1> QED
  BY <1>1, <1>3, <1>4, <1>5, <1>6, <1>7

\* A save answers: what was saved is kept, and published.
LEMMA SaveLandsKeeps ==
  ASSUME IInv, SaveLands
  PROVE  IInv'
<1>1. doc' = doc /\ history' = history /\ UNCHANGED <<pageVars, hookVars>>
  BY DEF SaveLands
<1>2. PICK save \in worker.saves : /\ kept' = save.mem /\ Publish(save.event)
                                   /\ worker' = [worker EXCEPT !.saves = @ \ {save}]
  BY DEF SaveLands
<1>3. WorkerInv /\ IsSave(save) /\ Good(doc) /\ IsHistory(history)
  BY DEF IInv, WorkerInv, HookInv
<1>4. /\ worker' \in [pc : Pcs, mem : {worker'.mem}, saves : {worker'.saves},
                      work : {worker'.work}]
      /\ worker'.pc = worker.pc /\ worker'.mem = worker.mem
      /\ worker'.saves = worker.saves \ {save}
  BY <1>2, <1>3 DEF WorkerInv, Pcs
<1>5. Explained' = Explained
  BY <1>1, ExplainedSame
<1>6. Good(doc)' /\ Good(kept)'
  BY <1>1, <1>2, <1>3, <1>5 DEF Good, IsSave
<1>7. WorkerInv'
  <2>1. \A s \in worker'.saves : IsSave(s) /\ worker.pc # "off"
    BY <1>3, <1>4 DEF WorkerInv, IsSave
  <2>2. \A s \in worker'.saves : IsSave(s)'
    BY <1>1, <1>4, <1>5, <2>1 DEF IsSave, Good
  <2>3. /\ worker'.pc # "off" => doc'.phase # "ready" \/ history'.lost
        /\ worker'.pc = "queued" => worker'.saves = {}
        /\ worker'.pc \notin {"off", "queued"} \/ worker'.saves # {} => Good(worker'.mem)
    BY <1>1, <1>3, <1>4 DEF WorkerInv
  <2>4. Good(worker'.mem) => Good(worker.mem)'
    BY <1>1, <1>4, <1>5 DEF Good
  <2>5. /\ worker'.pc \in {"open", "research", "finish"} => Full(worker'.mem)
        /\ worker'.pc = "research" => worker'.mem.phase = "researching"
    BY <1>3, <1>4 DEF WorkerInv
  <2> QED
    BY <1>4, <2>2, <2>3, <2>4, <2>5 DEF WorkerInv, Pcs, Full
<1>8. Now \subseteq Now'
  BY <1>1, <1>2, HandlersWait, NowGrows
<1>9. IsEvent(save.event, Now')
  <2>1. ASSUME save.event.type = "done"
        PROVE  save.event.about = "ready" /\ {"read", "final"} \subseteq Now'
    <3>1. /\ save.event.about = "ready" /\ save.mem.phase = "ready"
          /\ worker.pc = "off" /\ worker.saves = {save} /\ doc.phase = "ready"
      BY <1>3, <2>1 DEF IsSave
    <3>2. /\ doc'.phase = "ready" /\ kept'.phase = "ready"
          /\ worker'.pc = "off" /\ worker'.saves = {}
      BY <1>1, <1>2, <1>4, <3>1
    <3>3. hook' = hook /\ \A h \in Hooks : hook[h].pc = "done"
      BY <1>1, <3>1, HandlersWait DEF hookVars
    <3>4. Final'
      BY <3>2, <3>3 DEF Final
    <3> QED
      BY <3>1, <3>2, <3>4 DEF Now
  <2> QED
    BY <1>3, <2>1 DEF IsSave, IsEvent
<1>10. BusInv' /\ StreamInv' /\ PageInv'
  BY <1>1, <1>2, <1>8, <1>9, PublishKeeps
<1> QED
  BY <1>1, <1>2, <1>3, <1>6, <1>7, <1>10, AnalysisKeeps

\* A save rejects after readers were shown what it saved.
LEMMA SaveRejectsKeeps ==
  ASSUME IInv, SaveRejects
  PROVE  IInv'
<1>1. UNCHANGED <<feedVars, pageVars, hookVars>>
  BY DEF SaveRejects
<1>2. PICK save \in worker.saves :
        /\ worker' = [worker EXCEPT !.saves = @ \ {save}, !.pc = save.thrown]
        /\ history' = [history EXCEPT !.lost = @ \/ save.mem.phase = "ready"]
        /\ \/ kept' \in {kept, save.mem} /\ doc' = doc
           \/ doc' = Gone /\ kept' = Gone
  BY DEF SaveRejects
<1>3. /\ WorkerInv /\ IsSave(save) /\ Good(doc) /\ Good(kept) /\ Good(worker.mem)
      /\ IsHistory(history)
  BY DEF IInv, WorkerInv, HookInv
<1>4. /\ worker' \in [pc : {"off", "failing"}, mem : {worker'.mem}, saves : {worker'.saves},
                      work : {worker'.work}]
      /\ worker'.pc = save.thrown /\ worker'.mem = worker.mem
      /\ worker'.saves = worker.saves \ {save}
  BY <1>2, <1>3 DEF WorkerInv, IsSave
<1>5. /\ IsHistory(history') /\ history'.answered = history.answered
      /\ history'.loose = history.loose
      /\ history.lost => history'.lost
      /\ save.mem.phase = "ready" => history'.lost
  BY <1>2, <1>3 DEF IsHistory
<1>6. Explained' = Explained
  BY <1>1, ExplainedSame
<1>7. \A d : Good(d) => GoodThen(d)
  BY <1>5, <1>6 DEF Good, GoodThen
<1>8. GoodThen(doc') /\ GoodThen(kept')
  <2>1. GoodThen(Gone)
    BY GoneFits DEF GoodThen
  <2>2. GoodThen(doc) /\ GoodThen(kept) /\ GoodThen(save.mem)
    BY <1>3, <1>7 DEF IsSave
  <2> QED
    BY <1>2, <2>1, <2>2
<1>9. doc.phase = "ready" => doc'.phase = "ready" \/ history'.lost
  BY <1>2, <1>3, <1>5 DEF WorkerInv, IsSave
<1>10. WorkerInv'
  <2>1. \A s \in worker'.saves : IsSave(s) /\ worker.pc # "off"
    BY <1>3, <1>4 DEF WorkerInv, IsSave
  <2>2. worker'.saves # {} => worker'.pc = "failing"
    BY <1>3, <1>4, <2>1 DEF IsSave
  <2>3. \A s \in worker'.saves : IsSave(s)'
    BY <1>4, <1>7, <2>1, <2>2 DEF IsSave, Good, GoodThen
  <2>4. worker'.pc # "off" => doc'.phase # "ready" \/ history'.lost
    <3>1. Gone.phase # "ready"
      BY DEF Gone
    <3> QED
      BY <1>2, <1>3, <1>4, <1>5, <3>1 DEF WorkerInv, IsSave
  <2>5. GoodThen(worker'.mem)
    BY <1>3, <1>4, <1>7
  <2> QED
    BY <1>4, <2>3, <2>4, <2>5 DEF WorkerInv, Good, GoodThen
<1>11. Now \subseteq Now'
  BY <1>5, <1>9, HandlersWait, NowGrows
<1>12. BusInv' /\ StreamInv' /\ PageInv'
  BY <1>1, <1>11, FeedKeeps
<1>13. Good(doc)' /\ Good(kept)'
  BY <1>8 DEF Good, GoodThen
<1> QED
  BY <1>1, <1>5, <1>10, <1>12, <1>13, AnalysisKeeps

\* A search is published at once, and is in nobody's record yet.
LEMMA SearchKeeps ==
  ASSUME IInv, NEW c \in Cases, Search(c)
  PROVE  IInv'
<1>1. /\ Mine(c) /\ doc' = doc /\ history' = history
      /\ UNCHANGED <<stored, pageVars, hookVars>>
  BY DEF Search, stored
<1>2. PICK item, event :
        /\ IsItem(item)
        /\ Orderly(item, c \in history.answered, history.loose, Explained)
        /\ event.type \in {"search_results", "search_failed"}
        /\ worker' = [worker EXCEPT !.work[c] = "assemble", !.mem.items[c] = item]
        /\ Publish(event)
  <2> DEFINE old == worker.mem.items[c]
  <2>1. CASE \E found \in Searches :
               /\ worker' = [worker EXCEPT !.work[c] = "assemble",
                               !.mem.items[c] = Searched(@, SearchAnswer(found))]
               /\ Publish(Event("search_results", c))
    <3>1. PICK found : /\ worker' = [worker EXCEPT !.work[c] = "assemble",
                                       !.mem.items[c] = Searched(old, found)]
                       /\ Publish(Event("search_results", c))
      BY <2>1
    <3>2. /\ IsItem(Searched(old, found))
          /\ Orderly(Searched(old, found), c \in history.answered, history.loose, Explained)
      BY <1>1, MineGood, SearchFits
    <3>3. Event("search_results", c).type = "search_results"
      BY DEF Event
    <3> QED
      BY <3>1, <3>2, <3>3
  <2>2. CASE /\ worker' = [worker EXCEPT !.work[c] = "assemble",
                             !.mem.items[c] = SearchFailed(@)]
             /\ Publish(Event("search_failed", c))
    <3>1. /\ worker' = [worker EXCEPT !.work[c] = "assemble",
                          !.mem.items[c] = SearchFailed(old)]
          /\ Publish(Event("search_failed", c))
      BY <2>2
    <3>2. /\ IsItem(SearchFailed(old))
          /\ Orderly(SearchFailed(old), c \in history.answered, history.loose, Explained)
      BY <1>1, MineGood, SearchFits
    <3>3. Event("search_failed", c).type = "search_failed"
      BY DEF Event
    <3> QED
      BY <3>1, <3>2, <3>3
  <2> QED
    BY <2>1, <2>2 DEF Search
<1> DEFINE mem == [worker.mem EXCEPT !.items[c] = item]
<1>3. Good(mem) /\ Full(mem) /\ mem.phase = "researching"
  BY <1>1, <1>2, MineGood, Replaced DEF Good
<1>4. /\ worker' \in [pc : {"research"}, mem : {worker'.mem}, saves : {worker'.saves},
                      work : {worker'.work}]
      /\ worker'.mem = mem /\ worker'.saves = worker.saves /\ worker'.pc = worker.pc
  BY <1>1, <1>2, MineGood
<1> HIDE DEF mem
<1>5. /\ Good(doc)' /\ Good(kept)' /\ HookInv' /\ DeliveryInv' /\ Explained' = Explained
      /\ Now' = Now
  BY <1>1, <1>4, RestKeeps
<1>6. WorkerInv'
  <2>1. worker.pc = "research" /\ (doc'.phase # "ready" \/ history'.lost)
    BY <1>1, MineGood DEF IInv, WorkerInv
  <2>2. \A s \in worker'.saves : IsSave(s)'
    BY <1>1, <1>4, <1>5 DEF IInv, WorkerInv, IsSave, Good
  <2>3. /\ GoodDoc(worker'.mem, history'.answered, history'.loose, Explained')
        /\ Full(worker'.mem) /\ worker'.mem.phase = "researching"
    BY <1>1, <1>3, <1>4, <1>5 DEF Good
  <2> QED
    BY <1>4, <2>1, <2>2, <2>3 DEF WorkerInv, Good, Full
<1>7. BusInv' /\ StreamInv' /\ PageInv'
  <2>1. IsEvent(event, Now')
    BY <1>2 DEF IsEvent
  <2> QED
    BY <1>1, <1>2, <1>5, <2>1, PublishKeeps
<1> QED
  BY <1>5, <1>6, <1>7 DEF IInv

\* A step of the analysis.
LEMMA AnalyseKeeps ==
  ASSUME IInv, Analyse
  PROVE  IInv'
  BY StartKeeps, PhasesKeep, StageThrowsKeeps, TakeKeeps, SearchKeeps, ConcludeKeeps,
     EndKeeps, SaveLandsKeeps, SaveRejectsKeeps DEF Analyse

---------------------------------------------------------------------------
(***************************************************************************)
(* Those who watch                                                         *)
(***************************************************************************)
\* A step of a page or of its stream.
LEMMA WatchKeeps ==
  ASSUME IInv, UNCHANGED <<stored, worker, hookVars, history>>, BusInv', StreamInv', PageInv'
  PROVE  IInv'
  BY RestKeeps DEF IInv

\* As much is known after it.
LEMMA WatchNow ==
  ASSUME UNCHANGED <<stored, worker, hookVars, history>>
  PROVE  Now' = Now
  BY SameNow DEF hookVars

\* One stream is another.
LEMMA StreamAt ==
  ASSUME StreamInv, NEW p \in Pages, NEW x, IsStream(x, Now), Now' = Now,
         stream' = [stream EXCEPT ![p] = x]
  PROVE  StreamInv'
<1>1. stream' = [q \in Pages |-> stream'[q]] /\ stream'[p] = x
      /\ \A q \in Pages : q # p => stream'[q] = stream[q]
  BY DEF StreamInv
<1> QED
  BY <1>1 DEF StreamInv

\* One page is another.
LEMMA PageAt ==
  ASSUME PageInv, NEW p \in Pages, NEW x, IsPage(x, Now), Now' = Now, polls' = polls,
         page' = [page EXCEPT ![p] = x]
  PROVE  PageInv'
<1>1. page' = [q \in Pages |-> page'[q]] /\ page'[p] = x
      /\ \A q \in Pages : q # p => page'[q] = page[q]
  BY DEF PageInv
<1> QED
  BY <1>1 DEF PageInv

\* One page has other polls.
LEMMA PollsAt ==
  ASSUME PageInv, NEW p \in Pages, NEW x, ArePolls(x, Now), Now' = Now,
         \A q \in Pages : IsPage(page'[q], Now), page' = [q \in Pages |-> page'[q]],
         polls' = [polls EXCEPT ![p] = x]
  PROVE  PageInv'
<1>1. polls' = [q \in Pages |-> polls'[q]] /\ polls'[p] = x
      /\ \A q \in Pages : q # p => polls'[q] = polls[q]
  BY DEF PageInv
<1> QED
  BY <1>1 DEF PageInv

\* What is read of the stored production now is right.
LEMMA StoredIsRight ==
  ASSUME IInv, Present(doc)
  PROVE  /\ Knows(doc.phase, Now) /\ IsShown(Shown(doc), Now)
<1>1. doc.phase \in Phases
  BY DEF IInv, Good, GoodDoc, IsDoc, Present
<1>2. doc.phase = "ready" => "read" \in Now
  BY DEF Now
<1> QED
  BY <1>1, <1>2 DEF Knows, IsShown, Shown

\* A page that changes what it shows, or what it does of it.
LEMMA PageEdited ==
  ASSUME NEW x, NEW now, IsPage(x, now)
  PROVE  /\ \A shown : IsShown(shown, now) =>
              /\ IsPage([x EXCEPT !.shown = shown], now)
              /\ IsPage([x EXCEPT !.open = TRUE, !.shown = shown], now)
         /\ IsPage([x EXCEPT !.polling = TRUE], now)
         /\ IsPage([x EXCEPT !.view = "review"], now)
         /\ ~x.heard /\ "lost" \in now => IsPage([x EXCEPT !.view = "stuck"], now)
<1>1. ASSUME NEW shown, IsShown(shown, now)
      PROVE  /\ IsPage([x EXCEPT !.shown = shown], now)
             /\ IsPage([x EXCEPT !.open = TRUE, !.shown = shown], now)
  BY <1>1 DEF IsPage
<1>2. IsPage([x EXCEPT !.polling = TRUE], now) /\ IsPage([x EXCEPT !.view = "review"], now)
  BY DEF IsPage
<1>3. ~x.heard /\ "lost" \in now => IsPage([x EXCEPT !.view = "stuck"], now)
  BY DEF IsPage
<1> QED
  BY <1>1, <1>2, <1>3

\* A page that receives an event: it has heard of the end if that is final.
LEMMA PageReceives ==
  ASSUME NEW x, NEW now, IsPage(x, now), NEW id \in Nat, NEW shown, IsShown(shown, now),
         NEW heard \in BOOLEAN, heard => "final" \in now /\ x.view = "analysis"
  PROVE  IsPage([x EXCEPT !.last = id, !.shown = shown, !.heard = x.heard \/ heard], now)
<1> DEFINE either == x.heard \/ heard
<1>1. /\ either \in BOOLEAN /\ (either => "final" \in now)
      /\ x.view = "stuck" => ~either
  BY DEF IsPage
<1> HIDE DEF either
<1>2. IsPage([x EXCEPT !.last = id, !.shown = shown, !.heard = either], now)
  BY <1>1 DEF IsPage
<1> QED
  BY <1>2 DEF either

\* The route begins to serve a stream.
LEMMA ConnectKeeps ==
  ASSUME IInv, NEW p \in Pages, Connect(p)
  PROVE  IInv'
<1>1. UNCHANGED <<stored, worker, bus, pageVars, hookVars, history>> /\ Present(doc)
      /\ Now' = Now
  BY WatchNow DEF Connect
<1> DEFINE x == [pc |-> "loading", mem |-> doc]
<1>2. IsStream(x, Now)
  BY <1>1, StoredIsRight DEF IsStream
<1>3. stream' = [stream EXCEPT ![p] = x]
  BY DEF Connect
<1> HIDE DEF x
<1>4. StreamInv'
  BY <1>1, <1>2, <1>3, StreamAt DEF IInv
<1>5. BusInv' /\ PageInv'
  BY <1>1 DEF IInv, BusInv, PageInv, pageVars
<1> QED
  BY <1>1, <1>4, <1>5, WatchKeeps

\* What is replayed is right.
LEMMA SinceRight ==
  ASSUME BusInv, NEW last
  PROVE  Queue(Since(last), Now)
<1> DEFINE known == {i \in DOMAIN bus.log : bus.log[i].id <= last}
<1>1. Queue(bus.log, Now) /\ IsFiniteSet(DOMAIN bus.log)
  <2>1. Queue(bus.log, Now)
    BY DEF BusInv
  <2>2. PICK E : bus.log \in Seq(E)
    BY <2>1 DEF Queue
  <2>3. DOMAIN bus.log = 1 .. Len(bus.log) /\ Len(bus.log) \in Nat
    BY <2>2
  <2>4. \A n \in Nat : IsFiniteSet(1 .. n)
    BY FS_Interval
  <2> QED
    BY <2>1, <2>3, <2>4
<1>2. Cardinality(known) \in Nat
  BY <1>1, FS_Subset, FS_CardinalityType
<1>3. Since(last) = SubSeq(bus.log, Cardinality(known) + 1, Len(bus.log))
  BY DEF Since
<1> HIDE DEF known
<1> QED
  BY <1>1, <1>2, <1>3, QueueEnd

\* The stream is opened with a replay or with a snapshot.
LEMMA SubscribeKeeps ==
  ASSUME IInv, NEW p \in Pages, Subscribe(p)
  PROVE  IInv'
<1>1. /\ UNCHANGED <<stored, worker, pageVars, hookVars, history>> /\ stream[p].pc = "loading"
      /\ Now' = Now
  BY WatchNow DEF Subscribe
<1>2. PageInv'
  BY <1>1 DEF IInv, PageInv, pageVars
<1>3. \A queue : Queue(queue, Now) =>
        IsStream([pc |-> "on", queue |-> queue], Now)
  BY DEF IsStream
<1> DEFINE replay == Since(page[p].last)
           snapshot == Event("snapshot", stream[p].mem)
<1>4. CASE stream' = [stream EXCEPT ![p] = [pc |-> "on", queue |-> replay]] /\ bus' = bus
  <2>1. Queue(replay, Now)
    BY SinceRight DEF IInv
  <2> HIDE DEF replay
  <2>2. StreamInv'
    BY <1>1, <1>3, <1>4, <2>1, StreamAt DEF IInv
  <2>3. BusInv'
    BY <1>1, <1>4 DEF IInv, BusInv
  <2> QED
    BY <1>1, <1>2, <2>2, <2>3, WatchKeeps
<1>5. CASE /\ stream' = Forward([stream EXCEPT ![p] =
                                   [pc |-> "on", queue |-> <<Envelope(snapshot)>>]], snapshot)
           /\ bus' = [next |-> bus.next + 1,
                      log |-> LastOf(Append(bus.log, Envelope(snapshot)))]
  <2>1. IsEvent(snapshot, Now)
    <3>1. IsStream(stream[p], Now)
      BY DEF IInv, StreamInv
    <3>2. Knows(stream[p].mem.phase, Now)
      BY <1>1, <3>1 DEF IsStream
    <3> QED
      BY <3>2 DEF IsEvent, Event
  <2> HIDE DEF snapshot
  <2>2. BusInv'
    BY <1>1, <1>5, <2>1, LogKeeps DEF IInv
  <2> DEFINE first == <<Envelope(snapshot)>>
  <2>3. Queue(first, Now)
    <3>1. Envelope(snapshot).id \in Nat /\ IsEvent(Envelope(snapshot).event, Now)
      BY <2>1 DEF IInv, BusInv, Envelope
    <3>2. /\ first \in Seq({Envelope(snapshot)})
          /\ \A i \in 1 .. Len(first) : first[i] = Envelope(snapshot)
      OBVIOUS
    <3> HIDE DEF first
    <3> QED
      BY <3>1, <3>2, QueueOf
  <2> DEFINE streams == [stream EXCEPT ![p] = [pc |-> "on", queue |-> first]]
  <2>4. AreStreams(streams, Now)
    <3> DEFINE x == [pc |-> "on", queue |-> first]
    <3>1. IsStream(x, Now)
      BY <1>3, <2>3
    <3> HIDE DEF x, first
    <3>2. /\ stream = [q \in Pages |-> stream[q]]
          /\ \A q \in Pages : IsStream(stream[q], Now)
      BY DEF IInv, StreamInv
    <3>3. \A s : s = [stream EXCEPT ![p] = x] => AreStreams(s, Now)
      BY <3>1, <3>2 DEF AreStreams
    <3> QED
      BY <3>3 DEF x
  <2>5. stream' = Forward(streams, snapshot)
    BY <1>5
  <2> HIDE DEF streams
  <2>6. StreamInv'
    BY <1>1, <2>1, <2>4, <2>5, ForwardKeeps DEF IInv, StreamInv, AreStreams
  <2> QED
    BY <1>1, <1>2, <2>2, <2>6, WatchKeeps
<1> QED
  BY <1>4, <1>5 DEF Subscribe

\* A quiet stream is told so.
LEMMA HeartbeatKeeps ==
  ASSUME IInv, NEW p \in Pages, Heartbeat(p)
  PROVE  IInv'
<1>1. UNCHANGED <<stored, worker, pageVars, hookVars, history>> /\ Now' = Now
  BY WatchNow DEF Heartbeat
<1> DEFINE event == Event("heartbeat", None)
<1>2. Publish(event) /\ IsEvent(event, Now)
  BY DEF Heartbeat, IsEvent, Event
<1> HIDE DEF event
<1>3. BusInv' /\ StreamInv' /\ PageInv'
  BY <1>1, <1>2, PublishKeeps
<1> QED
  BY <1>1, <1>3, WatchKeeps

\* A page is rendered.
LEMMA OpenPageKeeps ==
  ASSUME IInv, NEW p \in Pages, OpenPage(p)
  PROVE  IInv'
<1>1. UNCHANGED <<stored, worker, feedVars, polls, hookVars, history>> /\ Present(doc)
      /\ Now' = Now
  BY WatchNow DEF OpenPage
<1> DEFINE shown == Shown(doc)
<1>2. IsShown(shown, Now)
  BY <1>1, StoredIsRight
<1>3. IsPage(page[p], Now)
  BY DEF IInv, PageInv
<1> DEFINE x == [page[p] EXCEPT !.open = TRUE, !.shown = shown]
<1>4. page' = [page EXCEPT ![p] = x]
  BY DEF OpenPage
<1> HIDE DEF shown
<1>5. IsPage(x, Now)
  BY <1>2, <1>3, PageEdited
<1> HIDE DEF x
<1>6. PageInv'
  BY <1>1, <1>4, <1>5, PageAt DEF IInv
<1>7. BusInv' /\ StreamInv'
  BY <1>1 DEF IInv, BusInv, StreamInv, feedVars
<1> QED
  BY <1>1, <1>6, <1>7, WatchKeeps

\* What a page makes of a right event is right.
LEMMA FoldedRight ==
  ASSUME NEW shown, NEW now, IsShown(shown, now), NEW event, IsEvent(event, now)
  PROVE  IsShown(Folded(shown, event), now)
<1>1. CASE event.type \in {"progress", "done"}
  <2>1. Folded(shown, event) = [shown EXCEPT !.phase = event.about]
    BY <1>1 DEF Folded
  <2>2. Knows(event.about, now)
    BY <1>1 DEF IsEvent, Knows, Phases
  <2>3. event.about \in Phases
    BY <2>2 DEF Knows
  <2> QED
    BY <2>1, <2>2, <2>3 DEF IsShown
<1>2. CASE event.type \in {"item_status", "item_researched"}
  <2>1. PICK items : Folded(shown, event) = [shown EXCEPT !.items = items]
    BY <1>2 DEF Folded
  <2> QED
    BY <2>1 DEF IsShown
<1>3. CASE event.type = "snapshot"
  <2>1. Folded(shown, event) = Shown(event.about)
    BY <1>3 DEF Folded
  <2>2. Knows(event.about.phase, now)
    BY <1>3 DEF IsEvent
  <2>3. event.about.phase \in Phases
    BY <2>2 DEF Knows
  <2> QED
    BY <2>1, <2>2, <2>3 DEF IsShown, Shown
<1>4. CASE event.type \notin {"progress", "done", "item_status", "item_researched", "snapshot"}
  BY <1>4 DEF Folded
<1> QED
  BY <1>1, <1>2, <1>3, <1>4

\* An event reaches a page.
LEMMA ReceiveKeeps ==
  ASSUME IInv, NEW p \in Pages, Receive(p)
  PROVE  IInv'
<1>1. /\ UNCHANGED <<stored, worker, bus, polls, hookVars, history>> /\ Now' = Now
      /\ stream[p].pc = "on" /\ stream[p].queue # << >>
  BY WatchNow DEF Receive
<1> DEFINE queue == stream[p].queue
           e == Head(queue)
           shown == Folded(page[p].shown, e.event)
           heard == e.event.type = "done" /\ page[p].view = "analysis"
           x == [page[p] EXCEPT !.last = e.id, !.shown = shown,
                                !.heard = page[p].heard \/ heard]
           s == [stream[p] EXCEPT !.queue = Tail(queue)]
<1>2. IsStream(stream[p], Now) /\ IsPage(page[p], Now)
  BY DEF IInv, StreamInv, PageInv
<1>3. stream[p] \in [pc : {"on"}, queue : {queue}] /\ Queue(queue, Now)
  BY <1>1, <1>2 DEF IsStream
<1>4. page' = [page EXCEPT ![p] = x] /\ stream' = [stream EXCEPT ![p] = s]
  BY DEF Receive
<1>5. Queue(Tail(queue), Now) /\ e.id \in Nat /\ IsEvent(e.event, Now)
  BY <1>1, <1>3, QueueHead
<1> HIDE DEF e
<1>6. IsShown(shown, Now)
  BY <1>2, <1>5, FoldedRight DEF IsPage
<1>7. heard \in BOOLEAN /\ (heard => "final" \in Now /\ page[p].view = "analysis")
  BY <1>5 DEF IsEvent
<1> HIDE DEF shown, heard
<1>8. IsPage(x, Now)
  BY <1>2, <1>5, <1>6, <1>7, PageReceives
<1>9. IsStream(s, Now)
  <2>1. s \in [pc : {"on"}, queue : {s.queue}] /\ s.queue = Tail(queue)
    BY <1>3
  <2> QED
    BY <1>5, <2>1 DEF IsStream
<1> HIDE DEF x, s
<1>10. PageInv' /\ StreamInv'
  BY <1>1, <1>4, <1>8, <1>9, PageAt, StreamAt DEF IInv
<1>11. BusInv'
  BY <1>1 DEF IInv, BusInv
<1> QED
  BY <1>1, <1>10, <1>11, WatchKeeps

\* Pages whose streams break poll from then on.
LEMMA BrokenPages ==
  ASSUME NEW now, \A p \in Pages : IsPage(page[p], now), NEW ps
  PROVE  /\ Broken(ps) = [p \in Pages |-> Broken(ps)[p]]
         /\ \A p \in Pages : IsPage(Broken(ps)[p], now)
<1>1. \A p \in Pages : IsPage([page[p] EXCEPT !.polling = TRUE], now)
  BY PageEdited
<1> QED
  BY <1>1 DEF Broken

\* A connection breaks.
LEMMA BreakKeeps ==
  ASSUME IInv, NEW p \in Pages, Break(p)
  PROVE  IInv'
<1>1. UNCHANGED <<stored, worker, bus, polls, hookVars, history>> /\ Now' = Now
  BY WatchNow DEF Break
<1>2. stream' = [stream EXCEPT ![p] = NoStream] /\ page' = Broken({p})
  BY DEF Break
<1>3. IsStream(NoStream, Now)
  BY DEF IsStream, NoStream
<1>4. StreamInv'
  BY <1>1, <1>2, <1>3, StreamAt DEF IInv
<1>5. PageInv'
  BY <1>1, <1>2, BrokenPages DEF IInv, PageInv
<1>6. BusInv'
  BY <1>1 DEF IInv, BusInv
<1> QED
  BY <1>1, <1>4, <1>5, <1>6, WatchKeeps

\* The route refuses a page, for good.
LEMMA RefuseKeeps ==
  ASSUME IInv, NEW p \in Pages, Refuse(p)
  PROVE  IInv'
<1>1. UNCHANGED <<stored, worker, bus, polls, hookVars, history>> /\ Now' = Now
  BY WatchNow DEF Refuse
<1> DEFINE x == [pc |-> "refused"]
<1>2. stream' = [stream EXCEPT ![p] = x] /\ page' = Broken({p})
  BY DEF Refuse
<1>3. IsStream(x, Now)
  BY DEF IsStream
<1> HIDE DEF x
<1>4. StreamInv'
  BY <1>1, <1>2, <1>3, StreamAt DEF IInv
<1>5. PageInv'
  BY <1>1, <1>2, BrokenPages DEF IInv, PageInv
<1>6. BusInv'
  BY <1>1 DEF IInv, BusInv
<1> QED
  BY <1>1, <1>4, <1>5, <1>6, WatchKeeps

\* A page polls.
LEMMA PollKeeps ==
  ASSUME IInv, NEW p \in Pages, Poll(p)
  PROVE  IInv'
<1>1. UNCHANGED <<stored, worker, feedVars, page, hookVars, history>> /\ Present(doc)
      /\ Now' = Now
  BY WatchNow DEF Poll
<1> DEFINE shown == Shown(doc)
           x == polls[p] \cup {shown}
<1>2. IsShown(shown, Now)
  BY <1>1, StoredIsRight
<1>3. polls' = [polls EXCEPT ![p] = x] /\ Cardinality(polls[p]) < MaxPolls
  BY DEF Poll
<1>4. ArePolls(polls[p], Now)
  BY DEF IInv, PageInv
<1> HIDE DEF shown
<1>5. ArePolls(x, Now)
  <2>1. IsFiniteSet(polls[p]) /\ Cardinality(polls[p]) \in Nat /\ MaxPolls \in Nat
    BY <1>4, FS_CardinalityType, DeliveryAssumption DEF ArePolls
  <2>2. IsFiniteSet(x) /\ Cardinality(x) <= Cardinality(polls[p]) + 1
    BY <2>1, FS_AddElement
  <2>3. Cardinality(x) \in Nat
    BY <2>2, FS_CardinalityType
  <2> QED
    BY <1>2, <1>3, <1>4, <2>1, <2>2, <2>3 DEF ArePolls
<1> HIDE DEF x
<1>6. PageInv'
  BY <1>1, <1>3, <1>5, PollsAt DEF IInv, PageInv
<1>7. BusInv' /\ StreamInv'
  BY <1>1 DEF IInv, BusInv, StreamInv, feedVars
<1> QED
  BY <1>1, <1>6, <1>7, WatchKeeps

\* A poll less.
LEMMA FewerPolls ==
  ASSUME NEW answers, NEW now, ArePolls(answers, now), NEW answer \in answers
  PROVE  ArePolls(answers \ {answer}, now)
<1>1. /\ IsFiniteSet(answers \ {answer})
      /\ Cardinality(answers \ {answer}) = Cardinality(answers) - 1
      /\ Cardinality(answers) \in Nat /\ MaxPolls \in Nat
  BY FS_RemoveElement, FS_CardinalityType, DeliveryAssumption DEF ArePolls
<1> QED
  BY <1>1 DEF ArePolls

\* A poll is answered, or fails.
LEMMA PollEndKeeps ==
  ASSUME IInv, NEW p \in Pages, PollAnswers(p) \/ PollFails(p)
  PROVE  IInv'
<1>1. UNCHANGED <<stored, worker, feedVars, hookVars, history>> /\ Now' = Now
  BY WatchNow DEF PollAnswers, PollFails
<1>2. PICK answer \in polls[p] :
        /\ polls' = [polls EXCEPT ![p] = polls[p] \ {answer}]
        /\ page' = page \/ page' = [page EXCEPT ![p] = [page[p] EXCEPT !.shown = answer]]
  BY DEF PollAnswers, PollFails
<1>3. /\ page = [q \in Pages |-> page[q]] /\ \A q \in Pages : IsPage(page[q], Now)
      /\ ArePolls(polls[p], Now) /\ IsShown(answer, Now)
  BY DEF IInv, PageInv, ArePolls
<1>4. ArePolls(polls[p] \ {answer}, Now)
  BY <1>3, FewerPolls
<1>5. page' = [q \in Pages |-> page'[q]] /\ \A q \in Pages : IsPage(page'[q], Now)
  <2> DEFINE x == [page[p] EXCEPT !.shown = answer]
  <2>1. IsPage(x, Now)
    BY <1>3, PageEdited
  <2>2. page' = page \/ page' = [page EXCEPT ![p] = x]
    BY <1>2
  <2> HIDE DEF x
  <2> QED
    BY <1>3, <2>1, <2>2
<1>6. PageInv'
  BY <1>1, <1>2, <1>4, <1>5, PollsAt DEF IInv
<1>7. BusInv' /\ StreamInv'
  BY <1>1 DEF IInv, BusInv, StreamInv, feedVars
<1> QED
  BY <1>1, <1>6, <1>7, WatchKeeps

\* A page that shows a ready production finds it ready, unless it has only
\* read so of what was lost then (HandOverFindsReady).
LEMMA HandOverKeeps ==
  ASSUME IInv, NEW p \in Pages, HandOver(p)
  PROVE  IInv'
<1>1. UNCHANGED <<stored, worker, feedVars, polls, hookVars, history>> /\ Now' = Now
  BY WatchNow DEF HandOver
<1>2. IsPage(page[p], Now) /\ page[p].shown.phase = "ready"
  BY DEF IInv, PageInv, HandOver
<1>3. "read" \in Now
  BY <1>2 DEF IsPage, IsShown, Knows
<1>4. doc.phase # "ready" => ~page[p].heard /\ "lost" \in Now
  BY <1>2, <1>3 DEF IsPage, Now, Final
<1> DEFINE x == [page[p] EXCEPT !.view = "review"]
           y == [page[p] EXCEPT !.view = "stuck"]
<1>5. page' = [page EXCEPT ![p] = x] \/ (doc.phase # "ready" /\ page' = [page EXCEPT ![p] = y])
  BY DEF HandOver
<1>6. IsPage(x, Now) /\ (doc.phase # "ready" => IsPage(y, Now))
  BY <1>2, <1>4, PageEdited
<1> HIDE DEF x, y
<1>7. PageInv'
  BY <1>1, <1>5, <1>6, PageAt DEF IInv
<1>8. BusInv' /\ StreamInv'
  BY <1>1 DEF IInv, BusInv, StreamInv, feedVars
<1> QED
  BY <1>1, <1>7, <1>8, WatchKeeps

\* Whatever a page does.
LEMMA PagesKeep ==
  ASSUME IInv, NEW p \in Pages, Watch(p)
  PROVE  IInv'
  BY OpenPageKeeps, ConnectKeeps, SubscribeKeeps, ReceiveKeeps, HeartbeatKeeps, BreakKeeps,
     RefuseKeeps, PollKeeps, PollEndKeeps, HandOverKeeps DEF Watch

---------------------------------------------------------------------------
(***************************************************************************)
(* Handlers                                                                *)
(***************************************************************************)
\* A handler only goes on, and registers a monitor only when it creates one.
GoesOn(h, next) ==
  /\ hook[h].pc # "done" /\ Moves(h, next) /\ IsHook(next) /\ next.pc # "new"
  /\ next.pc = "creating" => hook[h].pc = "new"
  /\ monitors.known \subseteq monitors'.known
  /\ monitors.delivered \subseteq monitors'.delivered
  /\ \A m \in monitors'.known \ monitors.known : m.id = h /\ hook[h].pc = "creating"
  /\ hook[h].pc = "telling" => hook[h].id \in monitors'.delivered \/ next.pc = "telling"
  /\ next.pc = "telling" => next.id = hook[h].id
  /\ monitors' \in [known : SUBSET [id : Hooks, case : Cases], delivered : SUBSET Ids]

\* A handler that runs finds a production at rest, and no analysis.
LEMMA HandlerRuns ==
  ASSUME IInv, NEW h \in Hooks, hook[h].pc # "done"
  PROVE  /\ Rests(doc) /\ Rests(kept) /\ Good(doc) /\ Good(kept)
         /\ worker.pc = "off" /\ worker.saves = {} /\ ~Final
         /\ IsHook(hook[h]) /\ hook = [g \in Hooks |-> hook[g]]
         /\ monitors \in [known : SUBSET [id : Hooks, case : Cases], delivered : SUBSET Ids]
         /\ IsHistory(history)
  BY DEF IInv, HookInv, Final

\* Whoever finds a case in a production at rest finds it ready.
LEMMA CaseThere ==
  ASSUME NEW d, Rests(d), NEW c \in DOMAIN d.items
  PROVE  d.phase = "ready" /\ Full(d)
<1>1. d # Gone
  <2>1. Gone.items = << >> /\ DOMAIN << >> = {}
    BY DEF Gone
  <2> QED
    BY <2>1
<1> QED
  BY <1>1 DEF Rests

\* The handlers after one has moved.
LEMMA HandlerMoves ==
  ASSUME IInv, NEW h \in Hooks, NEW next, Moves(h, next)
  PROVE  /\ hook' = [g \in Hooks |-> hook'[g]] /\ hook'[h] = next
         /\ \A g \in Hooks : g # h => hook'[g] = hook[g]
<1>1. hook = [g \in Hooks |-> hook[g]]
  BY DEF IInv, HookInv
<1> QED
  BY <1>1 DEF Moves

\* What was explained remains so.
LEMMA ExplainedGrows ==
  ASSUME IInv, NEW h \in Hooks, NEW next, GoesOn(h, next)
  PROVE  Explained \subseteq Explained'
<1>1. /\ hook'[h] = next /\ \A g \in Hooks : g # h => hook'[g] = hook[g]
  BY HandlerMoves DEF GoesOn
<1> SUFFICES ASSUME NEW id \in Explained
             PROVE  id \in Explained'
  OBVIOUS
<1>2. id \in Ids
  BY DEF Explained
<1>3. ASSUME NEW m \in Senders(id)
      PROVE  /\ m \in Hooks => hook'[m].pc \notin {"new", "creating"}
             /\ \/ id \in monitors'.delivered
                \/ \E g \in Hooks : hook'[g].pc = "telling" /\ hook'[g].id = id
                \/ {k \in monitors'.known : k.id = m} = {}
  <2>1. /\ m \in Hooks => hook[m].pc \notin {"new", "creating"}
        /\ \/ id \in monitors.delivered
           \/ \E g \in Hooks : hook[g].pc = "telling" /\ hook[g].id = id
           \/ {k \in monitors.known : k.id = m} = {}
    BY <1>3 DEF Explained, Past, Registered
  <2>2. m \in Hooks => hook'[m].pc \notin {"new", "creating"}
    BY <1>1, <2>1 DEF GoesOn
  <2>3. CASE id \in monitors.delivered
    BY <2>2, <2>3 DEF GoesOn
  <2>4. ASSUME NEW g \in Hooks, hook[g].pc = "telling", hook[g].id = id
        PROVE  \/ id \in monitors'.delivered
               \/ \E f \in Hooks : hook'[f].pc = "telling" /\ hook'[f].id = id
    <3>1. CASE g # h
      BY <1>1, <2>4, <3>1
    <3>2. CASE g = h
      BY <1>1, <2>4, <3>2 DEF GoesOn
    <3> QED
      BY <3>1, <3>2
  <2>5. CASE {k \in monitors.known : k.id = m} = {}
    <3>1. \A k \in monitors'.known : k.id # m
      BY <2>1, <2>5 DEF GoesOn
    <3> QED
      BY <2>2, <3>1
  <2> QED
    BY <2>1, <2>2, <2>3, <2>4, <2>5
<1> QED
  BY <1>2, <1>3 DEF Explained, Past, Registered

\* Deliveries that are handled stay apart.
LEMMA DeliveriesKeep ==
  ASSUME IInv, NEW h \in Hooks, NEW next, GoesOn(h, next),
         history.loose \subseteq history'.loose,
         \/ monitors'.delivered = monitors.delivered
         \/ /\ Delivering(h) /\ next.pc = "done"
            /\ monitors'.delivered = monitors.delivered \cup {hook[h].id},
         next.pc \in {"reading", "fetching", "loaded", "telling", "recording"} =>
           \/ Delivering(h) /\ next.id = hook[h].id
           \/ /\ \E m \in Senders(next.id) : Registered(m) # {}
              /\ next.id \notin monitors.delivered
              /\ \A g \in Hooks : Delivering(g) /\ hook[g].id = next.id =>
                   next.id \in history'.loose
  PROVE  DeliveryInv'
<1> DEFINE D == {"reading", "fetching", "loaded", "telling", "recording"}
<1>1. hook'[h] = next /\ \A g \in Hooks : g # h => hook'[g] = hook[g]
  BY HandlerMoves DEF GoesOn
<1>2. \A m : Registered(m) # {} => Registered(m)' # {}
  BY DEF Registered, GoesOn
<1>3. \A f \in Hooks : hook[f].pc \in D =>
        /\ \E m \in Senders(hook[f].id) : Registered(m) # {}
        /\ hook[f].id \notin history.loose =>
             /\ hook[f].id \notin monitors.delivered
             /\ \A g \in Hooks : hook[g].pc \in D /\ hook[g].id = hook[f].id => g = f
  BY DEF IInv, DeliveryInv, Delivering
<1>4. next.pc \in D =>
           \/ hook[h].pc \in D /\ next.id = hook[h].id
           \/ /\ \E m \in Senders(next.id) : Registered(m) # {}
              /\ next.id \notin monitors.delivered
              /\ \A g \in Hooks : hook[g].pc \in D /\ hook[g].id = next.id =>
                   next.id \in history'.loose
  BY DEF Delivering
<1>5. \/ monitors'.delivered = monitors.delivered
      \/ /\ hook[h].pc \in D /\ next.pc = "done"
         /\ monitors'.delivered = monitors.delivered \cup {hook[h].id}
  BY DEF Delivering
<1>6. ASSUME NEW f \in Hooks, hook'[f].pc \in D
      PROVE  /\ \E m \in Senders(hook'[f].id) : Registered(m) # {}
             /\ hook'[f].id \notin history'.loose =>
                  /\ hook'[f].id \notin monitors'.delivered
                  /\ \A g \in Hooks : hook'[g].pc \in D /\ hook'[g].id = hook'[f].id => g = f
  <2>1. CASE f = h
    <3>1. next.pc \in D /\ hook'[f] = next /\ next.pc # "done"
      BY <1>1, <1>6, <2>1
    <3>2. monitors'.delivered = monitors.delivered
      BY <1>5, <3>1
    <3> QED
      BY <1>1, <1>3, <1>4, <2>1, <3>1, <3>2
  <2>2. CASE f # h
    <3>1. hook'[f] = hook[f] /\ hook[f].pc \in D
      BY <1>1, <1>6, <2>2
    <3> QED
      BY <1>1, <1>3, <1>4, <1>5, <2>2, <3>1
  <2> QED
    BY <2>1, <2>2
<1> QED
  BY <1>2, <1>6 DEF DeliveryInv, Delivering

\* A step of a handler.
LEMMA HandlerKeeps ==
  ASSUME IInv, NEW h \in Hooks, NEW next, GoesOn(h, next), worker' = worker,
         history'.answered = history.answered,
         IsHistory(history'),
         history.loose \subseteq history'.loose,
         BusInv', StreamInv', PageInv', DeliveryInv',
         GoodThen(doc'), GoodThen(kept'), Rests(doc'), Rests(kept'),
         next.pc \in {"creating", "linking", "deciding", "loaded"} =>
           GoodThen(next.mem) /\ Full(next.mem) /\ next.mem.phase = "ready"
  PROVE  IInv'
<1> DEFINE H == {"creating", "linking", "deciding", "loaded"}
<1>1. /\ hook' = [g \in Hooks |-> hook'[g]] /\ hook'[h] = next
      /\ \A g \in Hooks : g # h => hook'[g] = hook[g]
  BY HandlerMoves DEF GoesOn
<1>2. PastGrows
  BY ExplainedGrows DEF PastGrows
<1>3. worker.pc = "off" /\ worker.saves = {}
  BY HandlerRuns DEF GoesOn
<1>4. WorkerInv'
  BY <1>3 DEF IInv, WorkerInv
<1>5. ASSUME NEW g \in Hooks
      PROVE  /\ IsHook(hook'[g])
             /\ hook'[g].pc \in H => /\ GoodThen(hook'[g].mem) /\ Full(hook'[g].mem)
                                     /\ hook'[g].mem.phase = "ready"
  <2>1. CASE g = h
    BY <1>1, <2>1 DEF GoesOn
  <2>2. CASE g # h
    <3>1. hook'[g] = hook[g]
      BY <1>1, <2>2
    <3>2. /\ IsHook(hook[g])
          /\ hook[g].pc \in H => /\ Good(hook[g].mem) /\ Full(hook[g].mem)
                                 /\ hook[g].mem.phase = "ready"
      BY DEF IInv, HookInv, Holds
    <3>3. Good(hook[g].mem) => GoodThen(hook[g].mem)
      BY <1>2, GoodStays
    <3> QED
      BY <3>1, <3>2, <3>3
  <2> QED
    BY <2>1, <2>2
<1>6. \A m \in monitors'.known : hook'[m.id].pc \notin {"new", "creating"}
  <2> TAKE m \in monitors'.known
  <2>1. m.id \in Hooks
    BY DEF GoesOn
  <2>2. CASE m \in monitors.known
    <3>1. hook[m.id].pc \notin {"new", "creating"}
      BY <2>2 DEF IInv, HookInv
    <3> QED
      BY <1>1, <2>1, <3>1 DEF GoesOn
  <2>3. CASE m \notin monitors.known
    BY <1>1, <2>3 DEF GoesOn
  <2> QED
    BY <2>2, <2>3
<1>7. HookInv'
  <2>1. worker'.pc = "off" /\ worker'.saves = {}
    BY <1>3
  <2> QED
    BY <1>1, <1>5, <1>6, <2>1 DEF HookInv, Holds, GoesOn, Good, GoodThen, Full, Rests
<1>8. Good(doc)' /\ Good(kept)'
  BY DEF Good, GoodThen
<1> QED
  BY <1>4, <1>7, <1>8 DEF IInv

\* A handler that leaves the stored production and the feed as they are, and
\* that deliveries do not concern.
LEMMA QuietHandlerKeeps ==
  ASSUME IInv, NEW h \in Hooks, NEW next, GoesOn(h, next),
         UNCHANGED <<stored, worker, feedVars, pageVars, history>>,
         monitors'.delivered = monitors.delivered,
         next.pc \in {"reading", "fetching", "loaded", "telling", "recording"} =>
           Delivering(h) /\ next.id = hook[h].id,
         next.pc \in {"creating", "linking", "deciding", "loaded"} =>
           Good(next.mem) /\ Full(next.mem) /\ next.mem.phase = "ready"
  PROVE  IInv'
<1>1. doc' = doc /\ kept' = kept /\ worker' = worker /\ history' = history
  BY DEF stored
<1>2. /\ Rests(doc) /\ Rests(kept) /\ Good(doc) /\ Good(kept) /\ ~Final
      /\ IsHistory(history)
  BY HandlerRuns DEF GoesOn
<1>3. BusInv' /\ StreamInv' /\ PageInv'
  BY <1>1, <1>2, NowGrows, FeedKeeps
<1>4. DeliveryInv'
  BY <1>1, DeliveriesKeep
<1>5. PastGrows
  BY <1>1, ExplainedGrows DEF PastGrows
<1>6. \A d : Good(d) => GoodThen(d)
  BY <1>5, GoodStays
<1> QED
  BY <1>1, <1>2, <1>3, <1>4, <1>6, HandlerKeeps

\* A request for a monitor, that the registry has or the provider creates.
LEMMA OpenMonitorKeeps ==
  ASSUME IInv, NEW h \in Hooks, NEW op \in HookOps, OpenMonitor(h, op)
  PROVE  IInv'
<1>1. /\ hook[h].pc = "new" /\ op.kind = "monitor" /\ monitors' = monitors
      /\ UNCHANGED <<stored, worker, feedVars, pageVars, history>>
  BY DEF OpenMonitor, Receives
<1>2. op.case \in Cases
  BY <1>1, RequestsAssumption DEF Deliveries
<1>3. /\ Rests(doc) /\ Good(doc)
      /\ monitors \in [known : SUBSET [id : Hooks, case : Cases], delivered : SUBSET Ids]
  BY <1>1, HandlerRuns
<1>4. PICK next : /\ Moves(h, next)
                  /\ \/ next = Done
                     \/ /\ op.case \in DOMAIN doc.items
                        /\ next = [pc |-> "creating", case |-> op.case, mem |-> doc]
  BY DEF OpenMonitor, Ends
<1>5. /\ IsHook(next) /\ next.pc \in {"done", "creating"}
      /\ next.pc = "creating" => next.mem = doc /\ doc.phase = "ready" /\ Full(doc)
  BY <1>2, <1>3, <1>4, CaseThere DEF IsHook, Done
<1>6. GoesOn(h, next)
  BY <1>1, <1>3, <1>4, <1>5 DEF GoesOn
<1> QED
  BY <1>1, <1>3, <1>5, <1>6, QuietHandlerKeeps

\* A person's request is loaded.
LEMMA DecideKeeps ==
  ASSUME IInv, NEW h \in Hooks, NEW op \in HookOps, Decide(h, op)
  PROVE  IInv'
<1>1. /\ hook[h].pc = "new" /\ op.kind = "decide" /\ monitors' = monitors
      /\ UNCHANGED <<stored, worker, feedVars, pageVars, history>>
  BY DEF Decide, Receives
<1>2. op.case \in Cases
  BY <1>1, RequestsAssumption DEF Deliveries
<1>3. /\ Rests(doc) /\ Good(doc)
      /\ monitors \in [known : SUBSET [id : Hooks, case : Cases], delivered : SUBSET Ids]
  BY <1>1, HandlerRuns
<1>4. PICK next : /\ Moves(h, next)
                  /\ \/ next = Done
                     \/ /\ op.case \in DOMAIN doc.items
                        /\ next = [pc |-> "deciding", case |-> op.case, mem |-> doc]
  BY DEF Decide, Ends
<1>5. /\ IsHook(next) /\ next.pc \in {"done", "deciding"}
      /\ next.pc = "deciding" => next.mem = doc /\ doc.phase = "ready" /\ Full(doc)
  BY <1>2, <1>3, <1>4, CaseThere DEF IsHook, Done
<1>6. GoesOn(h, next)
  BY <1>1, <1>3, <1>4, <1>5 DEF GoesOn
<1> QED
  BY <1>1, <1>3, <1>5, <1>6, QuietHandlerKeeps

\* The provider has created a monitor.
LEMMA CreateMonitorKeeps ==
  ASSUME IInv, NEW h \in Hooks, CreateMonitor(h)
  PROVE  IInv'
<1>1. /\ hook[h].pc = "creating" /\ UNCHANGED <<stored, worker, feedVars, pageVars, history>>
      /\ Register(h, hook[h].case)
  BY DEF CreateMonitor
<1>2. /\ IsHook(hook[h])
      /\ monitors \in [known : SUBSET [id : Hooks, case : Cases], delivered : SUBSET Ids]
  BY <1>1, HandlerRuns
<1>3. hook[h] \in [pc : {"creating", "linking", "deciding"}, case : Cases, mem : {hook[h].mem}]
  BY <1>1, <1>2 DEF IsHook
<1> DEFINE next == [hook[h] EXCEPT !.pc = "linking"]
<1>4. /\ next \in [pc : {"linking"}, case : Cases, mem : {next.mem}]
      /\ next.mem = hook[h].mem /\ Moves(h, next)
  BY <1>3 DEF CreateMonitor
<1> HIDE DEF next
<1>5. IsHook(next) /\ next.pc = "linking"
  BY <1>4 DEF IsHook
<1> DEFINE m == [id |-> h, case |-> hook[h].case]
<1>6. /\ monitors'.known = monitors.known \cup {m} /\ monitors'.delivered = monitors.delivered
      /\ monitors' \in [known : SUBSET [id : Hooks, case : Cases], delivered : SUBSET Ids]
      /\ m.id = h
  BY <1>1, <1>2, <1>3 DEF Register
<1> HIDE DEF m
<1>7. GoesOn(h, next)
  BY <1>1, <1>4, <1>5, <1>6 DEF GoesOn
<1>8. Good(hook[h].mem) /\ Full(hook[h].mem) /\ hook[h].mem.phase = "ready"
  BY <1>1 DEF IInv, HookInv, Holds
<1> QED
  BY <1>1, <1>4, <1>5, <1>6, <1>7, <1>8, QuietHandlerKeeps

\* The events of a delivery are read.
LEMMA ReadEventsKeeps ==
  ASSUME IInv, NEW h \in Hooks, ReadEvents(h)
  PROVE  IInv'
<1>1. /\ hook[h].pc = "reading" /\ monitors' = monitors
      /\ UNCHANGED <<stored, worker, feedVars, pageVars, history>>
  BY DEF ReadEvents
<1>2. /\ IsHook(hook[h])
      /\ monitors \in [known : SUBSET [id : Hooks, case : Cases], delivered : SUBSET Ids]
  BY <1>1, HandlerRuns
<1>3. hook[h] \in [pc : {"reading"}, id : Ids, case : Cases]
  BY <1>1, <1>2 DEF IsHook
<1> DEFINE next == [hook[h] EXCEPT !.pc = "fetching"]
<1>4. /\ next \in [pc : {"fetching"}, id : Ids, case : Cases]
      /\ next.id = hook[h].id /\ Moves(h, next)
  BY <1>3 DEF ReadEvents
<1> HIDE DEF next
<1>5. IsHook(next) /\ next.pc = "fetching"
  BY <1>4 DEF IsHook
<1>6. GoesOn(h, next)
  BY <1>1, <1>2, <1>4, <1>5 DEF GoesOn
<1>7. Delivering(h)
  BY <1>1 DEF Delivering
<1> QED
  BY <1>1, <1>4, <1>5, <1>6, <1>7, QuietHandlerKeeps

\* The production of a delivery is loaded.
LEMMA LoadProductionKeeps ==
  ASSUME IInv, NEW h \in Hooks, LoadProduction(h)
  PROVE  IInv'
<1>1. /\ hook[h].pc = "fetching" /\ monitors' = monitors
      /\ UNCHANGED <<stored, worker, feedVars, pageVars, history>>
  BY DEF LoadProduction
<1>2. /\ Rests(doc) /\ Good(doc) /\ IsHook(hook[h])
      /\ monitors \in [known : SUBSET [id : Hooks, case : Cases], delivered : SUBSET Ids]
  BY <1>1, HandlerRuns
<1>3. hook[h] \in [pc : {"fetching"}, id : Ids, case : Cases]
  BY <1>1, <1>2 DEF IsHook
<1> DEFINE loaded == [pc |-> "loaded", id |-> hook[h].id, case |-> hook[h].case, mem |-> doc]
<1>4. PICK next : /\ Moves(h, next)
                  /\ \/ next = [hook[h] EXCEPT !.pc = "recording"]
                     \/ next = [hook[h] EXCEPT !.pc = "telling"]
                     \/ next = loaded /\ hook[h].case \in DOMAIN doc.items
  BY DEF LoadProduction
<1>5. /\ loaded \in [pc : {"loaded"}, id : Ids, case : Cases, mem : {loaded.mem}]
      /\ loaded.id = hook[h].id /\ loaded.mem = doc
  BY <1>3
<1> HIDE DEF loaded
<1>6. /\ IsHook(next) /\ next.id = hook[h].id /\ next.pc \in {"recording", "telling", "loaded"}
      /\ next.pc = "loaded" => next.mem = doc /\ hook[h].case \in DOMAIN doc.items
  BY <1>3, <1>4, <1>5 DEF IsHook
<1>7. GoesOn(h, next)
  BY <1>1, <1>2, <1>4, <1>6 DEF GoesOn
<1>8. Delivering(h) /\ (next.pc = "loaded" => doc.phase = "ready" /\ Full(doc))
  BY <1>1, <1>2, <1>6, CaseThere DEF Delivering
<1> QED
  BY <1>1, <1>2, <1>6, <1>7, <1>8, QuietHandlerKeeps

\* A handler gives up.
LEMMA HookRejectsKeeps ==
  ASSUME IInv, NEW h \in Hooks, HookRejects(h)
  PROVE  IInv'
<1>1. /\ hook[h].pc \notin {"new", "done", "telling"} /\ monitors' = monitors
      /\ UNCHANGED <<stored, worker, feedVars, pageVars, history>> /\ Moves(h, Done)
  BY DEF HookRejects, Ends
<1>2. monitors \in [known : SUBSET [id : Hooks, case : Cases], delivered : SUBSET Ids]
  BY <1>1, HandlerRuns
<1>3. IsHook(Done) /\ Done.pc = "done"
  BY DEF IsHook, Done
<1>4. GoesOn(h, Done)
  BY <1>1, <1>2, <1>3 DEF GoesOn
<1> QED
  BY <1>1, <1>3, <1>4, QuietHandlerKeeps

\* A delivery arrives: it is heard, unless its monitor is unknown or it has
\* been acted on.
LEMMA DeliverKeeps ==
  ASSUME IInv, NEW h \in Hooks, NEW op \in HookOps, Deliver(h, op)
  PROVE  IInv'
<1>1. /\ hook[h].pc = "new" /\ op.kind = "deliver" /\ monitors' = monitors
      /\ UNCHANGED <<stored, worker, feedVars, pageVars>>
  BY DEF Deliver, Receives
<1>2. /\ Rests(doc) /\ Rests(kept) /\ Good(doc) /\ Good(kept) /\ ~Final
      /\ monitors \in [known : SUBSET [id : Hooks, case : Cases], delivered : SUBSET Ids]
      /\ IsHistory(history)
  BY <1>1, HandlerRuns
<1> DEFINE id == DeliveryId(op)
           heard == Registered(op.monitor) # {} /\ id \notin monitors.delivered
           twice == \E g \in Hooks : Delivering(g) /\ hook[g].id = id
<1>3. id \in Ids /\ op.monitor \in Senders(id)
  BY <1>1 DEF Ids, Senders, Deliveries
<1>4. /\ heard => \E m \in Registered(op.monitor) :
                    Moves(h, [pc |-> "reading", id |-> id, case |-> m.case])
      /\ ~heard => Moves(h, Done)
      /\ history' = [history EXCEPT !.loose =
                       IF heard /\ twice THEN history.loose \cup {id}
                       ELSE history.loose]
  BY DEF Deliver, Ends, HasDelivery
<1> HIDE DEF id
<1>5. /\ IsHistory(history')
      /\ history'.answered = history.answered /\ history'.lost = history.lost
      /\ history.loose \subseteq history'.loose
      /\ heard /\ twice => id \in history'.loose
  BY <1>2, <1>4 DEF IsHistory
<1>6. PICK next : /\ Moves(h, next) /\ IsHook(next) /\ next.pc \in {"reading", "done"}
                  /\ next.pc = "reading" => heard /\ next.id = id
  <2>1. CASE heard
    <3>1. PICK m \in Registered(op.monitor) :
            Moves(h, [pc |-> "reading", id |-> id, case |-> m.case])
      BY <1>4, <2>1
    <3>2. m.case \in Cases
      BY <1>2 DEF Registered
    <3> DEFINE next == [pc |-> "reading", id |-> id, case |-> m.case]
    <3>3. IsHook(next) /\ next.pc = "reading" /\ next.id = id
      BY <1>3, <3>2 DEF IsHook
    <3> HIDE DEF next, heard
    <3> QED
      BY <2>1, <3>1, <3>3 DEF next
  <2>2. CASE ~heard
    <3>1. IsHook(Done) /\ Done.pc = "done"
      BY DEF IsHook, Done
    <3> QED
      BY <1>4, <2>2, <3>1
  <2> QED
    BY <2>1, <2>2
<1>7. GoesOn(h, next)
  BY <1>1, <1>2, <1>6 DEF GoesOn
<1>8. DeliveryInv'
  <2>1. next.pc \in {"reading", "fetching", "loaded", "telling", "recording"} =>
          /\ \E m \in Senders(next.id) : Registered(m) # {}
          /\ next.id \notin monitors.delivered
          /\ \A g \in Hooks : Delivering(g) /\ hook[g].id = next.id =>
               next.id \in history'.loose
    BY <1>3, <1>5, <1>6
  <2> QED
    BY <1>1, <1>5, <1>7, <2>1, DeliveriesKeep
<1>9. BusInv' /\ StreamInv' /\ PageInv'
  <2>1. doc' = doc
    BY <1>1 DEF stored
  <2> QED
    BY <1>1, <1>2, <1>5, <2>1, NowGrows, FeedKeeps
<1>10. /\ GoodThen(doc') /\ GoodThen(kept') /\ Rests(doc') /\ Rests(kept')
       /\ worker' = worker
  <2>1. PastGrows
    BY <1>5, <1>7, ExplainedGrows DEF PastGrows
  <2>2. GoodThen(doc) /\ GoodThen(kept)
    BY <1>2, <2>1, GoodStays
  <2> QED
    BY <1>1, <1>2, <2>2 DEF stored
<1> QED
  BY <1>5, <1>6, <1>7, <1>8, <1>9, <1>10, HandlerKeeps

\* What a handler holds that is about to save.
LEMMA HeldGood ==
  ASSUME IInv, NEW h \in Hooks, Holds(h)
  PROVE  LET c == hook[h].case
             d == hook[h].mem
         IN  /\ c \in Cases /\ Good(d) /\ Full(d) /\ d.phase = "ready"
             /\ IsItem(d.items[c])
             /\ Orderly(d.items[c], c \in history.answered, history.loose, Explained)
<1>1. IsHook(hook[h]) /\ Good(hook[h].mem) /\ Full(hook[h].mem) /\ hook[h].mem.phase = "ready"
  BY DEF IInv, HookInv
<1>2. hook[h].case \in Cases
  BY <1>1 DEF IsHook, Holds
<1> QED
  BY <1>1, <1>2 DEF Good, GoodDoc, IsDoc

\* A delivery that is handled is not yet explained, unless it is loose: so it
\* has reopened no case, and becomes explained when its handler has.
LEMMA Unexplained ==
  ASSUME IInv, NEW h \in Hooks, hook[h].pc = "loaded"
  PROVE  /\ hook[h].id \in Ids
         /\ hook[h].id \notin history.loose => hook[h].id \notin Explained
         /\ \A m \in Senders(hook[h].id) : Past(m)
<1> DEFINE id == hook[h].id
<1>1. id \in Ids
  BY HandlerRuns DEF IsHook
<1>2. PICK m \in Senders(id) : Registered(m) # {}
  BY DEF IInv, DeliveryInv, Delivering
<1>3. \A k \in Senders(id) : k = m
  BY <1>2, RequestsAssumption DEF Senders
<1>4. Past(m)
  BY <1>2 DEF Registered, Past, IInv, HookInv
<1>5. ASSUME id \notin history.loose, id \in Explained
      PROVE  FALSE
  <2>1. /\ id \notin monitors.delivered
        /\ \A g \in Hooks : Delivering(g) /\ hook[g].id = id => g = h
    BY <1>5 DEF IInv, DeliveryInv, Delivering
  <2>2. \/ id \in monitors.delivered
        \/ \E g \in Hooks : hook[g].pc = "telling" /\ hook[g].id = id
        \/ Registered(m) = {}
    BY <1>5 DEF Explained
  <2> QED
    BY <1>2, <2>1, <2>2 DEF Delivering
<1> QED
  BY <1>1, <1>3, <1>4, <1>5

\* Reopening a case by a delivery that has not reopened it.
LEMMA ReopenedFits ==
  ASSUME NEW i, IsItem(i), NEW c, NEW A, NEW O, NEW E, Orderly(i, c \in A, O, E),
         NEW id \in Ids, id \notin O => id \notin E,
         NEW O2, O \subseteq O2, NEW E2, E \subseteq E2, id \in E2 \cup O2,
         NEW j, j = [i EXCEPT !.status = "reopened_by_monitor", !.trail = Append(@, id)]
  PROVE  IsItem(j) /\ Orderly(j, c \in A, O2, E2)
<1> DEFINE trail == Append(i.trail, id)
<1>1. /\ i.trail \in Seq(Ids) /\ trail \in Seq(Ids) /\ Len(i.trail) \in Nat
      /\ DOMAIN i.trail = 1 .. Len(i.trail) /\ DOMAIN trail = 1 .. Len(i.trail) + 1
      /\ \A n \in 1 .. Len(i.trail) : trail[n] = i.trail[n]
      /\ trail[Len(i.trail) + 1] = id
  BY DEF IsItem
<1>2. "reopened_by_monitor" \in Statuses \ {"unresolved", "evidence_ready"}
  BY DEF Statuses
<1>3. IsItem(j) /\ j.trail = trail /\ j.status = "reopened_by_monitor"
  <2>1. trail \in Seq(Ids) /\ j = [i EXCEPT !.status = "reopened_by_monitor", !.trail = trail]
    BY <1>1
  <2> HIDE DEF trail
  <2> QED
    BY <1>2, <2>1 DEF IsItem
<1> HIDE DEF trail
<1>4. \A n \in DOMAIN i.trail : i.trail[n] \in E \cup O
  BY DEF Orderly
<1>5. \A n \in DOMAIN trail : trail[n] \in E2 \cup O2
  BY <1>1, <1>4
<1>6. ASSUME NEW m \in DOMAIN trail, NEW n \in DOMAIN trail,
             trail[m] = trail[n], trail[m] \notin O2
      PROVE  m = n
  <2>1. CASE m \in DOMAIN i.trail /\ n \in DOMAIN i.trail
    BY <1>1, <1>6, <2>1 DEF Orderly
  <2>2. CASE m = Len(i.trail) + 1 \/ n = Len(i.trail) + 1
    BY <1>1, <1>4, <1>6, <2>2
  <2> QED
    BY <1>1, <2>1, <2>2
<1> QED
  BY <1>2, <1>3, <1>5, <1>6 DEF Orderly

\* What a handler saves is in order, for whom its delivery is explained, if it
\* handles one, or loose.
LEMMA ToSaveFits ==
  ASSUME IInv, NEW h \in Hooks, hook[h].pc \in {"linking", "deciding", "loaded"},
         NEW O2, history.loose \subseteq O2, NEW E2, Explained \subseteq E2,
         hook[h].pc = "loaded" => hook[h].id \in E2 \cup O2,
         NEW e, e = ToSave(h)
  PROVE  GoodDoc(e, history.answered, O2, E2) /\ Rests(e)
<1> DEFINE c == hook[h].case
           d == hook[h].mem
           old == d.items[c]
           item == Edited(h)
<1>1. /\ c \in Cases /\ Good(d) /\ Full(d) /\ d.phase = "ready"
      /\ IsItem(old) /\ Orderly(old, c \in history.answered, history.loose, Explained)
  BY HeldGood DEF Holds
<1>2. IsItem(item) /\ Orderly(item, c \in history.answered, O2, E2)
  <2>1. Orderly(old, c \in history.answered, O2, E2)
    BY <1>1 DEF Orderly
  <2>2. CASE hook[h].pc = "linking"
    <3>1. item = [old EXCEPT !.monitor = h]
      BY <2>2 DEF Edited
    <3> HIDE DEF item, old
    <3> QED
      BY <1>1, <2>1, <3>1, EditedFits
  <2>3. CASE hook[h].pc = "deciding"
    <3>1. item = [old EXCEPT !.status = "coordinator_verified"]
      BY <2>3 DEF Edited
    <3>2. "coordinator_verified" \in Statuses \ {"unresolved", "evidence_ready"}
      BY DEF Statuses
    <3> HIDE DEF item, old
    <3> QED
      BY <1>1, <2>1, <3>1, <3>2, EditedFits
  <2>4. CASE hook[h].pc = "loaded"
    <3> DEFINE id == hook[h].id
               new == [old EXCEPT !.status = "reopened_by_monitor", !.trail = Append(@, id)]
    <3>1. item = new
      BY <2>4 DEF Edited
    <3>2. id \in Ids /\ (id \notin history.loose => id \notin Explained)
      BY <2>4, Unexplained
    <3>3. id \in E2 \cup O2
      BY <2>4
    <3>4. IsItem(old) /\ Orderly(old, c \in history.answered, history.loose, Explained)
      BY <1>1
    <3>5. history.loose \subseteq O2 /\ Explained \subseteq E2
      OBVIOUS
    <3> HIDE DEF item, old, c, id
    <3>6. IsItem(new) /\ Orderly(new, c \in history.answered, O2, E2)
      BY <3>2, <3>3, <3>4, <3>5, ReopenedFits
    <3> HIDE DEF new
    <3> QED
      BY <3>1, <3>6
  <2> QED
    BY <2>2, <2>3, <2>4
<1>3. GoodDoc(d, history.answered, O2, E2)
  <2>1. GoodDoc(d, history.answered, history.loose, Explained)
    BY <1>1 DEF Good
  <2> HIDE DEF d
  <2> QED
    BY <2>1, GoodOn
<1>4. e = [d EXCEPT !.items[c] = item]
  BY DEF ToSave
<1> HIDE DEF c, d, old, item
<1>5. GoodDoc(e, history.answered, O2, E2) /\ Full(e) /\ e.phase = d.phase
  BY <1>1, <1>2, <1>3, <1>4, Replaced
<1> QED
  BY <1>1, <1>5 DEF Rests

\* A monitor is linked to its case, and a person's decision saved.
LEMMA SavesKeep ==
  ASSUME IInv, NEW h \in Hooks, LinkMonitor(h) \/ SaveDecision(h)
  PROVE  IInv'
<1>1. /\ hook[h].pc \in {"linking", "deciding"} /\ Moves(h, Done)
      /\ UNCHANGED <<worker, feedVars, pageVars, monitors, history>>
      /\ doc' = ToSave(h) /\ kept' = ToSave(h)
  BY DEF LinkMonitor, SaveDecision, SaveAnswers, Ends
<1>2. /\ ~Final /\ IsHistory(history)
      /\ monitors \in [known : SUBSET [id : Hooks, case : Cases], delivered : SUBSET Ids]
  BY <1>1, HandlerRuns
<1>3. IsHook(Done) /\ Done.pc = "done"
  BY DEF IsHook, Done
<1>4. GoesOn(h, Done)
  BY <1>1, <1>2, <1>3 DEF GoesOn
<1>5. DeliveryInv'
  BY <1>1, <1>3, <1>4, DeliveriesKeep
<1>6. GoodThen(doc') /\ Rests(doc')
  <2>1. PICK E2 : E2 = Explained'
    OBVIOUS
  <2>2. Explained \subseteq E2
    BY <1>4, <2>1, ExplainedGrows
  <2>3. GoodDoc(doc', history.answered, history.loose, E2) /\ Rests(doc')
    BY <1>1, <2>2, ToSaveFits
  <2> QED
    BY <1>1, <2>1, <2>3 DEF GoodThen
<1>7. doc'.phase = "ready"
  <2>1. ToSave(h).phase = "ready"
    BY <1>1, HeldGood DEF ToSave, Holds, Good, GoodDoc, IsDoc
  <2> QED
    BY <1>1, <2>1
<1>8. BusInv' /\ StreamInv' /\ PageInv'
  BY <1>1, <1>2, <1>7, NowGrows, FeedKeeps
<1> QED
  BY <1>1, <1>2, <1>3, <1>4, <1>5, <1>6, <1>8, HandlerKeeps

\* A case is reopened (ReopenedOncePerDelivery).
LEMMA ReopenKeeps ==
  ASSUME IInv, NEW h \in Hooks, Reopen(h)
  PROVE  IInv'
<1>1. /\ hook[h].pc = "loaded" /\ Delivering(h)
      /\ UNCHANGED <<worker, feedVars, pageVars, monitors, history>>
      /\ doc' = ToSave(h) /\ kept' = ToSave(h)
  BY DEF Reopen, SaveAnswers, Delivering
<1>2. /\ ~Final /\ IsHistory(history) /\ IsHook(hook[h])
      /\ monitors \in [known : SUBSET [id : Hooks, case : Cases], delivered : SUBSET Ids]
  BY <1>1, HandlerRuns
<1> DEFINE next == [pc |-> "telling", id |-> hook[h].id, case |-> hook[h].case]
<1>3. /\ IsHook(next) /\ next.pc = "telling" /\ next.id = hook[h].id /\ Moves(h, next)
  BY <1>1, <1>2 DEF Reopen, IsHook
<1> HIDE DEF next
<1>4. GoesOn(h, next)
  BY <1>1, <1>2, <1>3 DEF GoesOn
<1>5. DeliveryInv'
  BY <1>1, <1>3, <1>4, DeliveriesKeep
<1>6. hook[h].id \in Explained'
  <2> DEFINE id == hook[h].id
  <2>1. id \in Ids /\ \A m \in Senders(id) : Past(m)
    BY <1>1, Unexplained
  <2>2. hook'[h] = next /\ \A g \in Hooks : g # h => hook'[g] = hook[g]
    BY <1>3, HandlerMoves
  <2>3. \A m \in Senders(id) : m \in Hooks => hook'[m].pc \notin {"new", "creating"}
    BY <1>3, <2>1, <2>2 DEF Past
  <2>4. hook'[h].pc = "telling" /\ hook'[h].id = id
    BY <1>3, <2>2
  <2> HIDE DEF id
  <2>5. id \in Explained'
    BY <2>1, <2>3, <2>4 DEF Explained, Past
  <2> QED
    BY <2>5 DEF id
<1>7. GoodThen(doc') /\ Rests(doc')
  <2>1. PICK E2 : E2 = Explained'
    OBVIOUS
  <2>2. Explained \subseteq E2 /\ hook[h].id \in E2
    BY <1>4, <1>6, <2>1, ExplainedGrows
  <2>3. GoodDoc(doc', history.answered, history.loose, E2) /\ Rests(doc')
    BY <1>1, <2>2, ToSaveFits
  <2> QED
    BY <1>1, <2>1, <2>3 DEF GoodThen
<1>8. doc'.phase = "ready"
  <2>1. ToSave(h).phase = "ready"
    BY <1>1, HeldGood DEF ToSave, Holds, Good, GoodDoc, IsDoc
  <2> QED
    BY <1>1, <2>1
<1>9. BusInv' /\ StreamInv' /\ PageInv'
  BY <1>1, <1>2, <1>8, NowGrows, FeedKeeps
<1> QED
  BY <1>1, <1>2, <1>3, <1>4, <1>5, <1>7, <1>9, HandlerKeeps

\* A handler's save rejects.  If it took effect, the delivery it was made for
\* is loose; if it deleted the production, its end is lost.
LEMMA HookSaveRejectsKeeps ==
  ASSUME IInv, NEW h \in Hooks, HookSaveRejects(h)
  PROVE  IInv'
<1>1. /\ hook[h].pc \in {"linking", "loaded", "deciding"} /\ Moves(h, Done)
      /\ UNCHANGED <<worker, feedVars, pageVars, monitors>>
  BY DEF HookSaveRejects, Ends
<1>2. /\ ~Final /\ IsHistory(history) /\ Good(doc) /\ Good(kept)
      /\ Rests(doc) /\ Rests(kept)
      /\ monitors \in [known : SUBSET [id : Hooks, case : Cases], delivered : SUBSET Ids]
  BY <1>1, HandlerRuns
<1>3. IsHook(Done) /\ Done.pc = "done"
  BY DEF IsHook, Done
<1>4. GoesOn(h, Done)
  BY <1>1, <1>2, <1>3 DEF GoesOn
<1>5. \/ doc' = doc /\ kept' = kept /\ history' = history
      \/ /\ doc' = ToSave(h) /\ kept' \in {kept, ToSave(h)}
         /\ history' = [history EXCEPT !.loose =
              IF Delivering(h) THEN @ \cup {hook[h].id} ELSE @]
      \/ doc' = Gone /\ kept' = Gone /\ history' = [history EXCEPT !.lost = TRUE]
  BY DEF HookSaveRejects, stored
<1>6. /\ IsHistory(history') /\ history'.answered = history.answered
      /\ history.loose \subseteq history'.loose
      /\ history.lost => history'.lost
  BY <1>2, <1>5 DEF IsHistory
<1>7. DeliveryInv'
  BY <1>1, <1>3, <1>4, <1>6, DeliveriesKeep
<1>8. \A d : Good(d) => GoodThen(d)
  BY <1>4, <1>6, ExplainedGrows, GoodStays DEF PastGrows
<1>9. /\ GoodThen(doc') /\ GoodThen(kept') /\ Rests(doc') /\ Rests(kept')
      /\ doc.phase = "ready" => doc'.phase = "ready" \/ history'.lost
  <2>1. CASE doc' = doc /\ kept' = kept
    BY <1>2, <1>8, <2>1
  <2>2. CASE doc' = Gone /\ kept' = Gone /\ history' = [history EXCEPT !.lost = TRUE]
    <3>1. GoodThen(Gone) /\ Rests(Gone)
      BY GoneFits DEF GoodThen, Rests
    <3>2. history'.lost
      BY <1>2, <2>2 DEF IsHistory
    <3> QED
      BY <2>2, <3>1, <3>2
  <2>3. CASE /\ doc' = ToSave(h) /\ kept' \in {kept, ToSave(h)}
             /\ history' = [history EXCEPT !.loose =
                  IF Delivering(h) THEN @ \cup {hook[h].id} ELSE @]
    <3>1. hook[h].pc = "loaded" => hook[h].id \in history'.loose
      BY <1>2, <2>3 DEF IsHistory, Delivering
    <3>2. PICK E2, O2 : E2 = Explained' /\ O2 = history'.loose
      OBVIOUS
    <3>3. Explained \subseteq E2 /\ history.loose \subseteq O2
      BY <1>4, <1>6, <3>2, ExplainedGrows
    <3>4. GoodDoc(doc', history.answered, O2, E2) /\ Rests(doc')
      BY <1>1, <2>3, <3>1, <3>2, <3>3, ToSaveFits
    <3>5. GoodThen(doc')
      BY <1>6, <3>2, <3>4 DEF GoodThen
    <3>6. doc'.phase = "ready"
      <4>1. ToSave(h).phase = "ready"
        BY <1>1, HeldGood DEF ToSave, Holds, Good, GoodDoc, IsDoc
      <4> QED
        BY <2>3, <4>1
    <3> QED
      BY <1>2, <1>8, <2>3, <3>4, <3>5, <3>6
  <2> QED
    BY <1>5, <2>1, <2>2, <2>3
<1>10. BusInv' /\ StreamInv' /\ PageInv'
  BY <1>1, <1>2, <1>6, <1>9, NowGrows, FeedKeeps
<1> QED
  BY <1>1, <1>3, <1>4, <1>6, <1>7, <1>9, <1>10, HandlerKeeps

\* A reopening is told, and its delivery recorded.
LEMMA TellAndRecordKeeps ==
  ASSUME IInv, NEW h \in Hooks, TellAndRecord(h)
  PROVE  IInv'
<1>1. /\ hook[h].pc \in {"telling", "recording"}
      /\ UNCHANGED <<stored, worker, pageVars, history>>
      /\ Moves(h, Done)
      /\ monitors' = [monitors EXCEPT !.delivered = @ \cup {hook[h].id}]
      /\ Delivering(h)
  BY DEF TellAndRecord, Ends, Delivering
<1>2. /\ Rests(doc) /\ Rests(kept) /\ Good(doc) /\ Good(kept) /\ ~Final /\ IsHook(hook[h])
      /\ monitors \in [known : SUBSET [id : Hooks, case : Cases], delivered : SUBSET Ids]
      /\ IsHistory(history)
  BY <1>1, HandlerRuns
<1>3. hook[h].id \in Ids
  BY <1>1, <1>2 DEF IsHook
<1>4. /\ monitors' \in [known : SUBSET [id : Hooks, case : Cases], delivered : SUBSET Ids]
      /\ monitors'.known = monitors.known
      /\ monitors'.delivered = monitors.delivered \cup {hook[h].id}
  BY <1>1, <1>2, <1>3
<1>5. IsHook(Done) /\ Done.pc = "done"
  BY DEF IsHook, Done
<1>6. GoesOn(h, Done)
  BY <1>1, <1>4, <1>5 DEF GoesOn
<1>7. DeliveryInv'
  BY <1>1, <1>4, <1>5, <1>6, DeliveriesKeep
<1>8. Now \subseteq Now'
  BY <1>1, <1>2, NowGrows DEF stored
<1>9. BusInv' /\ StreamInv' /\ PageInv'
  <2> DEFINE event == Event("monitor_event", hook[h].case)
  <2>1. IsEvent(event, Now')
    BY DEF IsEvent, Event
  <2>2. Publish(event) \/ UNCHANGED feedVars
    BY DEF TellAndRecord
  <2> HIDE DEF event
  <2> QED
    BY <1>1, <1>8, <2>1, <2>2, PublishKeeps, FeedKeeps
<1>10. GoodThen(doc') /\ GoodThen(kept') /\ Rests(doc') /\ Rests(kept')
  BY <1>1, <1>2, <1>6, ExplainedGrows, GoodStays DEF PastGrows, stored
<1> QED
  BY <1>1, <1>2, <1>5, <1>6, <1>7, <1>9, <1>10, HandlerKeeps

\* Whatever a handler does.
LEMMA HandlersKeep ==
  ASSUME IInv, NEW h \in Hooks, Handle(h)
  PROVE  IInv'
  BY OpenMonitorKeeps, DeliverKeeps, DecideKeeps, CreateMonitorKeeps, SavesKeep,
     ReadEventsKeeps, LoadProductionKeeps, ReopenKeeps, TellAndRecordKeeps,
     HookRejectsKeeps, HookSaveRejectsKeeps DEF Handle

---------------------------------------------------------------------------
(***************************************************************************)
(* The whole                                                               *)
(***************************************************************************)
\* An empty bus, and nobody listening.
LEMMA FreshFeed ==
  ASSUME NEW now
  PROVE  /\ NewBus \in [next : Nat \ {0}, log : {NewBus.log}] /\ Queue(NewBus.log, now)
         /\ Len(NewBus.log) <= HistoryLimit
         /\ AreStreams([p \in Pages |-> NoStream], now)
         /\ ArePolls({}, now)
<1>1. Queue(<< >>, now) /\ Len(<< >>) = 0
  <2> DEFINE s == << >>
  <2>1. s \in Seq({}) /\ Len(s) = 0 /\ \A i \in 1 .. Len(s) : FALSE
    OBVIOUS
  <2> HIDE DEF s
  <2>2. Queue(s, now)
    BY <2>1, QueueOf
  <2> QED
    BY <2>1, <2>2 DEF s
<1>2. NewBus.log = << >> /\ NewBus.next = 1 /\ NewBus \in [next : {1}, log : {NewBus.log}]
  BY DEF NewBus
<1>3. 1 \in Nat \ {0} /\ HistoryLimit \in Nat /\ MaxPolls \in Nat
  BY DeliveryAssumption
<1>4. IsStream(NoStream, now)
  BY DEF IsStream, NoStream
<1>5. ArePolls({}, now)
  BY <1>3, FS_EmptySet DEF ArePolls
<1>6. NewBus \in [next : Nat \ {0}, log : {NewBus.log}]
  BY <1>2, <1>3
<1> QED
  BY <1>1, <1>2, <1>3, <1>4, <1>5, <1>6 DEF AreStreams

\* A worker that is off or queued, with nothing to save.
LEMMA FreshWorker ==
  ASSUME NEW pc \in {"off", "queued"}
  PROVE  LET w == [NoWorker EXCEPT !.pc = pc]
         IN  /\ w \in [pc : {pc}, mem : {w.mem}, saves : {w.saves}, work : {w.work}]
             /\ w.saves = {}
  BY DEF NoWorker

\* The server starts anew: what it had in memory is gone, and what had been
\* explained by the registry is explained by its loss.
LEMMA RestartKeeps ==
  ASSUME IInv, Restart
  PROVE  IInv'
<1>1. /\ monitors' = NoMonitors /\ kept' = doc'
      /\ doc' \in {kept} \cup {save.mem : save \in worker.saves}
      /\ history' = [history EXCEPT !.lost = @ \/ (doc.phase = "ready" /\ doc'.phase # "ready")]
      /\ hook' = [h \in Hooks |-> IF hook[h].pc = "new" THEN hook[h] ELSE Done]
  BY DEF Restart
<1>2. /\ Good(kept) /\ HookInv /\ PageInv /\ StreamInv /\ WorkerInv
      /\ IsHistory(history)
  BY DEF IInv, HookInv
<1>3. \A h \in Hooks : hook'[h].pc = "done" \/ (hook[h].pc = "new" /\ hook'[h] = hook[h])
  BY <1>1 DEF Done
<1>4. monitors'.known = {} /\ monitors'.delivered = {}
      /\ monitors' \in [known : SUBSET [id : Hooks, case : Cases], delivered : SUBSET Ids]
  BY <1>1 DEF NoMonitors
<1>5. Explained \subseteq Explained'
  <2> SUFFICES ASSUME NEW id \in Explained, NEW m \in Senders(id)
               PROVE  /\ m \in Hooks => hook'[m].pc \notin {"new", "creating"}
                      /\ {k \in monitors'.known : k.id = m} = {}
    BY DEF Explained, Past, Registered
  <2> QED
    BY <1>3, <1>4 DEF Explained, Past
<1>6. /\ IsHistory(history') /\ history'.answered = history.answered
      /\ history'.loose = history.loose
      /\ history.lost => history'.lost
      /\ doc.phase = "ready" => doc'.phase = "ready" \/ history'.lost
  BY <1>1, <1>2 DEF IsHistory
<1>7. GoodThen(doc')
  <2>1. Good(doc')
    BY <1>1, <1>2 DEF WorkerInv, IsSave
  <2> QED
    BY <1>5, <1>6, <2>1, GoodStays DEF PastGrows
<1>8. PICK pc \in {"off", "queued"} :
        /\ worker' = [NoWorker EXCEPT !.pc = pc]
        /\ pc = IF doc'.phase \in Over THEN "off" ELSE "queued"
  BY DEF Restart
<1>9. /\ worker' \in [pc : {pc}, mem : {worker'.mem}, saves : {worker'.saves},
                      work : {worker'.work}]
      /\ worker'.saves = {} /\ worker'.pc = pc
  BY <1>8, FreshWorker
<1>10. WorkerInv'
  <2>1. worker'.pc # "off" => doc'.phase # "ready"
    BY <1>8, <1>9 DEF Over, Settled
  <2> QED
    BY <1>9, <2>1 DEF WorkerInv
<1>11. Now \subseteq Now'
  <2>1. ASSUME Final PROVE Final'
    <3>1. doc'.phase = "ready" /\ kept'.phase = "ready" /\ pc = "off"
      BY <1>1, <1>8, <2>1 DEF Final, Over, Settled
    <3>2. \A h \in Hooks : hook'[h].pc = "done"
      BY <1>3, <2>1 DEF Final
    <3> QED
      BY <1>9, <3>1, <3>2 DEF Final
  <2> QED
    BY <1>6, <2>1 DEF Now
<1>12. PICK now : now = Now'
  OBVIOUS
<1>13. BusInv' /\ StreamInv'
  <2>1. /\ stream' = [p \in Pages |-> IF stream[p].pc = "refused" THEN stream[p] ELSE NoStream]
        /\ bus' = NewBus
    BY DEF Restart
  <2>2. \A p \in Pages : IsStream(stream[p], now) /\ IsStream(NoStream, now)
    BY <1>2, <1>11, <1>12, KnowsOn DEF StreamInv, IsStream, NoStream
  <2>3. BusInv'
    BY <1>12, <2>1, FreshFeed DEF BusInv
  <2> QED
    BY <1>12, <2>1, <2>2, <2>3 DEF StreamInv
<1>14. PageInv'
  <2>1. PICK ps : page' = Broken(ps) /\ polls' = [p \in Pages |-> {}]
    BY DEF Restart
  <2>2. \A p \in Pages : IsPage(page[p], now)
    BY <1>2, <1>11, <1>12, KnowsOn DEF PageInv
  <2>3. page' = [p \in Pages |-> page'[p]] /\ \A p \in Pages : IsPage(page'[p], now)
    BY <2>1, <2>2, BrokenPages
  <2> QED
    BY <1>12, <2>1, <2>3, FreshFeed DEF PageInv
<1>15. HookInv'
  <2>1. hook' = [h \in Hooks |-> hook'[h]]
    BY <1>1
  <2>2. \A h \in Hooks : /\ IsHook(hook'[h]) /\ ~Holds(h)'
                         /\ hook'[h].pc # "done" => pc = "off" /\ Rests(doc') /\ Rests(kept')
    <3> TAKE h \in Hooks
    <3>1. IsHook(Done) /\ Done.pc = "done"
      BY DEF IsHook, Done
    <3>2. /\ IsHook(hook[h])
          /\ hook[h].pc # "done" => worker.saves = {} /\ Rests(kept)
      BY <1>2 DEF HookInv
    <3>3. hook'[h].pc # "done" => Rests(doc')
      BY <1>1, <1>3, <3>2
    <3>4. Rests(doc') => doc'.phase \in Over
      BY DEF Rests, Gone, Over, Settled
    <3> QED
      BY <1>1, <1>3, <1>8, <3>1, <3>2, <3>3, <3>4 DEF Holds
  <2> QED
    BY <1>4, <1>6, <1>9, <2>1, <2>2 DEF HookInv, Rests, Full
<1>16. DeliveryInv'
  BY <1>3 DEF DeliveryInv, Delivering
<1>17. Good(doc)' /\ Good(kept)'
  BY <1>1, <1>7 DEF Good, GoodThen
<1> QED
  BY <1>10, <1>13, <1>14, <1>15, <1>16, <1>17 DEF IInv

\* The state a server that starts is in.
LEMMA InitIInv == Init => IInv
<1> SUFFICES ASSUME Init PROVE IInv
  OBVIOUS
<1>1. /\ monitors = NoMonitors /\ bus = NewBus /\ stream = [p \in Pages |-> NoStream]
      /\ page = [p \in Pages |-> NewPage(doc)] /\ polls = [p \in Pages |-> {}]
      /\ hook = [h \in Hooks |-> IF doc.phase = "ready" THEN [pc |-> "new"] ELSE Done]
      /\ history = [answered |-> IF doc.phase = "ready" THEN Cases ELSE {},
                    loose |-> {}, lost |-> FALSE]
      /\ kept = doc
  BY DEF Init
<1>2. /\ IsHistory(history)
      /\ doc.phase = "ready" => history.answered = Cases
  BY <1>1 DEF IsHistory
<1> DEFINE item == Concluded(NewCase, Task(1, << >>))
<1>3. ASSUME doc = [phase |-> "created", items |-> << >>]
      PROVE  Good(doc) /\ doc.phase = "created"
  <2>1. doc \in [phase : {"created"}, items : {doc.items}] /\ doc.items = << >>
    BY <1>3
  <2>2. ASSUME Full(doc), NEW c \in Cases PROVE FALSE
    <3>1. doc.items = [x \in Cases |-> doc.items[x]]
      BY <2>2 DEF Full
    <3>2. DOMAIN doc.items = Cases /\ DOMAIN << >> = {}
      BY <3>1
    <3> QED
      BY <2>1, <2>2, <3>2
  <2>3. Good(doc)
    BY <2>1, <2>2 DEF Good, GoodDoc, IsDoc, Phases
  <2> QED
    BY <2>1, <2>3
<1>4. ASSUME doc = [phase |-> "ready", items |-> [c \in Cases |-> item]]
      PROVE  Good(doc) /\ doc.phase = "ready" /\ Full(doc)
  <2>1. ASSUME NEW c \in Cases
        PROVE  IsItem(item) /\ Orderly(item, c \in history.answered, history.loose, Explained)
    <3> DEFINE answer == Task(1, << >>)
    <3>1. history.answered = Cases
      BY <1>2, <1>4
    <3>2. answer.holders \in Nat
      BY DEF Task
    <3>3. /\ IsItem(NewCase)
          /\ Orderly(NewCase, c \in history.answered, history.loose, Explained)
      BY NewCaseFits
    <3>4. item = Concluded(NewCase, answer)
      OBVIOUS
    <3> HIDE DEF answer, item
    <3> QED
      BY <3>1, <3>2, <3>3, <3>4, ConcludedFits
  <2> HIDE DEF item
  <2>2. doc \in [phase : {"ready"}, items : {doc.items}] /\ Full(doc)
        /\ \A c \in Cases : doc.items[c] = item
    BY <1>4 DEF Full
  <2>3. Good(doc)
    BY <2>1, <2>2 DEF Good, GoodDoc, IsDoc, Phases
  <2> QED
    BY <2>2, <2>3
<1>5. /\ Good(doc) /\ Good(kept) /\ doc.phase \in {"created", "ready"}
      /\ doc.phase = "ready" => Full(doc)
  BY <1>1, <1>3, <1>4 DEF Init
<1>6. BusInv /\ StreamInv
  BY <1>1, FreshFeed DEF BusInv, StreamInv, AreStreams
<1>7. PageInv
  <2>1. doc.phase \in Phases
    BY <1>5 DEF Phases
  <2>2. IsPage(NewPage(doc), Now)
    <3>1. NewPage(doc) \in [open : BOOLEAN, shown : {NewPage(doc).shown}, last : Nat,
                            polling : BOOLEAN, view : {"analysis"}, heard : {FALSE}]
          /\ NewPage(doc).shown = Shown(doc)
      BY DEF NewPage
    <3>2. IsShown(Shown(doc), Now)
      BY <2>1 DEF IsShown, Shown, Knows, Now
    <3> QED
      BY <3>1, <3>2 DEF IsPage
  <2> QED
    BY <1>1, <2>2, FreshFeed DEF PageInv
<1>8. PICK pc \in {"off", "queued"} :
        /\ worker = [NoWorker EXCEPT !.pc = pc]
        /\ pc = IF doc.phase \in Settled THEN "off" ELSE "queued"
  BY DEF Init
<1>9. WorkerInv
  <2>1. worker \in [pc : {pc}, mem : {worker.mem}, saves : {worker.saves}, work : {worker.work}]
        /\ worker.saves = {}
    BY <1>8, FreshWorker
  <2> QED
    BY <1>8, <2>1 DEF WorkerInv, Settled
<1>10. \A h \in Hooks :
         /\ IsHook(hook[h]) /\ hook[h].pc \in {"new", "done"}
         /\ hook[h].pc # "done" => worker.pc = "off" /\ worker.saves = {} /\ Rests(doc)
  <2>1. worker.pc = pc /\ worker.saves = {}
    BY <1>8, FreshWorker
  <2>2. \A h \in Hooks : /\ IsHook(hook[h]) /\ hook[h].pc \in {"new", "done"}
                         /\ hook[h].pc # "done" => doc.phase = "ready"
    BY <1>1 DEF IsHook, Done
  <2> QED
    BY <1>5, <1>8, <2>1, <2>2 DEF Rests, Settled
<1>11. HookInv
  <2>1. monitors \in [known : SUBSET [id : Hooks, case : Cases], delivered : SUBSET Ids]
        /\ monitors.known = {}
    BY <1>1 DEF NoMonitors
  <2>2. hook = [h \in Hooks |-> hook[h]]
    BY <1>1
  <2> QED
    BY <1>1, <1>2, <1>10, <2>1, <2>2 DEF HookInv, Holds
<1>12. DeliveryInv
  BY <1>10 DEF DeliveryInv, Delivering
<1> QED
  BY <1>5, <1>6, <1>7, <1>9, <1>11, <1>12 DEF IInv

\* A step in which nothing moves.
LEMMA StutterKeeps ==
  ASSUME IInv, UNCHANGED vars
  PROVE  IInv'
<1>1. UNCHANGED <<stored, worker, feedVars, pageVars, hookVars, history>>
  BY DEF vars
<1>2. BusInv' /\ StreamInv' /\ PageInv'
  BY <1>1, WatchNow, FeedKeeps
<1> QED
  BY <1>1, <1>2, WatchKeeps

\* Every step keeps the invariant.
LEMMA NextIInv == IInv /\ [Next]_vars => IInv'
<1> SUFFICES ASSUME IInv, [Next]_vars PROVE IInv'
  OBVIOUS
<1> QED
  BY AnalyseKeeps, RestartKeeps, PagesKeep, HandlersKeep, StutterKeeps DEF Next

\* The invariant always holds.
LEMMA AlwaysIInv == Spec => []IInv
<1> QED
  BY InitIInv, NextIInv, PTL DEF Spec

---------------------------------------------------------------------------
(***************************************************************************)
(* What it says of the run's properties                                    *)
(***************************************************************************)
\* A stored case, or else no case at all.
LEMMA StoredCases ==
  ASSUME IInv, NEW c \in DOMAIN doc.items
  PROVE  /\ c \in Cases /\ IsItem(doc.items[c])
         /\ Orderly(doc.items[c], c \in history.answered, history.loose, Explained)
<1>1. IsDoc(doc) /\ Good(doc)
  BY DEF IInv, Good, GoodDoc
<1>2. doc.items # << >>
  <2>1. DOMAIN << >> = {}
    OBVIOUS
  <2> QED
    BY <2>1
<1>3. Full(doc)
  BY <1>1, <1>2 DEF IsDoc
<1>4. DOMAIN doc.items = Cases
  <2>1. doc.items = [x \in Cases |-> doc.items[x]]
    BY <1>3 DEF Full
  <2> QED
    BY <2>1
<1> QED
  BY <1>1, <1>3, <1>4 DEF IsDoc, Good, GoodDoc

\* The state has its shape: the history never exceeds the bus's limit
\* (services/events.ts), nor a page's unanswered polls theirs.
THEOREM TypeCorrect == Spec => []TypeOK
<1>1. ASSUME IInv PROVE TypeOK
  <2>1. {doc.phase, kept.phase} \subseteq Phases \cup {"absent"}
    BY <1>1 DEF IInv, Good, GoodDoc, IsDoc
  <2>2. \A c \in DOMAIN doc.items :
          /\ c \in Cases /\ doc.items[c].status \in Statuses
          /\ doc.items[c].error \in {"none", "search", "assembly"}
          /\ doc.items[c].monitor \in Hooks \cup {None}
    BY <1>1, StoredCases DEF IsItem
  <2>3. bus.next \in Nat \ {0} /\ Len(bus.log) <= HistoryLimit
    BY <1>1 DEF IInv, BusInv
  <2>4. ASSUME NEW p \in Pages
        PROVE  /\ stream[p].pc \in {"off", "loading", "on", "refused"}
               /\ page[p].shown.phase \in Phases /\ page[p].last \in Nat
               /\ page[p].view \in {"analysis", "review", "stuck"}
               /\ Cardinality(polls[p]) <= MaxPolls
    <3>1. IsStream(stream[p], Now) /\ IsPage(page[p], Now)
          /\ ArePolls(polls[p], Now)
      BY <1>1 DEF IInv, StreamInv, PageInv
    <3>2. stream[p].pc \in {"off", "loading", "on", "refused"}
      BY <3>1 DEF IsStream
    <3> QED
      BY <3>1, <3>2 DEF IsPage, IsShown, ArePolls
  <2>5. \A h \in Hooks : hook[h].pc \in {"new", "creating", "linking", "reading",
                            "fetching", "loaded", "telling", "recording", "deciding", "done"}
    BY <1>1 DEF IInv, HookInv, IsHook
  <2> QED
    BY <2>1, <2>2, <2>3, <2>4, <2>5 DEF TypeOK
<1> QED
  BY <1>1, AlwaysIInv, PTL

\* A provider's failure is never stored as a dossier that names no rights
\* holder (research-stage.ts, gemini/client.ts), whatever rejects and however
\* often the server restarts in the middle of the research.
THEOREM EvidenceStaysHonest == Spec => []EvidenceHonest
<1>1. ASSUME IInv PROVE EvidenceHonest
  BY <1>1, StoredCases DEF EvidenceHonest, Orderly
<1> QED
  BY <1>1, AlwaysIInv, PTL

\* A page that hands over to the review finds the production ready
\* (analysis-workspace.tsx asks the server once): always if it has the event of
\* the end, which is published when the save has answered; and if it has read
\* so, by a poll, a snapshot or a replay, unless that was a save that rejected
\* or that the server did not survive.
THEOREM HandOverIsReady == Spec => []HandOverFindsReady
<1>1. ASSUME IInv PROVE HandOverFindsReady
  BY <1>1 DEF IInv, PageInv, IsPage, Now, HandOverFindsReady
<1> QED
  BY <1>1, AlwaysIInv, PTL

\* The webhook (routes/monitors.ts) reopens a case once for a delivery,
\* through retries, decisions that overwrite what was reopened, saves that
\* reject and the loss of the registry, unless deliveries with its id ran
\* together or the save that reopened the case rejected and yet took effect,
\* so that the delivery was never recorded.
THEOREM DeliveriesReopenOnce == Spec => []ReopenedOncePerDelivery
<1>1. ASSUME IInv PROVE ReopenedOncePerDelivery
  BY <1>1, StoredCases DEF ReopenedOncePerDelivery, Orderly
<1> QED
  BY <1>1, AlwaysIInv, PTL
=============================================================================
