------------------------------ MODULE Delivery ------------------------------
(***************************************************************************)
(* How what happens to a production reaches those who watch it: the        *)
(* analysis publishes on the event bus (services/events.ts), the stream    *)
(* route replays and forwards (routes/stream.ts), the analysis page folds  *)
(* events and polls once its stream has broken                             *)
(* (apps/web/src/features/analysis), and webhook deliveries of monitors    *)
(* reopen cases (routes/monitors.ts).                                      *)
(*                                                                         *)
(* The server may be restarted, which empties the bus and the registry of  *)
(* monitors and recovers the analysis; connections break; calls reject.    *)
(* What the repository answers to readers (doc) runs ahead of what a       *)
(* restart finds (kept) while a save is in progress, and after one that    *)
(* rejected although it took effect (DocumentStore).                       *)
(* People decide on cases, and open monitors, when the production is       *)
(* ready, as the pages let them: a server that starts finds it created and *)
(* analyses it, or finds it ready and is asked things about it.            *)
(***************************************************************************)
EXTENDS Evidence

CONSTANTS
  Cases,        \* what reconciliation finds
  Pages,        \* analysis pages open in browsers
  Hooks,        \* requests to the monitor and status routes
  HookOps,      \* what those requests may be
  Searches,     \* what a search may find
  Answers,      \* what a dossier may name and cite, on either path
  HistoryLimit, \* events the bus keeps
  MaxPolls,     \* bound on unanswered polls of a page
  MaxFaults     \* bound, for the network (connections that are quiet or break,
                \* polls that fail) and for the server (restarts, calls that
                \* reject)

VARIABLES
  doc,       \* the production, as the repository reads it
  kept,      \* the production, as it outlives the server
  worker,    \* its analysis
  bus,       \* the event bus: the next id and the history
  stream,    \* the stream route, by page
  page,      \* the pages
  polls,     \* what was read for polls that are not answered yet, by page
  monitors,  \* the registry: monitors and recorded deliveries
  hook,      \* the handlers
  faults,
  history    \* what properties need to know of the past

feedVars == <<bus, stream>>
stored   == <<doc, kept>>
pageVars == <<page, polls>>
hookVars == <<monitors, hook>>
vars == <<stored, worker, feedVars, pageVars, hookVars, faults, history>>

ASSUME DeliveryAssumption ==
  /\ HistoryLimit \in Nat \ {0}
  /\ MaxPolls \in Nat
  /\ MaxFaults \in [{"network", "server"} -> Nat]
  /\ \A answer \in Answers : answer.holders \in Nat

---------------------------------------------------------------------------
(***************************************************************************)
(* The production, the events, and the bus                                 *)
(***************************************************************************)
Phases  == {"created", "scanning", "reconciling", "researching", "ready", "failed"}
Settled == {"ready", "failed"}

\* A repository that has no such production, and what it is asked for then.
Gone == [phase |-> "absent", items |-> << >>]

Present(project) == project.phase # "absent"

\* Nothing is left for a run to do.
Over == Settled \cup {"absent"}

Awaits(item) == item.status \in {"detected", "researching"}

Event(type, about) == [type |-> type, about |-> about]

Told(c, item) == [case |-> c, status |-> item.status, cited |-> item.cited]

\* Mutant: the history is never cut.
AllOf(s) == s

LastOf(s) == SubSeq(s, IF Len(s) > HistoryLimit THEN Len(s) - HistoryLimit + 1 ELSE 1, Len(s))

Envelope(event) == [id |-> bus.next, event |-> event]

\* publish: into the history, and to every subscriber.
Forward(streams, event) ==
  [p \in Pages |-> IF streams[p].pc = "on"
                   THEN [streams[p] EXCEPT !.queue = Append(@, Envelope(event))]
                   ELSE streams[p]]

Publish(event) ==
  /\ bus' = [next |-> bus.next + 1, log |-> LastOf(Append(bus.log, Envelope(event)))]
  /\ stream' = Forward(stream, event)

\* A subscription once it is closed, and before it is opened.
NoStream == [pc |-> "off"]

NewBus == [next |-> 1, log |-> << >>]

Fault(part) ==
  /\ faults[part] < MaxFaults[part]
  /\ faults' = [faults EXCEPT ![part] = @ + 1]

---------------------------------------------------------------------------
(***************************************************************************)
(* The analysis publishes what it has saved                                *)
(***************************************************************************)
\* saves: what is being saved, and what is published or where the run goes on
\* when it is over.  work: where each case is.
NoWorker == [pc |-> "off", mem |-> None, saves |-> {}, work |-> [c \in Cases |-> "free"]]

\* A save, then what is to be published.  Whoever reads now may already be
\* shown what is being saved; or the call rejects at once, without effect, and
\* the catch block, which is `thrown', is next.  What other cases still do
\* then is left out here.
SaveAndTell(next, event, thrown) ==
  /\ \/ /\ doc' = next.mem
        /\ worker' = [next EXCEPT !.saves = @ \cup
             {[mem |-> next.mem, event |-> event, thrown |-> thrown]}]
        /\ UNCHANGED faults
     \/ /\ Fault("server")
        /\ worker' = [next EXCEPT !.pc = thrown]
        /\ UNCHANGED doc
  /\ UNCHANGED kept

Unheard == UNCHANGED <<feedVars, pageVars, hookVars, history>>

\* A save answers, and its event is published.
SaveLands ==
  /\ \E save \in worker.saves :
       /\ kept' = save.mem
       /\ Publish(save.event)
       /\ worker' = [worker EXCEPT !.saves = @ \ {save}]
  /\ UNCHANGED <<doc, pageVars, hookVars, faults, history>>

\* A save rejects when readers have been shown what it saved: a file is not
\* written behind its cache, an object has no index, or is of the wrong size
\* and deleted.
SaveRejects ==
  /\ Fault("server")
  /\ \E save \in worker.saves :
       /\ worker' = [worker EXCEPT !.saves = @ \ {save}, !.pc = save.thrown]
       /\ history' = [history EXCEPT !.lost = @ \/ save.mem.phase = "ready"]
       /\ \/ kept' \in {kept, save.mem} /\ UNCHANGED doc
          \/ doc' = Gone /\ kept' = Gone
  /\ UNCHANGED <<feedVars, pageVars, hookVars>>

Quiet == worker.saves = {}

\* "scanning" is either scan's phase; saves that repeat a phase are left out.
Progress(phase, next) ==
  SaveAndTell([next EXCEPT !.mem.phase = phase], Event("progress", phase), "failing")

\* run and resume: whichever the stored record calls for.
Start ==
  /\ worker.pc = "queued"
  /\ worker' = [worker EXCEPT !.mem = doc,
       !.pc = IF doc.phase \in Over THEN "off"
              ELSE IF doc.items = << >> THEN "scan"
              ELSE IF \E c \in Cases : Awaits(doc.items[c]) THEN "open" ELSE "finish"]
  /\ UNCHANGED <<stored, faults>> /\ Unheard

Scan ==
  /\ worker.pc = "scan" /\ Quiet
  /\ Progress("scanning", [worker EXCEPT !.pc = "reconcile"])
  /\ Unheard

Reconcile ==
  /\ worker.pc = "reconcile" /\ Quiet
  /\ Progress("reconciling",
       [worker EXCEPT !.mem.items = [c \in Cases |-> NewCase], !.pc = "open"])
  /\ Unheard

\* A stage throws.
StageThrows ==
  /\ worker.pc \in {"scan", "reconcile"} /\ Quiet /\ Fault("server")
  /\ worker' = [worker EXCEPT !.pc = "failing"]
  /\ UNCHANGED stored /\ Unheard

OpenResearch ==
  /\ worker.pc = "open" /\ Quiet
  /\ Progress("researching", [worker EXCEPT !.pc = "research"])
  /\ Unheard

\* The progress is out, and so is what was last saved of c.
Mine(c) ==
  /\ worker.pc = "research" /\ Awaits(worker.mem.items[c])
  /\ \A save \in worker.saves :
       save.event.type # "progress" /\ save.event.about.case # c

Dossier(answer, sources) ==
  IF answer.deep THEN Task(answer.holders, answer.cites)
  ELSE Synthesis(answer.holders, answer.positions, sources)

Take(c) ==
  /\ Mine(c) /\ worker.work[c] = "free"
  /\ LET item == [worker.mem.items[c] EXCEPT !.status = "researching"]
     IN  SaveAndTell([worker EXCEPT !.mem.items[c] = item, !.work[c] = "search"],
                     Event("item_status", Told(c, item)), "failing")
  /\ Unheard

\* The search answers and says so at once, unsaved; or it fails.
Search(c) ==
  /\ Mine(c) /\ worker.work[c] = "search"
  /\ \/ \E found \in Searches :
          /\ worker' = [worker EXCEPT !.work[c] = "assemble",
                          !.mem.items[c] = Searched(@, SearchAnswer(found))]
          /\ Publish(Event("search_results", c))
     \/ /\ worker' = [worker EXCEPT !.work[c] = "assemble",
                        !.mem.items[c] = SearchFailed(@)]
        /\ Publish(Event("search_failed", c))
  /\ UNCHANGED <<stored, pageVars, hookVars, faults, history>>

\* The dossier, or None: thrown, throttled to the end or past the deadline.
Conclude(c) ==
  /\ Mine(c) /\ worker.work[c] = "assemble"
  /\ \E answer \in Answers \cup {None} :
       LET old  == worker.mem.items[c]
           item == Concluded(old, IF answer = None THEN None ELSE Dossier(answer, old.sources))
       IN  /\ SaveAndTell([worker EXCEPT !.mem.items[c] = item, !.work[c] = "free"],
                          Event("item_researched", Told(c, item)), "failing")
           /\ history' = [history EXCEPT !.answered =
                            IF answer # None THEN @ \cup {c} ELSE @]
  /\ UNCHANGED <<feedVars, pageVars, hookVars>>

Researched ==
  \/ worker.pc = "finish"
  \/ worker.pc = "research" /\ \A c \in Cases : ~Awaits(worker.mem.items[c])

\* Mutant: the save is made before the phase is set.
FinishAfterSaving ==
  /\ Researched /\ Quiet
  /\ SaveAndTell([worker EXCEPT !.pc = "off"], Event("done", "ready"), "failing")
  /\ Unheard

Finish ==
  /\ Researched /\ Quiet
  /\ SaveAndTell([worker EXCEPT !.mem.phase = "ready", !.pc = "off"],
                 Event("done", "ready"), "failing")
  /\ Unheard

\* The catch block; if its own save rejects, nobody is told.
Fail ==
  /\ worker.pc = "failing" /\ Quiet
  /\ SaveAndTell([worker EXCEPT !.mem.phase = "failed", !.pc = "off"],
                 Event("error", "failed"), "off")
  /\ Unheard

---------------------------------------------------------------------------
(***************************************************************************)
(* The stream                                                              *)
(***************************************************************************)
\* The browser asks, at first or again; the route loads the production.
Connect(p) ==
  /\ page[p].open /\ stream[p].pc = "off" /\ Present(doc)
  /\ stream' = [stream EXCEPT ![p] = [pc |-> "loading", mem |-> doc]]
  /\ UNCHANGED <<stored, worker, bus, pageVars, hookVars, faults, history>>

\* snapshotSince: ids grow along the history, so what is after an id is its end.
Since(last) ==
  LET known == {i \in DOMAIN bus.log : bus.log[i].id <= last}
  IN  SubSeq(bus.log, Cardinality(known) + 1, Len(bus.log))

\* Subscribed, the page is sent what the history has after the last event it
\* knows, or else a snapshot, which every subscriber gets: this one twice.
Subscribe(p) ==
  /\ stream[p].pc = "loading"
  /\ LET replay == Since(page[p].last)
         snapshot == Event("snapshot", stream[p].mem)
         On(queue) == [stream EXCEPT ![p] = [pc |-> "on", queue |-> queue]]
     IN  IF replay # << >>
         THEN stream' = On(replay) /\ UNCHANGED bus
         ELSE /\ stream' = Forward(On(<<Envelope(snapshot)>>), snapshot)
              /\ bus' = [next |-> bus.next + 1, log |-> LastOf(Append(bus.log, Envelope(snapshot)))]
  /\ UNCHANGED <<stored, worker, pageVars, hookVars, faults, history>>

\* Fifteen seconds without an event.
Heartbeat(p) ==
  /\ stream[p].pc = "on" /\ stream[p].queue = << >>
  /\ Fault("network")
  /\ Publish(Event("heartbeat", None))
  /\ UNCHANGED <<stored, worker, pageVars, hookVars, history>>

---------------------------------------------------------------------------
(***************************************************************************)
(* The page                                                                *)
(***************************************************************************)
\* What a page shows of a production.
Shown(project) ==
  [phase |-> project.phase,
   items |-> [c \in DOMAIN project.items |->
                [status |-> project.items[c].status, cited |-> project.items[c].cited]]]

\* A page as it is first rendered, from the project it is given.
\* heard: history, that the event of the end came before it handed over.
NewPage(project) ==
  [open |-> FALSE, shown |-> Shown(project), last |-> 0, polling |-> FALSE,
   view |-> "analysis", heard |-> FALSE]

\* Mutant: only events about cases are folded in.
FoldedCases(shown, event) ==
  CASE event.type \in {"item_status", "item_researched"} ->
         [shown EXCEPT !.items = [c \in DOMAIN shown.items |->
            IF c # event.about.case THEN shown.items[c]
            ELSE [status |-> event.about.status, cited |-> shown.items[c].cited]]]
    [] event.type = "snapshot" -> Shown(event.about)
    [] OTHER -> shown

\* applyEvent and onProject: what is not said leaves the page as it is, cases
\* it does not know and the error of the pipeline among them.
Folded(shown, event) ==
  CASE event.type \in {"progress", "done"} -> [shown EXCEPT !.phase = event.about]
    [] event.type \in {"item_status", "item_researched"} ->
         [shown EXCEPT !.items = [c \in DOMAIN shown.items |->
            IF c # event.about.case THEN shown.items[c]
            ELSE [status |-> event.about.status,
                  cited  |-> IF event.type = "item_researched"
                             THEN event.about.cited ELSE shown.items[c].cited]]]
    [] event.type = "snapshot" -> Shown(event.about)
    [] OTHER -> shown

\* The server renders the page from the production as it is, unless it is
\* ready, which is shown as its review.
OpenPage(p) ==
  /\ ~page[p].open /\ Present(doc) /\ doc.phase # "ready"
  /\ page' = [page EXCEPT ![p].open = TRUE, ![p].shown = Shown(doc)]
  /\ UNCHANGED <<stored, worker, feedVars, polls, hookVars, faults, history>>

Receive(p) ==
  /\ stream[p].pc = "on" /\ stream[p].queue # << >>
  /\ LET e == Head(stream[p].queue)
     IN  page' = [page EXCEPT ![p].last = e.id, ![p].shown = Folded(@, e.event),
           ![p].heard = @ \/ (e.event.type = "done" /\ page[p].view = "analysis")]
  /\ stream' = [stream EXCEPT ![p].queue = Tail(@)]
  /\ UNCHANGED <<stored, worker, bus, polls, hookVars, faults, history>>

\* onError: from now on the page polls, also when the stream is back.
Broken(ps) ==
  [p \in Pages |-> IF p \in ps THEN [page[p] EXCEPT !.polling = TRUE] ELSE page[p]]

Break(p) ==
  /\ stream[p].pc \in {"loading", "on"}
  /\ Fault("network")
  /\ stream' = [stream EXCEPT ![p] = NoStream]
  /\ page' = Broken({p})
  /\ UNCHANGED <<stored, worker, bus, polls, hookVars, history>>

\* The route answers a browser that connects with an error, for which an
\* EventSource closes for good.
Refuse(p) ==
  /\ page[p].open /\ stream[p].pc = "off"
  /\ IF Present(doc) THEN Fault("server") ELSE UNCHANGED faults
  /\ stream' = [stream EXCEPT ![p] = [pc |-> "refused"]]
  /\ page' = Broken({p})
  /\ UNCHANGED <<stored, worker, bus, polls, hookVars, history>>

\* A production that is gone is not found, and the page stays as it is.
Poll(p) ==
  /\ page[p].polling /\ Cardinality(polls[p]) < MaxPolls /\ Present(doc)
  /\ polls' = [polls EXCEPT ![p] = @ \cup {Shown(doc)}]
  /\ UNCHANGED <<stored, worker, feedVars, page, hookVars, faults, history>>

\* Answers come in any order, whatever the stream has told meanwhile.
PollAnswers(p) ==
  /\ \E answer \in polls[p] :
       /\ page' = [page EXCEPT ![p].shown = answer]
       /\ polls' = [polls EXCEPT ![p] = @ \ {answer}]
  /\ UNCHANGED <<stored, worker, feedVars, hookVars, faults, history>>

PollFails(p) ==
  /\ polls[p] # {} /\ Fault("network")
  /\ \E answer \in polls[p] : polls' = [polls EXCEPT ![p] = @ \ {answer}]
  /\ UNCHANGED <<stored, worker, feedVars, page, hookVars, history>>

\* Once, when the page shows a ready production, it asks the server to render
\* it anew: the review if the production is ready, or else this page again.
HandOver(p) ==
  /\ page[p].open /\ page[p].shown.phase = "ready" /\ page[p].view = "analysis"
  /\ page' = [page EXCEPT ![p].view = IF doc.phase = "ready" THEN "review" ELSE "stuck"]
  /\ UNCHANGED <<stored, worker, feedVars, polls, hookVars, faults, history>>

---------------------------------------------------------------------------
(***************************************************************************)
(* Monitors, their webhook, and people's decisions                         *)
(***************************************************************************)
Moves(h, next) == hook' = [hook EXCEPT ![h] = next]

Done == [pc |-> "done"]

Ends(h) == Moves(h, Done)

Receives(h, op, kind) ==
  /\ hook[h].pc = "new" /\ op.kind = kind

\* A save that answers is one step: its readers are other handlers, which a
\* restart ends as well.
SaveAnswers(project) == doc' = project /\ kept' = project

\* The three handlers' own change to the case of the copy they loaded.
Edited(h) ==
  LET item == hook[h].mem.items[hook[h].case]
  IN  CASE hook[h].pc = "linking"  -> [item EXCEPT !.monitor = h]
        [] hook[h].pc = "deciding" -> [item EXCEPT !.status = "coordinator_verified"]
        [] hook[h].pc = "loaded"   -> [item EXCEPT !.status = "reopened_by_monitor",
                                                   !.trail = Append(@, hook[h].id)]

ToSave(h) == [hook[h].mem EXCEPT !.items[hook[h].case] = Edited(h)]

\* The registry is in memory: monitors with their cases, and the ids of
\* deliveries that were acted on.
NoMonitors == [known |-> {}, delivered |-> {}]

Registered(id) == {m \in monitors.known : m.id = id}

Register(id, case) ==
  monitors' = [monitors EXCEPT !.known = @ \cup {[id |-> id, case |-> case]}]

\* POST monitor: the monitor there is, if the registry knows it.
OpenMonitor(h, op) ==
  /\ Receives(h, op, "monitor")
  /\ IF op.case \in DOMAIN doc.items /\ Registered(doc.items[op.case].monitor) = {}
     THEN Moves(h, [pc |-> "creating", case |-> op.case, mem |-> doc])
     ELSE Ends(h)
  /\ UNCHANGED <<stored, worker, feedVars, pageVars, monitors, faults, history>>

\* The provider creates it, and the registry keeps it.
CreateMonitor(h) ==
  /\ hook[h].pc = "creating"
  /\ Register(h, hook[h].case)
  /\ Moves(h, [hook[h] EXCEPT !.pc = "linking"])
  /\ UNCHANGED <<stored, worker, feedVars, pageVars, faults, history>>

LinkMonitor(h) ==
  /\ hook[h].pc = "linking"
  /\ SaveAnswers(ToSave(h))
  /\ Ends(h)
  /\ UNCHANGED <<worker, feedVars, pageVars, monitors, faults, history>>

\* A delivery without an id is known by its type and monitor.
DeliveryId(op) == IF op.id # None THEN op.id ELSE <<"detected", op.monitor>>

\* Mutant: a delivery is not looked up.
NeverDelivered(id) == FALSE

HasDelivery(id) == id \in monitors.delivered

\* A delivery's id, which the provider gave it, belongs to one monitor.
Deliveries == {op \in HookOps : op.kind = "deliver"}

ASSUME RequestsAssumption ==
  /\ HookOps \ Deliveries \subseteq [kind : {"monitor", "decide"}, case : Cases]
  /\ \A a, b \in Deliveries : DeliveryId(a) = DeliveryId(b) => a.monitor = b.monitor

Delivering(h) == hook[h].pc \in {"reading", "fetching", "loaded", "telling", "recording"}

Deliver(h, op) ==
  /\ Receives(h, op, "deliver")
  /\ LET id == DeliveryId(op)
         about == Registered(op.monitor)
         heard == about # {} /\ ~HasDelivery(id)
     IN  /\ IF heard
            THEN \E m \in about : Moves(h, [pc |-> "reading", id |-> id, case |-> m.case])
            ELSE Ends(h)
         /\ history' = [history EXCEPT !.loose =
              IF heard /\ \E g \in Hooks : Delivering(g) /\ hook[g].id = id
              THEN @ \cup {id} ELSE @]
  /\ UNCHANGED <<stored, worker, feedVars, pageVars, monitors, faults>>

\* The provider is asked for the monitor's events, which the registry keeps.
ReadEvents(h) ==
  /\ hook[h].pc = "reading"
  /\ Moves(h, [hook[h] EXCEPT !.pc = "fetching"])
  /\ UNCHANGED <<stored, worker, feedVars, pageVars, monitors, faults, history>>

\* The production is loaded: there is none, or there is no case to reopen in
\* it, or the case is to be reopened.
LoadProduction(h) ==
  /\ hook[h].pc = "fetching"
  /\ LET case   == hook[h].case
         reopen == /\ case \in DOMAIN doc.items
                   /\ doc.items[case].status # "reopened_by_monitor"
     IN  Moves(h, IF ~Present(doc) THEN [hook[h] EXCEPT !.pc = "recording"]
                  ELSE IF ~reopen THEN [hook[h] EXCEPT !.pc = "telling"]
                  ELSE [pc |-> "loaded", id |-> hook[h].id, case |-> case, mem |-> doc])
  /\ UNCHANGED <<stored, worker, feedVars, pageVars, monitors, faults, history>>

Reopen(h) ==
  /\ hook[h].pc = "loaded"
  /\ SaveAnswers(ToSave(h))
  /\ Moves(h, [pc |-> "telling", id |-> hook[h].id, case |-> hook[h].case])
  /\ UNCHANGED <<worker, feedVars, pageVars, monitors, faults, history>>

\* The reopening is published, and the delivery recorded; only recorded, if
\* there is no production.
TellAndRecord(h) ==
  /\ \/ hook[h].pc = "telling" /\ Publish(Event("monitor_event", hook[h].case))
     \/ hook[h].pc = "recording" /\ UNCHANGED feedVars
  /\ monitors' = [monitors EXCEPT !.delivered = @ \cup {hook[h].id}]
  /\ Ends(h)
  /\ UNCHANGED <<stored, worker, pageVars, faults, history>>

\* POST of a status by a person.
Decide(h, op) ==
  /\ Receives(h, op, "decide")
  /\ IF op.case \in DOMAIN doc.items
     THEN Moves(h, [pc |-> "deciding", case |-> op.case, mem |-> doc])
     ELSE Ends(h)
  /\ UNCHANGED <<stored, worker, feedVars, pageVars, monitors, faults, history>>

SaveDecision(h) ==
  /\ hook[h].pc = "deciding"
  /\ SaveAnswers(ToSave(h))
  /\ Ends(h)
  /\ UNCHANGED <<worker, feedVars, pageVars, monitors, faults, history>>

\* A provider rejects, or a load; the provider of a delivery sends it again.
HookRejects(h) ==
  /\ hook[h].pc \in {"creating", "reading", "fetching"}
  /\ Fault("server")
  /\ Ends(h)
  /\ UNCHANGED <<stored, worker, feedVars, pageVars, monitors, history>>

\* A save rejects, and may have taken effect: a delivery that has reopened its
\* case is not recorded then.
HookSaveRejects(h) ==
  /\ hook[h].pc \in {"linking", "loaded", "deciding"}
  /\ Fault("server")
  /\ \/ UNCHANGED <<stored, history>>
     \/ /\ doc' = ToSave(h) /\ kept' \in {kept, ToSave(h)}
        /\ history' = [history EXCEPT !.loose =
             IF Delivering(h) THEN @ \cup {hook[h].id} ELSE @]
     \/ /\ doc' = Gone /\ kept' = Gone
        /\ history' = [history EXCEPT !.lost = TRUE]
  /\ Ends(h)
  /\ UNCHANGED <<worker, feedVars, pageVars, monitors>>

---------------------------------------------------------------------------
\* The process ends and another recovers the analysis; the bus, the streams,
\* the registry of monitors and every handler are gone, and a save in progress
\* is done or not.
Restart ==
  /\ Fault("server")
  /\ doc' \in {kept} \cup {save.mem : save \in worker.saves}
  /\ kept' = doc'
  /\ history' = [history EXCEPT !.lost = @ \/ (doc.phase = "ready" /\ doc'.phase # "ready")]
  /\ worker' = [NoWorker EXCEPT !.pc = IF doc'.phase \in Over THEN "off" ELSE "queued"]
  /\ bus' = NewBus
  /\ stream' = [p \in Pages |-> IF stream[p].pc = "refused" THEN stream[p] ELSE NoStream]
  /\ page' = Broken({p \in Pages : stream[p].pc \in {"loading", "on"}})
  /\ polls' = [p \in Pages |-> {}]
  /\ monitors' = NoMonitors
  /\ hook' = [h \in Hooks |-> IF hook[h].pc = "new" THEN hook[h] ELSE Done]

Init ==
  /\ doc \in {[phase |-> "created", items |-> << >>],
              [phase |-> "ready", items |-> [c \in Cases |-> Concluded(NewCase, Task(1, << >>))]]}
  /\ kept = doc
  /\ worker = [NoWorker EXCEPT !.pc = IF doc.phase \in Settled THEN "off" ELSE "queued"]
  /\ bus = NewBus
  /\ stream = [p \in Pages |-> NoStream]
  /\ page = [p \in Pages |-> NewPage(doc)]
  /\ polls = [p \in Pages |-> {}]
  /\ monitors = NoMonitors
  /\ hook = [h \in Hooks |-> IF doc.phase = "ready" THEN [pc |-> "new"] ELSE Done]
  /\ faults = [part \in {"network", "server"} |-> 0]
  /\ history = [answered |-> IF doc.phase = "ready" THEN Cases ELSE {},
                loose |-> {}, lost |-> FALSE]

Analyse ==
  \/ Start \/ Scan \/ Reconcile \/ StageThrows \/ OpenResearch
  \/ \E c \in Cases : Take(c) \/ Search(c) \/ Conclude(c)
  \/ Finish \/ Fail \/ SaveLands \/ SaveRejects

Watch(p) ==
  \/ OpenPage(p) \/ Connect(p) \/ Subscribe(p) \/ Receive(p) \/ Heartbeat(p)
  \/ Break(p) \/ Refuse(p) \/ Poll(p) \/ PollAnswers(p) \/ PollFails(p) \/ HandOver(p)

Handle(h) ==
  \/ \E op \in HookOps : OpenMonitor(h, op) \/ Deliver(h, op) \/ Decide(h, op)
  \/ CreateMonitor(h) \/ LinkMonitor(h)
  \/ ReadEvents(h) \/ LoadProduction(h) \/ Reopen(h) \/ TellAndRecord(h)
  \/ SaveDecision(h) \/ HookRejects(h) \/ HookSaveRejects(h)

Next ==
  \/ Analyse \/ Restart
  \/ \E p \in Pages : Watch(p)
  \/ \E h \in Hooks : Handle(h)

\* A save answers or rejects, and what it was made for is published; the catch
\* block runs.  (Nothing bounds the scan and the reconciliation.)  EventSource
\* reconnects by itself and reads what arrives, and the page's interval timer
\* keeps firing.  Nothing obliges anyone to open a page or to send a request.
Fairness ==
  /\ WF_vars(SaveLands \/ Fail)
  /\ \A p \in Pages :
       /\ WF_vars(Connect(p)) /\ WF_vars(Subscribe(p)) /\ WF_vars(Receive(p))
       /\ WF_vars(Poll(p)) /\ WF_vars(PollAnswers(p))

Spec == Init /\ [][Next]_vars /\ Fairness

---------------------------------------------------------------------------
(***************************************************************************)
(* Properties                                                              *)
(***************************************************************************)
Statuses == {"detected", "researching", "evidence_ready", "unresolved",
             "reopened_by_monitor", "coordinator_verified"}

\* The shape of the state.
TypeOK ==
  /\ {doc.phase, kept.phase} \subseteq Phases \cup {"absent"}
  /\ \A c \in DOMAIN doc.items :
       /\ c \in Cases /\ doc.items[c].status \in Statuses
       /\ doc.items[c].error \in {"none", "search", "assembly"}
       /\ doc.items[c].monitor \in Hooks \cup {None}
  /\ bus.next \in Nat \ {0} /\ Len(bus.log) <= HistoryLimit
  /\ \A p \in Pages :
       /\ stream[p].pc \in {"off", "loading", "on", "refused"}
       /\ page[p].shown.phase \in Phases /\ page[p].last \in Nat
       /\ page[p].view \in {"analysis", "review", "stuck"}
       /\ Cardinality(polls[p]) <= MaxPolls
  /\ \A h \in Hooks : hook[h].pc \in {"new", "creating", "linking", "reading", "fetching",
                          "loaded", "telling", "recording", "deciding", "done"}

\* What the stored record says of a case's research is what happened: a
\* provider that failed, was throttled to the end or came too late is never
\* recorded "as though no rights holder existed" (gemini/client.ts), through
\* rejected saves, restarts and a resumed analysis.
EvidenceHonest ==
  \A c \in DOMAIN doc.items :
    doc.items[c].status \in {"unresolved", "evidence_ready"} =>
      Honest(doc.items[c], c \in history.answered)

\* The page asks for its review once, and would stay on its progress screen
\* for good if it asked too early.  It does not when it asks because the end of
\* the analysis was published; when it asks because of what it has read, only
\* if that was a save that rejected, or that the server did not survive.
HandOverFindsReady ==
  \A p \in Pages : page[p].view = "stuck" => history.lost /\ ~page[p].heard

\* One delivery of a monitor reopens a case once, whoever decides on it
\* meanwhile and however often it is sent, unless two of its requests ran at
\* the same time, or the repository rejected the save that reopened the case
\* although it took effect.
ReopenedOncePerDelivery ==
  \A c \in DOMAIN doc.items :
    LET trail == doc.items[c].trail
    IN  \A i, j \in DOMAIN trail :
          trail[i] = trail[j] /\ trail[i] \notin history.loose => i = j

\* An open page comes to show how the analysis ended and keeps showing it,
\* whatever the replay left out, the connection lost or a late poll brought
\* back.  Of a failure, and of a ready production whose save rejected, it
\* learns by polling or a snapshot only.
PageCatchesUp ==
  \A p \in Pages :
    <>[](page[p].open /\ doc.phase \in Settled =>
           \/ page[p].shown.phase = doc.phase
           \/ (doc.phase = "failed" \/ history.lost) /\ ~page[p].polling)

=============================================================================
