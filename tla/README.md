# A formal model of ClearCut

TLA+ modules, TLC runs and TLAPS proofs about the TypeScript service of this
repository: the clearance record of a film production, everything that reads
and writes it, and what its pages show of it. Paths below are relative to the
repository.

## 1. The system

A *production* is one JSON document (`packages/contracts/src/project.ts`): a
phase, a list of clearance cases, an audit trail per case and one for the
production, revision snapshots, an archive mark. Everything that happens is a
load of that document, an edit of the copy, and a save of the whole copy. There
is no version check: `save` is an upsert, and the last one wins. The files it
names are in an object store, which shares no transaction with it.

| Component | State | Operations | What makes it correct |
|---|---|---|---|
| Disposition rules (`packages/domain/src/status.ts`) | a case: status, resolved flag, documents, trail | `applyDisposition`, `canActorSet`, `hasHumanDecision` | machines never approve, never act after a human; permissions cite documents; the trail explains the status |
| Analysis pipeline (`apps/api/src/pipeline`) | a run's copy of the document, its work list, its workers | `run`, `resume`, `recoverInterrupted`, stages, research workers, `runRevision` | a ready production is researched; an unfinished one is worked on; evidence survives crashes and is what providers said; every candidate has one case; every production settles |
| Case and production handlers (`routes/items.ts`, `documents.ts`, `projects.ts`, `packets.ts`) | a copy of the document between load and save | status, assignment, documents, use profile, rename, archive, delete, export | saves that interleave leave a document that is in order; acknowledged decisions are kept; files and records agree |
| Monitors (`routes/monitors.ts`) | in-memory registry, delivery ids | open, webhook, read events | a delivery reopens a case once, with a trail |
| Revisions (`packages/domain/src/revisions.ts`, `routes/revisions.ts`) | snapshots, candidates, the active id | list, upload, compare, apply | versions never fork; applying is idempotent; no case is dropped by a comparison; decisions carry over |
| Repositories (`apps/api/src/repositories`) | files, objects or rows; cache; write queues | get, list, save, remove, start-up | each behaves as one atomic document per production; the last call wins |
| Packet and scope (`packages/domain/src/packet.ts`, `scope.ts`, `services/packets.ts`) | none | readiness, warnings, export event, scope gaps | what is said to be covered or complete is |
| Progress feed and analysis page (`services/events.ts`, `routes/stream.ts`, `apps/web/src/features/analysis`) | history and subscribers; what the page shows | publish, replay, snapshot, fold, poll, hand over | the page ends up showing how the analysis ended |
| Direct uploads (`apps/edge/src/uploads.ts`) and asset stores | sessions, parts, objects | create, sign, finalize, abort; put, stat, read, delete | an object is used only when complete; finalizing again agrees; ranges lie in the file |
| Providers, copilot and the HTTP layer (`packages/integrations`, `apps/web/src/lib`) | none of the record's | agents, retries, staging, streams, errors | what is shown is what was said, or that it failed |
| Legacy Python service (`backend/`) | | | not modelled, see section 7 |

Interactions: `POST /api/projects` saves a document and starts `run`; a run and
the handlers share nothing but the repository and the object store; a run
publishes to the feed; the webhook finds its case through the monitor registry;
an upload of a revision starts its comparison in a microtask; `server.ts` starts
`recoverInterrupted` and serves requests at the same time.

What is hard here, and hard to test, is listed line by line under `hazards` in
`PROJECT.json`. In short: copies that are minutes old when they are saved,
workers that outlive the run that failed around them, restarts in the middle of
anything, calls to a repository, an object store or a provider that reject or
never return, events that overtake the documents they speak of, and legal
sequences of requests that end in an illegal record.

## 2. Modules

No single module holds everything: the composition would be out of reach of any
check. They are cut where the code shares only the document, and each takes of
its neighbours what it needs of them.

| Module | Models | Extends |
|---|---|---|
| `Disposition` | the case and every operator that edits one | |
| `AnalysisRun` | runs, workers, crashes, recovery, over a repository | `Disposition` |
| `ClearanceRecord` | the handlers and the monitor registry beside the runs | `AnalysisRun` |
| `Comparison` | matching, change kinds, inheritance, application of a revision | `Disposition` |
| `Revisions` | revision handlers, comparisons in the background, people deciding | `Comparison` |
| `DocumentStore` | abstract: what the repository interface promises | |
| `Repositories` | filesystem, Firestore and D1, call by call; implements `DocumentStore` | |
| `Reconciliation` | how two scans become cases | |
| `Intake` | sessions, objects, creation, documents, deletion, the reading analysis | `Reconciliation` |
| `Evidence` | what research makes of what providers answer | |
| `Delivery` | the analysis that publishes, bus, stream, page, polls, monitors, webhook | `Evidence` |
| `Agents` | one agent call, retries, staging of a cut, the copilot's deltas | |
| `Client` | errors, proxy, requests, the copilot's stream and sheet, the dialog of a new scan | |
| `Packet` | scope gaps, readiness, what an exported packet warns of | |
| `Transfers` | parts of uploads, sizes, ranges | |
| `Review` | the decisions the page offers | `Disposition` |
| `MCAnalysisRun`, `MCClearanceRecord`, `MCRevisions`, `MCRepositories`, `MCIntake`, `MCDelivery` | instances for TLC | the module they are named for |
| `MCAlgorithms` | the modules without state over all short inputs; extended by `MCDelivery` | `Transfers` |
| `*Proofs` | see section 4 | |

**Disposition.** `ApplyDisposition`, `Muted`, `Refused` and `Record` are the
early return, the three errors and the tail of `applyDisposition`. `Annotate`,
`AttachDocument`, `RemoveDocument` and `MonitorReopens` are the edits of the
handlers that write a trail without going through it. An event keeps its actor,
action, statuses and cited documents; its random id becomes the request that
recorded it, and a document is named by the request that attached it.

**AnalysisRun.** `store` is the document as the repository reads it, `kept` as a
crash leaves it. A save answers, and both are what was saved (`Answered`), or it
rejects (`Rejected`): without effect, read but not kept (the cache is set before
the file is written), kept although it rejected (the object is put before its
index), or with the document gone (an object of the wrong size is deleted). A
run has a program counter, the copy it loaded (`mem`), the cases not yet handed
to a worker (`todo`) and the state of each worker (`work`). One action is the
code between two awaits: `Announce`, `Report`, `Compare`, `Reconcile`,
`OpenResearch`, `Take`, `Conclude`, `Finish` and `Fail` each end in a save
(`Saves`). A creation whose save rejects queues no run, and may leave a
production. `resume` has its own copies of the save that opens research, of the
ready save and of the catch block; they are the same text, and the same actions.
All workers of a run share its copy. Saves that differ only in an activity
message are one save, and phases `scanning_script` and `scanning_cut` are one
phase. A rejected save leaves its worker `dead` and the run in its catch block
while other workers go on, as `Promise.all` does. `lost` is a run that ended, or
was never queued, because a load, the list, the save of a creation or the catch
block's own save rejected.

**ClearanceRecord.** A handler is `Load` (with `require`'s 404), then `Commit`,
`CommitRejects` (which may have taken effect) or `Refuse`. Between the two lie a
body, an asset store or a provider, so any other action may come. The edit and
the guards are `Edit` and `Accepts`, one case per route. Opening a monitor
registers it before the case is saved (`Watch`), and a PATCH with a title and an
archived flag saves twice (`Rest`). `sealed` and `lone` are history variables
that only properties read.

**Comparison, Revisions.** An item is a case with its id, its stable id, its
name and where it was found. `Matches` is the three passes of `findMatches` in
their order, `Compare` the changes they lead to, `Carried` what the candidate's
cases inherit, `Promoted` what applying makes of them. Handlers load and save;
an upload makes the snapshot there may be and a `processing` candidate, saves,
and queues a build, which loads, scans (anything in `Scans`) and saves what it
found. `Applicable` is the predecessor check, made on a copy that may be old.
`CommitRejects` is a save that took effect and rejected: a placeholder is stored
and its comparison never starts. A save without effect is a request that was
never made; a crash that loses a write in progress is left to `storage`.

**DocumentStore, Repositories.** A call is named for itself, and so is the
document it saves. Each action is the code between two awaits that touch the
disk or a service: cache and file, object and Firestore index, the request to
D1. `Put` and `Verify` are the two calls of the object store (`file.save`, then
`getMetadata`): a removal, which waits for nobody, may come between them, and
then the save rejects although nothing failed; `VerifyFails` is a size that does
not match, for which the object is deleted. `tail` is the promise chain: one for
all productions (files), one for each (Firestore), none (D1). `backend` is
chosen in `Init`. A crash drops the cache and every call; a failure may leave
the effect of the call it struck. `DocumentStore` is what the other modules take
a repository to be, made precise: what is read and what survives a crash are
separate, and may differ while a call is in progress.

**Reconciliation, Intake.** `ReconcileStage` assembles cases from the
reconciler's matches, of which it drops those that name nothing or something
claimed, and from what is left over. In `Intake` every call to the object
store, the session store or the repository is an action of its own, and any may
reject; `history` says what the properties except (a save over a newer document,
an unclean removal, an answer that was lost, overlapping finalizations).

**Evidence, Delivery.** `Evidence` is the record of one case's research:
searched sources, a deep or a fast answer, what is cited. In `Delivery` the
analysis saves and then publishes: `SaveAndTell` begins a save, which readers of
`doc` may be shown at once, `SaveLands` makes it `kept` and publishes its event,
`SaveRejects` takes the run to its catch block, with the save kept, not kept or
the document gone. The bus numbers and keeps
`HistoryLimit` events, `Connect` and `Subscribe` are the two halves of the
stream route with a load between them, `Receive` folds an event into the page,
`Poll` and `PollAnswers` come in any order once the stream has broken, and
`HandOver` is the page's one request for its review; `Refuse` is a stream that
is answered with an error, after which the page only polls. Opening a monitor,
its webhook and a decision are handlers of several steps; the webhook's are
`ReadEvents`, `LoadProduction`, `Reopen` and `TellAndRecord`, each of which may
reject (`HookRejects`, `HookSaveRejects`). `Restart` goes on from what is `kept`
or from a save it met in progress, and empties the bus, the streams, the registry
and the handlers. `history` is what properties except: which cases were
`answered`, which deliveries are `loose` (they overlapped, or their save rejected
after taking effect), and whether a save that read as ready was `lost`.

**Agents, Client, Packet, Transfers, Review** have no state of their own: they
are what the code computes, as operators.

## 3. Runs

| Run | Instance | Properties |
|---|---|---|
| `analysis` | 2 cases, 2 workers, 2 run slots, 2 creations, 2 crashes, 1 rejected call | `TypeOK`, `ReadyMeansResearched`, `UnfinishedHasRun`, `EvidenceSurvives`, `FailureSticks` |
| `settling` | 3 cases, 2 workers, 1 slot, 2 crashes, 2 rejected calls, fairness | `Settles` |
| `record` | 2 requests of 14, 1 case, 1 run, 1 crash, 1 rejected call | `RecordTypeOK`, `TrailExplainsStatus`, `NoMachineApproval`, `MachinesYieldToHumans`, `OneExportPerRequest`, `SealedDecisionsSurvive`, `PermissionsHaveDocuments` |
| `revisions` | 4 requests, 3 names, 2 found cases, 3 revised scans, 1 crash, lost comparison or rejected save that took effect | `TypeOK`, `LinearHistory`, `AppliedOnce`, `ComparisonComplete`, `MatchedCasesInherit`, `ProcessingHasBuilder`, `AffectedCasesReopen` |
| `storage` | 2 productions, 4 calls, 1 fault, 1 crash, each backend | `TypeOK`, `OneWriteAtATime`, `FailuresStayAlone`, `LastCallWins`, `ImplementsStore` |
| `intake` | 4 requests, 2 puts, 1 call that rejects | `TypeOK`, `FilesAsRecorded`, `NoOrphans`, `FinalizeAgrees`, `CasesComplete`, `AcceptedSourcesScan` |
| `delivery` | 1 case, 1 page, 4 hooks, history of 3, one network and one server fault, fairness | `TypeOK`, `EvidenceHonest`, `HandOverFindsReady`, `ReopenedOncePerDelivery`, `PageCatchesUp` |
| `late_research`, `stale_phase`, `deleted`, `permission`, `stale_decision` | 1 to 3 requests | one refuted property each, section 5 |

What the passing runs show:

- `ReadyMeansResearched`: the index list `resume` passes on and the join of the
  workers leave no case out. With the handlers beside the run this no longer
  holds (the hazards at `items.ts:44` and `status.ts:69`).
- `UnfinishedHasRun`: an unsettled production has a run, or the process is on
  its way to recovering it, unless the repository rejected the save that created
  it, another call outside the `try` or the catch block's own save.
- `EvidenceSurvives`, `FailureSticks`: while no two runs overlap, what is kept
  of a concluded case is its outcome through crashes, restarts and failures, and
  the workers left behind by a failed run never revive it.
- `Settles`: every production ends ready or failed, although nothing is assumed
  of the dossier service, unless it was abandoned in one of the ways just named,
  or a scan or the reconciliation never answers (`AwaitsStage`): the code sets
  these calls no limit, and such a production stays unsettled until a restart.
- `TrailExplainsStatus`: replaying a stored trail leads, without a gap, to the
  stored status, whichever of the interleaved saves came last.
- `SealedDecisionsSurvive`: an event recorded while nobody else held a copy is
  never lost again, if the save that recorded it answered. Losing an
  acknowledged decision takes a writer that loaded before it: this is the exact
  extent of the lost-update hazard.
- `PermissionsHaveDocuments`: a recorded permission cites documents an earlier
  event of the same trail attached, also when the copies of the attaching, the
  removing and the deciding handler differ.
- `OneExportPerRequest`: a confirmed export that is sent again adds no event.
- `LinearHistory`, `AppliedOnce`: the predecessor check holds although it is
  made on copies of any age; a repeated application is recorded once.
- `ComparisonComplete`, `MatchedCasesInherit`, `AffectedCasesReopen`: a
  comparison claims every case once, a matched case keeps its record, and
  applying reopens every materially changed case no person has acted on and
  moves none that is unchanged. Whether it should also reopen what was added and
  what a person has decided is disputed (section 5), so it claims nothing there.
- `ProcessingHasBuilder`: short of a crash, a rejected call or a save over a
  newer document, a revision shown as processing is being compared. After a
  crash it is not, and nothing takes it up again.
- `ImplementsStore`, `LastCallWins`, `OneWriteAtATime`, `FailuresStayAlone`:
  each backend is a `DocumentStore`; with files and Firestore the last call
  wins, with D1 whichever request arrives last. A save rejects for its own
  failure, or because a Firestore removal overlapped it, and for no other
  reason; with files one failed write poisons those queued behind it.
- `FilesAsRecorded`, `NoOrphans`: documents and objects agree up to a removal or
  a rejection in the middle, and creations that reject take their files back.
- `FinalizeAgrees`, `CasesComplete`, `AcceptedSourcesScan`: a session answers
  one etag; every candidate has one case inside the running time; what the
  preflight let in, the analysis can read.
- `EvidenceHonest`: a provider that failed, was throttled or came too late is
  never recorded as one that found nobody.
- `HandOverFindsReady`: a page asks for its review once. One that asks because
  the end was published finds it. One that asks because of what it read (a
  snapshot, a poll) is stranded only if that was a save that rejected, or one
  the server did not survive: reads run ahead of the write.
- `PageCatchesUp`: an open page comes to show how the analysis ended. Of a
  failure, whose event `applyEvent` does not fold into the page's phase, and of
  a ready save that was lost, a page whose stream never broke learns by a
  snapshot only, which the property excepts.
- `ReopenedOncePerDelivery`: a delivery that is sent again, also around a
  decision, reopens once, unless two of its deliveries overlap, or the save that
  reopened rejected after taking effect and the delivery was never recorded.

Algorithms without state are evaluated by TLC over all short inputs, as
assumptions of `MCAlgorithms` (parts and ranges, retries, agents, staging,
deltas and frames under every cutting of the network, errors through the proxy,
the dialog of a new scan, what a packet warns of), `MCIntake` (reconciliation
under every answer) and `MCDelivery` (citations).

### Bounds

`MaxCreates`, `MaxCrashes`, `MaxFaults`, `MaxTroubles`, `MaxPuts` and `MaxPolls`
limit creations, crashes, calls that reject, uploads to one URL and unanswered
polls (`MaxTroubles` of `Revisions` counts crashes, lost comparisons and rejected
saves together, that of `Intake` rejected calls and handlers that die); requests
are a finite set and each is made once. With `MaxPolls` 1 a poll races with
events and with the end of the analysis, not with another poll: two take the run
beyond the time it has. Two cases on two workers
(and three on two) give a worker that outlives another one and a case that waits
for a worker. Two run slots let a run start while another is in flight. Two
requests of `record` give every pair of overlapping handlers beside a run, but
for those that write what another one writes (an assignment, a description, a use
profile), which are left to the proofs;
`permission` takes three. Four requests of `revisions` are two uploads and two
applications, or a decision between an upload and its application; of `intake`,
two sessions, a creation and whatever races with it; of `storage`, two saves in
a queue behind a third and a removal passing them. A history of three events is
shorter than an analysis publishes, so that a replay has a gap. The delivery
hooks are a monitor, two deliveries and a decision in any order. `record` and
`delivery` use one case, because handlers of different cases meet only in the
document as a whole, where a second case behaves as the first.

Symmetry is used over cases and runs (`analysis`), over requests (`record`,
`revisions`, `intake`) and over productions and calls (`storage`); none in the
runs that check liveness. Deadlock checking is off: a behaviour ends when its
requests are answered and its runs are over.

### Fairness

`settling` (`FairSpec`): every continuation the event loop has ready is run and
a repository call answers or rejects (`Proceed`, `Take`), a search ends by the
default timeout of its client (`SearchReturns`, `parallel/client.ts`), the
deadline's timer fires (`DeadlineExpires`), the platform restarts a stopped
process and a booting one lists the productions. Nothing is assumed of
`DossierReturns`, nor of the calls that scan and reconcile (`Stage`), for which
`gemini/client.ts` sets no time limit.

`delivery`: a save in progress answers or rejects and the catch block runs
(`SaveLands \/ Fail`); that the analysis gets anywhere is not assumed.
`EventSource` reconnects by itself, its connection is served and what arrives is
read; the page's interval fires and its requests are answered.
Nothing obliges anyone to open a page or send a request.

In both, crashes, broken connections and rejections are not fair: they may
happen up to their bound, or not at all.

## 4. Proofs

Every theorem holds for every value of the constants: any number of cases,
workers, requests, productions, calls, crashes and faults.

| Module | What it proves |
|---|---|
| `DispositionProofs` | every edit of a case keeps it sound (`DispositionSound`, `ExtendsSound`); what the dialog offers is applied (`DialogDecides`) |
| `ClearanceRecordProofs` | `Invariance`; `RecordTypeOK`, `TrailExplainsStatus`, `NoMachineApproval`, `MachinesYieldToHumans`, `PermissionsHaveDocuments`, `OneExportPerRequest`, `SealedDecisionsSurvive`; for the analysis by itself `AnalysisInvariance`; `TypeOK`, `ReadyMeansResearched`, `UnfinishedHasRun`, `EvidenceSurvives`, `FailureSticks` |
| `RevisionsProofs` | `VersionInvariance`, `ComparisonInvariance`; `TypeOK`, `LinearHistory`, `AppliedOnce`, `ProcessingHasBuilder`, `ComparisonComplete`, `MatchedCasesInherit`, `AffectedCasesReopen` |
| `RepositoriesProofs` | `StoreInvariance`; `TypeOK`, `OneWriteAtATime`, `FailuresStayAlone`, `LastCallWins`, and the refinement `ImplementsStore` |
| `IntakeProofs` | `TypeOK`, `FilesAsRecorded`, `NoOrphans`, `FinalizeAgrees`, `CasesComplete`, `AcceptedSourcesScan` |
| `DeliveryProofs` | `TypeOK`, `EvidenceHonest`, `HandOverFindsReady`, `ReopenedOncePerDelivery` |
| `Recurrence` | recursive functions over `0 .. N` have values; how what holds of all of them is proved |
| `AlgorithmProofs` | facts about operators: covered means covered, an unmarked packet is complete, ranges and parts lie in the file |

**The record.** `Sound(case)` says that the trail explains the status, no actor
set what it may not, no machine disposition follows a human act, every
permission is preceded by its documents, and every document the case has was
attached by an event of its trail. The properties of the run `record` speak of
the stored document only and are not inductive: a save replaces it by a copy
loaded long ago, of which they say nothing. The inductive invariant `IInv` says
the same of *every* copy there is, the stored one, each run's and each
handler's. Then a load copies something in order, an edit keeps it in order, and
it no longer matters whose save is last.

That what was sealed survives takes a second invariant, `CopiesRemember`: every
copy that can still be saved or recovered, a run's, a handler's or the one that
is `kept`, holds every sealed event.
A load and an edit keep it, since trails only grow. Reconciliation does not,
since it makes the cases anew; so the invariant also says that a run which may
still come to it (`Rebuilding`) exists only while nothing is sealed, and that a
run without a copy has no work left over (`Unloaded`). A run that recovery
resumes goes straight to its research, unless the document has no cases; then no
event was sealed either.

**The analysis.** `AInv` adds what a run knows of its own copy (`Orderly`: it is
ready only when every case is concluded, and every case is concluded, waiting or
somebody's), and, while only one run is alive (`Unshared`), that its copy is
`Ahead` of the store and the store `Kept` by what a crash leaves, which is failed
only if the store is; `Attended` says who looks after an unfinished production,
or that it was abandoned (`lost`).
`EvidenceSurvives` and `FailureSticks` are action properties and follow from the
invariant before the step.

**Revisions.** `VInv` again speaks of every copy: each is a single line of
versions by itself (`Good`), and says nothing of a request not carried out yet
(`Fits`). Nothing has to be known of how two copies relate, which is why the
predecessor check may be made on an old one.

What comparisons say takes a second invariant of every copy, `Filled`: a revision
that has a comparison was compared with an applied revision of the same copy
(`Linked`), whose cases no later save touches, and the comparison `Tells` of
every case of both exactly once. That it does is a fact about `findMatches`: each
of its passes keeps the matching one to one (`ClaimMatches`, by induction
`PassMatches`), since what it finds is still free (`FindFree`); so each case has
a change of its own (`CompareTells`). `ReopenedFields` follows one case through
the changes that affect it: the first one reopens it, unless a person has acted.
That the code reopens exactly the affected cases nobody has acted on is `Settled`
(lemma `Reopens`); `AffectedCasesReopen` states the part of it that is not
disputed (section 5).

`AffectedCasesReopen` was wrong before it was proved, in a way four requests do
not show: it took every save that moves the active revision for an application.
An application sent again saves its copy as it is (`already_applied`); if that
copy is old, the save takes a later application back, together with the cases
it reopened. The property now speaks of the handlers that carry an application
out (`Applies`) and of the comparison in their copy (`AppliedBy`), of any age.

**Repositories.** `SInv` says for each call in progress which documents the
cache and the durable store may hold by now (`Served`: its own, or that of a
call it overlapped), where a call stands (`Placed`, `Overlap`), and that queued
calls wait in the order they were made (`Ordered`, `Lined`, `Tailed`). From it
every step of the three backends is a step of `DocumentStore` or a stutter.
`LastCallWins` takes a second invariant, `LInv`: what the stores hold for the
last call on a production at each of its steps (`LatestFile`, `LatestObject`),
and why no other call can take that back. The writes of files end in the order
of their calls (`FilesLined`), and so do the saves of one Firestore production
(`SavesInTurn`); only a removal may still come, and one that is in progress is
one the last call has met (`Met`), so that the property excepts it.
`FailuresStayAlone` counts the saves that rejected, but for those that a
Firestore removal overlapped, against the failures (`Blamed`).

**Uploads.** The invariant `IInv` of `IntakeProofs` speaks of every copy of a
document, stored, loaded by a handler or held by a run. `CopiesWell`: a file any
copy names is at its `Home`, a key only its own request writes, once that
request has answered (a direct upload's stays its session's). `Apart`: copies of
two productions name no key in common, so a removal of one cannot take a file of
the other. `Begun` says what a handler at work has put so far, `Deleted` what a
removal has taken away, `Sole` that a finalization which meets no other is the
only one to close its session, and `FilesGood` that, while nothing is lost
between the two stores, whatever a stored document names is there.

Two of these properties were stronger before they were proved, and wrong.
`FilesAsRecorded` failed when a removal deleted the files of a direct upload
between the verification and the save of `from-assets`: the document it had read
was the one it replaced, and its files were gone. `overlaid` now records that,
too. `NoOrphans` would fail if a save that reports a failure but took effect
replaced a document; `CreationFails` records that as `overlaid`.

`CasesComplete` holds for scans and answers of every length, which takes
induction over the list of matches. `Induction` and `Recurrence` do it without
the library's second-order theorems: from the well-founded order of the naturals
follows that a recursive function has a value everywhere, and `ReconcileFine`
takes its invariant, every match considered so far has its candidates claimed
once, through that function. `Reconciliation` is written as such a function, and
so are the passes of `Comparison`.

**Delivery.** `IInv` of `DeliveryProofs` says two things of everybody's copy.
First (`Knows`): whoever says that a production is ready, in the bus's history,
a subscriber's queue, a page or a poll, has read so: the production reads as
ready now, or a save that read so was `lost`. And whoever was told by the event
of the end knows it `Final`: ready, kept, with no analysis at work and no
handler at work, since those of this module run only on a production that was
ready at the start. The event is published after the save has answered, so a
page that asks because of it is never too early, however events and polls
interleave. Second (`Orderly`): in every document that can still be saved, the
analysis's or a handler's, a concluded case says what was answered, and a
delivery in a case's trail is `Explained`: it is recorded, or its handler is
about to record it, or its monitor is gone for good; or it is `loose`. A
delivery that a handler still works on is none of these (`DeliveryInv`), unless
another of its handlers overlapped it or rejected; so what `Reopen` appends is
not yet in the trail, even of a copy that is old. This needs that a delivery id
belongs to one monitor, which `RequestsAssumption` says of what the provider
sends: the code looks ids up without their monitor. A restart empties the
registry, and with it both what was recorded and the monitors that could be
heard again.

Assumptions, each evaluated by TLC in a run: `IntakeAssumption`,
`NoneAssumption`, `DeliveryAssumption`, `RequestsAssumption`,
`AnalysisAssumption`, `OpsAssumption`, `ComparisonAssumption`,
`RevisionsAssumption`, `RepositoriesAssumption`, `PartsAssumption`,
`RefusedAssumption`. They say that constants have their shapes, that `None` is
no value, that the pipeline is not a request, and that there is at least one
worker.

Every safety invariant and action property of a passing run is a theorem. Only
model-checked: what `MCAlgorithms` evaluates (`Client`'s frames and `Agents`'s
deltas over all short inputs), and `Settles` and `PageCatchesUp`, which are
liveness under fairness and out of this prover's reach. The properties of the
runs that expect a violation are, of course, not theorems.

## 5. What the code does that its documents deny

- `late_research`: README.md promises that late research cannot overwrite a
  human disposition. The guard (`hasHumanDecision`) looks at the run's own copy,
  so a decision recorded after the run loaded it is overwritten by the next save
  of any worker.
- `stale_phase`: `server.ts` says an unsettled production was orphaned by a
  shutdown. A handler that loaded the document during research and saves it
  after the ready save leaves one too, with no run and no shutdown; it shows as
  researching until the next restart.
- `deleted`: `ProjectRepository.remove` "removes the record permanently". The
  run of a production deleted meanwhile writes it back.
- `permission`: README.md says document-dependent outcomes require a production
  record linked to the same case. Removing the document does not look at the
  outcome.
- `stale_decision`: the migration plan of 2026-08-24 says that applying a
  revision reopens `added`, `materially_changed` and `decision_stale` cases.
  `applyRevision` passes over the added ones (`revisions.ts:280`), which keep the
  status their scan gave them, and reopens the others as the system, which
  `applyDisposition` mutes once a person has acted: a materially changed case
  somebody has decided stays as it is, and a case is `decision_stale` only
  because somebody has. The run shows the last: an upload, a decision, an
  application, and the case is not reopened. (The plan of 2026-08-12 says of
  added cases that they start from candidate state, so the two plans disagree.)

## 6. What is left

1. Revisions beside the analysis and the monitors in one module; today a
   revision meets people's decisions only.
2. Several productions in recovery, for the loop that ends with the first resume
   that rejects (`orchestrator.ts:192`).

## 7. Not modelled

- The Python service in `backend/` is an earlier twin that the deployment does
  not serve.
- Prompts and schemas of providers, the draft of an outreach letter, and the
  request that opens a monitor at its provider hold no part of the record.
- Routing in the edge worker, the container's environment, the signing of upload
  URLs and of webhooks: valid signatures are assumed, an invalid one changes
  nothing.
- Wording, timestamps, layout, the PDF, colours, and the components of the web
  application that render what the API returns.
- Productions meet in the repository (`storage`) and nowhere else: the other
  modules have one, or requests that name one each.
