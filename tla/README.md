# Headlines, enrichment and backfills: TLA+ models and proofs

This directory models the durable headline workflow of the repository: how a
completed harvest leads to one at-most-once provider call after the other, to
one outcome per brand, and to one new set of headlines the public sees. It is
the part of the system where several processes, a broker that loses and repeats
messages, leases and crashes meet, and where a mistake costs money (a provider
called twice), blocks a window for good, or takes published text away. Beside
it stand models of the queue in which posts are translated and classified, of
the paid batches that do the same for historical posts, and of the collection of
historical posts with the lock it shares with live harvests.

## The system

The repository collects posts about AI products and companies, enriches and
classifies them, and serves charts, lists and narratives from a Django site.
A cron job runs a **harvest cycle** (`monitor/cycle.py`) under the **writer
lock** (`monitor/run_lock.py`). Its components, their state and what makes them
hard:

| component | state it keeps | operations | hard behaviour | correct when |
|---|---|---|---|---|
| envelope coalescing (`trend_narrative_dispatch.py`, `trend_narrative_queue.py`) | Redis watermark, task messages | dispatch, mark, send, consume | three accesses that fail one by one; reordering, loss, expiry | no work on an older harvest after a newer one; no harvest forgotten |
| work slot and publication (`trend_narrative_tasks.py`, `trend_narrative_lifecycle.py`) | `TrendNarrativeWorkSlot`, runs, brand rows, `TrendNarrativeVisibleRun` | coalesce, claim, build, attach, decide, close, activate, supersede, release | every task is several transactions; late and repeated messages; deaths in between | one run in flight per window, visible cutoff monotonic, stories kept |
| run graph (`_reconcile_run` and the stage task) | provider-call rows, batch answers, run status | reserve, claim, send, answer, decide, suspend, close | nobody owns a run: walks interleave with each other and with transports | decided only by recorded answers, within budget, closed in the end |
| provider-call ledger (`trend_narrative_lifecycle.py:54-225`) | one row: state, fence, lease | reserve, claim, mark sent, settle, expire | redelivery, stale `now`, lease expiry under a slow worker | at most one transport, one sender, settled while its run is reconciled |
| demand and materiality (`trend_narrative_demand.py`) | demand rows with counters and fingerprints | record, select, satisfy | counters committed before the run they stand for | a refresh is not lost, what was concluded for the facts of now is neither repeated nor taken for older |
| enrichment queue (`enrichment_queue.py`) | enrichment states with claims and attempts | reopen, claim, start, publish, finish, release, quarantine | expired claims, two-statement claims, attempt limits | published by the current claim only, bounded attempts, a stage without attempts ends |
| writer lock (`run_lock.py`) | PostgreSQL advisory locks, yield requests | try, inspect, queue, yield, release | an owner that changes between two looks; a page that must make way | one writer, a queued harvest waits for one page |
| collection claims (`core/collection_state.py`, `backfill_collection.py`) | jobs, runs, scope checkpoints, request counts | claim, continue, reserve, fetch, checkpoint, finish, pause | takeover while a collector fetches or writes; paid pages lost | cursors and posts agree, pages paid for again only after a loss, allowance kept |
| provider batches (`core/provider_batches.py`, `backfill_enrichment.py`, `backfill_direct.py`) | groups, calls, claims, pause control | register, claim, upload, submit, reconcile, import, wave, pause, resume | a submission whose answer is lost; a wave that outlives its claim; pause against running work | each request paid for once, a safe pause is quiet, sent calls settled |
| rare-type search (`core/rare_type_search.py`) | budgets, attempts | plan, spend, record | budget shared by runs | budget kept |

The remaining parts (views, projections, charts, provider clients, catalog and
benchmark collection, one-off migrations) are listed in `PROJECT.json` with the
reason they are left out: they only read, only compute, or only do input and
output.

How four of the five components of the headline workflow interact; `HeadlineDemand`
tells the builder which brands a run is about and is told what was concluded. (The
other models have no part in it; they fill the tables the headlines are computed
from.)

```
harvest --envelope--> HeadlineEnvelope --> HeadlineWindow --snapshot message--> build run
                                               ^    |                              |
                                      release  |    | reconcile                    v
                                               |    +------------------------> RunGraph
                                        finalize message <------ close ---------|  |  stage message
                                                                                v
                                                                           ProviderCall
```

Each arrow is a best-effort enqueue after a commit, or a function call. The
next harvest envelope is the only retry mechanism of the workflow.

A backfill works in two phases, each run again and again by an operator's
campaign. `BackfillCollection` is the first: an executor walks the queries of a
historical window page by page, taking the writer lock of `WriterLock` for each
page, and stores posts. `ProviderBatches` is the second: controllers gather the
pending work of these posts in groups and send them to the provider.

## Modules

| module | models | in terms of the code |
|---|---|---|
| `AtMostOnceCall` | abstract specification | what a ledger row promises to the rest: started once, provider contacted at most once, settled once, answer only of a contacted provider |
| `ProviderCall` | one ledger row, its workers, reconcilers, broker, clock | `row` is an `OriginalContentCall`; `HandOff` is `_claim_and_enqueue`, `Receive`/`MarkSent`/`Transport`/`Record` are the four steps of `execute_per_brand_stage`, `ExpireSent` is the reconcilers' `expire_sent_...`; `run` is what decides whether there are reconcilers, the status of the run (`Suspend` is `_suspend_run` on account of another call) and the demand for its window; `contacts` is a history variable |
| `RunPromise` | abstract specification | what a run promises to its window: one outcome of its kind per brand, closed when decided, published once and complete |
| `RunGraph` | all ledger rows, answers and outcomes of one run | the steps of a walk (`WalkRank`, `WalkBatch`, `WalkClose`) are the transactions of `_reconcile_run`; `Start`, `Answer`, `Record` the stage task; `WritePlain`, `FinishBuilding` the end of the snapshot task |
| `HeadlineWindow` | slot, runs, outcomes, visible pointer of one window | `Envelope` is `_coalesce_window_envelope`, `Reconcile` the finalize re-send of `_reconcile_run`, `TakeSnapshot`, `LookUp`, `Attach`, `CreateRun` and `WritePlain` the transactions of the snapshot task, `DemandChanges` what readers do to `eligible_demand_exists`, `Activate`/`Supersede`/`Release` the transactions of `finalize_per_brand_run`, `Suspend`/`Release` those of `_suspend_run` |
| `HeadlineEnvelope` | dispatch, watermark, messages | `Mark` is `update_latest_envelope`, `Send` is `apply_async`, `Lose` a dispatcher that dies around them or a message that is lost or expires, `Consume` is `refresh_trend_narratives` with `coalesce_envelope` |
| `HeadlineDemand` | the demand row of one brand in one window, around the runs of the window | `row` is a `TrendNarrativeDemand`; `Record` is `_record_one`, `Select` the decision of `select_demanded_snapshot` and `CreateRun` the transaction after it, `Activate`, `Mark`, `Release` the three transactions of `finalize_per_brand_run`; `concluded`, `lost`, `renewed` are history variables |
| `EnrichmentQueue` | claim, stages and row lock of one post, the processes that enrich it | `Requeue` is `_requeue_recent_incomplete_translations`, `Reopen` what a backfill reopens, `Begin` and `Claim` are the two statements of `claim_enrichment_states`, `Start`/`Refused` is `mark_stage_started`, `PublishBegin`/`PublishEnd` the publishing transactions of both stages, `Finish` is `finish_enrichment_stage`, `Release` and `Abort` the ways out of a batch |
| `ProviderBatches` | groups, calls and claims of one backfill job, its controllers, the provider, the operator | `Slice` is the number of groups a pass of `execute_enrichment` advances, `StartUpload` to `FinishImport` are the steps of `advance_batch` between its transactions and HTTP calls, `StartWave` to `Drained` those of a direct wave, `Register` is `_register_requests` with `reserve_requests`, `Pause`/`Resume` `set_enrichment_control`, `Close` the closing of drained failures; `contacts` is a history variable |
| `WriterLock` | the advisory lock, its queue, live harvests | `LiveTry`, `LiveInspect`, `LiveQueue` are the statements of `harvest_writer_lock`; the lock itself is external |
| `BackfillCollection` | job, runs, scopes and executors of one backfill job, composed with `WriterLock` | `claim_job`, `Reserve` (`claim_api_request`), `Fetch`, `Checkpoint` (`PageCheckpoint.persist` in `checkpoint_scope`), `Finish` (`finish_run`), `SetJobState`; `fetched` and `ahead` are history variables |
| `...Proofs` | TLAPS proofs about the module of that name; `BackfillCollectionProofs` covers `WriterLock` too | |
| `MC...` | symmetry sets and constant definitions for TLC | |

The models are layered: `RunGraph` abstracts the life of a row that
`ProviderCall` details (a claim is a Boolean, receiving and marking is one step;
`OneSender` and `KeepsPromise` are what allows that), and
`HeadlineWindow` abstracts the graph of a run to "outcomes appear one by one,
then the run closes or is suspended". `HeadlineWindow!Envelope` accepts every
envelope that has not expired, in any order and repeatedly, which includes all
that `HeadlineEnvelope` lets through. `AtMostOnceCall` is the promise of every
paid call: `ProviderCall` implements it for a headline, `ProviderBatches` for
each call of a group (`KeepsPromise`), with mappings of their own. `RunPromise`
is the interface between run and window: `RunGraph` implements it, and
`HeadlineWindow` repeats its actions for the run of every source, with one
restriction, that suspended runs are not published (see *Suspended runs*).
`BackfillCollection` extends `WriterLock`: an executor takes and frees the very
lock the harvests queue for.

Definitions called *Mutant* in a comment are not part of the specifications.
Each is a plausible mistake in the code that some property catches; the pairs
are in `PROJECT.json` under `mutants`.

### Decisions worth knowing

- *Time.* `ProviderCall` has a clock, because the comparison of a lease with an
  old reading of it is the point there: `Receive` compares `>=`, the claim
  compares `<=`, `MarkSent` uses the time read by `Receive`, reconcilers one up
  to `MaxLag` old. The other modules only need that a lease may expire.
  `EnrichmentQueue` keeps of the time a run has read only how it compares with
  the row (`sawExpired`, `notYet`, `started`, `late`), which makes its state
  space finite without a horizon, so that liveness can be checked.
- *Row locks.* Transactions of one locking statement are atomic steps. The claim
  of the enrichment queue reads under `SKIP LOCKED` twice and the publications
  write other tables while they hold the row; these are two steps with `lock`.
- *claim_owner* is built from row and fence on every production path, so the
  fence stands for the pair `<owner, fence>`. The path of the stage and snapshot
  tasks without owner exists for direct calls in tests and is left out.
- *Faults.* Messages are lost before or after they reach the broker (a failed
  `apply_async` is a lost message), acknowledged late (a task that dies leaves
  its message), and workers die between any two transactions. `MaxFaults`
  bounds deaths, losses and leases that expire under a task.
- *Tokens.* `RunGraph` counts one kind of token; the three caps of the code
  (input, output, dollars) are sums of the same shape. The estimate of a call is
  bytes/4 of its input and the full output bound, and nothing keeps the provider
  from counting more. So `Usage` may be greater than `Estimate`, and `WithinBudget`
  says what is left of a cap then: no call is admitted beyond it, and what is spent
  passes it by the excess of the completed calls (`Excess`) only. The cap on calls
  needs no such allowance.
- *Answers.* A recorded editor answer is `plain` (valid, no risk reason: approved
  without review), `risky` (goes to the critic) or `unusable` (no critic packet
  can be built). A critic answer is the set of brands it approves.
- *Leases.* In `ProviderBatches` an expired claim is a free one
  (`Orphaned`/`Expire`): fences make a former holder stale at once. In
  `BackfillCollection` a run keeps whether its lease has run out (`live`),
  because a claim and a pause look at it. `MaxHindrances` bounds expiries under
  an executor that lives, as it does deaths, errors and pauses; a dead executor's
  lease always may run out.
- *Exceptions.* The runner of a cycle turns every exception of a fetch into a
  failed call (`cycle.py:2896-2905`), also the refusal to make way for a harvest and a
  stale claim. `Skip` is that path: the run is failed, its scope set aside, and
  the executor goes on with the next scope until a fence outside of the fetch
  stops it. So an executor whose claim is gone may still take the lock once more.
- *Pages.* A scope is a number of pages, its cursor a count of them. A page whose
  cursor cannot be trusted blocks the scope, one that fails leaves it for a later
  run.
- *Reopened stages.* Every scheduled batch first moves recent succeeded translations
  whose output is no longer complete back to pending (`cycle.py:1004`), and a
  backfill reopens successes of rows nobody holds (`backfill_enrichment.py:197`).
  When an output is outdated is the business of other components; `Outdated` lets it
  happen at any time, as often as the bound on hindrances allows. Both transactions
  look at no claim in progress, so a claim that has read the time before may find the
  stage due or not (`Crossed`). Attempts are kept: a reopened stage may be spent.
- *Reconciliation.* `_reconcile_run` does nothing for a suspended run, and under
  demand shaping, as `render.yaml` deploys it, an envelope passes over a window that
  no brand is asked for in (`trend_narrative_tasks.py:145`). `ProviderCall` and
  `HeadlineWindow` have a variable for either, and their liveness is stated up to them.
- *The snapshot task* is four transactions and a loop: the claim check, the look for an
  existing run, the attachment (which adopts a slot that became idle meanwhile) or the
  creation, then one row after the other for the brands without a narrative. Only the
  creator of a run writes these rows. The adoption of a slot by a task that has no
  claim is for tests and left out, see *claim_owner*.
- *Suspended runs.* In `HeadlineWindow` a suspended run does not close any more.
  That is `RunGraph!SuspendedForGood`. It is a theorem for a single process, as
  `render.yaml` deploys it, and for two when the planned calls fit the cap. (The plan
  `docs/plans/2026-09-24-060052-feat-headline-0731-architecture-plan.md:675` wants
  three processes, for which it does not hold; `render.yaml` and `render-staging.yaml` still start one.)
- *Demand.* `HeadlineDemand` has a row for one brand; priorities, reasons and pins only
  move the time until which it is hot. A dossier is what its fingerprint tells apart.
  What the run decides about the brand, a text, a held or an unavailable narrative,
  makes no difference to the row ("published_or_terminal"), so the model keeps the
  selection that was `concluded` last, not the text that is shown: a held brand goes
  on showing a text that was made of an older dossier.
  Whether the runs of other brands close or are suspended is the business of
  `RunGraph`; here a run of the window just does one of the two. Its two action
  properties are stated of one worker: with two, a finalize task that is slow to
  write its note lets the next run decide before it.

## Runs

| run | checks | bounds and why they suffice |
|---|---|---|
| `ProviderCall` | `TypeOK`, `OneSender`, refinement `KeepsPromise`, liveness `SentIsSettled` | three workers: one that hangs in its transport, one with the redelivery, one with the message of the next claim; lease 2, lag 1, hand-offs until tick 3, so that two leases run out; a run that may be suspended at any time while a walk that began before goes on, and demand that comes and goes (702,204 states) |
| `ProviderCallSuspended` (by hand) | `ExpiredIsTerminalized`, expected violation | as before |
| `RunGraphSafety` | `TypeOK`, `WithinBudget`, `DecidedByAnswers`, `SuspendedForGood`, refinement `KeepsPromise` | two batches where one was planned, a call cap of 4 that stops the second critic, a token cap that binds earlier when usage is not known, two workers, one fault (581,740 states) |
| `RunGraphOverrun` (by hand) | `WithinBudget` | as before with a usage of 4 above the estimate of 3 (337,903 states; `Spend <= TokenCap` alone is violated) |
| `RunGraphLive` | `RunCloses` | one batch of two brands, all eligible, one fault anywhere |
| `RunGraphStranded` (by hand) | `RunCloses`, expected violation | as before with one more brand, without a narrative |
| `HeadlineWindowSafety` | `TypeOK`, `InFlightIsAttached`, `RunsAreSpaced`, `VisibleAdvances`, `HeldCarriesLastGood`, `StoryLostOnlyByShaping` | with `Shaping`, as deployed; five harvests at a cadence of two, hence three runs (approved, held, held again; one visible, one active, one queued); envelopes up to two cycles late, two workers, two faults; one brand, because brands of a run do not interact in this module (3,569,626 states) |
| `HeadlineWindowLive` | `SlotMovesOn` | with `Shaping`; two cutoffs, two workers, one fault (108,212 states). Without `Stranded`, and without `~wanted`, it is violated |
| `HeadlineWindowShaped` | `StoryKept` with `Shaping`, expected violation | two runs, no fault |
| `HeadlineEnvelope` | `NeverGoesBack`, `NoneForgotten` | four harvests, so that three older ones may meet a lost one in any order; two failing accesses, any number of losses (32,177 states) |
| `HeadlineDemand` | `TypeOK`, `SuppressedWasConcluded`, `ConcludedIsSuppressed` | one worker; two dossiers and two releases, so that either can change and change back; three runs, so that a loss in the first can be made good by the second before the third decides; an operator request, any number of page views; one death or suspension |
| `HeadlineDemandRefresh` (by hand) | `RefreshUnderWay`, expected violation | as before, two runs: one to publish, one to lose |
| `HeadlineDemandRelease` (by hand) | `SatisfiedByItsRelease`, expected violation | as before, two runs |
| `EnrichmentQueue` | `TypeOK`, `FailedWasTried`, `DispatchesBounded`, `SucceededIsPublished`, `PublisherNotReplaced`, `SettledForGood`, liveness `ExhaustedEnds` | two processes, since what one run can do to another needs two; one attempt, which is the first and the last; two hindrances, enough for a death after the last attempt, a slow run overtaken by another that fails, or a success that is reopened and whose next run dies (460,218 states). Refusals are not bounded. By hand: two attempts and one hindrance, with liveness, and two of each without (2,533,057 states) |
| `ProviderBatches` | `TypeOK`, `SpendsOnce`, refinement `KeepsPromise`, `SafeMeansQuiet`, liveness `SentIsSettled` | one request and two groups, so that the request can be in two of them, over either transport; a slice of one, so that a group waits behind another as a third does behind two in the code; two attempts; two controllers, one that outlives its claim and one that takes over; two hindrances, such as a death and a pause, or a lost answer and an expiry (129,931 states; without `InSlice` in `SentIsSettled` it is violated) |
| `ProviderBatchesSlice` (by hand) | liveness `SentIsSettled` | the slice of two of the code and three direct groups: two that are left ambiguous keep the slice, the third is advanced at its registration; one controller, three attempts, three hindrances (29,826 states; without `InSlice` violated here, too) |
| `ProviderBatchesPause` | `PauseDrains`, expected violation | one direct group |
| `BackfillCollection` | `TypeOK`, `StoredUpToCursor`, `SpendWithinAllowance`, `PaidAgainOnlyAfterLoss`, `CompletedIsDrained`, `LiveWaitsForOnePage` | two executors, three runs (a takeover of a takeover), a query of two pages, so that one can stop in between, and one of one page, so that there is another to go on with; an allowance of three requests, two of each run, that binds before everything is walked when a page is lost; a live harvest; two hindrances |

Larger instances, checked by hand without an error: `ProviderBatches` with a slice
of two, which its two groups do not fill (158,001 states, with liveness), and with
three direct groups, two controllers and a slice of two (1,396,507 states, safety);
`BackfillCollection` with two
queries of two pages each and an allowance of four requests (5,443,289 states),
with five requests, three of each run, over four runs and one hindrance (4,633,892
states), and with two live harvests and one hindrance (5,656,404 states).

All but `EnrichmentQueue` say `CHECK_DEADLOCK FALSE`: the explored clock, harvests and faults
end, and then nothing is left to do.

### Fairness

- `ProviderCall`: time passes, and reconcilers visit the row as long as its run is
  in preparation and a brand of its window is asked for (every harvest envelope that
  reaches the window and every stage task reconciles the run). Nothing is assumed of
  the worker that holds the row, of the readers, or of a run that is suspended.
- `RunGraph`: a running task takes its next step, leases run out, envelopes keep
  coming, which with demand shaping needs a brand that is asked for (weak fairness); a message the broker holds is delivered even if all
  workers are busy again and again (strong fairness).
- `HeadlineWindow`: the same, and that walks decide the eligible brands and close a
  run whose outcomes are complete, as `RunGraph!RunCloses` gives it. The outcomes of the
  other brands are steps of the task that created the run: when it dies nobody writes
  them, and `SlotMovesOn` lets such a run be (`Stranded`), as it does a window without
  readers. That harvests go on and not every newest envelope is lost is assumed; that
  readers come is not.
- `HeadlineEnvelope` states no fairness: its dispatchers may die and its messages expire.
- `EnrichmentQueue`: a process keeps working through its batch and comes back
  for another (the loop of `run_enrichment_worker`), leases run out, retry times
  come. Deaths, errors, deferrals and outdated outputs are bounded by `MaxHindrances`;
  refusals are not: a post without source text, or a credential that stays missing,
  keeps a stage pending for ever without an attempt, which is what the code does
  (`cycle.py:3912`). So what is live is only that a stage ends once its attempts are
  used up (`ExhaustedEnds`).
- `ProviderBatches`: a campaign keeps calling `execute_enrichment`, which advances
  the oldest active groups. Strong fairness of `Pick`, which is enabled for groups in
  the slice only, says that each of them gets its turn although a live controller or
  the operator may hold it up now and then. A controller that lives goes on, the
  provider ends what it accepted, claims of dead controllers expire. Nothing is assumed
  of the operator, nor for a group behind the slice.
- `WriterLock`, `BackfillCollection` and `HeadlineDemand` state no fairness: the
  operator may never call the executor again, a live harvest gives up after its
  time, and that a run gets on is the concern of `RunGraph`.
- After the last explored harvest its envelope may be consumed again and again;
  it stands for the envelopes of later harvests.

## What the runs show

Safety holds: no interleaving of redeliveries, stale clocks, deaths and lost
messages within the bounds contacts a provider twice for one row, decides a
brand against the answers on record, admits a call beyond a cap, publishes an incomplete or
older run, or leaves two runs of a window in flight. No enrichment run publishes
after another has claimed its row, and none fails a stage that was not tried
`max_attempts` times. No call of a backfill is paid for while an earlier payment
for the same work may still be answered, no pause that was reported safe is
followed by work, a brand is left out of a run as unchanged only if what was
concluded of it last is up to date, no page of a historical window is skipped or
paid for twice without a loss, and a live harvest waits for one page at most.

The attempt limit of the enrichment queue is softer than its comment ("a crashed
final attempt still terminates on the next claim", `enrichment_queue.py:83`).
The claim looks for spent rows in one statement and claims in a second; a row
that is locked or held during the first and free during the second is claimed
once more. `DispatchesBounded` says exactly that: beyond the limit there are only
such straddling claims and refunded ones. Without `hist.straddles` TLC finds the
interleaving (final attempt, error, release between the two statements).

Six disagreements were met. `PROJECT.json` lists the second and the third under
`findings`, with their runs; the other four have a configuration to be run by hand
(`tlc -config RunGraphStranded.cfg MCRunGraph`, `HeadlineDemandRefresh.cfg` or
`HeadlineDemandRelease.cfg` with `MCHeadlineDemand`, and `ProviderCallSuspended.cfg`
with `MCProviderCall`):

1. `RunGraphStranded`: `initialize_per_brand_snapshot` commits the run before it
   writes the rows of its brands without a narrative. If the process dies in
   between, no later task writes them; the run stays `preparing`, keeps the slot,
   and its window gets no new headlines.
2. `HeadlineWindowShaped`: with demand shaping, brands whose facts did not change
   are not in the manifest of the run that becomes visible, so the story the
   documentation promises to keep is gone.
3. `ProviderBatchesPause`: a direct wave marks its calls sent before it transmits.
   If its controller dies, or outlives its claim of 300 seconds, only the next wave
   declares them ambiguous; but while the job is paused `claim_batch` refuses every
   wave, and resume is refused while a call is sent. Such a pause is never safe to
   cancel and cannot be undone.
4. `HeadlineDemandRefresh`: an operator refresh counts as enqueued before its run
   exists, so that a builder that dies after the selection, or a run that is
   suspended, loses it for a brand whose facts did not change.
5. `HeadlineDemandRelease`: a selection is made for the release that recorded the
   request, whatever release the worker is that creates the run. While releases are
   being exchanged, an old worker satisfies, and suppresses, a request for the new one.
6. `ProviderCallSuspended`: `docs/reference/headline-trend-narratives.md:279` says that
   an expired lease after `sent` is durably terminalized as `ambiguous`. The row of a
   worker that died stays `sent` for ever if its run is suspended meanwhile on account
   of another batch: no reconciliation of that run happens any more.

One more sentence of `CONCEPTS.md` (line 421) is looser than the code: the fence
of the work slot is not monotonic, it returns to zero whenever a run is attached
or a cutoff promoted. The cutoff that every snapshot message carries beside the
fence makes up for it (`OwnsSlot`), so nothing follows from it.

Observations that no property states, or only of a part of the cases:

- After a failed watermark write `coalesce_envelope` returns a watermark older than
  the envelope at hand, where its docstring promises the newest
  (`trend_narrative_queue.py:73`). `NeverGoesBack` says that it does not without a
  failure.
- `claim_job` requires that a claim continues the preceding attempt only of a claim
  that continues one (`collection_state.py:526`), and `execute_job` carries the
  attempt it read before. Of two executors that both start before the first claim,
  the later one begins without the scopes of the other, after its lease, and pays
  for its pages again. Therefore `Chained` in two of the properties.
- `execute_enrichment` advances the two oldest active groups only
  (`backfill_enrichment.py:1349`). Direct groups whose calls ended ambiguous stay
  active, so that two of them keep a third from its turn until the operator closes
  them. A third group is still advanced once, when it is registered (1406): calls that
  a controller sent then before it died stay `sent`, and a native group that it
  submitted is not polled. Therefore `InSlice` in `SentIsSettled`.
- A submission that is answered without an identity leaves its group submitting until
  the listing finds it (`SubmitUnidentified`, `backfill_enrichment.py:968`).
- The watermark is written before the message is sent. A dispatcher that dies in
  between, or a message that is lost or not consumed within `task_expiry_seconds`,
  leaves a watermark to which every older message gives way, so that no harvest is
  worked on until the next one. `NoneForgotten` says that nothing else is forgotten.
- Envelopes pass over a window that no brand is asked for in: its run is reconciled
  by its own stage tasks only until a reader comes back, whatever calls of it are sent.
- A native submission that the provider rejected or never received leaves its group
  ambiguous for good: the listing never finds it and nothing else ends it
  (`advance_batch`). `SentIsSettled` is stated of accepted ones.
- The allowance of control requests counts polls too (`provider_batches.py:353`), so
  that a slow batch may exhaust it and its paid answers stay at the provider.
- A harvest that finds no owner twice gives its tick up, although a comment says that
  an empty owner must not discard it (`run_lock.py:214`): the lock was taken and freed
  twice between its four statements.
- A note about a published brand that is lost with its worker is not written again
  (`trend_narrative_tasks.py:658`): the brand is selected and paid for once more,
  and right after, `SuppressedWasConcluded` does not hold, if its dossier changes back.
- `mark_run_demands_satisfied` does not look at the outcome
  (`trend_narrative_demand.py:531`): a brand that was held counts as satisfied and is
  not tried again until its facts change, while it goes on showing a text of an older
  dossier. `SuppressedWasConcluded` is about what was decided last, not what is shown.
- The requeueing before a scheduled claim does not look at attempts: a translation that
  succeeded at its last attempt and is reopened is failed by the next claim, although
  its post has a translation, if an incomplete one.
- No code under `monitor/` records a demand with the reason `operator`; the refresh
  is for the shell.
- A page refused because a harvest waits counts as a failed call, so the run ends
  `failed` although nothing went wrong.

## Proofs

Every safety property that a passing run checks is proved. The theorems hold for
all values of the constants and rest on the named assumptions of the modules
alone (`ConstantsAssumption`, `GraphAssumption` and so on), which TLC evaluates on
every run; three of them, `SuspensionIsFinal`, `UnchangedWasConcluded` and
`ConcludedIsNotRepeated`, have a hypothesis more, on the number of workers, which the
deployment meets and without which the property is false. Each safety proof has the same shape: an inductive
invariant that implies the property, a lemma for the initial states, one for
every step with a case per action, and a temporal step that joins them. TLC
checked each inductive invariant on the bounds of the module's first run; the numbers of
states below are of those checks.

| module | theorems | inductive invariant |
|---|---|---|
| `ProviderCallProofs` | `TypeCorrect`, `OneTransportEver` (a row is transmitted at most once), `OneSenderEver` (`OneSender`), `ImplementsPromise` (`KeepsPromise`) | `CallInvariant` |
| `RunGraphProofs` | `GraphTypeCorrect`, `CapsAreKept` (`WithinBudget`), `BrandsAreDecidedByAnswers` (`DecidedByAnswers`), `GraphKeepsPromise` (`KeepsPromise`), `SuspensionIsFinal` (`SuspendedForGood`) | `GraphInvariant`, 581 740 states; `PublicIsDecided` and `SuspensionInvariant` on top of it |
| `HeadlineWindowProofs` | `WindowTypeCorrect`, `NoRunLeftBehind` (`InFlightIsAttached`), `OnlyNewerIsQueued` (the queued cutoff is newer than the active one), `CadenceIsKept` (`RunsAreSpaced`), `PublicIsComplete` (the visible run has all its outcomes), `OnlyNewerBecomesVisible` (`VisibleAdvances`), `LastGoodIsCarried` (`HeldCarriesLastGood`), `OnlyShapingLosesStories` (`StoryLostOnlyByShaping`) | `WindowInvariant`, 3 569 626 states |
| `HeadlineEnvelopeProofs` | `EnvelopeTypeCorrect`, `BacklogNeverGoesBack` (`NeverGoesBack`), `CoalescingForgetsNothing` (`NoneForgotten`) | `EnvelopeInvariant` |
| `HeadlineDemandProofs` | `DemandTypeCorrect`, `UnchangedWasConcluded` (`SuppressedWasConcluded`), `ConcludedIsNotRepeated` (`ConcludedIsSuppressed`) | `DemandInvariant`, 1 435 693 states |
| `EnrichmentQueueProofs` | `QueueTypeCorrect`, `WaitingCostsNoAttempt` (`FailedWasTried`), `LimitBoundsDispatches` (`DispatchesBounded`), `SuccessIsPublished` (`SucceededIsPublished`), `ReplacedNeverPublishes` (`PublisherNotReplaced`), `SettledOnlyReopens` (`SettledForGood`) | `QueueInvariant`, 460 218 states |
| `ProviderBatchesProofs` | `BatchesTypeCorrect`, `RequestsAreSpentOnce` (`SpendsOnce`), `CallsKeepPromise` (`KeepsPromise`), `SafeIsQuiet` (`SafeMeansQuiet`) | `BatchesInvariant`, 129 931 states |
| `BackfillCollectionProofs` | `CollectionTypeCorrect`, `CursorsAgreeWithPosts` (`StoredUpToCursor`), `CompletedHasEverything` (`CompletedIsDrained`), `LiveIsNotOvertaken` (`LiveWaitsForOnePage`), `SpendingIsAccounted` (`SpendWithinAllowance`), `RepeatsAreCharged` (`PaidAgainOnlyAfterLoss`) | `CollectionInvariant`, and `AccountInvariant` on top of it, 3.2 million states |

Why the properties are not inductive, and what the code relies on instead:

- *One row* (`CallInvariant`). While the row is reserved nobody is sending and
  nothing was contacted; a worker past its `sent` mark carries the fence of the
  row; before its transport nothing was contacted; a worker with an answer has
  contacted the provider. The fence does not change once the row was sent,
  because only reserved rows are claimed; that is the heart of the argument,
  and what the mutant `ClaimableAlsoSent` breaks.
- *One run* (`GraphInvariant`). The caps are kept because a new row is admitted
  against the sum over all rows, and a call that is settled raises that sum by its
  excess at most (`Spending`, `SettlingCostsExcess`: the cardinality arithmetic is done once, for a row that is
  added and for one that changes its state). `DecidedByAnswers` needs that a
  completed editor answer has a verdict (`VerdictKnown`) and that a brand is in
  one batch, else a walk of another batch would decide it; `build_editor_batches`
  slices the packets, so `GraphAssumption` says that `Members` are disjoint.
  `KeepsPromise` adds that a run is asked to be published only when it is closed
  (`PublicIsDecided`).
- *Suspended runs* (`StopsForGood`). Nothing in the code forbids a walk that is
  under way to close a run that another has suspended. What keeps it from doing so
  is the batch at which the budget stopped: its next call has no row, and of the
  walks that have not passed it there is one at most, which can reserve that call
  but not decide from it (`Stuck`). With a third process there may be two: a first
  walk suspends the run on its token cap, usage that is then recorded makes the
  call affordable, a second walk reserves it, and the third decides the batch from
  the answer and closes the run (TLC finds this with three workers, two batches and
  a token cap of 7). With two processes and a plan that exceeds the call cap the
  builder can suspend a run that an envelope has walked to its end meanwhile (one
  batch, a call cap of 2). So `SuspensionIsFinal` is stated for a single process
  and for two whose plan fits (`FewWorkers`), and for batches that are not empty.
- *One window* (`WindowInvariant`). The slot, the runs, the rows of the manifest
  and the tasks under way are tied together: what builders expect of the slot
  (`Fits`, which every update of the slot is shown to keep in a lemma of its
  own), what a snapshot or finalize task knows (`TasksKnow`), that closed runs are
  over, and that rows carry over from the run that was visible. `StoryKept`, what
  the documentation says, is false with demand shaping, which the run `window_shaped`
  shows; `StoryLostOnlyByShaping` is proved of every configuration: what a brand of the
  new manifest had it keeps, and only a manifest that was reduced leaves a brand out.
- *The envelopes* (`WatermarkLeads`). While no access has failed the watermark
  is ahead of whatever is marked, sent or worked on, because it moves first. That
  nothing is forgotten follows from the same: what a consumer passes over is older than
  the watermark, and the watermark is the envelope of one that is under way or lost.
- *The demand* (`DemandInvariant`). The row and the publication agree only when no
  selection of the brand is on its way, so the invariant follows a selection from
  the builder into the run and to the note (`Underway`). Until then the row, if it
  could pass for up to date, still has the target and the requests of that
  selection (`Claimed`): a newer release empties the fingerprint, a newer operator
  request raises the counter, and the note compares both. The slot sees to it that
  there is one selection at a time (`SlotIsExclusive`). The theorems are stated for
  one worker (`AtMostOneWorker`), as `render.yaml:102` starts it.
- *One post* (`QueueInvariant`). The bounds on attempts follow from an exact
  account: what was paid for a stage against the attempts of the row, for runs
  that have not started, have started, have lost their claim, or straddle the two
  statements of a claim (`PaidIsCounted`, `StartIsCovered`, `ClaimIsClean`).
  Publication is safe because the row lock is held between the look at the owner
  and the commit (`LockIsHeld`, `OwnerIsCurrent`).
- *The batches* (`BatchesInvariant`). The parts follow a call along its transport.
  Before its submission nothing of a native group is contacted, after it the
  provider has all of the group's calls or none (`GroupsAreOrdered`); a controller
  that still holds its claim finds the group as it left it (`JobsAreOrdered`);
  a request of a wave was not contacted before its thread, the waves of a group
  are disjoint even when an older one is still draining, and a wave is `sent` as
  long as its claim lives (`WavesAreOrdered`). A request is paid for again only
  when no call of it is live (`OneIsLive`), and every contact uses up an attempt.
  `KeepsPromise` is a refinement for every group and request at once: each step
  of the batches maps to one step of `AtMostOnceCall` for a call, or to none.
- *The collection* (`CollectionInvariant`). A run belongs to one executor, only the
  newest run is ever active, an executor at a page has the lock and its page is
  open, and nothing is stored before the first run. The queue of the lock is
  shown to lose no waiting harvest, and a reserved page to be the only one that
  may overtake one.
- *The accounts of the collection* (`AccountInvariant`). Each page that was paid for
  has a reservation of its own in the sum over all runs (`PaidIsReserved`). Pages
  that were paid for are stored, in the hand of an executor whose claim holds, or
  lost; what was paid for twice, what is lost, and a reserved request whose claim
  is gone are together no more than the hindrances so far (`LossesAreCharged`).
  Only a claim of the newest run can move its cursor, so nothing is lost to an
  orderly end, a yield or a takeover.

### Only model-checked

- Liveness (`SentIsSettled` of either module, `RunCloses`, `SlotMovesOn`,
  `ExhaustedEnds`): fairness and `ENABLED` are out of the
  prover's reach.

The additional conditions of the three theorems are conditions of the deployment
(workers and caps); what happens without them is only
known for the instances TLC looked at.

RECURSIVE operators are not used.

## Not modelled

- Content: packets, prompts, parsing and validation of answers, rank order.
  A batch packet of a single brand that is too large raises in every walk; that
  depends on sizes and is listed as a hazard only.
- Pruning of old runs, and the legacy shared-headline attempts in the lower
  half of `trend_narrative_lifecycle.py`, which no production path starts.
- Of the enrichment queue: which of many rows a claim takes (fresh and backlog
  lanes), rows owned by a historical collection job, the request allowance and
  process slots, `recover_enrichment`, and the translation lane before literal
  translations, a rollback path that publishes without the fence of the claim
  (`cycle.py:4236`).
- Of the provider batches: the ownership of posts, how packets are prepared and
  priced (the cost ceiling is a guard of `reserve_requests` like the attempt limit
  that is modelled), replays of rejected packets, targeted operations.
- Of the collection: prefetched and staged pages, rare types, promotion, jobs of
  instruction version 2 (their runs are resumed rather than continued), campaigns,
  limits in time, items and bytes other than that they end a run.
- Of the writer lock: the other lock scopes and alerts. Repairs and other background
  writers take it by one try, as executors do.
- The `provider_calls_active` and demand gates that make a task return at once.
- Of the demand: how a dossier is projected and banded for its fingerprint, and the
  replay and audit helpers beside it.

## Plan

1. Done: `ProviderCall` with its abstract specification and proofs, `RunGraph`,
   `HeadlineWindow`, `HeadlineEnvelope`, `EnrichmentQueue`, `ProviderBatches`,
   `WriterLock` with `BackfillCollection`, `HeadlineDemand`.
2. Done: the safety properties of all of these as theorems, and `RunPromise`
   between run and window. (That `HeadlineWindow` repeats its actions can be read
   off; it is not stated as a refinement, because the manifest, a constant of
   `RunPromise`, is chosen there when the run is created.)
3. `EnrichmentQueue` again: the lanes of the claim over several posts, historical
   rows, and recovery.
4. Prefetching and staging of `BackfillCollection`, then rare-type search.
