# Truth of Fun: a TLA+ model of the event platform

Truth of Fun collects events from a dozen feeds, merges what they say about the
same night out into one row, and serves the rows over an API. This directory
models the parts of it where the order of steps, or a failure between two of
them, matters: the crawl of the feeds, the worker and the pipeline that store
them, the merge rules, geocoding and tagging, the key store, and the handlers of
the API that read and write what others are changing.

Contents: [inventory](#inventory), [modules](#modules-and-the-code),
[runs](#runs), [bounds](#bounds), [fairness](#fairness), [proofs](#proofs),
[disagreements](#disagreements-between-code-and-documentation),
[limits](#what-is-not-modelled), [plan](#plan).

## Inventory

Paths are relative to the repository root.

| component | state it keeps | operations | modules |
|---|---|---|---|
| Ingestion worker, `app/worker.py` | canary history, health and pending alerts in the process; `source_health` table | `run_forever`, `run_once`, `_persist_source_health`, `_mark_past_events`, `_flush_alerts` | `IngestionWorker` |
| Ticketmaster connector, `app/ingestion/ticketmaster.py` | the completion checkpoint file; a key lease for the length of a crawl | `fetch_events`, `acknowledge_persisted`, `normalize_raw` | `TicketmasterFetch`, `Normalizers` |
| Other connectors, `app/ingestion/sources/` | none between runs | `fetch_events`, `normalize_raw` | `ListingCrawl`, `Normalizers` |
| Outbound limiter, `app/ingestion/rate_limiter.py` | the times of recent calls | `acquire` | `OutboundLimiter` |
| API key store, `app/services/secrets_store.py` | Redis: a SET of key ids and a hash per key | `seed_key`, `get_active_key`, `report_usage`, `reset_exhausted_keys` | `SecretsStore` |
| Data pipeline, `app/services/data_pipeline.py` | tables `events`, `event_source_records` | `process_raw_events`, `_find_existing_event`, `_remember_source_records`, `_merge_event_payloads` | `DataPipeline`, `EventMerge` |
| Vibe tagging, `app/services/vibe_tagger.py` | table `vibe_tag_cache` | `_prepare_vibe_tags`, `classify` | `VibeTags` |
| Geocoding, `app/services/geocoding.py` | table `geocode_cache`, a budget per run | `resolve`, `enrich_locations`; `scripts/backfill_geocode.py` | `Geocoding` |
| User profile, `app/api/discovery.py`, `app/services/user_profile.py` | saved events and preferred vibes (columns of the user), signals | save, click, like, preferences, onboarding | `Profile` |
| Event search and recommendations, `app/api/discovery.py`, `app/services/recommender.py` | none | pages of a search, pages of a ranking | `EventSearch`, `Recommendations` |
| Concierge and shared itineraries, `app/services/concierge.py`, `app/services/planning.py` | `saved_itineraries` | plan a night; share, read, revoke a link | `Concierge`, `SharedPlans` |
| Folders, `app/api/social.py` | folders, members, invites, items, votes | create, invite, accept, revoke, vote | `Folders` |
| Accounts and agent tokens, `app/api/auth.py`, `app/api/agent_tokens.py`, `app/core/security.py`, `app/core/ratelimit.py` | users, tokens, sliding windows in the process | register, mint, revoke, admit | `AgentTokens` |
| Health and internal key endpoints, `app/api/health.py`, `app/api/internal_secrets.py` | `api_key_usage_snapshots` | report usage, sample, read health | `KeySnapshots` |
| Web application, `apps/web` | view state | `useEventSearch` | `EventSearch` |
| API client, MCP server, migrations, demo data, core plumbing | | | none |

**How they interact.** The worker asks the key store to reset exhausted keys,
creates each source in turn and awaits its `fetch_events`; every request of a
source passes its outbound limiter. It hands the concatenated results to the
pipeline, which normalises them (a missing confidence becomes 1.0 here), places
those of low confidence (`enrich_locations`), tags them
(`_prepare_vibe_tags`), and then opens one transaction per chunk and one
savepoint per observation. If the pipeline returns, the worker calls
`acknowledge_persisted` on every source that has it and neither failed nor was
in a batch with a rejected row. It then writes `source_health`, which is how
the API process learns about the worker. The Ticketmaster connector leases a
key once, in its constructor, and reports every request on it; the worker and
the internal endpoint both sample the key's usage. The worker, a second worker
started by hand (`make worker`, beside the scheduled one), the API and the
operator's scripts share PostgreSQL and Redis and nothing else. The API's
threads share the sliding windows of one process.

**What is hard.**

- *Two durable writes that belong together*: rows in PostgreSQL, the checkpoint
  in a file, with a crash possible between them; and chunks that commit while
  later ones fail.
- *Partial success*: a source that read half its pages, a cap that cut a crawl
  short, a row the schema refuses, a checkpoint that cannot be saved. Each has
  to keep the right checkpoint from moving and to show in health and alerts.
- *Concurrent pipelines* that find no row for the same listing and both insert
  one, or classify the same description.
- *Stale choices*: a key chosen from counts read one hash at a time; a token
  looked up before it is revoked; coordinates planned from rows that move; a
  whole column written back from a copy.
- *Check, then insert*: invites, memberships, votes, tokens under a cap, samples
  of a key. What serialises them is sometimes a row lock, sometimes an advisory
  lock, sometimes only a unique constraint.
- *Order of evidence*: sources repeat themselves in every cycle, so what
  arrives last is not what is newest; a replay must not revert a revision, and
  sources that disagree must not rewrite each other for ever.
- *Pages of a moving list*, cut by offset and answered in any order.

**What makes each part correct.** *Crawl*: a fetch that reports no error has
read everything, and it ends. *Worker*: a checkpoint never claims what is not
stored; health, history and alerts tell one story; a failed cycle is not the
last. *Key store*: a disabled key stays disabled; a shut key is not handed out;
overspending is bounded; an exhausted key comes back. *Pipeline*: one row per
listing, an identity that never changes its event, and nothing valid lost.
*Merge and places*: a coordinate that radius search uses belongs to the venue
of its row; nobody undoes a status but its owner or a better source; replays
settle. *API*: concurrent requests neither undo each other nor exceed a cap,
what is revoked stays revoked, and a page sequence has no unexplained gap.

The hazards, each at its line and with the properties that would notice it, are
listed in `PROJECT.json`.

## Modules and the code

| module | what it is |
|---|---|
| `DurableSync` | abstract: what a completion checkpoint promises, without a worker |
| `IngestionWorker` | the worker; implements `DurableSync` (`SyncSpec`) |
| `KeyLifecycle` | abstract: the life of one API key |
| `SecretsStore` | the key store and its clients; implements `KeyLifecycle` (`LifecycleSpec`) |
| `DataPipeline` | transactions and identities of two concurrent pipelines |
| `EventMerge` | one row under the observations of several sources |
| `TicketmasterFetch`, `ListingCrawl` | one fetch, from the API and from listing pages |
| `OutboundLimiter` | the limiter every request passes |
| `Normalizers` | what each connector makes of a listing; operators only |
| `Geocoding` | how an event is placed, from `Normalizers` to the row; cycle and script |
| `VibeTags` | the tags of descriptions and their cache, with two runs at once |
| `Crawl` | `TicketmasterFetch`, `ListingCrawl`, `OutboundLimiter`, `Geocoding`, `VibeTags` side by side |
| `AgentTokens`, `Profile`, `Folders`, `SharedPlans` | handlers of the API that write |
| `EventSearch`, `Recommendations`, `Concierge` | handlers that read, and the search hook |
| `KeySnapshots` | the usage history of a key, sampled by requests and the worker |
| `Api` | the eight modules above side by side |
| `TimeWindows` | lemmas on sequences of times whose oldest are dropped; both limiters rest on them |
| `Accounts_proofs` | theorems about `AgentTokens`, `Profile`, `Folders`, `SharedPlans` and `Api` |
| `Discovery_proofs` | theorems about `EventSearch`, `KeySnapshots`, `Concierge`, `Recommendations` |
| `Crawl_proofs` | theorems about the five parts of `Crawl`, and `Crawl` |
| other `*_proofs` | theorems about the module they are named after |
| `MC*` | constants for model checking |

Definitions whose name contains an underscore, such as `Zeros_NoReset`, are
deliberate faults. No specification uses them: they document, next to the
definition they vary, an error that the property named with them in
`PROJECT.json` would detect.

### IngestionWorker

`phase` is the program counter of `run_once` and `next` the index of whichever
loop over sources is running. `run[s]` is the entry of `s` in `source_runs` and
`per_source_counts`: what the fetch returned, whether it erred, and how much
was published when it began (`sync_started_at`).

- `StartFetch` / `FinishFetch` are one turn of the fetch loop. A checkpointing
  source returns either an error with any part of the feed, or everything
  published before it began and perhaps more. A scraper may also come back
  empty without noticing (`SilentZero`).
- `PipelineCommit` is a chunk: a prefix of the batch, in source order, of which
  any rows may be refused. `PipelineFail` is the `except` branch at
  `worker.py:183`, with the canary metrics of all sources that it computes.
- `Acknowledge` is one turn of the loop at `worker.py:198`, with the
  conservative treatment of rejected rows, the save that may fail, the canary
  metrics and the alert.
- `PersistHealth` merges the state of the process over the table and may fail
  silently; `FlushAlerts` takes the list and sends it, whatever sending does.
- `Crash` forgets everything but rows, checkpoint and health table, at any
  point.

What it takes from the parts it stands above is checked where they are
modelled: that a fetch without an error is complete is `CompleteOrReported` of
`TicketmasterFetch`, that a fetch ends is `FetchesEnd`, and that a pipeline
without rejections has stored its batch is `CleanRunDurable`.

Properties. `CheckpointCovered`: what was published before an acknowledged
fetch began is stored. `HealthyMeansCheckpointed`: a source the table calls
healthy has its checkpoint from that run or later. `FailuresAnnounced`: a
source that is failing when the alerts go out is covered by one of them or has
come back empty at least twice. `ZerosMatchHistory`: the zero counter equals the
trailing zeros of the canary history. `CycleEnds`. `SyncSpec`.

### SecretsStore

Redis commands and Lua scripts are atomic, the Python around them is not, so
`get_active_key` is `List`, one `Read` per hash, and `Choose`; seeding is
`SeedId` and `SeedHash`; the sweep resets a key per step. `lease[c]` is the key
a client holds and `left[c]` how many requests its crawl may still make. The
history variable `shut[c]` collects the keys that were not active at any time
since the current choice of `c` began.

Properties. `ShutKeysNotLeased`: a key that was disabled or exhausted
throughout a choice is not its result. `OverspendBounded`: usage passes the
quota by less than one crawl per client. `LifecycleSpec`: each key follows
`KeyLifecycle`. There an operator first decides on a key (`Nominate`, the write of
the identifier) and `Seed` uses that decision up, which makes a seeding
something no reset can be mistaken for: only `Seed` leaves `disabled`, `Recover`
is for exhausted keys, and `Spend` and `Disable` never bring a key back. The
environment key is not seeded but enters by its first use (`Track`).
`ExhaustedRecovers`.

### DataPipeline

`session[w]` is a run: its position in the batch, the target and the record it
looked up, and its uncommitted rows and identities. `Find` is the lookup with
the chunk commit before it; `Insert`, `Update` and `Reject` are the outcomes of
the savepoint; `Finish` is the last commit; `Fail` and `DeadlockVictim` roll the
open chunk back. A session sees what is committed and what it wrote itself, and
waits where PostgreSQL would: for a row or a primary key that another session
has written (`WaitsFor`), if it would write it at all: a replay writes neither.
An identity created by another session since the lookup is refused, either by
`_remember_source_records` (`Stolen`) or by the primary key (`Taken`). The
listing that looks alike is chosen nondeterministically, since text similarity
is not modelled.

Properties. `NoTwinRows`: a row and the identity it was inserted for become
durable in the same commit, and only if nobody had that identity.
`IdentityPermanent`. `CleanRunDurable`: a run without rejections has made all
its stable listings durable, which is what `IngestionWorker` relies on when it
acknowledges. `EventuallyStored`.

### EventMerge

`row` is one event, `seen[s]` what each source said last (for a stable source
the content hash of its record). `Observe` is an observation of any source:
a replay, a first word or a revision, with geocoding and tags that may turn out
differently each time. `MergedPayload`, `Significant` and `Applied` follow
`_merge_event_payloads`, `has_significant_new_information` and
`_apply_payload`, case by case; `MarkPast` is the sweep of the worker.

Abstractions: the confidence of a coordinate is one boolean, at or above the
threshold of radius search; a listing that comes with coordinates names its venue;
a longer venue name is a larger number; the tags are one boolean. Title,
description, address and price follow the rule of the venue.

Properties. `PointMatchesVenue`: a coordinate good enough to search by is that
of the venue the row names. `UndoneByOwner`: who may take an
unavailable event back. `PublishedTimeKept`. `OldEvidencePowerless`: a replay by
a source no better than the row's changes none of start, venue, status and
source. `NoOscillation`: without new revisions, replays change the row only
finitely often.

### The crawl: TicketmasterFetch, ListingCrawl, OutboundLimiter

`TicketmasterFetch` is the search of a provider that serves only the first
`Reachable` events of a result. `windows` is the stack of date ranges still to
read; `PopWindow` takes one, `SplitWindow` halves one that is too dense,
`ReadPage` reads a page and decides whether the window is done, and the undated
listings follow in two passes (`stage`). `ReadFails` is a failed request or the
end of the budget, and `Shift` the provider changing its catalog meanwhile.
`fetchError` and `pending` are `last_fetch_error` and the timestamp to
acknowledge. `CompleteOrReported`: a fetch without an error has read every
listing, dated or not, if the catalog held still.

`ListingCrawl` walks pages by day (`dothebay`, `sfstation`), by slice
(`eventbrite`), by day with detail pages behind (`funcheap`), or one page per section, raising
as a whole: `truncated` is minnesotastreet and luma, which keep the first
candidates of a page (`SectionCap`), `single` sterngrove and 19hz, which keep
them all. Each cap, failure and
early stop of a connector is an action or a disjunct of its own, and
`ExtractCandidate` is a turn of the loop of `input_agent.py`.
`NothingSilentlyMissed`: a fetch that returns without an error has dealt with
every event of its listings. The exceptions are named: three in `Unannounced`,
and in `CutOff` the events that minnesotastreet and luma cut off without a
word. That cut contradicts the documentation (`CappedIsIncomplete`); all of them
are listed below.

`OutboundLimiter`: `Acquire` and `Wait` are a turn under the lock of `acquire`.
`OutboundBounded`: no period holds more calls than allowed, and nobody sleeps
beside a free slot.

### Places and tags: Normalizers, Geocoding, VibeTags

`Normalizers` has one operator per connector, from a listing (title, URL, date,
venue, address, city, published coordinates) to an event and its point: that of
the venue table, of the listing, or the centroid of a city, with the confidence
the code gives it.

In `Geocoding` a cycle observes a listing and normalises it (`Observe` with
`Coerced`), looks up what is below the threshold (`EnrichStarts`), asks the provider
through `resolve` (`Ask`, one query variant after another, with `Defer` for the
budget and outages), `Store`s the merged row, or fails; the script plans
(`PlanStarts`, `PlanEnds`) and writes by id later (`ApplyChange`). Both keep
their answers in `cache` in transactions of their own (`unsaved`).
`SearchableIsPlaced`: a row at or above the threshold of radius search is at a
point of its own venue or address. `NegativesAreAnswers`: for a failure in the
cache the provider has refused each query of the lookup that left it, on the
day it is dated; `refused` remembers what it has said when. `FailuresExpire`: a
place is given up without asking only within the retry period of such a refusal.

`VibeTags` is one run of `_prepare_vibe_tags` per worker: `LookUp`,
`Classify` with bounded concurrency and budget, `KeepAnswer` in a savepoint that
waits for another run's insert of the same key, and the chunk that uses the
tags. `OneChoicePerDescription`: rows carry the tags in the cache, whichever run
asked first, asked last or rolled back.

### The API: AgentTokens, Profile, Folders, SharedPlans

Each of these has threads (`call`, `request`, `job`, `desk`), and a request is
as many steps as it has statements that another request can tell apart.

- `AgentTokens`: minting locks the user's row, counts the live tokens by a clock
  read before the lock was granted, and inserts; admission looks the token up,
  passes the sliding window and counts the request with a conditional UPDATE.
  `TokenCap`, `RevokedStaysOut`, `WindowBounded`.
- `Profile`: a request loads the user, perhaps awaits the tagger, and writes
  back whole the columns its copy changed. `ColumnsIndependent` compares with
  the columns as the requests would have left them one after the other, except
  where two requests for one column overlapped: there the code does lose an
  update, and the property says that nothing else does. `SavedIsSignalled`.
- `Folders`: check and insert are two steps over the unique constraints.
  `JoinedInTime`: nobody is a member without an invite that was good when the
  acceptance began. `OneVoteEach`.
- `SharedPlans`: a plan is frozen in one request and read in others, while the
  events are revised, time passes and links are revoked. `OnePlanPerLink`.

### The API: EventSearch, Recommendations, Concierge, KeySnapshots

- `EventSearch` has the hook and the server. A fetch is sent, counted
  (`Count`), cut (`Page`), received or discarded; a change of the query aborts
  what is under way. `ShownOfQuery`; `GapsExplained`: a list that says it is
  complete has all that stayed, unless a change of the table explains the gap.
- `Recommendations`: the ranking as SQL with its pages, and the loop of
  `score_events`. `PagesAreTheRanking`: the pages in a row show what the loop
  computes, up to the order of events with one score and start, which the SQL
  breaks by id and the loop's second sort leaves as they came.
- `Concierge`: `BuildItinerary` chooses anchor, support and sequence and adds
  the user's own stops, over a corpus with estimated, missing and reversed
  times. `PlanKeepsTime`: a plan without a warning leaves time for every way.
- `KeySnapshots`: report, read the health, try the advisory lock, compare with
  the last sample, insert. `SamplesThinned`.

## Runs

| run | instance | distinct states | shows |
|---|---|---|---|
| `worker` | 2 sources, one checkpointing; history of 2; 2 cycles; 1 crash | 524,728 | all worker properties |
| `worker_restart` | the same | | violation, see below |
| `keys_contention` | 1 key and the environment key, 2 clients, quota 2, 2 requests per crawl | 316,757 | overspending and the refinement |
| `keys_rotation` | 2 keys and the environment key, 1 client, quota 1, 2 requests per crawl | 372,338 | `ShutKeysNotLeased`, `ExhaustedRecovers` |
| `keys_window` | as `keys_contention` | | violation |
| `pipeline` | 2 interchangeable workers, 3 stable listings in 2 orders (1 possibly invalid, 2 that move), 2 nights, chunks of 2, 2 legacy rows, 1 revision, 1 lost run | 816,090 | the safety of the pipeline, no deadlock |
| `pipeline_progress` | the same without revisions, the workers told apart | 93,739 | `EventuallyStored` |
| `merge` | 4 sources (tiers 1, 1, 2, 2; one weak), 14 listings over 2 nights and 2 venues, 3 revisions | 50,491 | what replays and revisions may change, and that they settle |
| `merge_replay` | the same | | violation |
| `crawl` | the five parts of `Crawl`, see below | 2,395,584 | completeness and end of a fetch, limiter, places, tags |
| `crawl_silent_cap` | the same with one section of one page, cut to 1 of 2 | | violation |
| `api` | the eight parts of `Api`, see below | 1,637,374 | all properties of the API |

`Crawl` and `Api` put parts side by side that share no variable: a behaviour
exercises one of them, and the state space is the sum of theirs and not the
product. Nothing is lost by it, since a property of one part mentions no
variable of another, and a step of one changes none. Their instances:

| part | instance |
|---|---|
| `TicketmasterFetch` | 4 listings over 3 hours, undated in both ways, or outside the horizon; pages of 1; 2 readable results per search; windows of at least 1 hour; 8 requests; 1 change by the provider |
| `ListingCrawl` | 6 kinds of site, 2 days, slices or sections of up to 3 pages, each with an oddity or none; caps of 2 pages, 4 requests, 3 candidates, 1 detail page, and 1 candidate of a section that is cut |
| `OutboundLimiter` | 3 tasks, 2 calls in a period of 3, 2 turns each |
| `Geocoding` | all connectors but two that place as another does, 4 kinds of place, 2 lookups per run, 2 observations, negatives that expire after 1 day of 2 |
| `VibeTags` | 2 workers, 2 descriptions, 2 possible answers, 2 calls one at a time, 2 runs |
| `AgentTokens` | 2 threads, 3 tokens, a cap of 2, a limit of 1 in 2 ticks, lifetimes of 2 of the 3 ticks of the clock, 3 requests |
| `Profile` | 2 threads, 2 events, 2 tags, 3 commits |
| `Folders` | 2 people, 2 folders, 1 invite with or without an expiry, 1 event, 2 threads, 2 days, 4 requests |
| `SharedPlans` | 2 plans of up to 2 stops, 2 threads, 3 hours, 1 revision, 4 public reads |
| `EventSearch` | 3 events with 2 possible starts, 2 queries, pages of 1, 3 fetches, 1 change |
| `Recommendations` | 3 events with 2 scores that the penalty makes equal, 2 starts, pages of 1 or 2 |
| `Concierge` | up to 3 events and 2 own stops out of 19 and 8 with missing, reversed, estimated and late times |
| `KeySnapshots` | 2 samplers, 4 reports on a quota of 2, interval 2, retention 3, 4 minutes |

## Bounds

*Worker*: two cycles are the least in which a checkpoint can be replaced, a
counter escalate and a crash separate two health writes; two sources are the
least with an order, and with one that has a checkpoint and one that has not.
*Keys*: overspending needs two clients with more than one request each;
rotation and a choice among managed keys need a second key. With a quota of one
and two requests per crawl the first request exhausts the key and the second
moves its timestamp, which is what `ExhaustedRecovers` has to survive. *Pipeline*: two sessions and three listings give
every order of two conflicting listings around a chunk boundary, and the two
`Orders` the deadlock of a batch that holds the same listings in another order;
a second revision would repeat the first. `MaxEvents` does not bite: pending
inserts of one stable listing block each other, and the two legacy rows leave
room for both others. *Merge*: two sources of one tier, a worse one and a weak
one cover every comparison of tiers; three revisions allow a change, its
contradiction and its return. The proofs remove all of these bounds for the
safety properties.

*Crawl*: four listings against a limit of two make a window split down to one
that is still too dense, and eight requests let the budget end a fetch at every
stage. Three pages are one more than the page caps, three candidates fewer
than two days can show, and two days separate what ends a day from what ends
the crawl. Three tasks are one more than the limiter admits, and second turns meet
the calls of the first. Two lookups are what an address and a venue need; a
budget that ends sooner is the same step as an outage (`Defer`). A venue with an
address has two query variants, so that an outage can follow a refusal, and with
a retry period of one day the second day is one on which a failure has expired. A
section page lists two events, one more than `SectionCap` keeps. *API*: every race modelled is between
two requests; a third begins after one of them has ended, which `MaxRequests`,
`MaxWrites`, `MaxAsked` and `MaxReports` allow. The limit of 1 is the smallest
that two requests can break. The cap is 2, one token fewer than there are: two
tokens must be live and hit, so that a request on one of them sweeps the window
of the other by a later clock. Three events with pages of one are the
least in which a page can slide over an event that stays.

`SYMMETRY` is used for safety only. `CHECK_DEADLOCK FALSE` in the worker's
runs: `MaxCycles` makes the model stop. All other runs check for deadlock; a
part that has reached its bounds stutters in an action of its own (`TokensRest`,
`FetchEnded`), whose guard says that nothing is left to do, so that a request
or a task that could not go on would show.

## Fairness

- `IngestionWorker`: `WF_vars(Worker)`. One event loop runs the worker; every
  HTTP request has a timeout (`app/ingestion/base.py`), so a fetch ends. Crashes
  and the upstream feed get no fairness.
- `SecretsStore`: the worker starts and finishes its sweeps (weak), crawls end
  (weak, `Release`), and time passes. `Tick` is strongly fair because a sweep
  disables it for a moment; time does not wait for sweeps. Choices, requests,
  seeding and disabling get none.
- `DataPipeline`: `WF_vars(Run(w))` for each worker; a session waiting for a
  lock is not enabled, and a deadlock is broken by PostgreSQL
  (`DeadlockVictim`). The failed run comes back (`Return`) only when the other
  session has left the savepoint it was waiting in: the lock is granted the
  moment the victim rolls back, the worker starts again a delay later. Without
  that, two workers could take turns in being the victim for ever. Failures are
  bounded by `MaxFailures`: a run that always fails stores nothing.
- `Crawl`: weak fairness of the steps of a fetch (`FetchFairness`). The worker
  awaits the fetch, and each request is answered, fails or times out. The
  provider's changes (`Shift`) get none. `FetchesEnd` depends on the code's own
  progress: a window that is popped, a page number that grows, a budget.
- `EventMerge` needs none: `NoOscillation` says how often the row can change.
  The parts of `Api` need none: their properties are safety.

## Proofs

Every theorem holds for all values of the constants that the module's
assumption allows. The assumptions are types and ranges, with these that say
more: every order of a batch holds every listing (`PipelineAssumption`); a
listing that comes with coordinates names its venue (`MergeAssumption`); token
rows are finitely many (`TokensAssumption`), and so are events, candidates,
descriptions and listings of the other modules that count or sort them; the
names for nobody, nothing and not cached are no thread, person, folder or set
of tags; a page is no longer than the part of a result that can be read
(`FetchAssumption`); the venue table is not empty (`NormalizersAssumption`); a
user's own stop has a known hour and does not end before it starts, which
`ConciergeAssumption` takes from `UserStop.ordered`. TLC evaluates
all of them.

| theorem | property | what makes it inductive |
|---|---|---|
| `IngestionWorker_proofs!TypesHold` | types | `TypeInv` adds what the next step needs, for example that the loop index is a source while a fetch is running |
| `CheckpointSound` | `CheckpointCovered` | `CoverInv`: a fetch without an error has got everything published before it began; what was read and not rejected is in the batch or stored; an idle worker has no run |
| `WorkerImplementsSync` | `SyncSpec` | with `NotOlder`: a checkpoint is no later than the start of the fetch that may replace it |
| `HealthyIsBacked` | `HealthyMeansCheckpointed` | `BackedInv` says the same of the process's copy, which the table is merged from |
| `ZerosAreHistory` | `ZerosMatchHistory` | inductive as it stands, given the types: counter and history change in one step |
| `NoSilentFailure` | `FailuresAnnounced` | `AnnouncedInv`: during the loop of acknowledgements, the sources already passed are announced |
| `SecretsStore_proofs!TypesHold` | types | a client in `using` has a key; a finished choice leaves no candidates |
| `ShutNeverLeased` | `ShutKeysNotLeased` | `FoundOpen`: a candidate was active when its hash was read, and the keys shut since the choice began only shrink |
| `StoreImplementsLifecycle` | `LifecycleSpec` | `StatusMatchesUsage`: refreshing the environment key could otherwise change a status against `KeyLifecycle`. The refinement maps the operator's unfinished seeding to `KeyLifecycle!seeding` |
| `OverspendIsBounded` | `OverspendBounded` | `SpendInv` bounds the count together with `Claims(k)`, the requests that may still be reported on `k` |
| `DataPipeline_proofs!TypesHold`, `IdentityIsPermanent`, `NoTwins` | `IdentityPermanent`, `NoTwinRows` | `IInv`, below |
| `CleanRunsAreDurable` | `CleanRunDurable` | `AllFed`, below |
| `EventMerge_proofs!TypesHold`, `PointIsVenues`, `TierIsOwners` | `PointMatchesVenue`, `TierOfOwner` | `MergeInv`: the row is `Honest`, and if a source has named a venue the row has one, so that a listing without one cannot bring a point to it |
| `OnlyOwnersUndo`, `PublishedTimeStays`, `ReplaysArePowerless` | `UndoneByOwner`, `PublishedTimeKept`, `OldEvidencePowerless` | action properties from `MergeInv`, by the cases of `MergedPayload` |
| `Accounts_proofs!TypesHold`, `CapHolds` | `TokenCap` | `CapInv`: only the holder of the user's row is past counting, its clock is past, and who has found room still has it (`RoomLeft`), since fewer tokens live later |
| `RevocationFinal` | `RevokedStaysOut` | from `CapInv`: a revoked token has a row, which the insert does not overwrite |
| `WindowIsBounded` | `WindowBounded` | `WindowInv`: the hits let through are in order, any two the limit apart are a window apart, and the hits that count are those without some first ones that are a window older than a sweep or the last hit (`Counted`) |
| `ColumnsKeptApart`, `SavesAreKnown` | `ColumnsIndependent`, `SavedIsSignalled` | `ProInv`: the saves in every copy of the row have their signals |
| `MembersJoinedInTime` | `JoinedInTime` | `JoinInv`: a request that goes on to join, and each member, began while the invite was good |
| `VotesCountOnce` | `OneVoteEach` | `VoteInv`: a ballot, cast or on its way, is of a person of the folder and on an item that is there; no person has two on one item |
| `LinksAreConstant` | `OnePlanPerLink` | `PlansInv`: each answer is the frozen plan, or came when the link was dark already |
| `AccountsAreSafe` | the eight of `Accounts_proofs` | no invariant: a step of `ApiSpec` is a step of one part, or stutters, for each part |
| `ScreenIsOfQuery`, `ListIsExplained` | `ShownOfQuery`, `GapsExplained` | `SeaInv`, below |
| `PagesMakeTheRanking` | `PagesAreTheRanking` | `RecInv`: the pages so far are a beginning of the whole ranking; the rest is about the two orders, below |
| `PlansCanBeKept` | `PlanKeepsTime` | `ConInv`: the itinerary was made of a choice of events and an order of them and the user's own stops; the rest is about the operators, below |
| `HistoryIsThinned` | `SamplesThinned` | `SnaInv`: only the holder of the lock compares and inserts, and what it is about to insert no sample makes redundant (`Redundant`) |
| `FetchIsCompleteOrReported` | `CompleteOrReported` | `FetInv`, below |
| `NothingIsSilentlyMissed` | `NothingSilentlyMissed` | `CraInv`, below |
| `SearchFindsThePlace`, `FailuresAreAnswers`, `FailuresAreAskedAgain` | `SearchableIsPlaced`, `NegativesAreAnswers`, `FailuresExpire` | `GeoInv`: observation, row, copy and planned change each have a point that fits their venue or address, and so has every answer in the cache and on its way; a negative entry was refused for all its queries on its day, and a lookup goes on to a later query only when those before were refused today (`RefusedToday`), which no day passing undoes since a day ends between runs |
| `OutboundIsBounded` | `OutboundBounded` | `LimInv`: calls are in order and the limit many are a period apart, the limiter has forgotten only calls a period old, and a task sleeps no longer than the oldest call that counts |
| `ChoiceIsOne` | `OneChoicePerDescription` | `TagInv`: what a run goes on with is what is committed, or what it is about to commit where nothing is, and no two runs are about to commit one description |
| `ListingsArriveSafely` | the seven of `Crawl_proofs` | as `AccountsAreSafe`, for `PartsSpec` |

In `DataPipeline_proofs` one invariant, `IInv`, carries the first three
theorems. Of a session: what a savepoint is about to write exists, and a listing
for which no row was found has no identity (`Targeted`); a pending identity
belongs to a visible row, the one a committed identity already names (`Owned`);
a pending new row has the only identity of its listing (`Claimed`). Of two
sessions: they have written neither the same row nor the same identity
(`Apart`), which is what the locks are for. A step either writes to its session
only (`LocalStep`) or commits it (`CommitStep`), and only a commit changes what
is committed (`OnlyCommits`). Even the types need the invariant: a merge into a
row that is not there would not be a row. `AllFed` adds the promise of a run:
while it has rejected nothing, every stable listing it has passed has an
identity, pending or committed, and a replay is recognised by a record that
exists. When the loop is through, its last commit makes that
`CleanRunDurable`.

*A fetch* (`FetInv`). A dated listing has been read, or is in a window of the
stack or in the one being read; an undated one has been read when its pass is
over. Of the result being read, the hits on the pages so far have been read:
they are those with fewer hits before them than these pages hold
(`NextPageRead`), and when there are no more pages than that, these are all
(`LastPageIsAll`). `Halves` says that a split loses no hour. An error or a
change by the provider ends the obligation.

*A crawl* (`CraInv`). While it lasts, the units before the current one have been
read, and of the current one the pages before its page (`CrawledTo`); whatever
ends a unit or the crawl early is a problem, or shows that there was no more.
From then on what is due is followed from the links and the merged list to what is
kept or rejected. Of a section that is cut only what stands before the cut is due
(`SectionShown`); the rest is `CutOff` unless another section shows it.

*A search* (`SeaInv`). An event of the query has a rank in the table, and a change of
the table moves ranks only one way as long as nothing leaves
(`ArrivalsMoveDown`). The list on the screen covers the ranks it has reached
(`Reaches`); the request it waits for asks for what comes next, and its page, put
behind the list, reaches as far (`Waited`). As long as nothing changed at all, each
event stands at its rank (`Exact`), so that none is shown twice.

*A ranking.* SQL and loop sort by two strict total orders on one set. Each
list has on place `n` the one candidate with `n - 1` others before it
(`ArrangedIsList`). Better candidates come first in both (`BetterComesSooner`),
so what stands on one place in the two lists is tied (`SamePlaceIsTied`), and
the penalties of the loop, which look at the neighbour, agree with those of
the page (`PenaltiesAgree`).

*A plan.* Sorting by start is again one of the orders of a finite set
(`SortedByStart`). `CanFollow` chooses each stop so that the next begins after
it and the way (`FollowingIsInTime`); a warning is shown exactly where that
fails between two neighbours (`PlanOfStops`), and without estimated hours starts
and ends are transitive, which carries it to stops further apart.

Where an argument is by nature an induction over a sequence or a number, it is
put in one of two ways that first-order provers can follow. One is to count:
the place of an element in a list is how many elements stand before it, and
`FS_Subset` compares counts. The other is a least counterexample, from `WFMin`
of the library (`BothGrow` and `LowSets` in `TimeWindows`).

What the attempts found. `WindowBounded` was false beyond the bounds of the run:
a sweep by a request with a later clock, on another token, forgets hits that an
earlier clock still needs. `disordered` now records that too, and the run has the
tokens to show it. `PagesAreTheRanking` claimed one order for ties, which
`score_events` does not have: its second sort is stable and ignores ids.

**Only model-checked.** All liveness: `CycleEnds`, `ExhaustedRecovers`,
`EventuallyStored`, `NoOscillation` and `FetchesEnd`, since TLAPS does not handle
liveness under fairness, and that no run deadlocks, which is a statement about
ENABLED. The four properties that are violated have counterexamples. Every
other property of a run has a theorem. `TierOfOwner`, that the tier of a row is
that of its source, is proved and needs no run.

## Disagreements between code and documentation

With a run that shows them:

1. *A restart forgets the last success* (`worker_restart`). `docs/operations.md:149`
   says `last_success_at` keeps its history either way. The previous state is
   taken from the process (`worker.py:323`), and the whole row is overwritten.
2. *The window of an exhausted key is counted from its last report*
   (`keys_window`), not from its exhaustion, as the docstring at
   `secrets_store.py:243` has it: a crawl goes on using the key it leased. The
   key still recovers (`ExhaustedRecovers`), later.
3. *A replay can revert newer facts* (`merge_replay`). The comment at
   `data_pipeline.py:518` excludes it; an unchanged listing of a better tier,
   applied for its new tags, takes the start of the row.
   `OldEvidencePowerless` is what does hold.
4. *A page past its cut loses listings and the fetch looks healthy*
   (`crawl_silent_cap`). `docs/reliability-fixes-2026-09-29.md:13` has capped
   fetches remain incomplete, `docs/stabilization-2026-09-29.md:27` has capped
   crawls report incomplete coverage. minnesotastreet returns `candidates[:40]`
   (`minnesotastreet.py:244`), luma `[:50]` (`luma.py:128`, `:195`), and neither
   sets `last_fetch_error`; eddies_list cuts its issues and items in the same way
   (`eddies_list.py:127`, `:207`). `NothingSilentlyMissed` is what does hold.

Seen while modelling, without a run of their own:

- *Status does not only escalate.* `docs/architecture.md:67` and the comment at
  `data_pipeline.py:838` say so; an authoritative revision resets it.
  `UndoneByOwner` is what does hold.
- *A placeholder can be geocoded after all.* `geocoding.py:83` and `:419` say that
  a venue such as "TBA" is no location, unless a real address comes with it;
  funcheap (`funcheap_sf.py:353`), luma and minnesotastreet make an address out
  of the venue's name when they have none. `SearchableIsPlaced` excuses the rows
  with such an address.
- *The backfill can place a venue the row has left.* `apply_changes` writes by id
  what was planned from rows read earlier (`backfill_geocode.py:120`), also over
  a point of the hand-verified table, which `docs/architecture.md:88` says nothing
  geocoded outranks. `SearchableIsPlaced` excuses a row that a cycle changed in
  between. The script also asks without a city (`:111`), under other
  cache keys than the cycle.
- *Meetup's centroids pass for places*: without coordinates of its own an event
  gets the centre of the region with a confidence of 0.85 or 0.6 (`meetup.py:91`).
- *A crawl of listing pages can miss events and say nothing*: a detail page of
  funcheap that raises is skipped (`funcheap_sf.py:260`), so are later index pages
  without embedded events; a slice of eventbrite that announces two pages and
  repeats the first ends quietly.
- *A merge can leave `end_at` before `start_at`* (`data_pipeline.py:907` repairs
  them in a revision only); `Concierge` treats such an end as unknown. An
  estimated stop between two others hides that those overlap: the warning
  compares neighbours.
- *The sliding window and the samples of a key trust the clock read before the
  lock*: a thread held up between the two writes out of order. `WindowBounded`
  and `SamplesThinned` except it.
- *An update of one column is lost* when two requests change it at once
  (`discovery.py:782`, `:852`), and the slower of two first votes, memberships or
  items is answered with a 500 (the handlers of `social.py` do not catch the
  `IntegrityError`). `ColumnsIndependent` and `OneVoteEach` say what is safe
  nevertheless.
- `docs/architecture.md:181` has the environment fallback last until a restart,
  whereas `secrets_store.py:348` retries Redis after 30 seconds;
  `docs/architecture.md:42` describes deduplication within the batch before the
  database is touched, which `process_raw_events` no longer does
  (`data_pipeline.py:118`).

## What is not modelled

- The reading of HTML, JSON, feeds, dates and prices, and text similarity: what
  a page lists, which row looks alike and which answer of the geocoder fits are
  choices. `Normalizers` begins where a listing's fields are known.
- The crawls of meetup, reddit and eddies_list (a search per keyword, a mailbox);
  what they make of a listing is in `Normalizers`.
- `end_at`, price, categories, performers and catalog facts of a row in
  `EventMerge`; the field checks of the pipeline (an invalid row is one it
  rejects).
- What a filter, a prompt or a score means: the events that pass a query, the
  order a prompt prefers and the raw score are given. `service_coverage`, the
  calendar export and the summaries of `health.py` only read and compute.
- `empty_is_success`: no source sets `last_fetch_was_incremental`.
- `NoopSecretsStore`, used while Redis is down: it has no state to get wrong.
- The sharing of the database between `Api` and the pipeline, beyond what the
  parts take from it: an event that ends, moves, is cancelled or revised
  (`Change`, `Revise`).
- Login, scopes and every handler that only reads one row.
- Rendering in the web application, the generated API client, the stateless MCP
  server, migrations and demo data (run once, offline; the legacy rows of
  `DataPipeline` are what migration 003 found), configuration, logging and
  redaction: no protocol of their own.

## Plan

Done: the worker, the key store, the pipeline, the merge rules, the crawl, places
and tags, and the handlers of the API that write, page or compose; proofs of all
their safety properties.

Candidates for more, in this order:

1. `TicketmasterFetch` shown to implement the fetch of a checkpointing source in
   `IngestionWorker` by a refinement mapping, where now a property, with its
   theorem, states what the worker assumes.
2. `end_at` and price in `EventMerge`, with the repair at `data_pipeline.py:907`.
3. A bound on the number of changes that replays can make to a row, from which
   `NoOscillation` would follow.
