# bodo: specifications, model checking and proofs

bodo runs calls for speakers: submissions, AI and human review, decisions, an agenda, mail,
webhooks and a sync with Accelevents. It is a Next.js application on Cloudflare Workers that
keeps its data in Airtable. Three facts about that platform shape everything here:

- Airtable has no transactions, no compare-and-swap and no unique keys. Every read and every
  write is a call of its own, which can be refused, or be carried out with its answer lost.
  The scheduler under all of them sends a call again after a transport failure or a 5xx, up to
  five times (`services/airtable/scheduler.ts`), creates included.
- An isolate can end between any two calls, and the timers a request armed end with it.
- Background work is cron ticks, and two ticks may overlap.

The one place with real mutual exclusion is a Durable Object, the claim guard. The program is
correct only as far as its protocols over leases, listings, counted attempts and fences are.
Those protocols are what is specified, checked with TLC, and for the greater part proved with
TLAPS.

Paths below are relative to the repository's own `src/`.

## The system

| Component | State it keeps | Operations | What is hard | Must hold |
|---|---|---|---|---|
| Claim guard (`services/guard/claim-guard.ts`, `utils/cf-claims.ts`) | one record (holder, expiry) per key and one alarm | claim, release, alarm | lost answers, alarm of an earlier claim, death between put and setAlarm | one holder inside a promised lease; no key held for ever |
| Email outbox (`features/comms/drain.ts`, `outbox-lease.ts`, `services/airtable/mutations-outbox.ts`) | one row per message: status, attempts, lease columns | enqueue, list, claim, record, send, fence, mark | stale listings, overtaken sweeps, crashes, lost answers of the provider | `sent` means delivered; outcomes are final; mail settles; attempts are capped |
| AI pre-screen (`features/jobs/prescreen*.ts`) | one row per submission of a round, the AI review, two kinds of claim | press (create, reset), drain (claim, stamp, score, save, record) | overlapping drains, late creates, sample to live | one row each, but for a create sent again; scored by one drain at a time; capped; the label is true |
| Airtable rate window and scheduler (`services/airtable/rate-window.ts`, `scheduler.ts`) | per isolate: next slot, promise chain, registered sleeper | admit, take, refund, retry | requests that die in the queue, refunds racing sleeps | spacing kept; the queue never wedges |
| Airtable read cache | cached reads by tag | read, invalidate | invalidation against a read in flight | no stale read after one's own write |
| Accelevents sync (`features/jobs/accelevents-sync.ts`, `services/accelevents/*`) | mapping table, attempt log, a lease per entity | walk, push, retry sweep | a create whose mapping is not recorded; mappings read before any lease; walks longer than a lease | one mapping per entity; failures settle; nobody on stage is left out |
| Webhook delivery (`features/webhooks/*`) | delivery rows, subscriptions | announce, enqueue, deliver, retire orphans | subscription deleted in flight, two writes per outcome | every delivery settles, none after its end |
| Event import (`features/imports/*`) | run with phase and checkpoint, ledger, lease | press, claim, advance, record, finish, fail | repeated phases, two holders at work at once, the wizard against its own lease | a duplicate costs a fault, or two at work; `done` left nothing out; a run ends |
| Submission lifecycle (`features/submissions/*`) | status, `notifiedAt`, decision mail, the cached list | stage, chip, notify, withdraw, submit | decided from a cached copy; mail, status and announcement are three writes | told once per decision; what is committed was told last |
| Review and autosave (`features/review/*`, `services/airtable/mutations-review.ts`) | a review row, the queue behind each score card, the cached list | change, save, flush, leave, distribute | edits during a save in flight; the card is gone before its save is; read, then create | what is shown as saved is stored; a second row has a known cause; no edit is forgotten |
| Authentication (`features/auth/*`) | sessions, single-use links | redeem, impersonate, return | two redemptions of one link | a link opens one session |
| Agenda (`features/agenda/*`) | sessions in slots and rooms | place, detect, resolve | swaps and chains of moves | resolution leaves no conflict it reports solved |
| CRM import and merge (`features/crm/*`) | contacts | plan, commit, merge, relink | a merge that stops half-way | no contact and no link is lost |
| Reminders, tasks, bundles, forms, portal, API, AI ask, CMS, templates, UI, schema mapping, scripts | see `PROJECT.json` | | mostly sequential, data or formatting | |

How they interact: every sweep and every single-use token takes a claim from the guard;
reminders, decisions, bundles and bulk mail end in the outbox's enqueue; status changes are
announced to webhooks; the press of the pre-screen button queues what the cron drain scores;
everything that reads or writes Airtable passes through the rate window of its isolate.

## Modules

| Module | Models | Uses |
|---|---|---|
| `ClaimKey` | the guard's record and its pure verdicts: `Grants`, `AfterClaim`, `Releases`, `AfterRelease` | |
| `Lease` | what callers may assume of keys: at most one owner, taken only when free (abstract) | |
| `ClaimGuard`, `MCClaimGuard` | the Durable Object behind one key, with its callers | `ClaimKey`, implements `Lease` |
| `Message` | what an organizer expects of a message (abstract) | |
| `Outbox`, `MCOutbox` | producers, sweeps, rows, the provider | `ClaimKey`, implements `Message` |
| `OutboxProofs` | theorems about `Outbox` | `Outbox` |
| `Prescreen`, `MCPrescreen` | presses and drains over the rows of one round | `ClaimKey` |
| `PrescreenProofs` | theorems about `Prescreen` | `Prescreen` |
| `RateWindow`, `MCRateWindow` | the calls of several requests through one window | |
| `RateWindowProofs` | theorems about `RateWindow` | `RateWindow` |
| `AcceleventsSync`, `MCAccelevents` | walks and retry sweeps over mappings, log and remote objects | `ClaimKey` |
| `AcceleventsProofs` | theorems about `AcceleventsSync` | `AcceleventsSync` |
| `Webhooks`, `MCWebhooks` | announcements, delivery sweeps, subscriptions that go away | `ClaimKey`, implements `Message` |
| `WebhooksProofs` | theorems about `Webhooks` | `Webhooks` |
| `ImportRun`, `MCImportRun` | presses, the wizard's calls and the cron sweep over one import | `ClaimKey` |
| `ImportRunProofs` | theorems about `ImportRun` and about the guard its runs are claimed from | `ImportRun`, `ClaimGuard` |
| `Decisions`, `MCDecisions` | the presses that decide one submission, its mail and its announcements | |
| `DecisionsProofs` | theorems about `Decisions` | `Decisions` |
| `ReviewSave`, `MCReviewSave` | the score cards opened on one review, their autosave queues, the saves | |
| `ReviewSaveProofs` | theorems about `ReviewSave` | `ReviewSave` |

`Outbox`, `Prescreen`, `AcceleventsSync`, `Webhooks` and `ImportRun` compose with the guard by
holding one `ClaimKey` record per key and changing it with the same operators as `ClaimGuard`.
The alarm and the death between put and setAlarm are left to `ClaimGuard`:
`AlarmOutlivesClaim` is what makes that sound, since the alarm never clears a record somebody
may rely on.

### Conventions

- **Time** is counted down: a record holds the ticks left of its lease, not its expiry. This
  keeps the states finite and needs no bound on the clock. `Tick` lowers all of them at once.
- **Calls** to Airtable, the provider and the guard are one step each, and have three
  outcomes: carried out and answered, carried out with the answer lost, refused. Batches may
  land in part. Nothing between two calls is atomic.
- **Creates sent again** (`SentAgain`): the first sending landed, its answer was lost or was a
  5xx, and the scheduler posts the same body once more. Modelled where a second row counts: the
  rows of a pre-screen, the mappings of the Accelevents sync, reviews, imported speakers, sessions
  and lookups. It is harmless for upserts by key (outbox rows, webhook deliveries), updates, log
  rows and an import's mappings (the newest counts, and both say the same). An import's row
  created again is a press whose answer was lost: a run no wizard calls for. The two sendings
  need not land next to each other: other steps come between `SentAgain` and the sending that
  is answered.
- **Deaths**: `Die`, `PressDies`, `ClaimCutShort` end an invocation between any two calls.
- **Faults**: the newer modules count what goes wrong. `Fault` takes one from the budget
  `MaxFaults` (a refused call, a lost answer, a call sent again, a death), `Fine` takes none. This lets a property
  say what a fault may cost, and liveness say "once things stop failing".
- **Holders**: the code draws a fresh uuid per run. A model has few identities, so one is used
  again when nothing records it any more (`Fresh` in `Outbox` and `AcceleventsSync`, the guards
  of `Start`, `Press`), or, in `Webhooks` and `ImportRun`, what its last use left behind is
  handed to `Gone`, the holder that stands for every invocation that is over.
- **History variables** (`promised`, `accepted`, `calls`, `settled`, `since`, `resent`, `loose`,
  `stale`, `company`, the fields `overtaken` and `clear`) are read by properties, never by a guard
  of the code's. They name causes: a property that the code keeps except for a known cause says
  which entity, row or caller met it, and holds for all others. Where there is such an exception,
  the property without it is stated beside it, and is violated (see Findings).
- **Mutants**: a definition introduced as "Mutant of X" is a plausible bug in X. Nothing uses
  it; each is there so that a property can be seen to fail when X is replaced by it.

### ClaimGuard

State: `stored` and `alarm` are the object's storage, `promised` the time left of what each
caller was told, `failed` the callers whose `claimOnce` threw. `ClaimHeld` and `ClaimFree` are
the two branches of the claim handler; `ClaimCutShort` is a death between `put` and
`setAlarm`; `Release` and `Alarm` are the others. Requests to one object are handled one at a
time (the platform's input gate), so a request is one step; what is not atomic is the caller.
The stand-in used in a local run is the same state machine and is not modelled twice. Its
specification is `GuardSpec` and its state `guardVars`, so that it can be extended beside a module
that has claims of its own.

### Outbox

A row has its columns `status`, `attempts`, `holder`, `left`; `claim[k]` is the guard's record
of `outbox:<row>`. A sweep holds what it knows: the rest of its listing (`due`), the attempts
it read (`seen`), its age. Its `pc` names the call it is about to make:

    List -> claim -> reap                                   (attempts reached the cap)
                  -> record -> send -> fence -> mark         (sent)
                            catch -> fail                    (anything thrown; failed or dead)

The lease columns count from the start of the sweep and the guard's lease from the claim, as
in the code. Producers read the missing keys and upsert later; an upsert over a row that
exists by now resets status and attempts and leaves the lease columns (`Queued`).

Left out: `sendAt` and the event filter (every row is due once its lease lapses, keys are
numbered in the order of `sendAt`); the write of a sweep that died landing later; the content
of messages. A configured provider is assumed, with an idempotency window as long as the
retries. Without one, `send.ts:34` answers `delivered: false` and the drain records the row as
sent, as the code documents.

### Prescreen

`job` is the sequence of rows in queue order. A press claims the round, reads (`PressRead`
computes `prescreenTargets`), creates, resets, releases; a failed create leaves the press in
`lost`, from where more of its rows may land. `SentAgain` lands a part of what is being created,
which is then created again; `resent` has the submissions it happened to, and `MaxJobs` bounds the
rows such a sending may bring the queue to (at 0 it never happens). A drain lists `Eligible` rows and per row claims
the submission, stamps the attempt, scores, saves the review, records `done`; `Catch` records
a failure and leaves `mocked` as it was; `Release` hands the claim back. `GoLive` switches the
deployment from the sample scorer to a live one.

Left out: what the model answers; `saveReview`'s own read-then-write, which is one step (its
create sent again is modelled in `ReviewSave`); the
order of reads made with `Promise.all`, also one step. Rows that land late land in the order
of the queue. Leases are sized in the code to outlast what they cover
(`WORST_CASE_CALL_MS`), which `Tick` respects for everybody not in `Slow`.

### RateWindow

`slot` is `nextSlotAt`, `sleeper` and `due` the registered nap, `tail` the call the next one
waits for, `stood` the time since `advancedAt`. `Ask` is `admit` up to its first await, with
both repairs; `Watch` a tick of `waitForTurn`; `Go`, `Sleep` and `NapEnds` the three paths of
`take`; `Cached`, `Answered`, `Refused` the outcomes of `tryOnce` with `refund` and the retry.
What a resolved promise continues runs before the next timer, answer or request (`Drained`),
which is how an isolate's microtasks behave. Calls asked in one synchronous block are allowed
(`Beside`).

`Die` ends a request with its timers. Whether its continuations still run when a live request
resolves what they wait for is told both ways in the code's comments (`rate-window.ts:96` and
`:125`), so `Corpses` allows both. Left out: an answer of Airtable's that comes within the
cache ceiling and a cached one that comes after it. The first breaks the cap, as
`rate-verdict.ts:55` says at length; the second only costs a slot. Also left out: timers
that fire late, and the length of the backoff, which may be anything.

### AcceleventsSync

`local` is the version an organizer sees of an entity, `remote` the objects Accelevents holds
for it (more than one is a duplicate), `mapping` its rows in IntegrationMappings, `log` its
newest SyncLog row, `claim` the guard's record of `accel:<identity>`, which is never handed
back. A payload is a version and the remote ids it refers to, and its hash is the payload. A
walk (`syncEvent`, or one entity with what it needs) and a sweep read, and then per entity, in
dependency order (taxonomy, speakers, sessions),

    next -> Block (a reference has no remote id yet) | Skip (accepted before) | Claim
    send -> map -> ok          a throw in any of them -> fail, the failed row

A walk reads the mappings and then the records; a sweep reads the mappings and the failed rows
at once, in either order. Neither reads again after a claim. `ReadMappings` throws in a sweep
that meets two rows for an entity, which a walk's index does not notice. `Collides` is the
speaker whose address Accelevents knows already: the one that is there is taken. A log row is
the newest by a time taken before the mapping was saved, so an `ok` row can arrive late
(`WriteLog`).

Nothing is assumed of how long an invocation takes: a full walk is minutes (`sync.ts:20-26`), the
leases are 120 s. `Span` only bounds the ages a run explores. `loose` has the entities that
somebody was granted, or still had in hand, when half a lease or more had gone by since its
invocation began (`Old`), and those whose mapping was created again (`SentAgain`). The two
mapping-related properties are about all the other entities, among them whatever the same long
walk came to in time.

Left out: an object or record deleted on either side; the reverse pull's ledgers; the backoff
inside the HTTP client.

### Webhooks

Like `Outbox`, with the differences the code has. `subs` are the subscriptions that exist. A sweep
lists, joins the endpoints on (`Join`), retires the rows that lost theirs without a lease
(`Retire`), and per row claims, records, posts, fences and writes the outcome in two calls
(`WriteOutcome`, `WriteHealth`), both inside the try, so that a failure of the second one is
caught too (`Catch`) and comes to a second outcome. A POST that fails is a result, not a throw.

Left out: the content of the health columns, which decide nothing (a subscription is not
switched off by failures), so the second write is only a call that may fail; muting, secrets
and bodies (`SigningFails` is that the signing throws).

### ImportRun

`run` has the columns of ImportRuns, `tab` is the wizard's browser tab, `records` counts what
was created for each thing the source names, `newest` is the newest mapping of a remote id.
An invocation claims `import:<run>`, records its holder and lease on the row, loads the
mappings and the source, and does one phase:

    before (fence) -> work (create, map one by one or in batches) -> after (fence)
           -> advance -> settle (-> finish, in the last phase)

A speaker with an address is looked for (`LookUp`) and created in a second call (`post`);
everything else is created without looking. `SentAgain` is a create that the scheduler repeats.
A throw goes to `caught`, `refence`, `burn` (`recordFailure`). The wizard calls again on
`advanced` and stops on anything else (`End`); a Sessionboard run (`tokened`) can be worked only
by the wizard, which holds the token, and the cron sweep skips it.

An invocation may outlast its lease by any time, and then a second one works beside it, on the same
run or on the run of a second press. Each tick that passes while an invocation is under way takes
one from `MaxFaults` (`slow` counts those apart, so that they do not excuse a duplicate). Three
histories say what came of it. `company`: the invocations that had another one at work since they
loaded their index. `loose`: the entities one of those created a record for, and the speakers with
an address whose create was sent again. `stale`: the invocations whose run has ended since they
looked at its row.

Left out: the counts on the row, which the code gives up on after a retry; the preview;
normalization; participants and updates of records that exist. What an organizer does meanwhile
is one action, `GiveAddress`, because the Needs-email list depends on it.

### Decisions

One submission. `row` is its record, `list` the cached copy every press reads first, `mails`
the outbox's decision mail by idempotency key (speaker, decision, epoch), `announced` the
statuses webhooks were queued for. A press decides from the cached copy (`Target`, which holds
the rules of `transitions.ts`), and then

    keys -> queue ->  (a Notify: which mails are missing, their upsert)
    write -> announce (the status and the cache's invalidation, the webhooks)

without reading again. A decline is addressed to the submitter if the submitter is on the cast, and
otherwise to nobody (`DecisionAudience`); `Submitter` may be anybody. `Lapse` is the cache's expiry; `QueueFails`, `WriteLost` and `Stop` are the
faults. `presses` counts the presses and is the clock that stamps `notifiedAt`.

Left out: role checks; drafts and their promotion; a read that began before an invalidation and
fills the cache after it; the write that repairs a track (it touches `trackId` only). The
speaker portal's own cached copy is taken to be the list.

### ReviewSave

One reviewer, one submission, one round. `rows` are its Reviews rows (more than one is a
duplicate), `view` the cached list a page is rendered from, `card` the score cards opened so far,
each with its queue: `draft`, `stored` (the draft of the last save that landed), `flight` (the
call it waits for), `timer`, and the `status` on screen. A draft is the set of edits it contains,
since merging keeps all of them and a save sends all of them; so the code's two version counters
are equal exactly when `draft = stored`.

    Render -> Mount -> Edit ...     TimerFires, Save -> Run -> (joined | nothing new | a call)
    a call:  Find -> Write -> Answer (-> the chase: another call)      Fails, Cut -> Told

A card is left with `SaveAndNext`, which runs the queue and does not wait, or with `Drop`, which
cancels the timer. Either way its queue and its call live on, unseen. `Cut` is the browser losing
an action that goes on in the worker. `loose` counts calls that were left or cut off from, and
`resent` the creates that landed and were sent again (`SentAgain`).

Left out: the rubric's filter and what recusal clears; other reviewers and the override of an AI
review, which write other rows or the same row from another component; a second tab; a read that
began before an expiry and fills the cache after it; what the Next.js router does to order the
actions of one page.

## What is checked

Every run is exhaustive for its constants. Times are for two workers.

| Run | Instance | Question |
|---|---|---|
| `claim_guard` | 3 callers, 2 lease lengths | exclusion, the alarm, no key for ever, `Lease` implemented |
| `outbox_serial` | 2 keys, sweeps one at a time, 1 producer | attempts are counted before calls; the outbox implements `Message` |
| `outbox_overlap` | 1 key, 2 sweeps at once | `sent` is delivered, the fence's window, mail settles |
| `prescreen_serial` | 1 submission, 2 drains one at a time, a press that may outlive its lease, a create sent again (63 thousand states, 40 s) | cap of model calls, nothing scored again, a round settles |
| `prescreen_overlap` | 1 submission, 2 drains, 2 presses, sample to live, a create sent again (1.8 million, 110 s) | one row each but for that, scoring is exclusive, the label is true |
| `rate_window` | 2 requests, 3 calls, both may die, both kinds of corpse | spacing, refunds, no wedge |
| `accelevents` | a tag and a session that names it, a walk and a sweep that may outlive their leases, one edit, 1 fault (560 thousand, 2 min) | one mapping, a complete cast, true hashes, failures settle |
| `webhooks` | 2 deliveries to 2 subscriptions, sweeps one at a time, 2 faults (210 thousand, 45 s) | implements `Message`, every delivery settles |
| `imports` | 2 speakers and 2 sessions, 2 invocations that may outlive their leases, 1 fault or tick under way, both kinds of source (540 thousand, 100 s) | what an interruption may cost, `done` is complete, an outcome stays, a run ends |
| `decisions` | 2 requests at once, 6 presses, a cast of 2, 1 fault (1.7 million, 40 s) | who was told what, and how often |
| `review_save` | 2 cards, 3 edits, 1 fault (380 thousand, 1 min) | what is shown as saved, second rows, no edit forgotten |
| `import_wizard` | the import with nothing failing | expected to be violated, see Findings |

Beside the runs of the table, these configurations are kept to be run by hand. Expected to be
violated, one property each: `MCOutboxStale`, `MCOutboxRequeue`, `MCPrescreenAgain`,
`MCPrescreenLabel`, `MCRateWindowBounded`, `MCAcceleventsAgain`, `MCImportList`, `MCImportIds`,
`MCDecisionsRestaged`, `MCDecisionsChip`, `MCDecisionsAway`, `MCReviewSilent`, `MCReviewDropped`,
`MCReviewTwice` (see Findings). For some findings a property is put in the place of a run's own:
`OneRow`, `OneMapping`, `OnlyFaultsDuplicate`, `NeverReopened`. Larger instances that pass:

| Configuration | Instance |
|---|---|
| `MCPrescreenLive` | two drains that overlap, no create sent again: a round settles (67 thousand, 45 s) |
| `MCWebhooksOverlap` | two sweeps at once: `SentWasAccepted` and settling (2 min) |
| `MCImportTwice` | two runs of one source, one after the other or side by side, an id that a room and a session share, nothing fails: the import's types and safety properties (11.3 million, 5 min with 8 workers) |

Larger instances of `Prescreen`, `Decisions`, `ReviewSave` and `AcceleventsSync` are not kept: what
they checked, the type invariants included, is proved. For example:

    tlc -workers 2 -config MCDecisionsChip.cfg MCDecisions.tla

What the properties say, beyond one type invariant per module:

- `LeaseExclusion`: two callers are never both inside a lease they were told they hold.
  `PromiseKept` and `AlarmOutlivesClaim` are what it rests on. `NeverHeldForever`: a repeated
  claim by the same holder is granted without a new expiry, so it cannot lock others out.
- `SentWasDelivered`: a row says `sent` only if the provider accepted the message, whatever
  overlapped, died or wrote late. `CallsCounted`: no call of the provider goes uncounted, so
  the cap bounds them. `OnlyOvertakenRegress`: a sent row becomes failed only through a
  sender overtaken between its fence read and its write. `QueuedMailSettles`: every row ends
  as sent or dead. `ImplementsMessage`: with sweeps that do not overlap and one producer, an
  outcome is never taken back.
- `OneRowEach`, `ScoringExclusive`, `LabelIsTrue`, `CallsCapped`, `NotScoredAgain`,
  `RoundSettles`: see the comments in `Prescreen`. A create sent again is the one way to a second
  row while presses keep within their lease; a submission it happened to has no label and no cap
  to speak of, but is still scored by one drain at a time, and its rows settle. The last press can buy one call more than
  the cap: a row on its last attempt looks stopped while that attempt is in flight.
- `SpacingKept`: two calls that reach the network leave a slot apart, also when the queue is
  abandoned and two chains run. `SleepsForTheSlot`: no live call sleeps on past a slot handed
  back. Both hold while corpses do not come back; one that does charges a slot it cannot use
  and may put two calls in one, which the code accepts. `NotWedged`: once the queue has stood
  for a slot and the grace, whoever asks gets a turn, and so do those after it.
- `NeverWedged`: an entity has one mapping row, unless its create was sent again or somebody was at
  it half a lease after its invocation began; with two, every later sweep throws before it retries
  anything. So a walk of any length leaves clean what it comes to in time, whatever other walks and
  sweeps do. `HashWasAccepted`: for the same entities, the hash by which later walks skip one
  belongs to a payload that very object was given. `CastComplete`: no session is ever sent with a
  part of its speakers or tags missing, also by the retry of an old failure, without exception.
  `FailuresSettle`: a failed attempt is retried until it is settled, or sweeps throw.
- `PostsCounted`, `ImplementsMessage`, `DeliveriesSettle`: the outbox's promises, kept although the
  outcome is two writes inside one try and the subscription may vanish at any point.
- `OneDuplicatePerFault`: however often a run is interrupted and pressed again, a fault costs at
  most one duplicate, and for a speaker with an address none but by a create sent again; as long as
  no two invocations were at work at once, of which each may create everything. `DoneIsComplete`: a
  run that says done mapped and placed everything, and named everybody who cannot be written to,
  whoever else was at work. `EndedStaysEnded`: only an invocation that has not looked since can take
  an outcome back or write another: one look at the run or at the holder stops it, however late.
  `RunEnds`: a run that needs no token ends even if its wizard is closed, and if holders are
  overtaken.
- `ToldOncePerStaging`: at most one mail per speaker and decision for each time the decision was
  staged, however often and however concurrently Notify is pressed. `CommittedIsToldLast`: a
  Notify that worked alone commits the decision its audience was told last, if at most one call has
  failed; the audience is empty if a decline's submitter is not on the cast (finding 20).
  `OneSilencePerFault`:
  a status no webhook was queued for costs a fault.
- `SavedIsTrue`: what a card shows as saved is what the base holds, and what was once shown as
  saved is not lost when the reviewer comes back to a page rendered from the cache; as long as no
  call was left behind and there is one row. `SecondRowIsLoose`: each row too many costs a call left
  behind or a create sent again; timers, the chase, and saves repeated after their write had landed
  make none. `EditsSettle`: every edit is stored, or its failure is on record, or the card was
  closed without saving.

**Why these bounds.** Two sweeps (or drains) on one row give every interleaving of one
overtaking the other; with `MaxAttempts = 2` a row meets a first attempt, a retry and the cap;
a lease of one or two ticks lapses before, between and after any two calls, because ticks
interleave with everything. One create sent again (`MaxJobs = 1`) gives every pair of rows of a
submission: one queued, running or done before the other lands. Two keys in the serial runs exercise listings longer than one row,
the claim of a row listed before, and batches that land in part. Three callers of the guard
allow one to hold, one to lose and one to come after. In the window, `Spacing = 2`,
`Grace = 1`, `Ceiling = 1` keep the order the code's numbers have (200 ms, 1 s and 60 ms
matter only through "within a slot" and "a slot and the grace later"); two calls of one
request and one of another give siblings, a caller behind a corpse, and a newcomer.
`CallsBound` stops the history count of model calls one above what `CallsCapped` allows.
`MaxDeaths` bounds the requests that end early.

A walk beside a sweep (Accelevents) gives each the other's stale mapping and the other's lease;
a tag under a session gives the dependency and its retry in the wrong order; `Lease = 3` and
`Span = 3` let an invocation work before half a lease, after it, and on when the lease it took is
over. One fault is a failed attempt, or one create sent again; a failed repair of a failed attempt
is left to the proofs. Two deliveries to two subscriptions with `Limit = 1` let a delivery without a
subscription stand in front of one that has it. Two speakers, one of them with an address, and two
sessions of the other with `Batch = 2` let a batch of mappings be lost with a record created and
another not; `Lease = 1` with one tick under way lets a second invocation begin at every point of
the first one's phase. The budget of an import pays for ticks as well, so that run has one of
anything; what two of them do together is what the theorems add. A finite budget also means that
not every phase of an import outlasts its lease: one whose phases all do would be started again by
every sweep and might never end, which `RunEnds` does not rule out. Six presses stage and tell a
decision, its reverse and the first one again; two failed writes are what `MCDecisionsRestaged`
needs, so one fault is the largest number for which `CommittedIsToldLast` says anything. In
`MCDecisions` the two requests are alike and declared symmetric, and so are drains and presses in
`MCPrescreenOverlap` and invocations in `MCImportTwice`; that is sound because none of them checks a
liveness property. `MCPrescreenOverlap` also leaves the histories `calls` and `settled` out of the
fingerprint (`NoCount`), which no action's guard and none of its properties reads.

Two cards are one that was left and one that is read from what it wrote; three edits are one
stored, one in flight and one made meanwhile; the fault is a lost answer, a refusal or a cut.

Deadlock is checked everywhere except in the configurations of `Decisions`, which may stop once
`MaxPresses` are used up.

**Fairness.** Time passes. Cron starts sweeps again and again (`WF` on `List`, `Start`); a
sweep that is not killed makes its next call (`WF`). The guard and Airtable are not down for
ever: a call attempted again and again succeeds at some time (`SF` on the granted claim, on
the reap and on the recorded attempt). Nothing is assumed of the provider, the model, the
organizer or the caller: liveness holds although every send may fail. In `Prescreen` `Tick`
needs `SF`, because it waits for work inside a lease. In the window, what can run runs and
timers fire (`WF` on the isolate's own steps and `Tick` together), nobody has to call and
Airtable need not answer; that a cached answer takes a tick keeps an instant finite.
In `AcceleventsSync`, `Webhooks` and `ImportRun` cron starts sweeps, invocations go on and time
passes (`WF` each); no `SF` is needed because the faults are bounded. Sending a create again is
`WF`'s neighbour, never its duty: it is bounded everywhere. Receivers of webhooks may
fail for ever. The wizard calls while it is told to (`WF` on `Call`), nobody has to press anything.
`Decisions` assumes nothing: it has safety properties only. In `ReviewSave` timers fire and a
request that is not killed goes on (`WF` on `TimerFires` and `Serve`); the reviewer may stop at
any moment and no button has to be pressed.

## Findings

Where the code and what its comments say of it disagree, or where it plainly does not do what
it is for. Each but 13 to 15 has a configuration whose counterexample TLC prints
(`import_wizard` is the run; the others are run by hand).

1. `MCOutboxStale` (`drain.ts:144`): a sweep lists once and does not read a row again after its
   claim, so a sweep whose listing is older than another one's lease takes a row already
   `sent`, sends it again and can record another outcome over it. "Terminal success"
   (`mutations-outbox.ts:185`) does not hold for overlapping sweeps.
2. `MCOutboxRequeue` (`mutations-outbox.ts:97`): a key created and sent between a producer's
   read and its upsert is queued again, against `mutations-outbox.ts:61`.
3. `MCPrescreenAgain` (`prescreen.ts:124`): the same stale listing lets a second drain score a
   submission recorded as done, against `prescreen.ts:15`.
4. `MCPrescreenLabel` (`prescreen.ts:196`): a `done` write that landed with its answer lost is
   followed by `failed`, which leaves `mocked` true, against `types/prescreen.ts:34`.
5. `MCRateWindowBounded` (`rate-window.ts:189`): a call that arrives within the grace period
   behind a head that died awake waits on a promise nobody settles, against
   `rate-window.ts:165`, "The wait is BOUNDED even with nobody asleep". The second half of
   that repair helps newcomers only.
6. `import_wizard` (`imports/actions.ts:20`): each call of the wizard draws a holder of its own
   and does one phase, and the lease is never handed back (`run.ts:91`), so the wizard's second
   call is refused by the lease of its first, and the wizard stops calling. An open source is
   finished by cron; a Sessionboard run, which only the wizard can work, stays where it is.
7. `MCImportList` (`run.ts:251`): a run that fails while it loads the mappings or the source
   records no Needs-email list, although an earlier invocation imported the speakers.
8. `MCImportIds` (`reads-imports.ts:199`): mappings are indexed by the remote id alone and checked
   for their kind afterwards; a room and a session with the same number hide each other, and
   the older one is created again by the next import.
9. `MCImportSlow` (`run-types.ts:22`): the lease of 120 s is said to outlast a phase, which
   `phases.ts:36` puts at 200 s. An invocation that outlasts its lease makes duplicates without
   any fault. To outlast one invocation is not enough either: one that read the row before another
   claimed it can be granted it after that one ended the run, and sets it going again (TLC prints
   it for `MCImportRun.cfg` with `Lease = 2`).
10. `MCAcceleventsAgain` (`sync-attempt.ts:110`): after a create that was answered but not mapped,
    a sweep goes by the id in the log, but a walk goes by the mapping alone and creates again.
11. `MCDecisionsChip` (`transitions.ts:118`): a declined and told submission that is reversed with
    the status chip is accepted, its submitter has a decline, and Notify has nothing to send.
12. `MCDecisionsRestaged` (`decisions.ts:255`): mail keys change only when a Notify commits. After
    two Notifies whose mail went out and whose status write failed, the mail of the third is
    taken for the first one's and dropped.
13. `accelevents-sync.ts:182`: a sweep whose create was answered and whose mapping was not saved
    logs the old remote id instead of the new one (`FailedId` shows both), with the same end as 10.
14. `sync-attempt.ts:141`: the write of a walk's `ok` row is swallowed, so an older failed row stays
    the newest, and its payload is replayed over a newer one.
15. `deliver.ts:250`, `deliver.ts:189`: the catch can run after an answered POST, against its comment;
    and the reap writes `dead` from the listed attempts, without the fence. Both need overlapping
    sweeps or a fault to matter, and are reachable in `Webhooks`.
16. `MCReviewSilent` (`ScoreCard.tsx:226`): Save and next does not wait, and leaving unmounts the
    card its queue reports to; a save that then fails is shown to nobody, against `ScoreCard.tsx:102`.
17. `MCReviewDropped` (`autosave-queue.ts:109`): a card closed during a save still sends what was
    typed after that save began, against `use-review-autosave.ts:60`, "It does not flush".
18. `MCReviewTwice` (`mutations-review.ts:47`): the debounce that is said to prevent two saves
    within one round trip is one per card; a reviewer who saves, goes on and comes back at once
    can get two rows, of which later saves update the first and the page shows the last.
19. `accelevents-sync.ts:57` sizes the lease "to cover a remote call plus its mapping write". A
    sweep that listed the mappings just before a walk saved one, and asks just after the walk's
    lease lapsed, is granted the entity, goes by its listing and creates it again: a second
    mapping, and no sweep runs from then on. A lease has to outlast the two invocations end to
    end, as 120 s do if neither takes longer than 59. TLC prints it for `MCAccelevents.cfg` with
    `Lease = 2`, where a lease does outlast each invocation by itself.

Seen on the way, and within what the comments allow: a delivered message can be recorded as
`dead` (its answer was lost on the last attempt); overlapping drains write the attempts back
down and can exceed the cap; two calls made together after an idle while abandon each
other's chain, which is harmless because each decides without an await in between.

## What is proved

All proofs are checked by TLAPS down to the last leaf, for every value of the constants that
satisfies the modules' `ASSUME`s. Every inductive invariant was checked by TLC before it was
proved. Two hypotheses recur beside the `ASSUME`s; each theorem that needs one states it:

- *Sweeps one at a time* (`~Overlap`), with *one producer* or announcer. That is the ordinary
  case: cron starts these sweeps minutes apart, and `worker.ts:150` runs the jobs of one tick in
  series. A long sweep or "run now" breaks it, which is what the guard is for; so what holds
  with any overlap is proved without it, and what is lost is listed under Findings.
- *No slow drain, presses apart* (`"drain" \notin Slow`, `PressesApart`). The code sizes a lease
  to outlast the calls it covers (`WORST_CASE_CALL_MS`). `PressesApart` says that no press outlives
  its lease, or that there is only one press.

| Theorem | States, for every instance | Needs |
|---|---|---|
| `OutboxProofs`: `OutboxTypeCorrect`, `OutboxSentWasDelivered` | `TypeOK`, `SentWasDelivered` | |
| `OutboxOnlyOvertakenRegress` | the action property `OnlyOvertakenRegress` | |
| `OutboxImplementsLease` | `Lease`, row by row | |
| `OutboxCallsCounted`, `OutboxImplementsMessage` | `CallsCounted`; the outbox implements `Message` | sweeps one at a time, one producer |
| `PrescreenProofs`: `TypeCorrect` | `TypeOK` | |
| `ScoringIsExclusive` | `ScoringExclusive` | no slow drain |
| `OneRowForEach` | `OneRowEach` | presses apart |
| `LabelsAreTrue` | `LabelIsTrue` | both |
| `SavedOnce`, `CallsAreCapped` | `NotScoredAgain`, `CallsCapped` | drains one at a time, presses apart |
| `RateWindowProofs`: `TypeCorrect`, `SleepersAreFound`, `CallsAreSpaced` | `TypeOK`, `SleepsForTheSlot`, `SpacingKept` | |
| `DecisionsProofs`: `TypeCorrect`, `EachStagingIsToldOnce`, `SilencesArePaidFor` | `TypeOK`, `ToldOncePerStaging`, `OneSilencePerFault` | |
| `CommittedWasToldLast` | the action property `CommittedIsToldLast` | at most one fault |
| `ReviewSaveProofs`: `TypeCorrect`, `SecondRowsAreLoose`, `SavedStays` | `TypeOK`, `SecondRowIsLoose`, `SavedIsTrue` | |
| `WebhooksProofs`: `WebhooksTypeCorrect`, `WebhooksSentWasAccepted` | `TypeOK`, `SentWasAccepted` | |
| `WebhooksPostsCounted`, `WebhooksImplementsMessage` | `PostsCounted`; delivery implements `Message` | sweeps one at a time, one announcer |
| `AcceleventsProofs`: `TypeCorrect`, `NobodyIsLeftOut` | `TypeOK`, `CastComplete` | |
| `SweepsAreNeverWedged`, `HashesAreTrue` | `NeverWedged`, `HashWasAccepted` | `2 * Span < Lease` |
| `ImportRunProofs`: `TypeCorrect` | `ImportRun`'s types (`TypeOK`) | |
| `RunsStayEnded` | the action property `EndedStaysEnded` | `2 * Span < Lease` |
| `DuplicatesArePaidFor` | `OneDuplicatePerFault` | that, and own remote ids |
| `DoneRunsAreComplete` | `DoneIsComplete` | both, and a speaker for every session |
| `GuardTypeCorrect`, `Exclusion`, `PromisesAreKept`, `AlarmsComeLate` | `GuardTypeOK`, `LeaseExclusion`, `PromiseKept`, `AlarmOutlivesClaim` | |
| `GuardIsALease` | the guard implements `Lease` | |

**ClaimGuard.** `LeaseExclusion` is not inductive: that nobody is granted a key while a promise
runs needs the record behind the promise to exist, and that it stays needs the alarm to come
later. So `GuardInv == GuardTypeOK /\ PromiseKept /\ AlarmOutlivesClaim` is proved initial and
preserved by every request, alarm and tick, and implies exclusion. In `GuardIsALease` the owner is
the caller with a running promise; `Exclusion` makes it unique. The proofs are the last section of
`ImportRunProofs`.

**Outbox.** `IInv == TypeOK /\ SweepsOK /\ SentWasDelivered`, where `SweepsOK` carries what a
sweep's position tells: a busy sweep has a row; past the reap, the attempts it read are below the
cap (so the attempt it writes is within it, however old the listing); at the fence and at `mark`,
the row's message has been accepted. The row a sweep is at is the least of its listing, whose
existence comes from well-founded induction on the naturals (`LeastNatural`). `FenceInv` adds
what the fence read found: between it and the write, a sweep that nobody overtook still holds
its row. `SerialInv` is for sweeps that do not overlap: the one at work finds its rows as it
listed them, and what a producer is about to insert is not there yet.

**Prescreen.** Five layers, each preserved with the help of those below it. `TypeInv` needs no
timing. `DrainsHold`: a drain between its claim and the outcome of its row holds the
submission, which is exclusion. `PressesHold` and `NewRows`: one press is at work at a time, and
what it is about to create has no row. `LabelInv` follows a label from the scorer through the
review to the row, which are written in separate calls. `Pending` and `SettledDone`: what is
left of a drain's listing is not settled. `CallsInv` bounds the calls of a submission by the
attempts on its row, in the drain's listing and at the score, with the one more that a press
buys when it resets a row in flight.

**Rate window.** `TypeOK` needs nothing. The other two say themselves that corpses stay dead
(`CorpsesRest`), and so does their invariant, `CorpsesRest => Chain /\ Heads /\ Naps /\ Charges`.
A *head* is a live call that decides next or sleeps before it does. The code's comment has one
decision at a time; but a call made beside another, after the queue has stood still for long,
abandons the chain the other one just began. So `Heads` says that there are two heads only in
such an instant, when the slot is free, they are of one request and nobody waits for the first:
whoever decides leaves one head at most, which is why the abandoned chain is harmless. `Chain`
carries that a promise is waited for by one call; with it, a decision gives the turn to one.
`Naps` is `SleepsForTheSlot` with the deadline, so that no live sleeper is ever taken for a
stalled one. `Charges` has the slot within a spacing and at most one charge that is not over, the
last one's: a refund can only take back what nobody left on since.

**Decisions.** Both properties speak of the past, while a step depends on copies of the row in
the cache and in several requests. `ToldOncePerStaging` follows from bounding, by the number of
stagings, the set of notification instants under which a decision was mailed *or still could
be* from any copy about (`EpochsStaged`); the notified row needs that a row never notified has no
copy that says otherwise (`NeverYet`). `OneSilencePerFault` follows from bounding the statuses
written, not announced, and that no request is about to announce (`SilencesPaid`). For the types,
a queue is entered at most once for each press that is not pending (`StagedByPresses`).
`CommittedIsToldLast` is about a Notify that was alone at work. What it mails was told last; but
it mails only the keys the outbox does not hold, so what it commits was told last only if those
were left by an attempt at the same decision. The invariant says so of every mail whose key a
coming Notify would share, that is, of those under the stored notification instant: without a
fault, each is one that some Notify about to write queued (`Unfailed`); the one fault that loses
such a Notify leaves, once all are through, mail that was told last (`Failed`). With a second
fault it is false (finding 12).

**ReviewSave.** `Base` has at most one open card, and counts the calls at work: the open
card's and those `loose` counts. A second row comes from two calls that both found none, so
`RowsBound` bounds the rows together with the calls about to create one. For `SavedIsTrue`, as
long as nothing is loose, `SavedInv` says that the one call there can be writes over the row
there is, and that the base, the cached list, a page under way, the open card and that call all
contain what was ever shown as saved.

**Webhooks.** `IInv` is the outbox's argument for a delivery whose outcome is two writes in one
try. `SerialInv` adds that a row which still names the sweep as its holder is begun and has no
outcome: this is why the catch, whatever threw, undoes none (it fences on that name, and the
first write clears it). Proving the refinement showed that the abstract `Message` was too narrow:
`Retire` gives up all deliveries of a vanished subscription in one write, which `Message` allowed
only one at a time. With listings of one row, as in the run `webhooks`, that does not show; with
two, TLC found the counterexample. `GiveUp` takes a set since.

**Accelevents.** Five layers. `RefsInv`: every remote id in a mapping, in a log row or in some
caller's copy of them names an object, and every payload about to be sent or replayed names an
object for all it needs; this gives `CastComplete` whatever the leases are worth. `LeaseInv`: who
works on an entity holds it, and who will go by what it listed has seen the mapping there is, or
finds the entity leased for longer than it lives itself. That clause is what makes `NeverWedged`
inductive, and it needs `2 * Span < Lease`: the lease under which a mapping was saved is as
old as its walk, and has to outlive everybody who listed before. `ObjectsInv`: for an entity
without a mapping, a log row that names an object tells what is in it, and `SentInv`: who is
about to save a mapping landed at an object that holds what it sent, and nobody else writes to
it meanwhile. Together they give `HashWasAccepted`, where the hash comes from the caller, the
object from the remote side and the mapping from a third place.

**Import run.** Six layers. `Types` adds to `TypeOK` what an invocation may have in hand: only
records that were created, and nothing before the index is read. `Leases`: who works on a run
holds its key for as long as it may live; no run begins before the last one has ended; and who
called before a run ended and asks after finds it leased for longer than it lives itself. That
clause needs `2 * Span < Lease`, and nothing less will do: with `Lease = 2` and `Span = 1`, where a
lease does outlast each invocation, TLC shows a run that said done and is set going again. The
code's lease is that long only as long as no phase takes more than a minute (finding 9). It
follows that at most one invocation writes (`OneActs`), which all the others use. `Ledger`: what an
invocation goes by is what is mapped, but for what it has yet to map, and that is at most one
record which no address could find again. `Charges`: duplicates, together with the records that
nothing and nobody knows of (`Lost`), are no more than the faults so far. This is the strengthening
`OneDuplicatePerFault` needs: the fault is spent when a record is lost, the duplicate made when the
next invocation creates it again. `Progress`: what comes before the phase of a run, or of an
invocation, is mapped, though the checkpoint comes from whichever invocation wrote it last, and
what an invocation has worked off is known to it, and placed if it is the agenda. `Finished`: a run
that is done has everything mapped and placed and everybody listed, and so no later invocation
has anything to create. The hypotheses are about the source. Remote ids are an entity's own: with
shared ids `DoneIsComplete` is false (finding 8). Every session has a speaker: one without is
skipped as it has no submitter, and a run that says done has then left it out, as the code means it
to.

**Only model-checked.** All liveness, and with it `ENABLED`, is out of the prover's reach:
`NeverHeldForever`, `QueuedMailSettles`, `RoundSettles`, `DeliveriesSettle`, `FailuresSettle`,
`RunEnds`, `EditsSettle`, `NotWedged`. Every invariant, action property and refinement that a
passing run checks is proved.

## Plan

In this order; each entry is a module, its runs and what deserves a proof.

1. `MagicLink`: a link opens one session, over `ClaimKey`; the way back from an impersonation.
2. Pure algorithms over bounded inputs, against a reference definition: agenda conflicts and
   their resolution, the distribution of submissions, reminders due.
3. The read cache's invalidation against reads in flight, and the CRM merge.

Most of the repository's 1,266 source files are rendering, forms, schema mapping and data; the
share of its lines that keeps protocol state, and that a model can stand for, is small.

Not modelled, and not planned: rendering, forms, templates, the public site, the API's
stateless reads, schema mapping, scripts and the user interface. They keep no protocol state,
and their hazards are those of data. `PROJECT.json` names each with its reason, and lists
under `hazards` what this code is exposed to, line by line, with the properties that cover it.
