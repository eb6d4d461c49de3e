# newCoworker: TLA+ models

newCoworker rents small businesses an AI coworker that answers their phone, texts
and chats. The state that must stay right lives in one Postgres database
(Supabase); everything else — edge functions, a voice bridge on the tenant's VPS, a
Next.js app, cron jobs — is a set of short-lived clients that may die between any
two statements. The models here are about that state: who may write it, in which
order, and what survives a crash or a redelivery.

## 1. Inventory

| Part | State it keeps | Operations | Talks to | What is hard, and what makes it right |
|---|---|---|---|---|
| **Voice quota** (`supabase/migrations/…voice…`) | reservations, settlements, sessions, usage per period, packs, forwarded-leg meter | reserve, answer, attach, release, settle, correct the zone weight, meter a leg, buy/void a pack, six sweeps, reconcile | inbound/call-end functions, bridge, pg_cron | READ COMMITTED snapshots under different locks; minutes are promised and billed once, the counter equals the ledgers |
| **Inbound texts** (`telnyx-sms-inbound`, `sms-inbound-worker`) | webhook events, `sms_inbound_jobs`, `daily_usage` | begin, persist, evaluate flows, flip, claim, compose, reserve, send, recover, complete, retry, defer, reclaim | Telnyx, AI flows, model | two processes race on `suppress_reply`; lost answers; a contact's replies in order, none sent twice, every one counted that can be found again, nobody left unanswered |
| SMS metering | `daily_usage`, bonus texts | reserve, release, operational count | every sender | cap and bonus under concurrent sends |
| Voice call lifecycle (`telnyx-voice-*`) | events of a call | initiated, answered, streaming, hangup | quota, bridge | redelivered and reordered webhooks, thresholds of the sweeps |
| Voice bridge (`vps/voice-bridge`) | a session in memory | attach, heartbeat, end | quota | crash leaves a session open |
| **AI-flow runs** (`ai-flow-worker`, `telnyx-sms-inbound`, `lib/ai-flows`) | `ai_flow_runs` (queued, running, four ways to wait) with the whole context of the run in one column, a revision, the outbound-dial log | claim, execute step by step, park, reclaim, escalate, time out, answer, claim a lead, let it go, stop | Telnyx, Slack, voice, the texts' webhook | worker, owner, lead and teammates each write back a context they read earlier; nobody's answer may be lost, nothing run twice or unapproved, no run left waiting for nothing |
| **Reply jobs** (Messenger family, Slack and other channels, dashboard chat and webchat) | a transcript and a job table each | store, enqueue, claim, turn, send, commit, supersede, fail, requeue, reclaim | chat worker on the tenant's box, cron workers, Meta, Slack | five claims, each guarded differently; a reply out and its record lost; a message that comes while another is answered |
| **Pack auto-reload** (`lib/billing/auto-reload*`, three migrations) | rules with a spend counter per billing window, cards, attempts | list, resume, claim, charge, grant, settle, disable, save | Stripe, its webhooks, cron | money moves outside the database; charged, counted and granted must agree after any crash; the ceiling holds |
| Owner-chat AI budget | spend holds | reserve, settle, release | model | spend known only after the turn |
| Data residency | journal rows | write, journal, replay, purge | tenant's data API | two databases, replay after newer writes |
| Provisioning, VPS fleet | migration lock, jobs, gateway tokens | claim, release, confirm | OVH, Hostinger | stalled jobs, two owners of a lock |
| Scheduled texts, reminders, voicemail | claim columns | claim, send | Telnyx | at most once |
| Billing, memory, notifications, webhooks, ~30 sweeps, web app, integrations, model hosts | — | — | — | third-party calls and pages; see `PROJECT.json` |

**Interactions.** Components share tables, not memory. Cron calls the sweeps and
workers; Telnyx calls the webhooks and calls again on anything but a 200; the voice
bridge writes sessions and settlements directly or through RPCs; flows take inbound
texts and set `suppress_reply`; the inbound webhook writes parked flow runs; Stripe's
webhooks grant what a sweep charged.

**Hard behaviours.** Interleaving of READ COMMITTED statements; an invocation that
dies (150 s ceiling) or whose statement commits unseen; webhooks delivered twice or
late; calls whose answer is lost; owner switches flipped between two steps; sweeps
that race the step they repair. Each hazard, at its line, with the properties that
watch it, is in `PROJECT.json` under `hazards`.

## 2. Modules

| Module | What it is |
|---|---|
| `VoiceHold` | abstract: a call's hold of minutes, taken once, ended once, charged at most its size |
| `VoiceQuota` | the voice database functions; `Hold!Spec` is `VoiceHold` under a refinement mapping |
| `VoiceQuotaProofs` | `VoiceQuota`: types, a call's one settlement, the refinement |
| `SumTheorems` | what a sum over a finite set is: lemmas the ledgers need |
| `VoiceLedgerProofs` | `VoiceQuota`: the three ledgers, and how far a plan can be oversold |
| `MCVoiceQuota` | symmetry and the constraint `MoneyOnly` for TLC |
| `SmsInbound` | webhook, job table, worker |
| `SmsInboundProofs` | theorems about `SmsInbound` |
| `MCSmsInbound` | who sent which text, symmetry |
| `AiFlowRun` | one run of a flow: row, workers, sweeps, requests that answer it |
| `AiFlowRunProofs` | `AiFlowRun`: types, one worker, the stop, the call, who holds a lead |
| `AiFlowCopyProofs` | `AiFlowRun`: what the copies of a run's context may do to each other |
| `MCAiFlowRun` | the five flows TLC runs |
| `ReplyJobs` | one conversation and its queue, in three kinds |
| `ReplyJobsProofs` | theorems about `ReplyJobs` |
| `MCReplyJobs` | its instances |
| `AutoReload` | one pack family's rule, attempts and card, with Stripe |
| `AutoReloadProofs` | theorems about `AutoReload` |

### VoiceQuota

One variable per table, a record per row. A function whose reads and writes are all
under row locks it keeps is one action (`ReleaseOnAnswerFail`, `ApplySettlementLrn`,
`TryFinalize` inside its callers). `voice_reserve_for_call` reads usage, held
seconds, the count, the pool and the bonus in separate statements, each with its own
snapshot, so it is six actions (`ReserveBegin` … `ReserveInsert`) and `reserving`
keeps what it read; it holds `business_voice_quota_lock` throughout, so one runs at a
time. `voice_reconcile_period_usage_row` is three (`ReconcileLock/Sum/Write`) and its
lock on the usage row blocks those who update that row (`UsageFree`). A sweep is one
action per row. Which rows are old enough is left open: every order the clocks
could produce is allowed, and more.

Abstracted: seconds are small integers, a billing minute is `Minute` of them; the
`order by expires_at` of packs is their number, and `clock` counts the expired;
loops over packs are a function `left` from the turn of the loop to what remains
(`Countdown`), which keeps the module free of recursion. `Sum` is SQL's
`coalesce(sum(…), 0)::int`: it wraps the library's fold so that an integer results
whatever is summed (the proofs of types need no more; those of the ledgers show that
the fold is the sum, with `SumTheorems`). `clock` and
`ExpirePack` model time and stand for no line of code.

### SmsInbound

A handler is an invocation of the webhook (`gate → persist → commit → evaluate → flip
→ answer`), a worker an invocation of the worker (`claim → first/next → gate →
compose → reserve → rcs or send → complete`, or `recover`, `recomplete`, `release`,
`failed`; in Safe Mode `forward → forwarded → meter`). Each statement or call is an
action, and `HandlerDies` / `WorkerDies` may strike between any two. `Fault` spends
one of `MaxFaults`: a dead invocation, a write that failed, a write that was made but
answered with an error, a send that Telnyx took and did not answer, a tag search that
failed. `Persist`/`PersistCommit` and `ClaimBegin`/`ClaimCommit` are split because an
insert's `created_at` precedes its commit, and because the claim's `not exists` is
decided on a snapshot while only the row's own `status` is checked again.

A reply goes out over RCS where the tenant has an agent (`SendRcs`; `Channels`), and
falls back to the plain text (`Send`) when RCS is turned down or answers without an id.
The two differ in what makes up for a lost answer: the plain text carries the job's
tag and `Recover` searches for it (`Found`), an RCS message carries none and is never
found. `accepted` keeps the difference: `reply`, `rcs`, or `unseen` for an RCS message
that went out unanswered. The owner's own turn is closed as a dead letter where its reply could not
be stored (`Compose`).

Abstracted: the reply's text, the many reasons to stay silent (one `quiet` outcome), how a flow
matches (`flow` ∈ never / once / always: `once` is a parked wait or a flow without
re-entry, used up by the first delivery), and the monthly cap (a refusal is always
possible). `slots` counts per text what the code adds up per day. A row's `stamp` is
its `created_at` on a logical clock. Two history variables say what a property has to
except: `again`, the texts whose event was handled a second time, and `late`, the rows
whose insert committed after that of a newer one of the contact. `Reclaim` needs the
claiming invocation to be gone: the code waits 15 minutes and an invocation lives at
most 150 seconds. Not modelled: texts from owner and staff, the contact's
`forward_owner` relay, short links, alerts.

### AiFlowRun

`run` is the row, `worker` what an invocation keeps in memory (its position and its
copy of the context), `visitor` a request between its read of the row and its write.
A worker claims, reads the owner's switches (`Begin`), and goes through the steps:
`Check` at the top of the loop, then the step, then `Advance`. Five step kinds stand
for all: `text` (`Reserve`, `Send`), `gate`, `wait`, `call` (`Call` inserts the dial
log's row, `Dial` rings, or takes the row back, which may fail) and `route`. A route
skips teammates on its way, the lead's own number or one that opted out (`Skipped`):
they are `tried` without having been texted, and a late claim does not ask which
(`Takers`). A parked step is written (`Park`) before anybody
is told (`Prompt`), and a gate's prompt in Slack is noted with one more write of the
whole context (`Stamp`). `Try` is a write that lands or throws; `Throw` is
`handleRunThrow`; `Die` may strike anywhere.

A request is `AtOnce` when nothing comes between its read and its write, or `Read`,
`Write`. What guards the write is the revision (every update raises it, `Stale`), the
status (`Open`), or, for the owner's decision, the status alone. `Respond` is the
write of each: the owner's decision, the lead's answer, the end of a call, a
teammate's "1" or "2" to their own offer (`Replied`), a "1" to another's or a lapsed
one (`TakenOver`), and "86" (`Released86`), which puts a held lead back.

Abstracted: the fields of the context a property does not read; who the lead is; the
kinds of step that only compute or call (they would be a `text` without a slot).
Invocations end before the 15-minute lease does. Not modelled: triggers, schedules and
re-entry, branches, edits of a running flow, broadcast offers, owner-direct leads,
reminders, automatic assignment, contact ownership, goal events,
redrafts (`allowModify`), the quiet-hours bypass, follow-up notes.

### ReplyJobs

`thread` is the transcript in the order of its ids, `job` the row of each message.
`kind` picks the pipeline: `messenger` (Messenger, Instagram, WhatsApp), `coworker`
(Slack and the other channels a company's coworker sits in), `box` (dashboard chat and
webchat, answered by the tenant's own VPS). The differences are where the code has
them: who may claim (`Queued`, `Free`), what the coworker sees (`Read`), what a reply
is (`Delivers`: a message at Meta or Slack, or the row itself), what a failed commit
leads to (`AfterLostCommit`), whose failure is guarded (`Set`), where a job that is
given back goes (`GivenBack`). `Look` and `Take` split the claim at its snapshot.
A turn is given the last `Window` rows of the transcript (`seen`: 20 for Messenger, 12
for Slack) but notes how far the transcript goes (`upto`), and its commit retires every
queued job up to there (`Siblings`). `covered` is what a reply had before it, `passed` what one
retired without having had it, or with a notice that did not post. `doubt` collects the
jobs whose worker was cut off between a reply and its record.

Abstracted: what is said. A Messenger or channel claim goes stale after ten minutes
and its route lives five, so `Reclaim` needs the claimer gone; a box has no such
ceiling, and its claim may be taken from under it.

### AutoReload

One variable per table, and one each for what the code reads outside them: the clock
(`window`, `used` for the current cooldown bucket), the balance (`low`), Stripe
(`intent` is the answer kept under each idempotency key, `gone` the detached cards,
`told` the delivered events). A sweep is `List → Resume or Read → Claim → Charge →
Grant → Settle`; the RPCs are one action each, because each is one transaction that
locks the rule. `List` reads rule and card once for the rest of the invocation, which
is how a claim comes to act on a cooldown that another sweep has started. `Resume`
also stands for `skip locked`: a sweep that runs the query meanwhile finds nothing.
`strayed` and `disturbed` are history variables: refunds that came off a newer window's
counter, and attempts that lost an answer or their invocation or were open at a switch-off.

Abstracted: one business, one family; money in packs, so the spend counter and the
month's total of charges are one; webhook handlers and saves run undisturbed; a list
that would find nothing is left out; an invocation (at most 300 seconds) is shorter
than the cooldown (30 or 120 minutes) and the 15 minutes of staleness. Not modelled:
missing or changed prices, refunds and clawbacks, e-mails.

## 3. Runs

### 3.1 What each shows

| Run | Instance | Shows |
|---|---|---|
| `quota_packs` | 2 calls, 2 packs, cap 1 | types; pack seconds promised and debited once under refunds and expiry (`HoldsAreInThePacks`, `BonusLedgerAgrees`); release and settlement exclude each other (`SettledOrReturned`) |
| `quota_books` | 2 calls, 1 forwarded leg, 2 periods, 2-second minutes, a carrier report, a zone weight | the counter the gate reads equals the ledgers, with the reconcile interleaved statement by statement |
| `quota_lifecycle` | 2 calls, 2 periods, limit 1 across both, cap 2, largest grant 3, a call shorter and one longer than its hold, sessions, all sweeps | `VoiceQuota` implements `VoiceHold`; the plan is oversold by one round of grants at most (`OversoldAtMostOneRound`) |
| `quota_oversold` ✗ | 2 calls | a settlement between two reads of a reserve oversells the plan |
| `sms_queue` | 2 texts of one contact, 2 webhook and 2 worker invocations, no fault | one job per contact at a time (`OnePerContact`), replies in inbound order (`RepliesInOrder`), a text a flow took stays silent (`OwnedIsSilent`) |
| `sms_batch` | 2 contacts in one claim, pause and Safe Mode toggled freely, 1 fault | a deferral costs no attempt (`AttemptsBounded`), what is shown was sent, over RCS and SMS: every delivered reply that can be found again is counted, slots of failed sends are returned |
| `sms_live` | 2 texts, 1 worker, 1 fault, `FairSpec` | every queued text settled, every event handled |
| `flow_runs` | 5 flows of 2 or 3 steps, 2 workers, 1 fault, 2 teammates, every request, `FairSpec` | one worker executes (`OneExecutes`), the lead's phone rings once (`CalledOnce`), gates hold across retries (`GateHolds`), offers are made once and remembered (`OffersAreRecorded`), a live offer is taken by nobody who was only skipped (`TakenByRight`), a stop is final, answers, decisions and claims are not overwritten (`AnswersAreKept`, `LostOnlyToSlack`, `ClaimIsKept`), every run ends or waits for the owner (`RunIsSettled`) |
| `chat_jobs` | 2 messages, 2 workers, 3 kinds, a window of 1 row, 2 faults, `FairSpec` | one Messenger reply per job (`SentOnce`), no turn retires a message that came after it read (`SupersededIsNotLate`), done is final, no job is stuck |
| `chat_answered` ✗ | 2 messages, 1 worker, no fault | a message that comes during a turn is never answered |
| `auto_reload` | 2 sweeps, 2 attempts, 2 cards, 2 windows, 2 edits or faults, `FairSpec` | the counter and the ceiling cover what Stripe took but for late refunds and attempts written off (§3.4), what was paid for is granted, no attempt stays open |
| `auto_reload_pause` ✗ | 1 sweep, no fault | a ceiling pause outlives its window |

✗ marks a run whose counterexample is a finding (`PROJECT.json`, `findings`).

### 3.2 Bounds and why they are enough

Reserves are serialised by a lock, so what two calls cannot do to each other through
the pool, a third cannot either; overselling is the exception, where each reserve can
race a settlement, and that several races add up to no more than one round is proved for
any number of calls (§4). Two packs give the boundary where one call's
allocation ends in the middle of the second. Two periods let a call settle into a
period another call no longer reserves from. `MoneyOnly` leaves media sessions out of
the runs about money: they decide when a call settles, which those runs leave open
anyway. For texts, two of one contact are what an order needs, and the second contact
of `sms_batch` what a batch needs (a claim holds one job per contact). `sms_queue` has
no faults, because two invocations of each kind are what its races need and leases that
lapse make redeliveries without one; what its invariants say after a fault is proved (§4).
Two attempts
reach every branch of eight: the first, a retry, the last. `Symmetry` permutes texts
although their senders differ in `sms_batch`: senders are only compared for equality.
For `VoiceQuota` it permutes calls, legs and periods, which are compared only for
equality too; `ImplementsVoiceHold` says nothing of liveness, so a permutation keeps it.

A flow's steps meet through the context only, so each plan of `MCAiFlowRun` pairs the
steps that can disturb each other: two waits (an answer must reach its own), a call
and what follows it, a gate before and behind a wait, a route with its steps behind.
Each asks once, at a gate or on a route (`AsksOnce`, below). One visitor between read and write, with any number of
undisturbed requests, is what a lost update needs. `MaxRetries = 1` reaches the first
failure, the retry and the end. In `chat_jobs` two messages are what a late message
and a superseded one need, and two faults a lost reply with a failed record of it; a window of one
row is what lets one message of two fall out of it. The runs of `SmsInbound` have both
channels: an agent is looked up anew at each attempt, so a tenant without one is among
the behaviours. In
`auto_reload` two attempts give an overlap, an older one beside a newer and both sides
of a window; the ceiling is one pack.

Deadlock is not checked: a system whose work is all done stops.

### 3.3 Findings

- `quota_oversold`: the reserve's reads of committed and of held seconds are two
  snapshots. The excess is bounded: `MaxConcurrent * MaxGrant` seconds beyond the cap
  (`OversoldAtMostOneRound`), and reached, for instance with a limit of one and a largest
  grant equal to the cap: a call bills the whole plan between the two readings of the
  next, which is granted the whole plan again.
- `chat_answered`: a message that is stored between a turn's read and its reply stands
  before that reply in the transcript. Its own turn trims the transcript to nothing
  and closes the job as `no_input`, though the completion was careful not to retire it.
- `auto_reload_pause`: the candidate queries skip paused rules, so the claim that
  would release a ceiling pause in a new window is never made.

Each is quoted with its lines in `PROJECT.json`.

### 3.4 Where a property stops

These limits are part of what is claimed; each was found by a counterexample.

- `OnePerContact` and `RepliesInOrder` except `late` texts: `created_at` is the start
  of the inserting transaction, so an older text can commit after a claim's snapshot
  took a newer one, and the next claim takes it beside it. They also except a second
  fault: a job that is done may then be put back by an invocation that does not know it.
- `RepliesAreCounted` speaks of at most one fault. With two, on the last attempt Telnyx takes the
  text without answering and the tag search fails too, so the slot is released and the
  job dead-lettered though the text went out (`sms-inbound-worker/index.ts:2654`). And it
  leaves out a reply over RCS whose answer was lost: the message has no tag to search for
  (`:2564`, `:2651`), so one fault is enough for its slot to be released though it was
  delivered. On the last attempt it stays uncounted; before that the retry repeats the send under
  the same key, and is counted if it is answered.
- `OwnedIsSilent` excepts a text whose event was handled again (`again`) by a flow that
  takes only the first delivery: if the webhook dies or outlives its lease after the flow
  took the text, the redelivery finds the wait used up and lets the coworker answer too
  (`telnyx-sms-inbound/index.ts:4791`). And a worker that claims
  the row before the flip closes it as owned by a flow though none wanted it (`:4725`).
- `ShownIsSent` is claimed before the first fault: a Safe Mode forward and the reply of
  one job share an idempotency key, and after a fault the second passes for a repeat of the first
  (`sms-inbound-worker/index.ts:961`).
- A hangup event handled after the settlement is final writes the raw zone weight over
  the effective one (`telnyx-voice-call-end/index.ts:2400`); no ledger reads it.
- `GateHolds`, `OffersAreRecorded`, `AnswersAreKept`, `LostOnlyToSlack` and `ClaimIsKept`
  are about flows that ask once (`AsksOnce`: one gate and no route, one route and no gate,
  or neither). With more they are false. A flow with two gates acts behind the first and is denied
  at the second, and `answered` is the last decision. The write of a decision is guarded
  by the status alone (`db.ts:753`, `telnyx-sms-inbound/index.ts:3715`): read at one gate and
  written at the next, it takes back the answers and the decision in between. The note of
  a gate's prompt, below, does the same to the routing of a later route. And a second route
  offers the lead to whoever held it after the first.
- `TakenByRight` does not say that who holds a lead was offered it. Once the route is
  over, a "1" is accepted from anyone in `tried` (`late_claim.ts:163`), and a teammate
  the rotation skipped, who opted out or whose phone is the lead's own, is in it
  without a text (`ai-flow-worker/index.ts:9854`). What holds is that nobody takes a
  lead that way while an offer is live.
- `LostOnlyToSlack`, `AnswersAreKept` and `ClaimIsKept` except
  the note of a Slack prompt (`TakenByRight` does not). It writes the context of the
  park back, and so takes back a decision that came while Slack was answering; the
  run then asks for it again. They also except a stopped run, whose context nobody
  reads.
- A send that Telnyx refuses for now gives its slot back twice
  (`ai-flow-worker/index.ts:6920` throws inside the try whose catch releases again):
  `slots` is bounded by type only.
- A late "1" followed by a "2" sends the run through its later steps again; a bare "1"
  takes a lead from a teammate whose claim was accepted and not yet finalised. Both
  are what `ClaimIsKept` allows.
- `SentOnce` is about Messenger and excepts jobs in `doubt`. A box whose write of
  `done` fails answers again; a channel's failed commit does too; a second turn of one
  conversation may run beside the first when two claims share a snapshot.
- `SupersededIsNotLate` does not say that a superseded message was answered. The commit
  retires every queued job up to the newest row of the transcript
  (`messenger_channel.sql:244`), the model was given the last 20 rows of it
  (`engine.ts:109`), a channel's 12 (`slack/worker.ts:55`): a queued message further back
  is retired unseen. A channel also retires what it read when the notice that stands for
  a reply could not be posted (`slack/worker.ts:301`). Within the window Messenger did
  answer what it retired (`RetiredIsAnswered`, §4).
- `StopIsFinal` is about a run that was stopped. One that is done is reopened by a late "1"
  or an "86".
- `DoneIsFinal` and `JobsAreSettled` except channels: their failure write is not guarded,
  and a job put back with its attempts spent is claimed by nobody. A message whose job
  could not be stored (`lost`) waits for a person to write again.
- `NeverUndercounted` and `CeilingHolds` allow for two things, and so the ceiling is not
  kept against a lost answer. `strayed`: an attempt of an older
  window that fails late is refunded from the counter of the newer one. `WrittenOff`:
  Stripe takes the money, the answer is lost, the attempt is settled as failed and its
  pack given back (`auto-reload-sweep.ts:211`, `:528`); the webhook grants the pack, and
  the next claim charges the window again. A dead sweep whose attempt expires, and
  a switch-off while a charge is under way, do the same. What the two properties say is
  that nothing else does: one charge beyond the ceiling for each such attempt, of which
  Stripe did take the money.
- `PaidIsGranted` excepts two faults: the sweep's and the webhook's grant both fail.

### 3.5 Fairness

`sms_live`: `ClaimBegin` and `Reclaim`: pg_cron runs the worker twice a minute and the
sweep every few minutes. `HandlerStep`, `WorkerStep`, `ClaimCommit`: an invocation that
is not killed runs on. `LeaseLapses`: two minutes pass. `Begin`: Telnyx redelivers what
was not answered with a 200 (it gives up after a number of tries; with the faults
bounded fewer are needed). `flow_runs`: the cron's sweeps, deadlines and leases, and a
worker that is not killed; nobody has to answer, and the owner's switch is free.
`chat_jobs`: the minute's reclaim and claim, and a worker that is not killed.
`auto_reload`: the sweeps go on, Stripe delivers, cooldowns and staleness pass; no edit
and no usage is fair. Deaths, faults and switches never are.

## 4. Proofs

Every theorem holds for all values of the constants that the modules' named assumptions
allow: finite sets of calls, legs and messages, positive limits, steps of the five
kinds, markers such as `NoPeriod` that are not members of the sets they stand beside.
TLC evaluates the assumptions on the runs. The inductive invariants were checked on
small instances before they were proved. All proofs go by action; where many actions do
the same kind of thing (an invocation moves on, hands its job back, ends), lemmas say so
once and an action is shown to be of that kind.

### VoiceQuota

`VoiceQuotaProofs`: `TypeCorrect`; `SettlementSafe`; `Implementation`
(`Spec => ImplementsVoiceHold`). `SettledOrReturned` is not inductive: whether a
settlement may still bill depends on the reservation's state, whether a release may
still happen on the settlement's. `IInv` adds the types, `Matched` (for every call:
settled with final, a returned hold with nothing billed, a charge within the hold,
nothing before the reserve) and, for the reserve under way, that its call has no row yet
and that past its count there is room for one more call. The room is the step from a
number read some statements ago to the state at the insert: only a reserve adds to the
calls in flight, and one runs at a time. The same room gives `LimitHolds`: there are
never more than `MaxConcurrent` calls in flight. `NextRefines` maps `ReserveInsert` to `Take`
(needs the room), a release or a sweep to `GiveBack`, every finalizing action to `Charge`
(needs the bound on the charge), the rest to a stutter.

`VoiceLedgerProofs`: `IncludedLedgerHolds`, `BonusLedgerHolds`, `HoldsStayCovered`, from
one invariant, `LedgerInv`. It states each ledger as a sum over *all* calls, legs or
packs in which a row that does not count adds zero, so that an action changes one summand
and never the set summed over. What the ledgers need beside themselves:

- `PeriodBooks` needs `RepairBooks`: what `ReconcileSum` added up is still true when
  `ReconcileWrite` stores it, because whoever would change the sum updates the locked row;
  and `RowsExist`, because an update of a missing usage row changes nothing;
- `PackBooks` (what calls in flight allocated is still in the packs) needs
  `AllocatedInFull`: a settlement's loop over its own allocation covers its whole bonus
  share, so the fallback loop over other packs takes nothing while no pack was refunded or
  has expired. That a loop over the packs takes what it says is `CountdownSums`, a
  telescoping sum;
- `BonusBooks` needs `UnsoldIsEmpty`; and `WeightedUp` makes the surcharge a plain
  difference.

`OversellingBounded` (also in `VoiceLedgerProofs`) says what is left of
`IncludedWithinCap`, which is false. `SoldInv` adds to `LedgerInv` and `WithinLimit` what
the reserve under way knows after each reading: since it read the committed seconds, the
seconds sold (billed or promised) are at most those plus one round of grants
(`CommittedRead`), because at that reading they were the committed seconds and the holds
of at most `MaxConcurrent` calls (`BeginReads`: here `PeriodBooks` and `LimitHolds` are
needed), and nothing but the insert sells a second (`CallStepSells`). What it grants fits
in the cap less what it read (`GrantFits`), so after the insert the sum is at most the cap
and one round. The next reserve reads a counter in which what was oversold is already
billed or is one of at most `MaxConcurrent` holds, so several races add up to no more.

`SumTheorems` proves what those sums are, for every finite set and every function of
integers: `SumFunctionOnSet` has a value, equals its recursion whichever element its
`CHOOSE` takes first (`SumElement`), is additive, monotone, zero on
zeros, bounded by the number of its terms times the largest, and telescopes.
The library's induction theorems cannot be used with these provers, so an
induction over a finite set is written as a minimal counterexample: strict inclusion is
well-founded on the subsets of a finite set, and `WFMin` gives a least subset on which a
claim fails (`Minimal`).

### SmsInbound

`SmsInboundProofs` proves `TypeCorrect`, `OneAtATimePerContact`, `InOrder`,
`OwnedStaySilent`, `EveryReplyCounted` (but for `unseen` RCS replies, §3.4), `SlotsComeBack`, `ShownWasSent` and
`AttemptsAreBounded` from one invariant. Its core is `Local`: every message is with one
worker at one step, in a batch, or free (`Shaped` says with at most one), and `Good` says
for each of those places what the row, the attempts, the slots, the faults and Telnyx's
answer can be together. A worker's step moves one message from place to place, so each
action is a statement about `Good` alone. The rest is about pairs: `Stamped` and
`Snapped` (stamps differ, follow the clock, and a claim's snapshot has committed rows
only) carry `Ordered`: no text is worked on, or in a claim's snapshot, while an older one
of its contact is active and not late; `Handled` and `Flows` say that a row stays
suppressed until its only handler has found that no flow wants it.

### AiFlowRun

`AiFlowRunProofs` proves `TypeCorrect`, `OneAtATime`, `StopHolds`, `CallsOnce` and
`TakersHadTheRight`, for every set of flows. Types need that a worker in the middle of a step
is at a step of the plan (`OnAStep`) and that a teammate's request sends the run back to a
step (`Aimed`). `OneExecutes` is inductive: a claim needs a queued run, a reclaim needs
that nobody executes, and requests find no running one. `CalledOnce` becomes inductive as
`Booked`: a phone that rang has its row in the dial log, and a worker about to dial has
put it there for a phone that did not; that no second worker does needs `OneExecutes`.
`TakenByRight` becomes inductive by saying it of every copy of the context that may
still be written back, the workers' and the requests' too (`EveryCopyRightful`): a copy's
claimer is in its log, or tried and late, and its holder in its log or tried. A step
of the route only adds to both sets (`Onward`), so a claim stays rightful; and that a
request takes a lead by right is `CameByRight`.

`AiFlowCopyProofs` proves `GatesHold`, `OffersRecorded`, `AnswersKept`, `DecisionsKept` and
`ClaimsKept`, for every flow, roster and number of workers and requests. Every step of the system is first shown to
be of one of a few kinds: a worker quits, turns to the next stage of its step, completes
it, passes a cooling gate, makes an offer, saves its copy, gives up, hands the run
back, notes a prompt, or claims (`Acts`, ten kinds for nineteen actions); anybody else
keeps the row, requeues it, or writes one of six answers into it (`Asks`). The rest is
about the kinds. The invariant, `CopyInv`, has these parts:

- `Placed`: which step the row is at with each status, and that a worker is never
  behind it; `Visited`: what a request between read and write has read; `Unanswered`: who
  waits has no answer yet, and a worker's copy has every answer the row has;
- `RouteInv`, for flows with a route: what a routing can be (`Sound`), where the run
  stands with it (`Position`), in the row and in every copy; that a worker's routing only
  follows the row's (`Follows`); and that an offer which was texted, or is about to be,
  is in the row's log, once;
- `GateInv`, for flows with a gate. Two kinds of copies are older than the row: the one a
  prompt's note will write, and the one a decision will. They are as old as the park
  (`Older`): before the gate they agree with the row, behind it they have nothing.
  What else it takes is that the run is not at or before the gate again without a
  decision to use (`GateNotes`), so that a second note, or a second park, cannot come beside
  the first.

In a flow that asks once one of the two is empty, so the theorems need no hypothesis on
the flow but the one the properties state.

### ReplyJobs

`ReplyJobsProofs` proves `TypeCorrect`, `SpokenOnce`, `RetiredIsNotLate` and
`DoneStays`, and of Messenger `RetiredIsAnswered`. The invariant says who may hold a job (`Alone`: one worker of a box, one per
job elsewhere, and what the row says meanwhile), that a Messenger job which may still be
answered has sent nothing (`Spoken`), that a turn about to be committed answered or
passed over all it will retire (`Covering`), and what bounds the attempts of each kind.
`RetiredIsAnswered` is what is left of "a superseded message was answered": where the
transcript, with the rows that faults may add, fits the window (`Fits`), Messenger's turn was given all it read
(`Shown`), so what it retires was in front of the coworker.

### AutoReload

`AutoReloadProofs` proves `TypeCorrect`, `CounterCovers` and `CeilingSafe` from `BInv`,
and two statements of its own: `GrantsSafe` (a pack is granted only for an attempt Stripe
took the money for) and `AttemptsStaySettled`. `NeverUndercounted` alone is not
inductive. `Books` is about the attempts the database counts, those open or settled as paid: a
counter that rolls over starts at zero, so every attempt was claimed in a window the counter has
already counted. `Booked` ties them to Stripe: an attempt that is not `disturbed` and is open is
in the hands of one sweep, and closed it is booked as Stripe answered. So a charge that was
taken and is not counted belongs to a disturbed attempt, which is what `WrittenOff` counts. Strikes and failures have no bound
of their own in the code, and so none in the types.

### What stays with TLC

- Nothing of the safety properties of the passing runs: each is a theorem.
- Liveness (`QueuedIsSettled`, `EventIsHandled`, `RunIsSettled`, `JobsAreSettled`,
  `PaidIsGranted`, `PendingIsClosed`) and what needs ENABLED: outside the provers' reach.

## 5. Plan

1. done: `VoiceHold`, `VoiceQuota`, its proofs; `SmsInbound`; `AiFlowRun`;
   `ReplyJobs`; `AutoReload`.
2. done: the proofs of §4. Next: what survives in a flow that asks more than once.
3. `VoiceCall` over `VoiceQuota`: webhook order, redelivery, the sweeps' thresholds.
4. `SmsMeter`: cap, units, bonus texts; then the slots of `SmsInbound` and `AiFlowRun`
   as instances of it.
5. `AiBudget`, `Residency`, `VpsMigration`, gateway tokens; broadcast offers in
   `AiFlowRun`.

## 6. Not modelled, and why

`PROJECT.json` lists every part with its reason: pages and handlers without state of
their own, calls to third parties, model hosts, best-effort alerts; lock cycles
between transactions (Postgres aborts one side; a model of committed effects cannot
show it). Parts that are planned are marked so.
