----------------------------- MODULE AiFlowRun ------------------------------
(***************************************************************************)
(* One run of an AI flow: its row in ai_flow_runs, the worker invocations  *)
(* that claim and execute it step by step (ai-flow-worker), the sweeps that*)
(* wake it, and the requests that answer what it waits for: the owner at an*)
(* approval gate, the lead, the end of a phone call, and the teammates it  *)
(* is offered to (telnyx-sms-inbound, the dashboard, the voice path).      *)
(*                                                                         *)
(* A worker executes from the copy of the context it got with its claim and*)
(* writes the whole context back; every statement and call of it is an     *)
(* action and it may die between any two.  A request reads the run in one  *)
(* action and writes it in another.                                        *)
(***************************************************************************)
EXTENDS Integers, Sequences, FiniteSets

CONSTANTS
    Plans,       \* flattened definitions: sequences of the step kinds below
    Agents,      \* the roster a route_to_team step offers the lead to
    Workers,     \* worker invocations that may run at a time
    Visitors,    \* requests that may be between their read and their write
    Requests,    \* what they ask, a subset of RequestKinds
    Tenants,     \* what the owner may switch the flow to
    MaxRetries,  \* MAX_ATTEMPTS
    MaxFaults,   \* bound: dead workers, lost writes, lost answers
    Others,      \* texts the rest of the tenant has sent today
    Cap          \* and how many it may send

StepKinds == {"text", "gate", "wait", "call", "route"}
RequestKinds == {"approve", "skip", "deny", "reply", "outcome", "1", "2", "86"}

ASSUME FlowAssumption ==
    /\ Plans \subseteq Seq(StepKinds)
    /\ Requests \subseteq RequestKinds
    /\ "on" \in Tenants /\ Tenants \subseteq {"on", "paused", "off"}
    /\ MaxRetries \in Nat /\ MaxFaults \in Nat /\ Others \in Nat /\ Cap \in Nat

VARIABLES
    plan,      \* the flow's definition
    tenant,    \* businesses.is_paused, ai_flows.enabled and deleted_at
    run,       \* the row of ai_flow_runs
    worker,    \* worker invocations
    visitor,   \* requests, each with the row it read
    ledger,    \* steps with a row in voice_outbound_dial_log
    texts,     \* steps whose text Telnyx took under aiflow:<run>:<index>
    rings,     \* calls the lead's phone got, by step
    offers,    \* offers texted, by teammate
    answered,  \* the owner's decision that was acknowledged, "none" before
    slots,     \* daily_usage.sms_sent of the tenant
    faults     \* faults so far

vars == <<plan, tenant, run, worker, visitor, ledger, texts, rings, offers,
          answered, slots, faults>>
world == <<ledger, texts, rings, offers, slots>>

-----------------------------------------------------------------------------
NoAgent == "none"
ASSUME NoAgentAssumption == NoAgent \notin Agents

Steps == DOMAIN plan
Ended == {"done", "failed", "canceled"}
Waiting == {"awaiting_approval", "awaiting_agent", "awaiting_reply", "awaiting_call"}

NoRouting == [tried |-> {}, log |-> {}, offered |-> NoAgent, event |-> "none",
              from |-> NoAgent, late |-> FALSE, by |-> NoAgent, at |-> 0, home |-> 0]
NewContext(p) == [decision |-> "none", consumed |-> FALSE, slack |-> 0,
                  answer |-> [i \in DOMAIN p |-> "none"], routing |-> NoRouting]
NewRun(p) == [status |-> "queued", step |-> 1, deferred |-> FALSE, retries |-> 0,
              ctx |-> NewContext(p)]
IdleWorker(p) == [at |-> "idle", step |-> 1, ctx |-> NewContext(p)]
Nobody(p) == [what |-> "none", who |-> NoAgent, seen |-> NewRun(p)]

Init ==
    /\ plan \in Plans
    /\ tenant = "on"
    /\ run = NewRun(plan)
    /\ worker = [w \in Workers |-> IdleWorker(plan)]
    /\ visitor = [v \in Visitors |-> Nobody(plan)]
    /\ ledger = {} /\ texts = {}
    /\ rings = [i \in Steps |-> 0]
    /\ offers = [a \in Agents |-> 0]
    /\ answered = "none"
    /\ slots = Others
    /\ faults = 0

Fault == faults < MaxFaults /\ faults' = faults + 1
NoFault == UNCHANGED faults

\* The owner pauses the business or disables the flow, or undoes it.
Switch(to) ==
    /\ tenant # to
    /\ tenant' = to
    /\ UNCHANGED <<plan, run, worker, visitor, world, answered, faults>>

-----------------------------------------------------------------------------
(* Writes to the row.  The trigger bumps revision on every update, and the  *)
(* requests guard their write by the revision they read: one that read      *)
(* before the update will write nothing.                                    *)

Owner == {"approve", "skip", "deny"}

\* Mutant: the revision that was read is not compared.
Undisturbed(vs) == vs
\* An owner's decision does not look at the revision.
Stale(vs) == [v \in Visitors |-> IF vs[v].what \in Owner THEN vs[v] ELSE Nobody(plan)]

Save(row) == run' = row /\ visitor' = Stale(visitor)

\* Mutant: the update is not guarded by the status.
UpdateAnyway(row) == Save(row)
\* updateRun of the worker: it matches no row once the run is canceled.
Update(row) == IF run.status = "canceled" THEN UNCHANGED <<run, visitor>> ELSE Save(row)

Goto(w, at) == worker' = [worker EXCEPT ![w].at = at]
Return(w) == worker' = [worker EXCEPT ![w] = IdleWorker(plan)]

\* A write that may fail: it throws, or is logged.
Try(row, ok, failed) == \/ Update(row) /\ ok /\ NoFault
                        \/ UNCHANGED <<run, visitor>> /\ failed /\ Fault

\* A worker between its claim and the write that gives the run away.
Executing(w) == worker[w].at \notin {"idle", "prompt", "stamp"}

-----------------------------------------------------------------------------
(* The worker's tick: sweeps, then the claim. *)

\* Mutant: the lease is shorter than an invocation may run.
ReclaimableEarly == run.status = "running"
\* claimed_at is older than fifteen minutes: no invocation lives that long.
Reclaimable == run.status = "running" /\ \A w \in Workers : ~Executing(w)

Reclaim ==
    /\ Reclaimable
    /\ Save([run EXCEPT !.status = "queued"])
    /\ UNCHANGED <<plan, tenant, worker, world, answered, faults>>

\* Mutant: the sweep also takes a run that an answer has just re-queued.
OverdueToo(status) == run.status \in {status, "queued"}
\* Mutant: a call is waited for without a deadline.
OverdueUnlessCall(status) == status # "awaiting_call" /\ run.status = status
\* The row is awaiting and respond_by_at has passed.
Overdue(status) == run.status = status

EscalateOffer ==
    /\ Overdue("awaiting_agent")
    /\ Save([run EXCEPT !.status = "queued", !.ctx.routing.event = "timeout"])
    /\ UNCHANGED <<plan, tenant, worker, world, answered, faults>>

\* resume_overdue_reply_waits and resume_overdue_call_waits: the sentinel in
\* the step's variable, and the step's own marker.
ResumeOverdue(status) ==
    /\ Overdue(status)
    /\ run.step \in Steps
    /\ Save([run EXCEPT !.status = "queued", !.ctx.answer[run.step] = "timeout"])
    /\ UNCHANGED <<plan, tenant, worker, world, answered, faults>>

\* earliest_claim_at passes.
Wake ==
    /\ run.deferred
    /\ run' = [run EXCEPT !.deferred = FALSE]
    /\ UNCHANGED <<plan, tenant, worker, visitor, world, answered, faults>>

\* Mutant: a run is claimed again while it runs.
ClaimableRunning == run.status \in {"queued", "running"} /\ ~run.deferred
Claimable == run.status = "queued" /\ ~run.deferred

Claim(w) ==
    /\ worker[w].at = "idle"
    /\ Claimable
    /\ Save([run EXCEPT !.status = "running"])
    /\ worker' = [worker EXCEPT ![w] = [at |-> "begin", step |-> run.step, ctx |-> run.ctx]]
    /\ UNCHANGED <<plan, tenant, world, answered, faults>>

-----------------------------------------------------------------------------
(* executeRun. *)

\* While the business is paused the run is handed back; when the flow was
\* disabled or deleted it is canceled.  Both writes are best-effort.
Begin(w) ==
    /\ worker[w].at = "begin"
    /\ \/ /\ tenant = "on"
          /\ Goto(w, "check")
          /\ UNCHANGED <<run, visitor>> /\ NoFault
       \/ tenant = "paused" /\ Try([run EXCEPT !.status = "queued"], Return(w), Return(w))
       \/ tenant = "off" /\ Try([run EXCEPT !.status = "canceled"], Return(w), Return(w))
    /\ UNCHANGED <<plan, tenant, world, answered>>

\* The top of the loop: a canceled run stops here.
Check(w) ==
    /\ worker[w].at = "check"
    /\ worker[w].step \in Steps
    /\ IF run.status = "canceled" THEN Return(w) ELSE Goto(w, "step")
    /\ UNCHANGED <<plan, tenant, run, visitor, world, answered, faults>>

\* Past the last step.
Finish(w) ==
    /\ worker[w].at = "check"
    /\ worker[w].step \notin Steps
    /\ Try([run EXCEPT !.status = "done", !.step = worker[w].step, !.ctx = worker[w].ctx],
           Return(w), Goto(w, "thrown"))
    /\ UNCHANGED <<plan, tenant, world, answered>>

At(w, kind) == worker[w].at = "step" /\ plan[worker[w].step] = kind

\* The step is over, with context c; the next one is n steps on.
Done(w, c, n) ==
    worker' = [worker EXCEPT ![w] = [at |-> "advance", step |-> @.step + n, ctx |-> c]]

\* current_step and the context are saved before the next step begins.
Advance(w) ==
    /\ worker[w].at = "advance"
    /\ Try([run EXCEPT !.step = worker[w].step, !.ctx = worker[w].ctx],
           Goto(w, "check"), Goto(w, "thrown"))
    /\ UNCHANGED <<plan, tenant, world, answered>>

\* Mutant: one attempt too many.
ExhaustedLate == run.retries > MaxRetries
Exhausted == run.retries >= MaxRetries

\* handleRunThrow: back to the queue until the budget of errors is spent.  The
\* context of this attempt is dropped.  Best-effort: reclaim recovers the run.
Throw(w) ==
    /\ worker[w].at = "thrown"
    /\ Try(IF Exhausted
           THEN [run EXCEPT !.status = "failed"]
           ELSE [run EXCEPT !.status = "queued", !.retries = @ + 1],
           Return(w), Return(w))
    /\ UNCHANGED <<plan, tenant, world, answered>>

\* failRun, after a step that no retry can mend.
Fail(w) ==
    /\ worker[w].at = "fail"
    /\ Try([run EXCEPT !.status = "failed", !.ctx = worker[w].ctx], Return(w), Return(w))
    /\ UNCHANGED <<plan, tenant, world, answered>>

\* The run waits for a call window, or for the voice budget or a free line.
Defer(w) ==
    /\ worker[w].at = "defer"
    /\ Try([run EXCEPT !.status = "queued", !.deferred = TRUE,
                       !.step = worker[w].step, !.ctx = worker[w].ctx],
           Return(w), Goto(w, "thrown"))
    /\ UNCHANGED <<plan, tenant, world, answered>>

\* An invocation ends without another word.
Die(w) ==
    /\ worker[w].at # "idle"
    /\ Fault
    /\ Return(w)
    /\ UNCHANGED <<plan, tenant, run, visitor, world, answered>>

-----------------------------------------------------------------------------
(* send_sms. *)

\* The slot is reserved; over the cap the text is skipped.
Reserve(w) ==
    /\ At(w, "text")
    /\ \/ slots < Cap /\ slots' = slots + 1 /\ Goto(w, "send") /\ NoFault
       \/ UNCHANGED slots /\ Done(w, worker[w].ctx, 1) /\ NoFault
       \/ UNCHANGED slots /\ Goto(w, "thrown") /\ Fault
    /\ UNCHANGED <<plan, tenant, run, visitor, ledger, texts, rings, offers, answered>>

Released(n) == IF slots > n THEN slots - n ELSE 0

\* Telnyx takes the text (a repeat of the key is not sent again), refuses it
\* for good, refuses it for now, or its answer is lost.  Refused for now, the
\* error is thrown from inside the try whose catch releases again.
Send(w) ==
    /\ worker[w].at = "send"
    /\ \/ /\ texts' = texts \cup {worker[w].step}
          /\ Done(w, worker[w].ctx, 1)
          /\ UNCHANGED slots /\ NoFault
       \/ /\ slots' = Released(1)
          /\ Goto(w, "fail")
          /\ UNCHANGED texts /\ NoFault
       \/ /\ slots' = Released(2)
          /\ Goto(w, "thrown")
          /\ UNCHANGED texts /\ NoFault
       \/ /\ texts' \in {texts, texts \cup {worker[w].step}}
          /\ slots' = Released(1)
          /\ Goto(w, "thrown")
          /\ Fault
    /\ UNCHANGED <<plan, tenant, run, visitor, ledger, rings, offers, answered>>

-----------------------------------------------------------------------------
(* Steps that wait. *)

ParkedStatus(kind) == CASE kind = "gate" -> "awaiting_approval"
                        [] kind = "route" -> "awaiting_agent"
                        [] kind = "wait" -> "awaiting_reply"
                        [] kind = "call" -> "awaiting_call"

\* The park is written before anything is sent about it; a run canceled in the
\* meantime is left, and nothing is sent.
Park(w) ==
    /\ worker[w].at = "park"
    /\ LET kind == plan[worker[w].step]
       IN  Try([run EXCEPT !.status = ParkedStatus(kind), !.step = worker[w].step,
                           !.ctx = worker[w].ctx],
               IF run.status = "canceled" \/ kind \notin {"gate", "route"}
               THEN Return(w) ELSE Goto(w, "prompt"),
               Goto(w, "thrown"))
    /\ UNCHANGED <<plan, tenant, world, answered>>

\* wait_for_reply: over once its own marker is set.
Wait(w) ==
    /\ At(w, "wait")
    /\ IF worker[w].ctx.answer[worker[w].step] = "none"
       THEN Goto(w, "park")
       ELSE Done(w, worker[w].ctx, 1)
    /\ UNCHANGED <<plan, tenant, run, visitor, world, answered, faults>>

\* How far a skipped gate moves on: the gate and the step it guards.
\* Mutant: the gate alone is skipped.
SkipsNothing == 1
SkipsGuarded == 2

\* approval_gate: a decision that was not used yet is; without one the run is
\* parked, unless the gate is cooling down, which is a skip that is not saved
\* before the next step is.
Gate(w) ==
    /\ At(w, "gate")
    /\ LET c == worker[w].ctx
           used == [c EXCEPT !.consumed = TRUE]
       IN  IF c.decision # "none" /\ ~c.consumed
           THEN Done(w, used, IF c.decision = "skip" THEN SkipsGuarded ELSE 1)
           ELSE \/ Goto(w, "park")
                \/ worker' = [worker EXCEPT ![w].at = "check", ![w].step = @ + SkipsGuarded]
    /\ UNCHANGED <<plan, tenant, run, visitor, world, answered, faults>>

\* The prompt to the owner, or the offer to the teammate; a failure is logged.
Prompt(w) ==
    /\ worker[w].at = "prompt"
    /\ LET a == worker[w].ctx.routing.offered
       IN  IF plan[worker[w].step] = "route"
           THEN /\ offers' \in {offers, [offers EXCEPT ![a] = @ + 1]}
                /\ Return(w)
           ELSE /\ UNCHANGED offers
                /\ IF worker[w].ctx.slack # worker[w].step
                   THEN Goto(w, "stamp")
                   ELSE Return(w)
    /\ UNCHANGED <<plan, tenant, run, visitor, ledger, texts, rings, slots, answered, faults>>

\* The prompt is in Slack too: the whole context is written once more, with
\* where it was posted.
Stamp(w) ==
    /\ worker[w].at = "stamp"
    /\ \/ Update([run EXCEPT !.ctx = [worker[w].ctx EXCEPT !.slack = worker[w].step]])
       \/ UNCHANGED <<run, visitor>>
    /\ Return(w)
    /\ UNCHANGED <<plan, tenant, world, answered, faults>>

-----------------------------------------------------------------------------
(* place_ai_call. *)

\* Mutant: the dial is not recorded before it is made.
DialedBefore(i) == FALSE
Dialed(i) == i \in ledger

\* Over once its marker is set.  The ledger's row is inserted before the dial;
\* a row of an earlier attempt means the phone may have rung, and the run only
\* waits.  Outside the call window, or with no line to call, it goes on; where
\* the plan, the opt-outs or the numbers cannot be looked up, it fails; and where
\* the insert does, it throws, the row written or not.
Call(w) ==
    /\ At(w, "call")
    /\ LET i == worker[w].step
           c == worker[w].ctx
       IN  IF c.answer[i] # "none"
           THEN Done(w, c, 1) /\ UNCHANGED ledger /\ NoFault
           ELSE \/ /\ \/ Done(w, [c EXCEPT !.answer[i] = "not_placed"], 1)
                      \/ Goto(w, "defer")
                      \/ Goto(w, "fail")
                      \/ Dialed(i) /\ Goto(w, "park")
                   /\ UNCHANGED ledger /\ NoFault
                \/ ~Dialed(i) /\ Goto(w, "dial") /\ ledger' = ledger \cup {i} /\ NoFault
                \/ Goto(w, "thrown") /\ ledger' \in {ledger, ledger \cup {i}} /\ Fault
    /\ UNCHANGED <<plan, tenant, run, visitor, texts, rings, offers, slots, answered>>

\* The phone rings, or may have; the dial is refused before it rings and the
\* row is taken back, which may fail; or it fails after it rang.
Dial(w) ==
    /\ worker[w].at = "dial"
    /\ LET i == worker[w].step
           c == worker[w].ctx
           rung == [rings EXCEPT ![i] = @ + 1]
       IN  \/ /\ rings' = rung
              /\ Goto(w, "park")
              /\ UNCHANGED ledger /\ NoFault
           \/ /\ rings' \in {rings, rung}
              /\ Goto(w, "park")
              /\ UNCHANGED ledger /\ Fault
           \/ /\ \/ ledger' = ledger \ {i} /\ NoFault
                 \/ UNCHANGED ledger /\ Fault
              /\ \/ Goto(w, "defer")
                 \/ Done(w, [c EXCEPT !.answer[i] = "not_placed"], 1)
              /\ UNCHANGED rings
           \/ /\ rings' = rung
              /\ Done(w, [c EXCEPT !.answer[i] = "failed"], 1)
              /\ UNCHANGED ledger /\ NoFault
    /\ UNCHANGED <<plan, tenant, run, visitor, texts, offers, slots, answered>>

-----------------------------------------------------------------------------
(* route_to_team. *)

\* A claim: the teammate holds the lead, and the offer is cleared away.
Claimed(r) == [r EXCEPT !.by = r.from, !.event = "none", !.from = NoAgent,
                        !.offered = NoAgent, !.late = FALSE, !.at = 0]
Unclaimed(r) == [r EXCEPT !.by = NoAgent, !.event = "none", !.from = NoAgent,
                          !.offered = NoAgent]
\* Mutant: the teammate whose offer is over may be asked again.
NotRetired(r) == [r EXCEPT !.offered = NoAgent, !.event = "none", !.from = NoAgent]
\* The teammate last offered is not asked again.
Retired(r) ==
    LET last == {r.offered} \ {NoAgent}
    IN  [r EXCEPT !.tried = @ \cup last, !.log = @ \cup last,
                  !.offered = NoAgent, !.event = "none", !.from = NoAgent]
\* The lead is offered to a.
Offered(r, a, i) == [r EXCEPT !.offered = a, !.log = @ \cup {a}, !.at = i, !.home = i]
\* Picked, but not to be texted: the lead's own number, or one that opted out.
Skipped(r, them) == [r EXCEPT !.tried = @ \cup them]

\* An unclaim and a late claim end the run, their owner having been told; a
\* claim goes on; else the next teammate is offered the lead, some being skipped
\* on the way, or, when none is found, the owner is handed it.  The owner's text
\* may fail, and then the step is run again.
Route(w) ==
    /\ At(w, "route")
    /\ LET i == worker[w].step
           c == worker[w].ctx
           r == c.routing
           Over(new, n) == \/ Done(w, [c EXCEPT !.routing = new], n) /\ NoFault
                           \/ Goto(w, "thrown") /\ Fault
           Rest == Len(plan) + 1 - i
       IN  \/ r.event = "unclaim" /\ Over(Unclaimed(r), Rest)
           \/ r.event = "claim" /\ Over(Claimed(r), IF r.late THEN Rest ELSE 1)
           \/ /\ r.event \notin {"claim", "unclaim"}
              /\ \E skipped \in SUBSET (Agents \ Retired(r).tried) :
                    LET next == Skipped(Retired(r), skipped)
                    IN  \/ \E a \in Agents \ next.tried :
                              /\ worker' = [worker EXCEPT ![w].at = "park",
                                               ![w].ctx.routing = Offered(next, a, i)]
                              /\ NoFault
                        \/ Over(next, 1)
    /\ UNCHANGED <<plan, tenant, run, visitor, world, answered>>

-----------------------------------------------------------------------------
(* The requests.  Each reads the row, and writes what it read with its      *)
(* answer in it.                                                            *)

\* The sender's own offer, that may have lapsed a moment ago.
Live(row, a) == row.status \in {"awaiting_agent", "queued"} /\ row.ctx.routing.offered = a
\* Steps behind the route have been reached, with nobody holding the lead.
Late(row) == row.status = "done" \/ row.step > row.ctx.routing.at

\* Mutant: who was skipped may break in on an offer that is live.
TakersTried(row) == row.ctx.routing.log \cup row.ctx.routing.tried
\* Who may claim a lead that is not on offer to them: while the offer is live
\* only who was texted one, later also who was skipped.
Takers(row) ==
    row.ctx.routing.log \cup (IF Late(row) THEN row.ctx.routing.tried ELSE {})

Teammate == {"1", "2", "86"}

\* The statuses a request may find and overwrite.
Open(q) == CASE q \in Owner -> {"awaiting_approval"}
             [] q = "reply" -> {"awaiting_reply"}
             [] q = "outcome" -> {"awaiting_call"}
             [] q = "2" -> {"awaiting_agent", "queued"}
             [] q = "1" -> {"done", "awaiting_agent", "queued", "awaiting_approval"}
             [] q = "86" -> {"done", "awaiting_agent", "queued", "awaiting_approval",
                             "awaiting_reply"}

\* What else it must find.  A "1" takes an offer that is the sender's, one that
\* lapsed, or one that is live with somebody else; "86" lets the lead go.
Finds(q, a, row) ==
    LET r == row.ctx.routing
    IN  /\ (q \in Teammate) <=> (a # NoAgent)
        /\ row.status \in Open(q)
        /\ CASE q = "outcome" -> rings[row.step] > 0
             [] q = "2" -> Live(row, a)
             [] q = "1" -> \/ Live(row, a)
                           \/ r.by = NoAgent /\ r.at # 0 /\ a \in Takers(row)
             [] q = "86" -> r.by = a /\ r.home # 0
             [] OTHER -> TRUE

\* The owner's decision, by text or on the dashboard: it replaces the approval
\* as a whole.
Decided(q, row) ==
    [run EXCEPT !.status = IF q = "deny" THEN "canceled" ELSE "queued",
                !.ctx = [row.ctx EXCEPT !.decision = q, !.consumed = FALSE, !.slack = 0]]

\* The lead's text, or the end of the call, goes into the waiting step.
Resumed(q, row) ==
    [run EXCEPT !.status = "queued",
                !.ctx = [row.ctx EXCEPT !.answer[row.step] =
                                            IF q = "reply" THEN "reply" ELSE "answered"]]

\* "1" or "2" to an offer that is the sender's.
Replied(q, a, row) ==
    [run EXCEPT !.status = "queued",
                !.ctx = [row.ctx EXCEPT !.routing.event = IF q = "1" THEN "claim" ELSE "reject",
                                        !.routing.from = a]]

\* "1" to another offer: the run goes back to the route step, and whoever the
\* lead was live with is retired.
TakenOver(a, row) ==
    LET r == row.ctx.routing
        tried == IF Late(row) THEN r.tried ELSE r.tried \cup ({r.offered} \ {NoAgent})
    IN  [run EXCEPT !.status = "queued", !.step = r.at, !.deferred = FALSE,
                    !.ctx = [row.ctx EXCEPT !.routing =
                                [r EXCEPT !.tried = tried, !.event = "claim", !.from = a,
                                          !.offered = a, !.late = @ \/ Late(row)]]]

\* "86": back at the route step, which lets the lead go.
Released86(a, row) ==
    [run EXCEPT !.status = "queued", !.step = row.ctx.routing.home, !.deferred = FALSE,
                !.ctx = [row.ctx EXCEPT !.routing.event = "unclaim", !.routing.from = a]]

\* Request q of a, that read row, writes; the requests are then vs.
Respond(q, a, row, vs) ==
    /\ run.status \in (IF q = "1" /\ Live(row, a) THEN Open("2") ELSE Open(q))
    /\ run' = CASE q \in Owner -> Decided(q, row)
                [] q \in {"reply", "outcome"} -> Resumed(q, row)
                [] q = "2" \/ (q = "1" /\ Live(row, a)) -> Replied(q, a, row)
                [] q = "1" /\ ~Live(row, a) -> TakenOver(a, row)
                [] q = "86" -> Released86(a, row)
    /\ visitor' = Stale(vs)
    /\ answered' = IF q \in Owner THEN q ELSE answered
    /\ UNCHANGED <<plan, tenant, worker, world, faults>>

\* A request that nothing comes between.
AtOnce(q, a) == Finds(q, a, run) /\ Respond(q, a, run, visitor)

Read(v, q, a) ==
    /\ visitor[v].what = "none"
    /\ Finds(q, a, run)
    /\ visitor' = [visitor EXCEPT ![v] = [what |-> q, who |-> a, seen |-> run]]
    /\ UNCHANGED <<plan, tenant, run, worker, world, answered, faults>>

Write(v) ==
    /\ visitor[v].what # "none"
    /\ Respond(visitor[v].what, visitor[v].who, visitor[v].seen,
               [visitor EXCEPT ![v] = Nobody(plan)])

\* The invocation ends before its write.
Leave(v) ==
    /\ visitor[v].what # "none"
    /\ visitor' = [visitor EXCEPT ![v] = Nobody(plan)]
    /\ UNCHANGED <<plan, tenant, run, worker, world, answered, faults>>

\* The owner stops the run on the dashboard.  The context this writes back may be
\* older than the row's; nothing reads the context of a stopped run, so here it
\* stays.
Cancel ==
    /\ run.status \in {"queued", "running"} \cup Waiting
    /\ Save([run EXCEPT !.status = "canceled"])
    /\ UNCHANGED <<plan, tenant, worker, world, answered, faults>>

-----------------------------------------------------------------------------
Tick == Reclaim \/ EscalateOffer \/ ResumeOverdue("awaiting_reply")
        \/ ResumeOverdue("awaiting_call") \/ Wake

Execute(w) ==
    \/ Claim(w) \/ Begin(w) \/ Check(w) \/ Finish(w) \/ Advance(w) \/ Throw(w)
    \/ Fail(w) \/ Defer(w) \/ Reserve(w) \/ Send(w) \/ Park(w) \/ Wait(w) \/ Gate(w)
    \/ Prompt(w) \/ Stamp(w) \/ Call(w) \/ Dial(w) \/ Route(w)

Asking == Requests \X (Agents \cup {NoAgent})

Visit(v) == (\E ask \in Asking : Read(v, ask[1], ask[2])) \/ Write(v) \/ Leave(v)

Next ==
    \/ \E to \in Tenants : Switch(to)
    \/ Tick
    \/ Cancel
    \/ \E w \in Workers : Execute(w) \/ Die(w)
    \/ \E ask \in Asking : AtOnce(ask[1], ask[2])
    \/ \E v \in Visitors : Visit(v)

Spec == Init /\ [][Next]_vars

\* The cron keeps ticking, deadlines and leases pass, and a worker that lives
\* goes on.  Nobody has to answer, and nothing is said of the owner's switch.
Fairness ==
    /\ WF_vars(Reclaim) /\ WF_vars(EscalateOffer) /\ WF_vars(Wake)
    /\ WF_vars(ResumeOverdue("awaiting_reply")) /\ WF_vars(ResumeOverdue("awaiting_call"))
    /\ \A w \in Workers : WF_vars(Execute(w))

FairSpec == Spec /\ Fairness

-----------------------------------------------------------------------------
(* Properties. *)

Routings ==
    [tried : SUBSET Agents, log : SUBSET Agents, offered : Agents \cup {NoAgent},
     event : {"none", "claim", "reject", "timeout", "unclaim"},
     from : Agents \cup {NoAgent}, late : BOOLEAN, by : Agents \cup {NoAgent},
     at : {0} \cup Steps, home : {0} \cup Steps]
Contexts ==
    [decision : {"none"} \cup Owner, consumed : BOOLEAN, slack : {0} \cup Steps,
     answer : [Steps -> {"none", "reply", "timeout", "answered", "not_placed", "failed"}],
     routing : Routings]
Places == 1..(Len(plan) + 2)
Rows ==
    [status : {"queued", "running"} \cup Waiting \cup Ended, step : Places,
     deferred : BOOLEAN, retries : 0..MaxRetries, ctx : Contexts]
Invocations ==
    [at : {"idle", "begin", "check", "step", "send", "dial", "advance", "park", "prompt",
           "stamp", "defer", "fail", "thrown"},
     step : Places, ctx : Contexts]
Visits == [what : {"none"} \cup Requests, who : Agents \cup {NoAgent}, seen : Rows]

\* The row, every worker's copy of its context and every request's copy of the
\* row have their types.
TypeOK ==
    /\ plan \in Plans /\ tenant \in Tenants
    /\ run \in Rows
    /\ worker \in [Workers -> Invocations]
    /\ visitor \in [Visitors -> Visits]
    /\ ledger \subseteq Steps /\ texts \subseteq Steps
    /\ rings \in [Steps -> Nat] /\ offers \in [Agents -> Nat]
    /\ answered \in {"none"} \cup Owner
    /\ slots \in 0..(Others + Cap) /\ faults \in 0..MaxFaults

\* At most one worker executes steps of the run, and only while its status says
\* so, unless the owner stopped it under that worker's hands.
OneExecutes ==
    /\ \A w1, w2 \in Workers : Executing(w1) /\ Executing(w2) => w1 = w2
    /\ \A w \in Workers : Executing(w) => run.status \in {"running", "canceled"}

\* However often a call step is run again, the lead's phone rings once for it.
CalledOnce == \A i \in Steps : rings[i] <= 1

\* What follows, but for TakenByRight, says what is safe in a flow in which
\* one step at most asks somebody, the owner at a gate or the team on a route.
\* In others a copy of the context that is older than the last gate may be
\* written over what came since, by a late decision or the note of a prompt.
AsksOnce ==
    \A i, j \in Steps : {plan[i], plan[j]} \subseteq {"gate", "route"} => i = j

\* The step behind the gate acts only when the owner approved it.
GateHolds ==
    AsksOnce => \A i \in texts : i > 1 /\ plan[i - 1] = "gate" => answered = "approve"

\* The last write of a gate's prompt, the note of where Slack has it, is a copy
\* of the context that is as old as the park: it takes back what was written
\* since; and a stop writes an older one too.
Overwritten == run'.ctx.slack # run.ctx.slack \/ run'.status = "canceled"

\* A teammate is texted one offer of the run, and the row says who was: a late
\* "1" always finds it.
OffersAreRecorded ==
    AsksOnce => \A a \in Agents : /\ offers[a] <= 1
                                  /\ offers[a] > 0 /\ run.status # "canceled"
                                        => a \in run.ctx.routing.log

\* Who claims the lead was texted an offer, or else claims it late: a teammate
\* whom the rotation skipped takes it from nobody while the route is on.  And who
\* holds it was one or the other, whichever copy of the context was written last.
TakenByRight ==
    LET r == run.ctx.routing
    IN  /\ r.event = "claim" => r.from \in r.log \cup (IF r.late THEN r.tried ELSE {})
        /\ r.by \in r.log \cup r.tried \cup {NoAgent}

\* A stopped run stays stopped, whatever was under way.
StopIsFinal == [][run.status = "canceled" => run'.status = "canceled"]_vars

\* What the lead or the call answered is not overwritten, by the deadline that
\* passed meanwhile or by a worker's copy of the context.
AnswersAreKept ==
    [][AsksOnce => \/ Overwritten
                   \/ \A i \in Steps : run.ctx.answer[i] # "none"
                                          => run'.ctx.answer[i] = run.ctx.answer[i]]_vars

\* An accepted decision of the owner stays in the row of a run that goes on: the
\* Slack note alone, which writes the context of the park back, may lose it.
LostOnlyToSlack ==
    [][AsksOnce => \/ Overwritten \/ answered = "none"
                   \/ run'.ctx.decision \in {run.ctx.decision, answered'}]_vars

\* A claim ends with its claimer holding the lead, unless another teammate
\* claims or the claimer passes; and the lead is let go by its holder only.
ClaimIsKept ==
    [][LET r == run.ctx.routing
           n == run'.ctx.routing
       IN  AsksOnce =>
           \/ Overwritten
           \/ /\ r.event = "claim" => \/ n.event = "claim" \/ n.by = r.from
                                      \/ n.event = "reject" /\ n.from = r.from
              /\ r.by # NoAgent => \/ n.by = r.by
                                   \/ r.event = "unclaim" /\ r.from = r.by]_vars

\* While the flow is on, a run does not stay where it is: it ends, or waits for
\* the owner's decision or for the hour it was put off to.
RunIsSettled ==
    []<>(run.status \in Ended \cup {"awaiting_approval"} \/ run.deferred \/ tenant # "on")
=============================================================================
