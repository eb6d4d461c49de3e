----------------------------- MODULE SmsInbound -----------------------------
(***************************************************************************)
(* The answer to an inbound text: the webhook that queues it               *)
(* (telnyx-sms-inbound), the job table and its claim, and the worker that  *)
(* composes a reply, pays for it and sends it (sms-inbound-worker).        *)
(*                                                                         *)
(* A handler and a worker are invocations of edge functions: each of their *)
(* statements and calls is an action, and an invocation may die between    *)
(* any two.  claim_sms_inbound_jobs and the webhook's insert are two       *)
(* actions each, because a READ COMMITTED statement sees what was committed*)
(* when it began, and a row's created_at is older than its commit.         *)
(***************************************************************************)
EXTENDS Integers, FiniteSets

CONSTANTS
    Messages,     \* inbound texts of one business (telnyx_event_id)
    Contacts,     \* who sends them
    From,         \* customer_e164 of each
    Handlers,     \* webhook invocations that may run at a time
    Workers,      \* worker invocations that may run at a time
    Modes,        \* what the owner may switch the coworker to
    Channels,     \* "sms", and "rcs" where the tenant has an agent
    MaxAttempts,  \* MAX_ATTEMPTS
    MaxFaults     \* bound: dead invocations, lost writes, lost answers

NoMessage == "no message"

ASSUME InboundAssumption ==
    /\ IsFiniteSet(Messages) /\ NoMessage \notin Messages
    /\ From \in [Messages -> Contacts]
    /\ Modes \subseteq {"open", "safe", "paused"}
    /\ "open" \in Modes
    /\ Channels \subseteq {"sms", "rcs"}
    /\ MaxAttempts \in Nat \ {0}
    /\ MaxFaults \in Nat

VARIABLES
    mode,      \* businesses.is_paused and customer_channels_enabled
    flow,      \* whether one of the tenant's flows claims the answer
    owned,     \* a flow's run or its parked wait has taken the message
    event,     \* telnyx_webhook_events, one row per message
    handler,   \* webhook invocations
    job,       \* sms_inbound_jobs, one row per message
    worker,    \* worker invocations
    accepted,  \* what Telnyx took under the job's idempotency key: a forward, a
               \* plain reply, one over RCS, or one over RCS whose answer was lost
    slots,     \* daily_usage.sms_sent, by the message it was counted for
    again,     \* history: messages that a second invocation was started for
    late,      \* history: jobs whose insert committed after that of a newer one
    faults     \* faults so far

history == <<again, late>>
vars == <<mode, flow, owned, event, handler, job, worker, accepted, slots, history, faults>>

-----------------------------------------------------------------------------
IdleHandler == [at |-> "idle", msg |-> NoMessage, owns |-> FALSE]
IdleWorker == [at |-> "idle", msg |-> NoMessage, batch |-> {}]
NoJob == [state |-> "none", stamp |-> 0, suppress |-> TRUE, attempts |-> 0,
          cached |-> FALSE, result |-> "none"]

Init ==
    /\ mode = "open"
    /\ flow \in [Messages -> {"never", "once", "always"}]
    /\ owned = [m \in Messages |-> FALSE]
    /\ event = [m \in Messages |-> "none"]
    /\ handler = [h \in Handlers |-> IdleHandler]
    /\ job = [m \in Messages |-> NoJob]
    /\ worker = [w \in Workers |-> IdleWorker]
    /\ accepted = [m \in Messages |-> "none"]
    /\ slots = [m \in Messages |-> 0]
    /\ again = {} /\ late = {}
    /\ faults = 0

greatest(a, b) == IF a > b THEN a ELSE b

Fault == /\ faults < MaxFaults
         /\ faults' = faults + 1
NoFault == UNCHANGED faults

\* The owner pauses the coworker, or turns Safe Mode on or off.
SetMode(to) ==
    /\ mode # to
    /\ mode' = to
    /\ UNCHANGED <<flow, owned, event, handler, job, worker, accepted, slots, history, faults>>

-----------------------------------------------------------------------------
(* The webhook. *)

GoTo(h, at) == handler' = [handler EXCEPT ![h].at = at]
Return(h) == handler' = [handler EXCEPT ![h] = IdleHandler]

\* Mutant: a claim never runs out.
WorkableOnce(m) == event[m] = "none"
Workable(m) == event[m] \in {"none", "lapsed"}

\* telnyx_webhook_try_begin answers 'work': a new event, or one whose lease has
\* run out.  Under a running lease it answers 'busy', once complete 'done'.
Begin(h, m) ==
    /\ handler[h].at = "idle"
    /\ Workable(m)
    /\ event' = [event EXCEPT ![m] = "leased"]
    /\ handler' = [handler EXCEPT ![h] = [at |-> "gate", msg |-> m, owns |-> FALSE]]
    /\ again' = IF event[m] = "lapsed" THEN again \cup {m} ELSE again
    /\ UNCHANGED <<mode, flow, owned, job, worker, accepted, slots, late, faults>>

\* claim_until passes: two minutes, which is less than a handler may live.
LeaseLapses(m) ==
    /\ event[m] = "leased"
    /\ event' = [event EXCEPT ![m] = "lapsed"]
    /\ UNCHANGED <<mode, flow, owned, handler, job, worker, accepted, slots, history, faults>>

\* Does a flow take message m now?  An 'always' flow answers for its run even
\* when an earlier delivery queued it; a parked wait, or a flow that enrolls a
\* sender once, was used up by the first delivery.
Takes(m) == \/ flow[m] = "always"
            \/ flow[m] = "once" /\ ~owned[m]

\* A row the worker never claims.
Audited(m, result) ==
    IF job[m].state = "none"
    THEN [job EXCEPT ![m].state = "done", ![m].result = result]
    ELSE job

\* What the webhook settles itself: keywords and answers to the owner, texts of
\* the staff, second copies of a text, and every text while paused.  In Safe
\* Mode it forwards the text under a key of its own; where the forward is not
\* configured the text is queued as when open.
HandlerGate(h) ==
    /\ handler[h].at = "gate"
    /\ LET m == handler[h].msg
       IN  \/ /\ job' \in {job, Audited(m, "quiet")}
              /\ event' = [event EXCEPT ![m] = "complete"]
              /\ Return(h)
           \/ /\ mode = "safe"
              /\ job' = Audited(m, "forwarded")
              /\ GoTo(h, "forwarded")
              /\ UNCHANGED event
           \/ /\ mode \in {"open", "safe"}
              /\ GoTo(h, "persist")
              /\ UNCHANGED <<event, job>>
    /\ UNCHANGED <<mode, flow, owned, worker, accepted, slots, history, faults>>

\* created_at of a row inserted now: later than that of any other, as a clock is
\* that every row written and every insert lost moves on.
Now == 1 + Cardinality({m \in Messages : job[m].state # "none"}) + faults

\* Mutant: the row starts out answerable while the flows are still evaluated.
PersistedAnswerable(row) == [row EXCEPT !.suppress = FALSE]
\* suppress_reply starts TRUE, so that a worker that is quicker than the flows
\* stays silent.
Persisted(row) == [row EXCEPT !.suppress = TRUE]

\* The insert begins: created_at is the start of its transaction.  A second
\* insert of the event waits for the first, then fails on the unique key.
Persist(h) ==
    /\ handler[h].at = "persist"
    /\ LET m == handler[h].msg
       IN  \/ /\ job[m].state = "none"
              /\ job' = [job EXCEPT ![m] =
                           [Persisted(NoJob) EXCEPT !.state = "inserting",
                                                    !.stamp = Now]]
              /\ GoTo(h, "commit")
           \/ /\ job[m].state \notin {"none", "inserting"}
              /\ GoTo(h, "evaluate")
              /\ UNCHANGED job
    /\ UNCHANGED <<mode, flow, owned, event, worker, accepted, slots, history, faults>>

Active(m) == job[m].state \in {"pending", "processing"}
Siblings(m) == {n \in Messages \ {m} : From[n] = From[m]}
\* A newer text of the contact is in the queue already.
Overtaken(m) == \E n \in Siblings(m) : Active(n) /\ job[m].stamp < job[n].stamp

\* ... and commits: from here on a claim can see the row.
PersistCommit(h) ==
    /\ handler[h].at = "commit"
    /\ LET m == handler[h].msg
       IN  /\ job' = [job EXCEPT ![m].state = "pending"]
           /\ late' = IF Overtaken(m) THEN late \cup {m} ELSE late
    /\ GoTo(h, "evaluate")
    /\ UNCHANGED <<mode, flow, owned, event, worker, accepted, slots, again, faults>>

\* resumeAwaitingReplyRun and evaluateAndEnqueueAiFlows.  The flows start in
\* Safe Mode too, where there is no coworker to silence.
Evaluate(h) ==
    /\ handler[h].at \in {"evaluate", "forwarded"}
    /\ LET m == handler[h].msg
           next == IF handler[h].at = "evaluate" THEN "flip" ELSE "answer"
       IN  /\ handler' = [handler EXCEPT ![h].at = next, ![h].owns = Takes(m)]
           /\ owned' = [owned EXCEPT ![m] = @ \/ Takes(m)]
    /\ UNCHANGED <<mode, flow, event, job, worker, accepted, slots, history, faults>>

\* No flow owns the answer: the coworker may reply, if the row still waits.
Flip(h) ==
    /\ handler[h].at = "flip"
    /\ LET m == handler[h].msg
       IN  job' = IF ~handler[h].owns /\ job[m].state = "pending"
                  THEN [job EXCEPT ![m].suppress = FALSE]
                  ELSE job
    /\ GoTo(h, "answer")
    /\ UNCHANGED <<mode, flow, owned, event, worker, accepted, slots, history, faults>>

\* telnyx_webhook_mark_complete
Answer(h) ==
    /\ handler[h].at = "answer"
    /\ event' = [event EXCEPT ![handler[h].msg] = "complete"]
    /\ Return(h)
    /\ UNCHANGED <<mode, flow, owned, job, worker, accepted, slots, history, faults>>

\* The invocation dies, or answers 500: Telnyx delivers the event again.  An
\* insert that had not committed is gone.
HandlerDies(h) ==
    /\ handler[h].at # "idle"
    /\ Fault
    /\ job' = IF handler[h].at = "commit"
              THEN [job EXCEPT ![handler[h].msg] = NoJob]
              ELSE job
    /\ Return(h)
    /\ UNCHANGED <<mode, flow, owned, event, worker, accepted, slots, history>>

-----------------------------------------------------------------------------
(* The job table. *)

\* Mutant: a job waits only for the jobs ahead of it, not for the running one.
UnblockedByPending(m) ==
    \A n \in Siblings(m) : ~(job[n].state = "pending" /\ job[n].stamp < job[m].stamp)

\* Mutant: a job waits only for the running one.
UnblockedByRunning(m) == \A n \in Siblings(m) : job[n].state # "processing"

\* claim_sms_inbound_jobs takes a contact's oldest job, one at a time.
Unblocked(m) ==
    \A n \in Siblings(m) :
        /\ job[n].state # "processing"
        /\ ~(job[n].state = "pending" /\ job[n].stamp < job[m].stamp)

Claimable == {m \in Messages : job[m].state = "pending" /\ Unblocked(m)}

\* The claim's snapshot.
ClaimBegin(w) ==
    /\ worker[w].at = "idle"
    /\ Claimable # {}
    /\ worker' = [worker EXCEPT ![w].at = "claim", ![w].batch = Claimable]
    /\ UNCHANGED <<mode, flow, owned, event, handler, job, accepted, slots, history, faults>>

\* Its update: of a row another transaction changed meanwhile only the row's
\* own condition is checked again.
ClaimCommit(w) ==
    /\ worker[w].at = "claim"
    /\ LET taken == {m \in worker[w].batch : job[m].state = "pending"}
       IN  /\ job' = [m \in Messages |->
                        IF m \in taken
                        THEN [job[m] EXCEPT !.state = "processing", !.attempts = @ + 1]
                        ELSE job[m]]
           /\ worker' = [worker EXCEPT ![w] =
                           [at |-> IF taken = {} THEN "idle" ELSE "first",
                            msg |-> NoMessage, batch |-> taken]]
    /\ UNCHANGED <<mode, flow, owned, event, handler, accepted, slots, history, faults>>

\* No invocation that claimed the job is alive.
Abandoned(m) == \A w \in Workers : worker[w].msg # m /\ m \notin worker[w].batch

\* Mutant: a job that has used up its attempts is left where it is.
StaleWithinAttempts(m) ==
    job[m].state = "processing" /\ Abandoned(m) /\ job[m].attempts < MaxAttempts
\* 15 minutes without an update, when an invocation lives 150 seconds at most.
Stale(m) == job[m].state = "processing" /\ Abandoned(m)

\* sms_reclaim_stale_processing_jobs
Reclaim(m) ==
    /\ Stale(m)
    /\ job' = [job EXCEPT ![m].state = "pending"]
    /\ UNCHANGED <<mode, flow, owned, event, handler, worker, accepted, slots, history, faults>>

-----------------------------------------------------------------------------
(* The worker. *)

Msg(w) == worker[w].msg
Step(w, at) == worker' = [worker EXCEPT ![w].at = at]
StaysQuiet == UNCHANGED <<accepted, slots>>

\* The worker is through with its job; the invocation ends with its batch.
Finish(w) ==
    worker' = [worker EXCEPT ![w] =
                 IF @.batch = {} THEN IdleWorker
                 ELSE [@ EXCEPT !.at = "next", !.msg = NoMessage]]

Closed(m, state, result) ==
    [job EXCEPT ![m].state = state, ![m].result = result, ![m].cached = FALSE]

\* complete_sms_inbound_job and the clearing of the cached reply.  The worker
\* does not look at whether the update was written.
Close(w, state, result) ==
    /\ \/ job' = Closed(Msg(w), state, result) /\ NoFault
       \/ job' = [job EXCEPT ![Msg(w)].cached = FALSE] /\ Fault
    /\ Finish(w)

GivesUp(m) == job[m].attempts >= MaxAttempts

\* The update that puts the job back in the queue, unlooked at as well.
PutBack(w) ==
    /\ \/ job' = [job EXCEPT ![Msg(w)].state = "pending", ![Msg(w)].result = "none"] /\ NoFault
       \/ UNCHANGED job /\ Fault
    /\ Finish(w)

\* A failed attempt: back to the queue, or the last one.
Retry(w) ==
    \/ GivesUp(Msg(w)) /\ Close(w, "dead_letter", "gave_up")
    \/ ~GivesUp(Msg(w)) /\ PutBack(w)

\* The next job of the batch.
Start(w, m) ==
    /\ worker[w].at \in {"first", "next"}
    /\ m \in worker[w].batch
    /\ worker' = [worker EXCEPT ![w] = [at |-> "gate", msg |-> m, batch |-> @.batch \ {m}]]
    /\ UNCHANGED job /\ StaysQuiet /\ NoFault

\* Mutant: what is handed back has used up an attempt.
HandedBackSpent(row) == [row EXCEPT !.state = "pending"]
HandedBack(row) == [row EXCEPT !.state = "pending", !.attempts = greatest(0, @ - 1)]

\* Out of time: release_sms_inbound_jobs gives the rest of the batch back.
Defer(w) ==
    /\ worker[w].at = "next"
    /\ \/ /\ job' = [m \in Messages |->
                       IF m \in worker[w].batch /\ job[m].state = "processing"
                       THEN HandedBack(job[m]) ELSE job[m]]
          /\ NoFault
       \/ UNCHANGED job /\ Fault
    /\ worker' = [worker EXCEPT ![w] = IdleWorker]
    /\ StaysQuiet

\* Every reason to stay silent (short codes, staff, reactions, loops), what is
\* not configured, the owner's switch, the flows' claim, and the contact's own
\* setting, which may forward the text and retry.
Gate(w) ==
    /\ worker[w].at = "gate"
    /\ \/ Close(w, "done", "quiet")
       \/ Close(w, "dead_letter", "not_configured")
       \/ mode = "paused" /\ Close(w, "dead_letter", "paused")
       \/ mode = "safe" /\ Step(w, "forward") /\ UNCHANGED job /\ NoFault
       \/ /\ mode = "open"
          /\ job[Msg(w)].suppress
          /\ Close(w, "done", "suppressed_by_ai_flow")
       \/ /\ mode = "open"
          /\ ~job[Msg(w)].suppress
          /\ \/ ~GivesUp(Msg(w)) /\ PutBack(w)
             \/ Step(w, "compose") /\ UNCHANGED job /\ NoFault
    /\ StaysQuiet

\* The model's turn, unless an earlier attempt cached its reply; the reply is
\* stored before it can be sent.  The owner's own turn is not run again where
\* its reply could not be stored.
Compose(w) ==
    /\ worker[w].at = "compose"
    /\ \/ /\ job' = [job EXCEPT ![Msg(w)].cached = TRUE]
          /\ Step(w, "reserve") /\ NoFault
       \/ ~job[Msg(w)].cached /\ Retry(w)
       \/ ~job[Msg(w)].cached /\ Close(w, "done", "quiet")
       \/ ~job[Msg(w)].cached /\ Close(w, "dead_letter", "not_cached")
    /\ StaysQuiet

\* The opt-out gate, then try_reserve_sms_outbound_slot; a reserve that fails
\* may have been written.  Each attempt looks anew for an RCS agent to send by.
Reserve(w) ==
    /\ worker[w].at = "reserve"
    /\ \/ Close(w, "done", "quiet") /\ UNCHANGED slots
       \/ Close(w, "dead_letter", "refused") /\ UNCHANGED slots
       \/ /\ \/ Step(w, "send")
             \/ "rcs" \in Channels /\ Step(w, "rcs")
          /\ NoFault /\ UNCHANGED job
          /\ slots' = [slots EXCEPT ![Msg(w)] = @ + 1]
       \/ /\ Fault
          /\ job' = Closed(Msg(w), "dead_letter", "refused") /\ Finish(w)
          /\ \E counted \in 0..1 : slots' = [slots EXCEPT ![Msg(w)] = @ + counted]
    /\ UNCHANGED accepted

\* Telnyx delivers once per idempotency key, whatever the text says.
AcceptAs(m, text) ==
    accepted' = [accepted EXCEPT ![m] = IF @ = "none" THEN text ELSE @]

\* Over RCS: answered with an id; turned down, or without an id, which the plain
\* text makes up for; not sent; or taken, and the answer lost.
SendRcs(w) ==
    /\ worker[w].at = "rcs"
    /\ \/ AcceptAs(Msg(w), "rcs") /\ Step(w, "complete") /\ NoFault
       \/ UNCHANGED accepted /\ Step(w, "send") /\ NoFault
       \/ UNCHANGED accepted /\ Step(w, "recover") /\ NoFault
       \/ AcceptAs(Msg(w), "unseen") /\ Step(w, "recover") /\ Fault
    /\ UNCHANGED <<job, slots>>

\* The plain text: answered with an id, answered with an error, or not answered.
Send(w) ==
    /\ worker[w].at = "send"
    /\ \/ AcceptAs(Msg(w), "reply") /\ Step(w, "complete") /\ NoFault
       \/ UNCHANGED accepted /\ Step(w, "recover") /\ NoFault
       \/ AcceptAs(Msg(w), "reply") /\ Step(w, "recover") /\ Fault
    /\ UNCHANGED <<job, slots>>

\* complete_sms_inbound_job_done, then the delivered reply; an error may hide an
\* update that was made.
CompleteOr(w, next) ==
    \/ job' = Closed(Msg(w), "done", "sent") /\ Finish(w) /\ NoFault
    \/ /\ job' \in {job, [job EXCEPT ![Msg(w)].state = "done", ![Msg(w)].result = "sent"]}
       /\ Step(w, next) /\ Fault

Complete(w) ==
    /\ worker[w].at = "complete"
    /\ CompleteOr(w, "recomplete")
    /\ StaysQuiet

\* Mutant: an unanswered send is taken for lost.
NeverFound(m) == FALSE
\* Mutant: an unanswered send is taken for delivered.
FoundUnsent(m) == TRUE
\* telnyxTryRecoverOutboundMessageId: a message that carries the job's tag, as a
\* plain text and a forward do.  What went out over RCS carries none.
Found(m) == accepted[m] \in {"forward", "reply"}

\* The send's answer is missing: look it up.  The search itself may fail.
Recover(w) ==
    /\ worker[w].at = "recover"
    /\ \/ Found(Msg(w)) /\ Step(w, "recomplete") /\ NoFault
       \/ ~Found(Msg(w)) /\ Step(w, "release") /\ NoFault
       \/ Found(Msg(w)) /\ Step(w, "release") /\ Fault
    /\ UNCHANGED job /\ StaysQuiet

Recomplete(w) ==
    /\ worker[w].at = "recomplete"
    /\ CompleteOr(w, "release")
    /\ StaysQuiet

\* Mutant: the slot of a failed send is kept.
KeptSlot(n) == n
\* Mutant: it is given back once too often.
ReturnedTwice(n) == n - 2
ReturnedSlot(n) == n - 1

\* release_sms_outbound_slot, then the attempt has failed.
ReleaseSlot(w) ==
    /\ worker[w].at = "release"
    /\ \/ slots' = [slots EXCEPT ![Msg(w)] = ReturnedSlot(@)] /\ NoFault
       \/ UNCHANGED slots /\ Fault
    /\ Step(w, "failed")
    /\ UNCHANGED <<job, accepted>>

Failed(w) ==
    /\ worker[w].at = "failed"
    /\ Retry(w)
    /\ StaysQuiet

\* Safe Mode: the text goes to the owner's phone, under the job's key.
ForwardSend(w) ==
    /\ worker[w].at = "forward"
    /\ \/ AcceptAs(Msg(w), "forward") /\ Step(w, "forwarded") /\ NoFault
       \/ UNCHANGED accepted /\ Step(w, "failed") /\ NoFault
       \/ AcceptAs(Msg(w), "forward") /\ Step(w, "failed") /\ Fault
    /\ UNCHANGED <<job, slots>>

\* The job is closed first and the forward counted after.
ForwardComplete(w) ==
    /\ worker[w].at = "forwarded"
    /\ \/ job' = Closed(Msg(w), "done", "forwarded") /\ NoFault
       \/ UNCHANGED job /\ Fault
    /\ Step(w, "meter")
    /\ StaysQuiet

ForwardMeter(w) ==
    /\ worker[w].at = "meter"
    /\ \/ slots' = [slots EXCEPT ![Msg(w)] = @ + 1] /\ NoFault
       \/ UNCHANGED slots /\ Fault
    /\ Finish(w)
    /\ UNCHANGED <<job, accepted>>

\* The invocation is killed; its jobs stay 'processing'.
WorkerDies(w) ==
    /\ worker[w].at # "idle"
    /\ Fault
    /\ worker' = [worker EXCEPT ![w] = IdleWorker]
    /\ UNCHANGED job /\ StaysQuiet

-----------------------------------------------------------------------------
HandlerStep(h) ==
    \/ HandlerGate(h)
    \/ Persist(h)
    \/ PersistCommit(h)
    \/ Evaluate(h)
    \/ Flip(h)
    \/ Answer(h)

WorkerStep(w) ==
    /\ \/ \E m \in Messages : Start(w, m)
       \/ Gate(w)
       \/ Compose(w)
       \/ Reserve(w)
       \/ SendRcs(w)
       \/ Send(w)
       \/ Complete(w)
       \/ Recover(w)
       \/ Recomplete(w)
       \/ ReleaseSlot(w)
       \/ Failed(w)
       \/ ForwardSend(w)
       \/ ForwardComplete(w)
       \/ ForwardMeter(w)
    /\ UNCHANGED <<mode, flow, owned, event, handler, history>>

WorkerStops(w) ==
    /\ Defer(w) \/ WorkerDies(w)
    /\ UNCHANGED <<mode, flow, owned, event, handler, history>>

Next ==
    \/ \E to \in Modes : SetMode(to)
    \/ \E m \in Messages : LeaseLapses(m) \/ Reclaim(m)
    \/ \E h \in Handlers : HandlerDies(h) \/ HandlerStep(h)
    \/ \E h \in Handlers, m \in Messages : Begin(h, m)
    \/ \E w \in Workers : \/ ClaimBegin(w)
                          \/ ClaimCommit(w)
                          \/ WorkerStep(w)
                          \/ WorkerStops(w)

Spec == Init /\ [][Next]_vars

-----------------------------------------------------------------------------
(* Properties. *)

Job == [state: {"none", "inserting", "pending", "processing", "done", "dead_letter"},
        stamp: Nat, suppress: BOOLEAN, attempts: Nat, cached: BOOLEAN,
        result: {"none", "sent", "forwarded", "quiet", "suppressed_by_ai_flow",
                 "paused", "not_configured", "not_cached", "refused", "gave_up"}]

Handler == [at: {"idle", "gate", "persist", "commit", "forwarded", "evaluate",
                 "flip", "answer"},
            msg: Messages \cup {NoMessage}, owns: BOOLEAN]

Worker == [at: {"idle", "claim", "first", "next", "gate", "compose", "reserve", "rcs",
                "send", "complete", "recover", "recomplete", "release", "failed", "forward",
                "forwarded", "meter"},
           msg: Messages \cup {NoMessage}, batch: SUBSET Messages]

\* The coworker's reply went out, by one channel or the other.
Replies == {"reply", "rcs", "unseen"}

\* Every row and every invocation has the fields and the ranges of its type.
TypeOK ==
    /\ mode \in Modes
    /\ flow \in [Messages -> {"never", "once", "always"}]
    /\ owned \in [Messages -> BOOLEAN]
    /\ event \in [Messages -> {"none", "leased", "lapsed", "complete"}]
    /\ handler \in [Handlers -> Handler]
    /\ job \in [Messages -> Job]
    /\ worker \in [Workers -> Worker]
    /\ accepted \in [Messages -> {"none", "forward", "reply", "rcs", "unseen"}]
    /\ slots \in [Messages -> Nat]
    /\ again \subseteq Messages /\ late \subseteq Messages
    /\ faults \in 0..MaxFaults

\* Migration 20260713170514: a job is claimed only when no earlier pending and
\* no processing job exists for the same contact.  Beside a claimed one an older
\* job can be claimed whose insert committed after the claim's snapshot, and
\* after two lost writes one that was done and is put back.
OnePerContact ==
    \A m \in Messages : \A n \in Siblings(m) :
        job[m].state = "processing" /\ job[n].state = "processing" =>
            late \cap {m, n} # {} \/ faults > 1

Answers(m) == accepted[m] = "none" /\ accepted'[m] \in Replies

\* A contact's replies go out in inbound order: none leaves while an older text
\* of the contact still waits for its own, with the exceptions of OnePerContact.
RepliesInOrder ==
    [][\A m \in Messages : Answers(m) =>
          \A n \in Siblings(m) :
              Active(n) /\ job[n].stamp < job[m].stamp =>
                  accepted[n] # "none" \/ n \in late \/ faults > 1]_vars

\* The coworker never answers a text that a flow owns.  Of a text that is
\* delivered again it may, unless the flow takes every delivery: the second
\* finds the flow's wait used up, and lifts the suppression.
OwnedIsSilent ==
    \A m \in Messages :
        owned[m] /\ (flow[m] = "always" \/ m \notin again) => accepted[m] \notin Replies

\* A reply that Telnyx took as a plain text, or over RCS with an answer, holds a
\* slot of the monthly cap, and so does one that its job is closed with.  It
\* takes two faults to lose the slot: an answer or a write, and then the search
\* or the write that makes up for it.  An RCS reply whose answer is lost is not
\* found again, so its slot is given back though it was delivered: it is counted
\* only when a later attempt is answered.
RepliesAreCounted ==
    faults <= 1 => \A m \in Messages :
        accepted[m] \in {"reply", "rcs"} \/ job[m].result = "sent" => slots[m] >= 1

Paying(m) == {w \in Workers :
                /\ Msg(w) = m
                /\ worker[w].at \in {"rcs", "send", "complete", "recover", "recomplete", "release"}}

\* A failed send does not consume quota: beyond the text that went out and the
\* attempts under way, only a fault leaves a slot taken, one each.
SlotsAreReturned ==
    \A m \in Messages :
        slots[m] <= Cardinality(Paying(m)) + faults + (IF accepted[m] = "none" THEN 0 ELSE 1)

\* The dashboard never shows a reply that was not sent (finalizeDeliveredReply).
\* After a fault it may: the Safe Mode forward and the reply share one
\* idempotency key, so Telnyx takes a reply after a lost forward for a repeat.
ShownIsSent ==
    faults = 0 => \A m \in Messages : job[m].result = "sent" => accepted[m] \in Replies

\* MAX_ATTEMPTS bounds the attempts, but for those a fault cut short.
AttemptsBounded == \A m \in Messages : job[m].attempts <= MaxAttempts + faults

\* The cron keeps invoking the worker and the reclaim, an invocation runs on
\* until it ends or dies, leases run out, and Telnyx redelivers what was not
\* answered with a 200.
Fairness ==
    /\ \A m \in Messages : WF_vars(Reclaim(m)) /\ WF_vars(LeaseLapses(m))
    /\ \A m \in Messages : WF_vars(\E h \in Handlers : Begin(h, m))
    /\ \A h \in Handlers : WF_vars(HandlerStep(h))
    /\ \A w \in Workers : WF_vars(ClaimBegin(w)) /\ WF_vars(ClaimCommit(w) \/ WorkerStep(w))

FairSpec == Spec /\ Fairness

Settled(m) == job[m].state \in {"done", "dead_letter"}

\* Every text that was queued is settled: answered, closed or given up.
QueuedIsSettled == \A m \in Messages : job[m].state = "pending" ~> Settled(m)

\* Every event is handled to its end, though an invocation died on it.
EventIsHandled == \A m \in Messages : event[m] = "leased" ~> event[m] = "complete"
=============================================================================
