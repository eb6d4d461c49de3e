--------------------------- MODULE AiFlowRunProofs ---------------------------
(***************************************************************************)
(* Theorems about AiFlowRun, for every set of flows, whatever their steps, *)
(* and every number of teammates, workers, requests and faults.            *)
(***************************************************************************)
EXTENDS AiFlowRun, TLAPS

-----------------------------------------------------------------------------
(* Types. *)

Holding == {"step", "send", "dial", "park", "prompt", "stamp"}

\* A worker in the middle of a step is at a step of the plan; it parks at one
\* that waits, dials for a call, sends a text and prompts somebody it asks.
OnAStep(i) ==
    /\ i.at \in Holding => i.step \in Steps
    /\ i.at = "park" => plan[i.step] # "text"
    /\ i.at = "dial" => plan[i.step] = "call"
    /\ i.at = "send" => plan[i.step] = "text"
    /\ i.at \in {"prompt", "stamp"} => plan[i.step] \in {"gate", "route"}

\* A teammate's request is a teammate's, and one that sends the run back to a
\* route step has read which one.
Aimed(t) ==
    /\ t.what \in Teammate => t.who \in Agents
    /\ t.what = "1" /\ ~Live(t.seen, t.who) => t.seen.ctx.routing.at \in Steps
    /\ t.what = "86" => t.seen.ctx.routing.home \in Steps

RunTyped ==
    /\ run \in Rows
    /\ visitor \in [Visitors -> Visits]
    /\ \A v \in Visitors : Aimed(visitor[v])

WorkersTyped ==
    /\ worker \in [Workers -> Invocations]
    /\ \A w \in Workers : OnAStep(worker[w])

WorldTyped ==
    /\ plan \in Plans /\ tenant \in Tenants
    /\ ledger \subseteq Steps /\ texts \subseteq Steps
    /\ rings \in [Steps -> Nat] /\ offers \in [Agents -> Nat]
    /\ answered \in {"none"} \cup Owner
    /\ slots \in 0..(Others + Cap) /\ faults \in 0..MaxFaults

Typed == RunTyped /\ WorkersTyped /\ WorldTyped

\* The steps of a plan are numbered from one, and the places a run may be at
\* reach two past the last.
LEMMA PlanSteps ==
    ASSUME plan \in Plans
    PROVE  /\ Len(plan) \in Nat
           /\ Steps = 1..Len(plan)
           /\ Steps \subseteq Places
           /\ 1 \in Places
           /\ \A i \in Steps : i + 1 \in Places /\ i + 2 \in Places
           /\ \A i \in Steps : Len(plan) + 1 - i \in Nat /\ i + (Len(plan) + 1 - i) \in Places
<1>1. plan \in Seq(StepKinds)
  BY FlowAssumption
<1>2. Len(plan) \in Nat /\ Steps = 1..Len(plan)
  BY <1>1 DEF Steps
<1>. QED
  BY <1>2 DEF Places

\* The plan of a run does not change, and with it the types do not.
LEMMA TypesStay ==
    ASSUME plan' = plan
    PROVE  /\ Steps' = Steps /\ Contexts' = Contexts /\ Rows' = Rows
           /\ Invocations' = Invocations /\ Visits' = Visits
BY DEF Steps, Routings, Contexts, Places, Rows, Invocations, Visits

LEMMA NewTypes ==
    ASSUME plan \in Plans
    PROVE  /\ NewContext(plan) \in Contexts
           /\ NewRun(plan) \in Rows
           /\ IdleWorker(plan) \in Invocations
           /\ Nobody(plan) \in Visits /\ Aimed(Nobody(plan))
<1>1. NoRouting \in Routings
  BY DEF NoRouting, Routings
<1>2. NewContext(plan) \in Contexts
  <2>1. [i \in DOMAIN plan |-> "none"] \in
            [Steps -> {"none", "reply", "timeout", "answered", "not_placed", "failed"}]
    BY DEF Steps
  <2>. QED
    BY <1>1, <2>1 DEF NewContext, Contexts
<1>3. NewRun(plan) \in Rows
  BY <1>2, PlanSteps, FlowAssumption DEF NewRun, Rows
<1>4. IdleWorker(plan) \in Invocations
  BY <1>2, PlanSteps DEF IdleWorker, Invocations
<1>5. Nobody(plan) \in Visits /\ Aimed(Nobody(plan))
  BY <1>3 DEF Nobody, Visits, Aimed, Teammate
<1>. QED
  BY <1>2, <1>3, <1>4, <1>5

LEMMA InitTyped == Init => Typed
<1>. SUFFICES ASSUME Init PROVE Typed
  OBVIOUS
<1>1. plan \in Plans
  BY DEF Init
<1>2. RunTyped
  BY <1>1, NewTypes DEF Init, RunTyped
<1>3. WorkersTyped
  BY <1>1, NewTypes DEF Init, WorkersTyped, OnAStep, Holding, IdleWorker
<1>4. WorldTyped
  <2>1. slots \in 0..(Others + Cap) /\ faults \in 0..MaxFaults
    BY FlowAssumption DEF Init
  <2>2. ledger \subseteq Steps /\ texts \subseteq Steps
    BY Zenon DEF Init
  <2>3. rings \in [Steps -> Nat] /\ offers \in [Agents -> Nat]
    BY DEF Init
  <2>. QED
    BY <1>1, <2>1, <2>2, <2>3, FlowAssumption DEF Init, WorldTyped
<1>. QED
  BY <1>2, <1>3, <1>4 DEF Typed

-----------------------------------------------------------------------------
(* What the steps are made of. *)

\* A write of the row takes undecided requests that read it before with it.
LEMMA SaveTyped ==
    ASSUME Typed, plan' = plan, NEW row \in Rows, Save(row)
    PROVE  RunTyped'
<1>1. Nobody(plan) \in Visits /\ Aimed(Nobody(plan))
  BY NewTypes DEF Typed, WorldTyped
<1>2. ASSUME NEW v \in Visitors
      PROVE  visitor'[v] \in Visits /\ Aimed(visitor'[v])
  BY <1>1 DEF Save, Stale, Typed, RunTyped
<1>3. visitor' \in [Visitors -> Visits]
  BY <1>2 DEF Save, Stale
<1>4. ASSUME NEW t, Aimed(t), plan' = plan PROVE Aimed(t)'
  BY <1>4, TypesStay DEF Aimed
<1>5. \A v \in Visitors : Aimed(visitor[v])'
  BY <1>2, TypesStay DEF Aimed
<1>. QED
  BY <1>3, <1>5, TypesStay DEF Save, RunTyped

LEMMA RowKept ==
    ASSUME Typed, plan' = plan, UNCHANGED <<run, visitor>>
    PROVE  RunTyped'
BY TypesStay DEF Typed, RunTyped, Aimed

LEMMA UpdateTyped ==
    ASSUME Typed, plan' = plan, NEW row \in Rows,
           Update(row) \/ UNCHANGED <<run, visitor>>
    PROVE  RunTyped'
BY SaveTyped, RowKept DEF Update

\* A worker moves on, ends, or is done with its step.
LEMMA GotoTyped ==
    ASSUME Typed, plan' = plan, NEW w \in Workers,
           NEW at \in {"idle", "begin", "check", "step", "send", "dial", "advance", "park",
                       "prompt", "stamp", "defer", "fail", "thrown"},
           at \in Holding => worker[w].step \in Steps,
           at = "park" => plan[worker[w].step] # "text",
           at = "dial" => plan[worker[w].step] = "call",
           at = "send" => plan[worker[w].step] = "text",
           at \in {"prompt", "stamp"} => plan[worker[w].step] \in {"gate", "route"},
           Goto(w, at)
    PROVE  WorkersTyped'
<1>1. [worker[w] EXCEPT !.at = at] \in Invocations
  BY DEF Typed, WorkersTyped, Invocations
<1>2. /\ worker' \in [Workers -> Invocations]
      /\ worker'[w].at = at /\ worker'[w].step = worker[w].step
      /\ \A u \in Workers \ {w} : worker'[u] = worker[u]
  BY <1>1 DEF Goto, Typed, WorkersTyped, Invocations
<1>. QED
  BY <1>2, TypesStay DEF Typed, WorkersTyped, OnAStep

LEMMA ReturnTyped ==
    ASSUME Typed, plan' = plan, NEW w \in Workers, Return(w)
    PROVE  WorkersTyped'
<1>1. IdleWorker(plan) \in Invocations /\ IdleWorker(plan).at \notin Holding
      /\ IdleWorker(plan).at \notin {"park", "dial", "send", "prompt", "stamp"}
  BY NewTypes DEF Typed, WorldTyped, IdleWorker, Holding
<1>. QED
  BY <1>1, TypesStay DEF Return, Typed, WorkersTyped, OnAStep

LEMMA DoneTyped ==
    ASSUME Typed, plan' = plan, NEW w \in Workers, NEW c \in Contexts, NEW n,
           worker[w].step + n \in Places, Done(w, c, n)
    PROVE  WorkersTyped'
<1>1. [at |-> "advance", step |-> worker[w].step + n, ctx |-> c] \in Invocations
  BY DEF Invocations
<1>2. /\ worker' \in [Workers -> Invocations]
      /\ worker'[w].at = "advance"
      /\ \A u \in Workers \ {w} : worker'[u] = worker[u]
  BY <1>1 DEF Done, Typed, WorkersTyped
<1>. QED
  BY <1>2, TypesStay DEF Typed, WorkersTyped, OnAStep, Holding

\* Faults are counted within their bound.
LEMMA FaultTyped ==
    ASSUME Typed, Fault \/ NoFault PROVE faults' \in 0..MaxFaults
BY FlowAssumption DEF Typed, WorldTyped, Fault, NoFault

\* What a step leaves alone of the world keeps its type.
LEMMA WorldKept ==
    ASSUME Typed, plan' = plan, tenant' \in Tenants, UNCHANGED world,
           UNCHANGED answered \/ answered' \in Owner, faults' \in 0..MaxFaults
    PROVE  WorldTyped'
BY TypesStay DEF Typed, WorldTyped, world

\* The row and the worker a step starts from.
LEMMA Current ==
    ASSUME Typed, NEW w \in Workers
    PROVE  /\ plan \in Plans
           /\ run \in Rows
           /\ worker[w] \in Invocations
           /\ worker[w].step \in Places
           /\ worker[w].ctx \in Contexts
           /\ worker[w].at \in Holding => worker[w].step \in Steps
           /\ worker[w].at \in Holding =>
                 worker[w].step \in Places /\ plan[worker[w].step] \in StepKinds
           /\ worker[w].step + 0 = worker[w].step
<1>1. /\ plan \in Plans /\ run \in Rows
      /\ worker[w] \in Invocations /\ OnAStep(worker[w])
  BY DEF Typed, RunTyped, WorkersTyped, WorldTyped
<1>2. \A i \in Steps : plan[i] \in StepKinds
  BY <1>1, FlowAssumption DEF Steps
<1>3. worker[w].step \in Places /\ worker[w].step \in Nat /\ worker[w].ctx \in Contexts
  BY <1>1, PlanSteps DEF Invocations, Places
<1>. QED
  BY <1>1, <1>2, <1>3 DEF OnAStep

Answers == {"none", "reply", "timeout", "answered", "not_placed", "failed"}
Events == {"none", "claim", "reject", "timeout", "unclaim"}

\* What is written into a context keeps it one.
LEMMA ContextTyped ==
    ASSUME NEW c \in Contexts
    PROVE  /\ c.routing \in Routings
           /\ \A i, a : a \in Answers => [c EXCEPT !.answer[i] = a] \in Contexts
           /\ \A r \in Routings : [c EXCEPT !.routing = r] \in Contexts
           /\ [c EXCEPT !.consumed = TRUE] \in Contexts
           /\ \A i \in Steps : [c EXCEPT !.slack = i] \in Contexts
           /\ \A q \in Owner : [c EXCEPT !.decision = q, !.consumed = FALSE, !.slack = 0] \in Contexts
<1>1. c.routing \in Routings
  BY DEF Contexts
<1>2. ASSUME NEW i, NEW a \in Answers PROVE [c EXCEPT !.answer[i] = a] \in Contexts
  <2>1. [c.answer EXCEPT ![i] = a] \in [Steps -> Answers]
    BY DEF Contexts, Answers
  <2>2. [c EXCEPT !.answer[i] = a] = [c EXCEPT !.answer = [c.answer EXCEPT ![i] = a]]
    BY DEF Contexts
  <2>. QED
    BY <2>1, <2>2 DEF Contexts, Answers
<1>3. ASSUME NEW r \in Routings PROVE [c EXCEPT !.routing = r] \in Contexts
  BY DEF Contexts
<1>4. [c EXCEPT !.consumed = TRUE] \in Contexts
  BY DEF Contexts
<1>5. ASSUME NEW i \in Steps PROVE [c EXCEPT !.slack = i] \in Contexts
  BY DEF Contexts
<1>6. ASSUME NEW q \in Owner
      PROVE  [c EXCEPT !.decision = q, !.consumed = FALSE, !.slack = 0] \in Contexts
  BY DEF Contexts
<1>. QED
  BY <1>1, <1>2, <1>3, <1>4, <1>5, <1>6

\* A routing whose event or claimer is set.
LEMMA RoutingTyped ==
    ASSUME NEW r \in Routings, NEW e \in Events
    PROVE  /\ [r EXCEPT !.event = e] \in Routings
           /\ \A a \in Agents : [r EXCEPT !.event = e, !.from = a] \in Routings
<1>1. [r EXCEPT !.event = e] \in Routings
  BY DEF Routings, Events
<1>2. ASSUME NEW a \in Agents PROVE [r EXCEPT !.event = e, !.from = a] \in Routings
  BY DEF Routings, Events
<1>. QED
  BY <1>1, <1>2

\* Rows a write makes of the row.
LEMMA RowTyped ==
    ASSUME NEW r \in Rows
    PROVE  /\ r.ctx \in Contexts /\ r.step \in Places
           /\ \A s \in {"queued", "running"} \cup Waiting \cup Ended :
                 [r EXCEPT !.status = s] \in Rows
           /\ \A s \in {"queued", "running"} \cup Waiting \cup Ended, c \in Contexts :
                 [r EXCEPT !.status = s, !.ctx = c] \in Rows
           /\ \A s \in {"queued", "running"} \cup Waiting \cup Ended, n \in Places, c \in Contexts :
                 [r EXCEPT !.status = s, !.step = n, !.ctx = c] \in Rows
           /\ \A n \in Places, c \in Contexts : [r EXCEPT !.step = n, !.ctx = c] \in Rows
           /\ \A c \in Contexts : [r EXCEPT !.ctx = c] \in Rows
<1>1. r.ctx \in Contexts /\ r.step \in Places
  BY DEF Rows
<1>2. ASSUME NEW s \in {"queued", "running"} \cup Waiting \cup Ended, NEW n \in Places,
             NEW c \in Contexts
      PROVE  /\ [r EXCEPT !.status = s] \in Rows
             /\ [r EXCEPT !.status = s, !.ctx = c] \in Rows
             /\ [r EXCEPT !.status = s, !.step = n, !.ctx = c] \in Rows
             /\ [r EXCEPT !.step = n, !.ctx = c] \in Rows
             /\ [r EXCEPT !.ctx = c] \in Rows
  BY DEF Rows
<1>. QED
  BY <1>1, <1>2

-----------------------------------------------------------------------------
(* The sweeps and the worker. *)

LEMMA SwitchTyped == ASSUME Typed, NEW to \in Tenants, Switch(to) PROVE Typed'
<1>1. plan' = plan /\ UNCHANGED <<run, visitor, worker, world, answered, faults>>
  BY DEF Switch
<1>2. tenant' \in Tenants
  BY DEF Switch
<1>. QED
  BY <1>1, <1>2, RowKept, WorldKept, TypesStay DEF Typed, WorkersTyped, WorldTyped, OnAStep

\* What leaves every worker alone.
LEMMA WorkersKept ==
    ASSUME Typed, plan' = plan, worker' = worker PROVE WorkersTyped'
BY TypesStay DEF Typed, WorkersTyped, OnAStep

LEMMA TickTyped == Typed /\ (Tick \/ Cancel) => Typed'
<1>. SUFFICES ASSUME Typed, Tick \/ Cancel PROVE Typed'
  OBVIOUS
<1>0. /\ plan' = plan /\ tenant' \in Tenants /\ worker' = worker
      /\ UNCHANGED <<world, answered>> /\ faults' \in 0..MaxFaults
  BY DEF Tick, Cancel, Reclaim, EscalateOffer, ResumeOverdue, Wake, Typed, WorldTyped
<1>1. run \in Rows /\ run.ctx \in Contexts /\ run.ctx.routing \in Routings
  BY RowTyped, ContextTyped DEF Typed, RunTyped
<1>2. CASE Reclaim \/ Cancel
  <2>1. PICK s \in {"queued", "canceled"} : Save([run EXCEPT !.status = s])
    BY <1>2 DEF Reclaim, Cancel
  <2>2. [run EXCEPT !.status = s] \in Rows
    BY <1>1, RowTyped DEF Ended
  <2>. QED
    BY <1>0, <2>1, <2>2, SaveTyped, WorkersKept, WorldKept DEF Typed
<1>3. CASE EscalateOffer
  <2>1. [run.ctx EXCEPT !.routing = [run.ctx.routing EXCEPT !.event = "timeout"]] \in Contexts
    BY <1>1, ContextTyped, RoutingTyped DEF Events
  <2>2. [run EXCEPT !.status = "queued", !.ctx.routing.event = "timeout"]
            = [run EXCEPT !.status = "queued",
                  !.ctx = [run.ctx EXCEPT !.routing = [run.ctx.routing EXCEPT !.event = "timeout"]]]
    BY <1>1 DEF Rows, Contexts, Routings
  <2>3. [run EXCEPT !.status = "queued", !.ctx.routing.event = "timeout"] \in Rows
    BY <1>1, <2>1, <2>2, RowTyped
  <2>. QED
    BY <1>0, <1>3, <2>3, SaveTyped, WorkersKept, WorldKept DEF EscalateOffer, Typed
<1>4. ASSUME NEW status, ResumeOverdue(status) PROVE Typed'
  <2>1. [run.ctx EXCEPT !.answer[run.step] = "timeout"] \in Contexts
    BY <1>1, ContextTyped DEF Answers
  <2>2. [run EXCEPT !.status = "queued", !.ctx.answer[run.step] = "timeout"]
            = [run EXCEPT !.status = "queued",
                          !.ctx = [run.ctx EXCEPT !.answer[run.step] = "timeout"]]
    BY <1>1 DEF Rows, Contexts
  <2>3. [run EXCEPT !.status = "queued", !.ctx.answer[run.step] = "timeout"] \in Rows
    BY <1>1, <2>1, <2>2, RowTyped
  <2>. QED
    BY <1>0, <1>4, <2>3, SaveTyped, WorkersKept, WorldKept DEF ResumeOverdue, Typed
<1>5. CASE Wake
  <2>1. run' \in Rows /\ visitor' = visitor
    BY <1>1, <1>5 DEF Wake, Rows
  <2>2. RunTyped'
    BY <1>0, <2>1, TypesStay DEF Typed, RunTyped, Aimed
  <2>. QED
    BY <1>0, <2>2, WorkersKept, WorldKept DEF Typed
<1>. QED
  BY <1>2, <1>3, <1>4, <1>5 DEF Tick

LEMMA ClaimTyped == ASSUME Typed, NEW w \in Workers, Claim(w) PROVE Typed'
<1>1. /\ plan' = plan /\ tenant' \in Tenants /\ UNCHANGED <<world, answered>>
      /\ faults' \in 0..MaxFaults
  BY DEF Claim, Typed, WorldTyped
<1>2. run \in Rows
  BY DEF Typed, RunTyped
<1>3. RunTyped'
  <2>1. [run EXCEPT !.status = "running"] \in Rows
    BY <1>2, RowTyped
  <2>. QED
    BY <1>1, <2>1, SaveTyped DEF Claim
<1>4. WorkersTyped'
  <2>1. [at |-> "begin", step |-> run.step, ctx |-> run.ctx] \in Invocations
    BY <1>2, RowTyped DEF Invocations
  <2>2. /\ worker' \in [Workers -> Invocations]
        /\ worker'[w].at = "begin"
        /\ \A u \in Workers \ {w} : worker'[u] = worker[u]
    BY <2>1 DEF Claim, Typed, WorkersTyped
  <2>. QED
    BY <1>1, <2>2, TypesStay DEF Typed, WorkersTyped, OnAStep, Holding
<1>. QED
  BY <1>1, <1>3, <1>4, WorldKept DEF Typed

\* The writes of executeRun around the steps.
LEMMA BeginTyped == ASSUME Typed, NEW w \in Workers, Begin(w) PROVE Typed'
<1>1. plan' = plan /\ tenant' \in Tenants /\ UNCHANGED <<world, answered>>
  BY DEF Begin, Typed, WorldTyped
<1>2. faults' \in 0..MaxFaults
  BY FaultTyped DEF Begin, Try
<1>3. RunTyped'
  <2>1. run \in Rows
    BY DEF Typed, RunTyped
  <2>2. [run EXCEPT !.status = "queued"] \in Rows /\ [run EXCEPT !.status = "canceled"] \in Rows
    BY <2>1, RowTyped DEF Ended
  <2>. QED
    BY <1>1, <2>2, UpdateTyped DEF Begin, Try
<1>4. WorkersTyped'
  BY <1>1, ReturnTyped, GotoTyped DEF Begin, Try, Holding
<1>. QED
  BY <1>1, <1>2, <1>3, <1>4, WorldKept DEF Typed

LEMMA CheckTyped == ASSUME Typed, NEW w \in Workers, Check(w) PROVE Typed'
<1>1. /\ plan' = plan /\ tenant' \in Tenants /\ UNCHANGED <<world, answered>>
      /\ faults' \in 0..MaxFaults
  BY DEF Check, Typed, WorldTyped
<1>2. RunTyped'
  BY <1>1, RowKept DEF Check
<1>3. WorkersTyped'
  BY <1>1, ReturnTyped, GotoTyped DEF Check
<1>. QED
  BY <1>1, <1>2, <1>3, WorldKept DEF Typed

LEMMA FinishTyped == ASSUME Typed, NEW w \in Workers, Finish(w) PROVE Typed'
<1>1. plan' = plan /\ tenant' \in Tenants /\ UNCHANGED <<world, answered>>
  BY DEF Finish, Typed, WorldTyped
<1>2. faults' \in 0..MaxFaults
  BY FaultTyped DEF Finish, Try
<1>3. RunTyped'
  <2>1. [run EXCEPT !.status = "done", !.step = worker[w].step, !.ctx = worker[w].ctx] \in Rows
    BY Current, RowTyped DEF Ended
  <2>. QED
    BY <1>1, <2>1, UpdateTyped DEF Finish, Try
<1>4. WorkersTyped'
  BY <1>1, ReturnTyped, GotoTyped DEF Finish, Try, Holding
<1>. QED
  BY <1>1, <1>2, <1>3, <1>4, WorldKept DEF Typed

LEMMA AdvanceTyped == ASSUME Typed, NEW w \in Workers, Advance(w) PROVE Typed'
<1>1. plan' = plan /\ tenant' \in Tenants /\ UNCHANGED <<world, answered>>
  BY DEF Advance, Typed, WorldTyped
<1>2. faults' \in 0..MaxFaults
  BY FaultTyped DEF Advance, Try
<1>3. RunTyped'
  <2>1. [run EXCEPT !.step = worker[w].step, !.ctx = worker[w].ctx] \in Rows
    BY Current, RowTyped
  <2>. QED
    BY <1>1, <2>1, UpdateTyped DEF Advance, Try
<1>4. WorkersTyped'
  BY <1>1, GotoTyped DEF Advance, Try, Holding
<1>. QED
  BY <1>1, <1>2, <1>3, <1>4, WorldKept DEF Typed

LEMMA ThrowTyped == ASSUME Typed, NEW w \in Workers, Throw(w) PROVE Typed'
<1>1. plan' = plan /\ tenant' \in Tenants /\ UNCHANGED <<world, answered>>
  BY DEF Throw, Typed, WorldTyped
<1>2. faults' \in 0..MaxFaults
  BY FaultTyped DEF Throw, Try
<1>3. RunTyped'
  <2>1. run \in Rows /\ run.retries \in 0..MaxRetries
    BY DEF Typed, RunTyped, Rows
  <2>2. [run EXCEPT !.status = "failed"] \in Rows
    BY <2>1, RowTyped DEF Ended
  <2>3. ~Exhausted => [run EXCEPT !.status = "queued", !.retries = @ + 1] \in Rows
    <3>1. ~Exhausted => run.retries + 1 \in 0..MaxRetries
      BY <2>1, FlowAssumption DEF Exhausted
    <3>2. ASSUME NEW n \in 0..MaxRetries
          PROVE  [run EXCEPT !.status = "queued", !.retries = n] \in Rows
      BY <2>1 DEF Rows
    <3>. QED
      BY <2>1, <3>1, <3>2
  <2>. QED
    BY <1>1, <2>2, <2>3, UpdateTyped DEF Throw, Try
<1>4. WorkersTyped'
  BY <1>1, ReturnTyped DEF Throw, Try
<1>. QED
  BY <1>1, <1>2, <1>3, <1>4, WorldKept DEF Typed

LEMMA FailTyped == ASSUME Typed, NEW w \in Workers, Fail(w) PROVE Typed'
<1>1. plan' = plan /\ tenant' \in Tenants /\ UNCHANGED <<world, answered>>
  BY DEF Fail, Typed, WorldTyped
<1>2. faults' \in 0..MaxFaults
  BY FaultTyped DEF Fail, Try
<1>3. RunTyped'
  <2>1. [run EXCEPT !.status = "failed", !.ctx = worker[w].ctx] \in Rows
    BY Current, RowTyped DEF Ended
  <2>. QED
    BY <1>1, <2>1, UpdateTyped DEF Fail, Try
<1>4. WorkersTyped'
  BY <1>1, ReturnTyped DEF Fail, Try
<1>. QED
  BY <1>1, <1>2, <1>3, <1>4, WorldKept DEF Typed

LEMMA DeferTyped == ASSUME Typed, NEW w \in Workers, Defer(w) PROVE Typed'
<1>1. plan' = plan /\ tenant' \in Tenants /\ UNCHANGED <<world, answered>>
  BY DEF Defer, Typed, WorldTyped
<1>2. faults' \in 0..MaxFaults
  BY FaultTyped DEF Defer, Try
<1>3. RunTyped'
  <2>1. [run EXCEPT !.status = "queued", !.deferred = TRUE,
                    !.step = worker[w].step, !.ctx = worker[w].ctx] \in Rows
    BY Current DEF Rows
  <2>. QED
    BY <1>1, <2>1, UpdateTyped DEF Defer, Try
<1>4. WorkersTyped'
  BY <1>1, ReturnTyped, GotoTyped DEF Defer, Try, Holding
<1>. QED
  BY <1>1, <1>2, <1>3, <1>4, WorldKept DEF Typed

LEMMA DieTyped == ASSUME Typed, NEW w \in Workers, Die(w) PROVE Typed'
<1>1. plan' = plan /\ tenant' \in Tenants /\ UNCHANGED <<world, answered>>
  BY DEF Die, Typed, WorldTyped
<1>2. faults' \in 0..MaxFaults
  BY FaultTyped DEF Die
<1>. QED
  BY <1>1, <1>2, RowKept, ReturnTyped, WorldKept DEF Die, Typed

\* send_sms.
LEMMA ReserveTyped == ASSUME Typed, NEW w \in Workers, Reserve(w) PROVE Typed'
<1>1. plan' = plan /\ worker[w].step \in Steps
  BY Current DEF Reserve, At, Holding
<1>2. faults' \in 0..MaxFaults
  BY FaultTyped DEF Reserve
<1>3. RunTyped'
  BY <1>1, RowKept DEF Reserve
<1>4. worker[w].step + 1 \in Places /\ worker[w].ctx \in Contexts
  BY <1>1, Current, PlanSteps
<1>5. WorkersTyped'
  BY <1>1, <1>4, GotoTyped, DoneTyped DEF Reserve, At, Holding
<1>6. slots' \in 0..(Others + Cap)
  BY FlowAssumption DEF Reserve, Typed, WorldTyped
<1>. QED
  BY <1>1, <1>2, <1>3, <1>5, <1>6, TypesStay DEF Reserve, Typed, WorldTyped

LEMMA SendTyped == ASSUME Typed, NEW w \in Workers, Send(w) PROVE Typed'
<1>1. plan' = plan /\ worker[w].step \in Steps
  BY Current DEF Send, Holding
<1>2. faults' \in 0..MaxFaults
  BY FaultTyped DEF Send
<1>3. RunTyped'
  BY <1>1, RowKept DEF Send
<1>4. worker[w].step + 1 \in Places /\ worker[w].ctx \in Contexts
  BY <1>1, Current, PlanSteps
<1>5. WorkersTyped'
  BY <1>1, <1>4, GotoTyped, DoneTyped DEF Send, Holding
<1>6. slots' \in 0..(Others + Cap)
  <2>1. Released(1) \in 0..(Others + Cap) /\ Released(2) \in 0..(Others + Cap)
    BY FlowAssumption DEF Released, Typed, WorldTyped
  <2>. QED
    BY <2>1 DEF Send, Typed, WorldTyped
<1>7. texts' \subseteq Steps
  BY <1>1 DEF Send, Typed, WorldTyped
<1>. QED
  BY <1>1, <1>2, <1>3, <1>5, <1>6, <1>7, TypesStay DEF Send, Typed, WorldTyped

\* The steps that wait.
LEMMA ParkTyped == ASSUME Typed, NEW w \in Workers, Park(w) PROVE Typed'
<1>1. plan' = plan /\ tenant' \in Tenants /\ UNCHANGED <<world, answered>>
  BY DEF Park, Typed, WorldTyped
<1>2. faults' \in 0..MaxFaults
  BY FaultTyped DEF Park, Try
<1>3. /\ worker[w].step \in Steps /\ plan[worker[w].step] \in StepKinds
      /\ plan[worker[w].step] # "text"
  BY Current DEF Park, Holding, Typed, WorkersTyped, OnAStep
<1>4. ParkedStatus(plan[worker[w].step]) \in Waiting
  BY <1>3 DEF ParkedStatus, StepKinds, Waiting
<1>5. RunTyped'
  <2>1. [run EXCEPT !.status = ParkedStatus(plan[worker[w].step]), !.step = worker[w].step,
                    !.ctx = worker[w].ctx] \in Rows
    BY <1>4, Current, RowTyped
  <2>. QED
    BY <1>1, <2>1, UpdateTyped DEF Park, Try
<1>6. WorkersTyped'
  BY <1>1, <1>3, ReturnTyped, GotoTyped DEF Park, Try, Holding
<1>. QED
  BY <1>1, <1>2, <1>5, <1>6, WorldKept DEF Typed

LEMMA WaitTyped == ASSUME Typed, NEW w \in Workers, Wait(w) PROVE Typed'
<1>1. /\ plan' = plan /\ tenant' \in Tenants /\ UNCHANGED <<world, answered>>
      /\ faults' \in 0..MaxFaults
  BY DEF Wait, Typed, WorldTyped
<1>2. RunTyped'
  BY <1>1, RowKept DEF Wait
<1>3. worker[w].step \in Steps /\ worker[w].step + 1 \in Places /\ worker[w].ctx \in Contexts
  BY Current, PlanSteps DEF Wait, At, Holding
<1>4. WorkersTyped'
  BY <1>1, <1>3, GotoTyped, DoneTyped DEF Wait, At, Holding
<1>. QED
  BY <1>1, <1>2, <1>4, WorldKept DEF Typed

LEMMA GateTyped == ASSUME Typed, NEW w \in Workers, Gate(w) PROVE Typed'
<1>1. /\ plan' = plan /\ tenant' \in Tenants /\ UNCHANGED <<world, answered>>
      /\ faults' \in 0..MaxFaults
  BY DEF Gate, Typed, WorldTyped
<1>2. RunTyped'
  BY <1>1, RowKept DEF Gate
<1>3. /\ worker[w].step \in Steps
      /\ worker[w].step + 1 \in Places /\ worker[w].step + 2 \in Places
  BY Current, PlanSteps DEF Gate, At, Holding
<1>4. [worker[w].ctx EXCEPT !.consumed = TRUE] \in Contexts
  BY Current, ContextTyped
<1>5. WorkersTyped'
  <2>1. CASE Goto(w, "park")
    BY <1>1, <1>3, <2>1, GotoTyped DEF Gate, At
  <2>2. ASSUME NEW n \in {1, 2}, Done(w, [worker[w].ctx EXCEPT !.consumed = TRUE], n)
        PROVE  WorkersTyped'
    BY <1>1, <1>3, <1>4, <2>2, DoneTyped
  <2>3. CASE worker' = [worker EXCEPT ![w].at = "check", ![w].step = @ + SkipsGuarded]
    <3>1. worker[w].step + SkipsGuarded \in Places
      BY <1>3 DEF SkipsGuarded
    <3>2. [worker[w] EXCEPT !.at = "check", !.step = @ + SkipsGuarded] \in Invocations
      BY <3>1, Current DEF Invocations
    <3>3. /\ worker' \in [Workers -> Invocations]
          /\ worker'[w].at = "check"
          /\ \A u \in Workers \ {w} : worker'[u] = worker[u]
      BY <2>3, <3>2 DEF Typed, WorkersTyped, Invocations
    <3>. QED
      BY <1>1, <3>3, TypesStay DEF Typed, WorkersTyped, OnAStep, Holding
  <2>. QED
    BY <2>1, <2>2, <2>3 DEF Gate, SkipsGuarded
<1>. QED
  BY <1>1, <1>2, <1>5, WorldKept DEF Typed

LEMMA PromptTyped == ASSUME Typed, NEW w \in Workers, Prompt(w) PROVE Typed'
<1>1. plan' = plan /\ worker[w].step \in Steps
  BY Current DEF Prompt, Holding
<1>2. RunTyped'
  BY <1>1, RowKept DEF Prompt
<1>3. WorkersTyped'
  <2>1. plan[worker[w].step] \in {"gate", "route"}
    BY DEF Prompt, Typed, WorkersTyped, OnAStep
  <2>. QED
    BY <1>1, <2>1, GotoTyped, ReturnTyped DEF Prompt
<1>4. offers' \in [Agents -> Nat]
  BY DEF Prompt, Typed, WorldTyped
<1>. QED
  BY <1>1, <1>2, <1>3, <1>4, TypesStay DEF Prompt, Typed, WorldTyped

LEMMA StampTyped == ASSUME Typed, NEW w \in Workers, Stamp(w) PROVE Typed'
<1>1. /\ plan' = plan /\ tenant' \in Tenants /\ UNCHANGED <<world, answered>>
      /\ faults' \in 0..MaxFaults
  BY DEF Stamp, Typed, WorldTyped
<1>2. RunTyped'
  <2>1. [worker[w].ctx EXCEPT !.slack = worker[w].step] \in Contexts
    BY Current, ContextTyped DEF Stamp, Holding
  <2>2. [run EXCEPT !.ctx = [worker[w].ctx EXCEPT !.slack = worker[w].step]] \in Rows
    BY <2>1, Current, RowTyped
  <2>. QED
    BY <1>1, <2>2, UpdateTyped DEF Stamp
<1>. QED
  BY <1>1, <1>2, ReturnTyped, WorldKept DEF Stamp, Typed

\* place_ai_call.
LEMMA CallTyped == ASSUME Typed, NEW w \in Workers, Call(w) PROVE Typed'
<1>1. plan' = plan /\ worker[w].step \in Steps /\ plan[worker[w].step] = "call"
  BY Current DEF Call, At, Holding
<1>2. RunTyped'
  BY <1>1, RowKept DEF Call
<1>3. /\ worker[w].step + 1 \in Places /\ worker[w].ctx \in Contexts
      /\ [worker[w].ctx EXCEPT !.answer[worker[w].step] = "not_placed"] \in Contexts
  BY <1>1, Current, PlanSteps, ContextTyped DEF Answers
<1>4. WorkersTyped'
  BY <1>1, <1>3, GotoTyped, DoneTyped DEF Call, Holding
<1>5. ledger' \subseteq Steps
  BY <1>1 DEF Call, Typed, WorldTyped
<1>6. faults' \in 0..MaxFaults
  BY FaultTyped DEF Call
<1>. QED
  BY <1>1, <1>2, <1>4, <1>5, <1>6, TypesStay DEF Call, Typed, WorldTyped

LEMMA DialTyped == ASSUME Typed, NEW w \in Workers, Dial(w) PROVE Typed'
<1>1. plan' = plan /\ worker[w].step \in Steps /\ plan[worker[w].step] = "call"
  BY Current DEF Dial, Holding, Typed, WorkersTyped, OnAStep
<1>2. RunTyped'
  BY <1>1, RowKept DEF Dial
<1>3. /\ worker[w].step + 1 \in Places /\ worker[w].ctx \in Contexts
      /\ [worker[w].ctx EXCEPT !.answer[worker[w].step] = "not_placed"] \in Contexts
      /\ [worker[w].ctx EXCEPT !.answer[worker[w].step] = "failed"] \in Contexts
  BY <1>1, Current, PlanSteps, ContextTyped DEF Answers
<1>4. WorkersTyped'
  BY <1>1, <1>3, GotoTyped, DoneTyped DEF Dial, Holding
<1>5. ledger' \subseteq Steps
  BY <1>1 DEF Dial, Typed, WorldTyped
<1>6. rings' \in [Steps -> Nat]
  <2>1. [rings EXCEPT ![worker[w].step] = @ + 1] \in [Steps -> Nat]
    BY <1>1 DEF Typed, WorldTyped
  <2>. QED
    BY <2>1 DEF Dial, Typed, WorldTyped
<1>7. faults' \in 0..MaxFaults
  BY FaultTyped DEF Dial
<1>. QED
  BY <1>1, <1>2, <1>4, <1>5, <1>6, <1>7, TypesStay DEF Dial, Typed, WorldTyped

\* What the rotation goes on with, having skipped some teammates.
Onward(r) == {Skipped(Retired(r), them) : them \in SUBSET (Agents \ Retired(r).tried)}

\* route_to_team: what becomes of the routing keeps its type.
LEMMA RouteTypes ==
    ASSUME NEW r \in Routings
    PROVE  /\ Claimed(r) \in Routings /\ Unclaimed(r) \in Routings
           /\ Onward(r) \subseteq Routings
           /\ \A a \in Agents, i \in Steps : Offered(r, a, i) \in Routings
<1>1. Claimed(r) \in Routings
  BY DEF Claimed, Routings
<1>2. Unclaimed(r) \in Routings
  BY DEF Unclaimed, Routings
<1>3. Retired(r) \in Routings
  <2>1. {r.offered} \ {NoAgent} \subseteq Agents
    BY DEF Routings
  <2>2. r.tried \cup ({r.offered} \ {NoAgent}) \in SUBSET Agents
        /\ r.log \cup ({r.offered} \ {NoAgent}) \in SUBSET Agents
    BY <2>1 DEF Routings
  <2>. QED
    BY <2>2 DEF Retired, Routings
<1>4. ASSUME NEW a \in Agents, NEW i \in Steps PROVE Offered(r, a, i) \in Routings
  <2>1. r.log \cup {a} \in SUBSET Agents
    BY DEF Routings
  <2>. QED
    BY <2>1 DEF Offered, Routings
<1>5. ASSUME NEW them \in SUBSET (Agents \ Retired(r).tried)
      PROVE  Skipped(Retired(r), them) \in Routings
  <2>1. Retired(r).tried \cup them \in SUBSET Agents
    BY <1>3 DEF Routings
  <2>. QED
    BY <1>3, <2>1 DEF Skipped, Routings
<1>. QED
  BY <1>1, <1>2, <1>4, <1>5 DEF Onward

\* A route step ends with a new routing, offers the lead and parks, or throws.
LEMMA RouteMoves ==
    ASSUME Typed, NEW w \in Workers, Route(w)
    PROVE  LET i == worker[w].step
               c == worker[w].ctx
               r == c.routing
           IN  /\ i \in Steps /\ plan[i] = "route" /\ c \in Contexts /\ r \in Routings
               /\ \/ /\ \E new \in {Unclaimed(r), Claimed(r)} \cup Onward(r),
                           n \in {1, Len(plan) + 1 - i} :
                           Done(w, [c EXCEPT !.routing = new], n)
                     /\ NoFault
                  \/ Goto(w, "thrown") /\ Fault
                  \/ /\ \E next \in Onward(r), a \in Agents :
                           worker' = [worker EXCEPT ![w].at = "park",
                                         ![w].ctx.routing = Offered(next, a, i)]
                     /\ NoFault
<1>1. /\ worker[w].step \in Steps /\ plan[worker[w].step] = "route"
      /\ worker[w].ctx \in Contexts /\ worker[w].ctx.routing \in Routings
  BY Current, ContextTyped DEF Route, At, Holding
<1>. QED
  BY <1>1 DEF Route, Onward

LEMMA RouteTyped == ASSUME Typed, NEW w \in Workers, Route(w) PROVE Typed'
<1>. DEFINE i == worker[w].step
            c == worker[w].ctx
            r == c.routing
<1>1. /\ plan' = plan /\ tenant' \in Tenants /\ UNCHANGED <<world, answered>>
      /\ UNCHANGED <<run, visitor>>
  BY DEF Route, Typed, WorldTyped
<1>2. i \in Steps /\ plan[i] = "route" /\ c \in Contexts /\ r \in Routings
  BY RouteMoves
<1>3. faults' \in 0..MaxFaults
  BY RouteMoves, FaultTyped
<1>4. RunTyped'
  BY <1>1, RowKept
<1>5. Claimed(r) \in Routings /\ Unclaimed(r) \in Routings /\ Onward(r) \subseteq Routings
  BY <1>2, RouteTypes
<1>6. WorkersTyped'
  <2>1. ASSUME NEW new \in {Unclaimed(r), Claimed(r)} \cup Onward(r),
               NEW n \in {1, Len(plan) + 1 - i},
               Done(w, [c EXCEPT !.routing = new], n)
        PROVE  WorkersTyped'
    <3>1. [c EXCEPT !.routing = new] \in Contexts
      BY <1>2, <1>5, ContextTyped
    <3>2. worker[w].step + n \in Places
      BY <1>2, PlanSteps DEF Typed, WorldTyped
    <3>. QED
      BY <1>1, <2>1, <3>1, <3>2, DoneTyped
  <2>2. CASE Goto(w, "thrown")
    BY <1>1, <2>2, GotoTyped DEF Holding
  <2>3. ASSUME NEW next \in Onward(r), NEW a \in Agents,
               worker' = [worker EXCEPT ![w].at = "park", ![w].ctx.routing = Offered(next, a, i)]
        PROVE  WorkersTyped'
    <3>1. [c EXCEPT !.routing = Offered(next, a, i)] \in Contexts
      BY <1>2, <1>5, ContextTyped, RouteTypes
    <3>2. [worker[w] EXCEPT !.at = "park", !.ctx.routing = Offered(next, a, i)]
              = [worker[w] EXCEPT !.at = "park", !.ctx = [c EXCEPT !.routing = Offered(next, a, i)]]
      BY Current DEF Invocations, Contexts
    <3>3. [worker[w] EXCEPT !.at = "park", !.ctx.routing = Offered(next, a, i)] \in Invocations
      BY <3>1, <3>2, Current DEF Invocations
    <3>4. /\ worker'[w] = [worker[w] EXCEPT !.at = "park", !.ctx.routing = Offered(next, a, i)]
          /\ DOMAIN worker' = Workers
          /\ worker' = [u \in Workers |-> worker'[u]]
          /\ \A u \in Workers \ {w} : worker'[u] = worker[u]
      BY <2>3 DEF Typed, WorkersTyped
    <3>5. worker' \in [Workers -> Invocations]
      BY <3>3, <3>4 DEF Typed, WorkersTyped
    <3>6. worker'[w].at = "park" /\ worker'[w].step = i
      BY <3>2, <3>4, Current DEF Invocations
    <3>7. OnAStep(worker'[w])
      BY <1>2, <3>6 DEF OnAStep
    <3>8. \A u \in Workers : OnAStep(worker'[u])
      BY <3>4, <3>7 DEF Typed, WorkersTyped
    <3>9. \A u \in Workers : OnAStep(worker[u])'
      BY <1>1, <3>8, TypesStay DEF OnAStep
    <3>. QED
      BY <1>1, <3>5, <3>9, TypesStay DEF WorkersTyped
  <2>4. \/ \E new \in {Unclaimed(r), Claimed(r)} \cup Onward(r), n \in {1, Len(plan) + 1 - i} :
              Done(w, [c EXCEPT !.routing = new], n)
        \/ Goto(w, "thrown")
        \/ \E next \in Onward(r), a \in Agents :
              worker' = [worker EXCEPT ![w].at = "park", ![w].ctx.routing = Offered(next, a, i)]
    BY RouteMoves
  <2>. HIDE DEF i, c, r
  <2>. QED
    BY <2>1, <2>2, <2>3, <2>4
<1>. QED
  BY <1>1, <1>3, <1>4, <1>6, WorldKept DEF Typed

-----------------------------------------------------------------------------
(* The requests. *)

\* What a request finds is what it needs to aim its write.
LEMMA FoundIsAimed ==
    ASSUME NEW q \in Requests, NEW a, NEW row \in Rows, Finds(q, a, row)
    PROVE  /\ q \in Teammate <=> a # NoAgent
           /\ q = "1" /\ ~Live(row, a) => row.ctx.routing.at \in Steps
           /\ q = "86" => row.ctx.routing.home \in Steps
<1>1. row.ctx.routing.at \in {0} \cup Steps /\ row.ctx.routing.home \in {0} \cup Steps
  BY DEF Rows, Contexts, Routings
<1>2. CASE q = "1"
  BY <1>1, <1>2 DEF Finds
<1>3. CASE q = "86"
  BY <1>1, <1>3 DEF Finds
<1>. QED
  BY <1>2, <1>3 DEF Finds

\* Every answer makes a row.
LEMMA AnswerTyped ==
    ASSUME Typed, NEW q \in Requests, NEW a \in Agents \cup {NoAgent}, NEW row \in Rows,
           q \in Teammate => a \in Agents,
           q = "1" /\ ~Live(row, a) => row.ctx.routing.at \in Steps,
           q = "86" => row.ctx.routing.home \in Steps
    PROVE  /\ q \in Owner => Decided(q, row) \in Rows
           /\ q \in {"reply", "outcome"} => Resumed(q, row) \in Rows
           /\ q \in {"1", "2"} => Replied(q, a, row) \in Rows
           /\ q = "1" /\ ~Live(row, a) => TakenOver(a, row) \in Rows
           /\ q = "86" => Released86(a, row) \in Rows
<1>1. /\ run \in Rows /\ row.ctx \in Contexts /\ row.ctx.routing \in Routings
      /\ plan \in Plans
  BY RowTyped, ContextTyped DEF Typed, RunTyped, WorldTyped
<1>2. ASSUME q \in Owner PROVE Decided(q, row) \in Rows
  <2>1. [row.ctx EXCEPT !.decision = q, !.consumed = FALSE, !.slack = 0] \in Contexts
    BY <1>1, <1>2, ContextTyped
  <2>. QED
    BY <1>1, <2>1, RowTyped DEF Decided, Ended
<1>3. ASSUME q \in {"reply", "outcome"} PROVE Resumed(q, row) \in Rows
  <2>1. [row.ctx EXCEPT !.answer[row.step] = IF q = "reply" THEN "reply" ELSE "answered"]
            \in Contexts
    BY <1>1, ContextTyped DEF Answers
  <2>. QED
    BY <1>1, <2>1, RowTyped DEF Resumed
<1>4. ASSUME q \in {"1", "2"} PROVE Replied(q, a, row) \in Rows
  <2>. DEFINE e == IF q = "1" THEN "claim" ELSE "reject"
  <2>1. [row.ctx.routing EXCEPT !.event = e, !.from = a] \in Routings
    BY <1>1, <1>4, RoutingTyped DEF Teammate, Events
  <2>2. [row.ctx EXCEPT !.routing.event = e, !.routing.from = a]
            = [row.ctx EXCEPT !.routing = [row.ctx.routing EXCEPT !.event = e, !.from = a]]
    BY <1>1 DEF Contexts, Routings
  <2>3. [row.ctx EXCEPT !.routing.event = e, !.routing.from = a] \in Contexts
    BY <1>1, <2>1, <2>2, ContextTyped
  <2>. QED
    BY <1>1, <2>3, RowTyped DEF Replied
<1>5. ASSUME q = "1", ~Live(row, a) PROVE TakenOver(a, row) \in Rows
  <2>. DEFINE r == row.ctx.routing
              tried == IF Late(row) THEN r.tried ELSE r.tried \cup ({r.offered} \ {NoAgent})
              routing == [r EXCEPT !.tried = tried, !.event = "claim", !.from = a,
                                   !.offered = a, !.late = @ \/ Late(row)]
  <2>1. tried \in SUBSET Agents
    BY <1>1 DEF Routings
  <2>2. a \in Agents
    BY <1>5 DEF Teammate
  <2>3. (r.late \/ Late(row)) \in BOOLEAN
    BY Zenon
  <2>4. routing \in Routings
    <3>. HIDE DEF tried
    <3>1. r \in Routings
      BY <1>1
    <3>. HIDE DEF r
    <3>. QED
      BY <2>1, <2>2, <2>3, <3>1 DEF Routings
  <2>5. [row.ctx EXCEPT !.routing = routing] \in Contexts
    BY <1>1, <2>4, ContextTyped
  <2>6. r.at \in Places
    BY <1>1, <1>5, PlanSteps
  <2>7. ASSUME NEW c \in Contexts, NEW n \in Places
        PROVE  [run EXCEPT !.status = "queued", !.step = n, !.deferred = FALSE, !.ctx = c] \in Rows
    BY <1>1 DEF Rows
  <2>. QED
    BY <2>5, <2>6, <2>7 DEF TakenOver
<1>6. ASSUME q = "86" PROVE Released86(a, row) \in Rows
  <2>1. [row.ctx.routing EXCEPT !.event = "unclaim", !.from = a] \in Routings
    BY <1>1, <1>6, RoutingTyped DEF Teammate, Events
  <2>2. [row.ctx EXCEPT !.routing.event = "unclaim", !.routing.from = a]
            = [row.ctx EXCEPT !.routing = [row.ctx.routing EXCEPT !.event = "unclaim", !.from = a]]
    BY <1>1 DEF Contexts, Routings
  <2>3. [row.ctx EXCEPT !.routing.event = "unclaim", !.routing.from = a] \in Contexts
    BY <1>1, <2>1, <2>2, ContextTyped
  <2>4. row.ctx.routing.home \in Places
    BY <1>1, <1>6, PlanSteps
  <2>. QED
    BY <1>1, <2>3, <2>4 DEF Released86, Rows
<1>. QED
  BY <1>2, <1>3, <1>4, <1>5, <1>6

LEMMA RespondTyped ==
    ASSUME Typed, NEW q \in Requests, NEW a \in Agents \cup {NoAgent}, NEW row \in Rows,
           Aimed([what |-> q, who |-> a, seen |-> row]),
           NEW vs \in [Visitors -> Visits], \A v \in Visitors : Aimed(vs[v]),
           Respond(q, a, row, vs)
    PROVE  Typed'
<1>1. /\ plan' = plan /\ tenant' \in Tenants /\ worker' = worker /\ UNCHANGED world
      /\ faults' \in 0..MaxFaults
      /\ UNCHANGED answered \/ answered' \in Owner
  BY DEF Respond, Typed, WorldTyped
<1>2. run' \in Rows
  <2>1. q \in RequestKinds
    BY FlowAssumption
  <2>2. /\ q \in Teammate => a \in Agents
        /\ q = "1" /\ ~Live(row, a) => row.ctx.routing.at \in Steps
        /\ q = "86" => row.ctx.routing.home \in Steps
    BY DEF Aimed
  <2>3. /\ q \in Owner => Decided(q, row) \in Rows
        /\ q \in {"reply", "outcome"} => Resumed(q, row) \in Rows
        /\ q \in {"1", "2"} => Replied(q, a, row) \in Rows
        /\ q = "1" /\ ~Live(row, a) => TakenOver(a, row) \in Rows
        /\ q = "86" => Released86(a, row) \in Rows
    BY <2>2, AnswerTyped
  <2>4. run' = CASE q \in Owner -> Decided(q, row)
                [] q \in {"reply", "outcome"} -> Resumed(q, row)
                [] q = "2" \/ (q = "1" /\ Live(row, a)) -> Replied(q, a, row)
                [] q = "1" /\ ~Live(row, a) -> TakenOver(a, row)
                [] q = "86" -> Released86(a, row)
    BY DEF Respond
  <2>. QED
    BY <2>1, <2>3, <2>4 DEF RequestKinds, Owner
<1>3. RunTyped'
  <2>1. Nobody(plan) \in Visits /\ Aimed(Nobody(plan))
    BY NewTypes DEF Typed, WorldTyped
  <2>2. visitor' = [v \in Visitors |-> IF vs[v].what \in Owner THEN vs[v] ELSE Nobody(plan)]
    BY DEF Respond, Stale
  <2>3. visitor' \in [Visitors -> Visits] /\ \A v \in Visitors : Aimed(visitor'[v])
    BY <2>1, <2>2
  <2>4. \A v \in Visitors : Aimed(visitor[v])'
    BY <1>1, <2>3, TypesStay DEF Aimed
  <2>. QED
    BY <1>1, <1>2, <2>3, <2>4, TypesStay DEF RunTyped
<1>. QED
  BY <1>1, <1>3, WorkersKept, WorldKept DEF Typed

LEMMA AtOnceTyped ==
    ASSUME Typed, NEW q \in Requests, NEW a \in Agents \cup {NoAgent}, AtOnce(q, a)
    PROVE  Typed'
<1>1. run \in Rows /\ Finds(q, a, run) /\ Respond(q, a, run, visitor)
  BY DEF AtOnce, Typed, RunTyped
<1>2. Aimed([what |-> q, who |-> a, seen |-> run])
  BY <1>1, FoundIsAimed DEF Aimed
<1>3. visitor \in [Visitors -> Visits] /\ \A v \in Visitors : Aimed(visitor[v])
  BY DEF Typed, RunTyped
<1>. QED
  BY <1>1, <1>2, <1>3, RespondTyped

LEMMA VisitTyped == ASSUME Typed, NEW v \in Visitors, Visit(v) PROVE Typed'
<1>0. /\ run \in Rows /\ visitor \in [Visitors -> Visits]
      /\ \A u \in Visitors : Aimed(visitor[u])
      /\ Nobody(plan) \in Visits /\ Aimed(Nobody(plan))
  BY NewTypes DEF Typed, RunTyped, WorldTyped
<1>1. ASSUME NEW q \in Requests, NEW a \in Agents \cup {NoAgent}, Read(v, q, a) PROVE Typed'
  <2>1. Finds(q, a, run) /\ visitor' = [visitor EXCEPT ![v] = [what |-> q, who |-> a, seen |-> run]]
    BY <1>1 DEF Read
  <2>2. Aimed([what |-> q, who |-> a, seen |-> run])
    BY <1>0, <2>1, FoundIsAimed DEF Aimed
  <2>3. [what |-> q, who |-> a, seen |-> run] \in Visits
    BY <1>0 DEF Visits
  <2>4. visitor' \in [Visitors -> Visits] /\ \A u \in Visitors : Aimed(visitor'[u])
    BY <1>0, <2>1, <2>2, <2>3
  <2>5. /\ plan' = plan /\ tenant' \in Tenants /\ run' = run /\ worker' = worker
        /\ UNCHANGED <<world, answered>> /\ faults' \in 0..MaxFaults
    BY <1>1 DEF Read, Typed, WorldTyped
  <2>6. \A u \in Visitors : Aimed(visitor[u])'
    BY <2>4, <2>5, TypesStay DEF Aimed
  <2>7. RunTyped'
    BY <1>0, <2>4, <2>5, <2>6, TypesStay DEF RunTyped
  <2>. QED
    BY <2>5, <2>7, WorkersKept, WorldKept DEF Typed
<1>2. CASE Write(v)
  <2>. DEFINE t == visitor[v]
  <2>1. /\ t.what # "none"
        /\ Respond(t.what, t.who, t.seen, [visitor EXCEPT ![v] = Nobody(plan)])
    BY <1>2 DEF Write
  <2>2. t.what \in Requests /\ t.who \in Agents \cup {NoAgent} /\ t.seen \in Rows
        /\ t = [what |-> t.what, who |-> t.who, seen |-> t.seen]
    BY <1>0, <2>1 DEF Visits
  <2>3. Aimed([what |-> t.what, who |-> t.who, seen |-> t.seen])
    BY <1>0, <2>2
  <2>4. /\ [visitor EXCEPT ![v] = Nobody(plan)] \in [Visitors -> Visits]
        /\ \A u \in Visitors : Aimed([visitor EXCEPT ![v] = Nobody(plan)][u])
    BY <1>0
  <2>. QED
    BY <2>1, <2>2, <2>3, <2>4, RespondTyped
<1>3. CASE Leave(v)
  <2>1. /\ plan' = plan /\ tenant' \in Tenants /\ run' = run /\ worker' = worker
        /\ UNCHANGED <<world, answered>> /\ faults' \in 0..MaxFaults
        /\ visitor' = [visitor EXCEPT ![v] = Nobody(plan)]
    BY <1>3 DEF Leave, Typed, WorldTyped
  <2>2. visitor' \in [Visitors -> Visits] /\ \A u \in Visitors : Aimed(visitor'[u])
    BY <1>0, <2>1
  <2>3. \A u \in Visitors : Aimed(visitor[u])'
    BY <2>1, <2>2, TypesStay DEF Aimed
  <2>4. RunTyped'
    BY <1>0, <2>1, <2>2, <2>3, TypesStay DEF RunTyped
  <2>. QED
    BY <2>1, <2>4, WorkersKept, WorldKept DEF Typed
<1>. QED
  BY <1>1, <1>2, <1>3 DEF Visit, Asking

-----------------------------------------------------------------------------
LEMMA ExecuteTyped == ASSUME Typed, NEW w \in Workers, Execute(w) \/ Die(w) PROVE Typed'
BY ClaimTyped, BeginTyped, CheckTyped, FinishTyped, AdvanceTyped, ThrowTyped, FailTyped,
   DeferTyped, DieTyped, ReserveTyped, SendTyped, ParkTyped, WaitTyped, GateTyped,
   PromptTyped, StampTyped, CallTyped, DialTyped, RouteTyped
   DEF Execute

LEMMA StutterTyped == Typed /\ UNCHANGED vars => Typed'
<1>. SUFFICES ASSUME Typed, UNCHANGED vars PROVE Typed'
  OBVIOUS
<1>1. /\ plan' = plan /\ tenant' \in Tenants /\ worker' = worker
      /\ UNCHANGED <<run, visitor>> /\ UNCHANGED <<world, answered>> /\ faults' \in 0..MaxFaults
  BY DEF vars, world, Typed, WorldTyped
<1>. QED
  BY <1>1, RowKept, WorkersKept, WorldKept DEF Typed

LEMMA NextTyped == Typed /\ [Next]_vars => Typed'
<1>. SUFFICES ASSUME Typed, [Next]_vars PROVE Typed'
  OBVIOUS
<1>1. ASSUME NEW to \in Tenants, Switch(to) PROVE Typed'
  BY <1>1, SwitchTyped
<1>2. CASE Tick \/ Cancel
  BY <1>2, TickTyped
<1>3. ASSUME NEW w \in Workers, Execute(w) \/ Die(w) PROVE Typed'
  BY <1>3, ExecuteTyped
<1>4. ASSUME NEW ask \in Asking, AtOnce(ask[1], ask[2]) PROVE Typed'
  BY <1>4, AtOnceTyped DEF Asking
<1>5. ASSUME NEW v \in Visitors, Visit(v) PROVE Typed'
  BY <1>5, VisitTyped
<1>6. CASE UNCHANGED vars
  BY <1>6, StutterTyped
<1>. QED
  BY <1>1, <1>2, <1>3, <1>4, <1>5, <1>6 DEF Next

LEMMA TypedIsTypeOK == Typed => TypeOK
BY DEF Typed, RunTyped, WorkersTyped, WorldTyped, TypeOK

\* The row, every worker's copy of its context and every request's copy of the
\* row keep their types, whoever writes the context back last: a retry counter
\* never passes its limit, and the tenant's slots never go below zero.
THEOREM TypeCorrect == Spec => []TypeOK
BY InitTyped, NextTyped, TypedIsTypeOK, PTL DEF Spec

-----------------------------------------------------------------------------
(* One worker executes. *)

\* Where a worker is after the moves steps are made of.
LEMMA GotoIs ==
    ASSUME Typed, NEW w \in Workers, NEW at, Goto(w, at)
    PROVE  /\ worker'[w].at = at /\ worker'[w].step = worker[w].step
           /\ worker'[w].ctx = worker[w].ctx
           /\ \A u \in Workers \ {w} : worker'[u] = worker[u]
BY DEF Goto, Typed, WorkersTyped, Invocations

LEMMA ReturnIs ==
    ASSUME Typed, NEW w \in Workers, Return(w)
    PROVE  /\ worker'[w].at = "idle" /\ worker'[w].ctx = NewContext(plan)
           /\ \A u \in Workers \ {w} : worker'[u] = worker[u]
BY DEF Return, IdleWorker, Typed, WorkersTyped

LEMMA DoneIs ==
    ASSUME Typed, NEW w \in Workers, NEW c, NEW n, Done(w, c, n)
    PROVE  /\ worker'[w].at = "advance" /\ worker'[w].ctx = c
           /\ worker'[w].step = worker[w].step + n
           /\ \A u \in Workers \ {w} : worker'[u] = worker[u]
BY DEF Done, Typed, WorkersTyped

\* A worker goes on executing and leaves the status as it is; or it gives the
\* run away with the status; or it is done with a run it no longer executes.
Moves(w) ==
    /\ \A u \in Workers \ {w} : worker'[u] = worker[u]
    /\ \/ run'.status = run.status /\ (Executing(w)' => Executing(w))
       \/ run.status # "canceled" /\ Executing(w) /\ ~Executing(w)'

\* What a write does to the status.
LEMMA UpdateIs ==
    ASSUME Typed, NEW row, Update(row)
    PROVE  (run.status # "canceled" /\ run' = row) \/ run' = run
BY DEF Update, Save

LEMMA WriteMoves ==
    ASSUME Typed, NEW w \in Workers,
           Begin(w) \/ Finish(w) \/ Advance(w) \/ Throw(w) \/ Fail(w) \/ Defer(w)
    PROVE  Moves(w)
<1>0. run \in Rows
  BY DEF Typed, RunTyped
<1>1. CASE Begin(w)
  BY <1>1, UpdateIs, GotoIs, ReturnIs DEF Begin, Try, Executing, Moves
<1>2. CASE Finish(w)
  BY <1>2, UpdateIs, GotoIs, ReturnIs DEF Finish, Try, Executing, Moves
<1>3. CASE Advance(w)
  <2>1. [run EXCEPT !.step = worker[w].step, !.ctx = worker[w].ctx].status = run.status
    BY <1>0 DEF Rows
  <2>. QED
    BY <1>3, <2>1, UpdateIs, GotoIs DEF Advance, Try, Executing, Moves
<1>4. CASE Throw(w)
  BY <1>4, UpdateIs, ReturnIs DEF Throw, Try, Executing, Moves
<1>5. CASE Fail(w)
  BY <1>5, UpdateIs, ReturnIs DEF Fail, Try, Executing, Moves
<1>6. CASE Defer(w)
  BY <1>6, UpdateIs, GotoIs, ReturnIs DEF Defer, Try, Executing, Moves
<1>. QED
  BY <1>1, <1>2, <1>3, <1>4, <1>5, <1>6

LEMMA StepMoves ==
    ASSUME Typed, NEW w \in Workers,
           \/ Die(w) \/ Check(w) \/ Reserve(w) \/ Send(w) \/ Park(w) \/ Wait(w) \/ Gate(w)
           \/ Prompt(w) \/ Stamp(w) \/ Call(w) \/ Dial(w) \/ Route(w)
    PROVE  Moves(w)
<1>0. run \in Rows /\ worker \in [Workers -> Invocations]
  BY DEF Typed, RunTyped, WorkersTyped
<1>1. CASE Die(w)
  BY <1>1, ReturnIs DEF Die, Executing, Moves
<1>2. CASE Check(w)
  BY <1>2, GotoIs, ReturnIs DEF Check, Executing, Moves
<1>3. CASE Reserve(w)
  BY <1>3, GotoIs, DoneIs DEF Reserve, At, Executing, Moves
<1>4. CASE Send(w)
  BY <1>4, GotoIs, DoneIs DEF Send, Executing, Moves
<1>5. CASE Park(w)
  <2>1. CASE run.status = "canceled"
    BY <1>5, <2>1, UpdateIs, GotoIs, ReturnIs DEF Park, Try, Executing, Moves
  <2>2. CASE run.status # "canceled"
    BY <1>5, <2>2, GotoIs, ReturnIs DEF Park, Try, Executing, Moves
  <2>. QED
    BY <2>1, <2>2
<1>6. CASE Wait(w)
  BY <1>6, GotoIs, DoneIs DEF Wait, At, Executing, Moves
<1>7. CASE Gate(w)
  <2>1. CASE worker' = [worker EXCEPT ![w].at = "check", ![w].step = @ + SkipsGuarded]
    <3>1. worker'[w].at = "check" /\ \A u \in Workers \ {w} : worker'[u] = worker[u]
      BY <1>0, <2>1 DEF Invocations
    <3>. QED
      BY <1>7, <3>1 DEF Gate, At, Executing, Moves
  <2>2. CASE Goto(w, "park") \/ \E c, n : Done(w, c, n)
    BY <1>7, <2>2, GotoIs, DoneIs DEF Gate, At, Executing, Moves
  <2>. QED
    BY <1>7, <2>1, <2>2 DEF Gate
<1>8. CASE Prompt(w)
  BY <1>8, GotoIs, ReturnIs DEF Prompt, Executing, Moves
<1>9. CASE Stamp(w)
  <2>1. [run EXCEPT !.ctx = [worker[w].ctx EXCEPT !.slack = worker[w].step]].status = run.status
    BY <1>0 DEF Rows
  <2>. QED
    BY <1>9, <2>1, UpdateIs, ReturnIs DEF Stamp, Executing, Moves
<1>10. CASE Call(w)
  BY <1>10, GotoIs, DoneIs DEF Call, At, Executing, Moves
<1>11. CASE Dial(w)
  BY <1>11, GotoIs, DoneIs DEF Dial, Executing, Moves
<1>12. CASE Route(w)
  <2>1. ASSUME NEW a, NEW o,
               worker' = [worker EXCEPT ![w].at = "park", ![w].ctx.routing = o]
        PROVE  worker'[w].at = "park" /\ \A u \in Workers \ {w} : worker'[u] = worker[u]
    BY <1>0, <2>1 DEF Invocations
  <2>2. Executing(w) /\ run' = run
    BY <1>12 DEF Route, At, Executing
  <2>3. \/ \E c, n : Done(w, c, n)
        \/ Goto(w, "thrown")
        \/ \E a, o : worker' = [worker EXCEPT ![w].at = "park", ![w].ctx.routing = o]
    BY <1>12, RouteMoves
  <2>. QED
    BY <2>1, <2>2, <2>3, GotoIs, DoneIs DEF Executing, Moves
<1>. QED
  BY <1>1, <1>2, <1>3, <1>4, <1>5, <1>6, <1>7, <1>8, <1>9, <1>10, <1>11, <1>12

\* A request writes a run that waits, is queued or is done.
LEMMA RespondFinds ==
    ASSUME Typed, NEW q \in Requests, NEW a, NEW row, NEW vs, Respond(q, a, row, vs)
    PROVE  run.status \in {"done", "queued"} \cup Waiting
<1>1. q \in RequestKinds
  BY FlowAssumption
<1>2. Open("2") = {"awaiting_agent", "queued"}
  BY DEF Open, Owner
<1>3. Open(q) \subseteq {"done", "queued"} \cup Waiting
  <2>1. CASE q \in Owner
    BY <2>1 DEF Open, Waiting
  <2>2. CASE q = "reply"
    BY <2>2 DEF Open, Owner, Waiting
  <2>3. CASE q = "outcome"
    BY <2>3 DEF Open, Owner, Waiting
  <2>4. CASE q = "2"
    BY <2>4, <1>2 DEF Waiting
  <2>5. CASE q = "1"
    BY <2>5 DEF Open, Owner, Waiting
  <2>6. CASE q = "86"
    BY <2>6 DEF Open, Owner, Waiting
  <2>. QED
    BY <1>1, <2>1, <2>2, <2>3, <2>4, <2>5, <2>6 DEF RequestKinds, Owner
<1>. QED
  BY <1>2, <1>3 DEF Respond, Waiting

\* A step nobody executes in: it takes no status from whoever executes.
LEMMA OthersMove ==
    ASSUME Typed,
           \/ \E to \in Tenants : Switch(to)
           \/ Tick \/ Cancel
           \/ \E ask \in Asking : AtOnce(ask[1], ask[2])
           \/ \E v \in Visitors : Visit(v)
           \/ UNCHANGED vars
    PROVE  /\ worker' = worker
           /\ \/ run'.status = run.status
              \/ run.status \in {"done", "queued"} \cup Waiting
              \/ Cancel /\ run'.status = "canceled"
              \/ Reclaimable
<1>0. run \in Rows /\ visitor \in [Visitors -> Visits]
  BY DEF Typed, RunTyped
<1>1. ASSUME NEW to \in Tenants, Switch(to) PROVE worker' = worker /\ run' = run
  BY <1>1 DEF Switch
<1>2. CASE Tick
  <2>1. CASE Reclaim
    BY <2>1 DEF Reclaim
  <2>2. CASE EscalateOffer
    BY <2>2 DEF EscalateOffer, Overdue, Waiting
  <2>3. CASE ResumeOverdue("awaiting_reply") \/ ResumeOverdue("awaiting_call")
    BY <2>3 DEF ResumeOverdue, Overdue, Waiting
  <2>4. CASE Wake
    BY <1>0, <2>4 DEF Wake, Rows
  <2>. QED
    BY <1>2, <2>1, <2>2, <2>3, <2>4 DEF Tick
<1>3. CASE Cancel
  BY <1>0, <1>3 DEF Cancel, Save, Rows
<1>4. ASSUME NEW ask \in Asking, AtOnce(ask[1], ask[2])
      PROVE  worker' = worker /\ run.status \in {"done", "queued"} \cup Waiting
  BY <1>4, RespondFinds DEF AtOnce, Asking, Respond
<1>5. ASSUME NEW v \in Visitors, Visit(v)
      PROVE  /\ worker' = worker
             /\ run' = run \/ run.status \in {"done", "queued"} \cup Waiting
  <2>1. CASE Write(v)
    <3>1. visitor[v].what \in Requests
      BY <1>0, <2>1 DEF Write, Visits
    <3>. QED
      BY <2>1, <3>1, RespondFinds DEF Write, Respond
  <2>2. CASE Leave(v) \/ \E ask \in Asking : Read(v, ask[1], ask[2])
    BY <2>2 DEF Leave, Read
  <2>. QED
    BY <1>5, <2>1, <2>2 DEF Visit
<1>6. ASSUME UNCHANGED vars PROVE worker' = worker /\ run' = run
  BY <1>6 DEF vars
<1>. QED
  BY <1>1, <1>2, <1>3, <1>4, <1>5, <1>6

LEMMA OneExecutesStays == Typed /\ OneExecutes /\ [Next]_vars => OneExecutes'
<1>. SUFFICES ASSUME Typed, OneExecutes, [Next]_vars PROVE OneExecutes'
  OBVIOUS
<1>1. ASSUME NEW w \in Workers, Claim(w) PROVE OneExecutes'
  <2>1. \A u \in Workers : ~Executing(u)
    BY <1>1 DEF Claim, Claimable, OneExecutes
  <2>2. \A u \in Workers \ {w} : worker'[u] = worker[u]
    BY <1>1 DEF Claim, Typed, WorkersTyped
  <2>3. run'.status = "running"
    BY <1>1 DEF Claim, Save, Typed, RunTyped, Rows
  <2>. QED
    BY <2>1, <2>2, <2>3 DEF OneExecutes, Executing
<1>2. ASSUME NEW w \in Workers, Moves(w) PROVE OneExecutes'
  BY <1>2 DEF Moves, OneExecutes, Executing
<1>3. ASSUME NEW w \in Workers, Execute(w) \/ Die(w) PROVE OneExecutes'
  BY <1>1, <1>2, <1>3, WriteMoves, StepMoves DEF Execute
<1>4. ASSUME /\ worker' = worker
             /\ \/ run'.status = run.status
                \/ run.status \in {"done", "queued"} \cup Waiting
                \/ Cancel /\ run'.status = "canceled"
                \/ Reclaimable
      PROVE  OneExecutes'
  BY <1>4 DEF OneExecutes, Executing, Reclaimable, Waiting
<1>. QED
  BY <1>3, <1>4, OthersMove DEF Next

LEMMA OneExecutesInit == Init => OneExecutes
BY DEF Init, OneExecutes, Executing, IdleWorker

\* Never do two workers execute steps of the run, and one does only while its
\* status says so: the claim, the lease and every write that gives the run away
\* keep them apart, whatever the flow, and however many workers there are.
THEOREM OneAtATime == Spec => []OneExecutes
BY InitTyped, NextTyped, OneExecutesInit, OneExecutesStays, PTL DEF Spec

-----------------------------------------------------------------------------
(* A stop is final. *)

LEMMA StopStays == Typed /\ [Next]_vars => (run.status = "canceled" => run'.status = "canceled")
<1>. SUFFICES ASSUME Typed, [Next]_vars, run.status = "canceled"
              PROVE  run'.status = "canceled"
  OBVIOUS
<1>1. ASSUME NEW w \in Workers, Execute(w) \/ Die(w) PROVE run'.status = "canceled"
  <2>1. CASE Claim(w)
    BY <2>1 DEF Claim, Claimable
  <2>2. CASE Moves(w)
    BY <2>2 DEF Moves
  <2>. QED
    BY <1>1, <2>1, <2>2, WriteMoves, StepMoves DEF Execute
<1>2. ASSUME \/ run'.status = run.status
             \/ run.status \in {"done", "queued"} \cup Waiting
             \/ Cancel /\ run'.status = "canceled"
             \/ Reclaimable
      PROVE  run'.status = "canceled"
  BY <1>2 DEF Reclaimable, Waiting
<1>. QED
  BY <1>1, <1>2, OthersMove DEF Next

\* A run its owner stopped stays stopped: no worker under way, no sweep and no
\* request that read it before brings it back.
THEOREM StopHolds == Spec => StopIsFinal
<1>1. Typed /\ [Next]_vars => [run.status = "canceled" => run'.status = "canceled"]_vars
  BY StopStays
<1>. QED
  BY <1>1, InitTyped, NextTyped, PTL DEF Spec, StopIsFinal

-----------------------------------------------------------------------------
(* A lead is called once. *)

\* A phone that rang has its row in the ledger, and a worker that is about to
\* dial has put it there for a phone that did not.
Booked ==
    /\ \A i \in Steps : rings[i] <= 1 /\ (i \notin ledger => rings[i] = 0)
    /\ \A w \in Workers : worker[w].at = "dial" =>
                             worker[w].step \in ledger /\ rings[worker[w].step] = 0

LEMMA BookedInit == Init => Booked
BY DEF Init, Booked, IdleWorker

\* Nothing but a call step goes to dial, or touches the ledger.
LEMMA NoDial ==
    ASSUME Typed, NEW w \in Workers, Execute(w) \/ Die(w), ~Call(w), ~Dial(w)
    PROVE  /\ UNCHANGED <<rings, ledger>>
           /\ worker'[w].at # "dial"
           /\ \A u \in Workers \ {w} : worker'[u] = worker[u]
<1>0. worker \in [Workers -> Invocations]
  BY DEF Typed, WorkersTyped
<1>1. CASE Claim(w)
  BY <1>0, <1>1 DEF Claim, world
<1>2. CASE Begin(w) \/ Finish(w) \/ Advance(w) \/ Throw(w) \/ Fail(w) \/ Defer(w)
  BY <1>2, GotoIs, ReturnIs DEF Begin, Finish, Advance, Throw, Fail, Defer, Try, world
<1>3. CASE Die(w) \/ Check(w) \/ Park(w) \/ Wait(w) \/ Stamp(w)
  BY <1>3, GotoIs, ReturnIs, DoneIs DEF Die, Check, Park, Wait, Stamp, Try, world
<1>4. CASE Reserve(w) \/ Send(w) \/ Prompt(w)
  BY <1>4, GotoIs, ReturnIs, DoneIs DEF Reserve, Send, Prompt
<1>5. CASE Gate(w)
  <2>1. CASE worker' = [worker EXCEPT ![w].at = "check", ![w].step = @ + SkipsGuarded]
    <3>1. worker'[w].at = "check" /\ \A u \in Workers \ {w} : worker'[u] = worker[u]
      BY <1>0, <2>1 DEF Invocations
    <3>. QED
      BY <1>5, <3>1 DEF Gate, world
  <2>. QED
    BY <1>5, <2>1, GotoIs, DoneIs DEF Gate, world
<1>6. CASE Route(w)
  <2>1. ASSUME NEW o, worker' = [worker EXCEPT ![w].at = "park", ![w].ctx.routing = o]
        PROVE  worker'[w].at = "park" /\ \A u \in Workers \ {w} : worker'[u] = worker[u]
    BY <1>0, <2>1 DEF Invocations
  <2>2. UNCHANGED <<rings, ledger>>
    BY <1>6 DEF Route, world
  <2>3. \/ \E c, n : Done(w, c, n)
        \/ Goto(w, "thrown")
        \/ \E o : worker' = [worker EXCEPT ![w].at = "park", ![w].ctx.routing = o]
    BY <1>6, RouteMoves
  <2>. QED
    BY <2>1, <2>2, <2>3, GotoIs, DoneIs
<1>. QED
  BY <1>1, <1>2, <1>3, <1>4, <1>5, <1>6 DEF Execute

LEMMA CallBooked == ASSUME Typed, Booked, NEW w \in Workers, Call(w) PROVE Booked'
<1>. DEFINE i == worker[w].step
<1>0. /\ plan' = plan /\ rings' = rings /\ i \in Steps
  BY Current DEF Call, At, Holding
<1>1. Steps' = Steps
  BY <1>0, TypesStay
<1>2. ASSUME ledger' = ledger, worker'[w].at # "dial",
             \A u \in Workers \ {w} : worker'[u] = worker[u]
      PROVE  Booked'
  BY <1>0, <1>1, <1>2 DEF Booked
<1>3. ASSUME ~Dialed(i), Goto(w, "dial"), ledger' = ledger \cup {i} PROVE Booked'
  <2>1. rings[i] = 0
    BY <1>0, <1>3 DEF Booked, Dialed
  <2>2. worker'[w].step = i /\ \A u \in Workers \ {w} : worker'[u] = worker[u]
    BY <1>3, GotoIs
  <2>. QED
    BY <1>0, <1>1, <1>3, <2>1, <2>2 DEF Booked
<1>4. ASSUME ledger' = ledger \cup {i}, worker'[w].at # "dial",
             \A u \in Workers \ {w} : worker'[u] = worker[u]
      PROVE  Booked'
  BY <1>0, <1>1, <1>4 DEF Booked
<1>. QED
  BY <1>2, <1>3, <1>4, GotoIs, DoneIs DEF Call

LEMMA DialBooked == ASSUME Typed, OneExecutes, Booked, NEW w \in Workers, Dial(w) PROVE Booked'
<1>. DEFINE i == worker[w].step
            rung == [rings EXCEPT ![i] = @ + 1]
<1>0. /\ plan' = plan /\ i \in Steps /\ worker[w].at = "dial"
      /\ rings \in [Steps -> Nat]
  BY Current DEF Dial, Holding, Typed, WorldTyped
<1>1. Steps' = Steps
  BY <1>0, TypesStay
<1>2. \A u \in Workers \ {w} : worker[u].at # "dial"
  BY <1>0 DEF OneExecutes, Executing
<1>3. i \in ledger /\ rings[i] = 0
  BY <1>0 DEF Booked
<1>4. /\ worker'[w].at # "dial"
      /\ \A u \in Workers \ {w} : worker'[u] = worker[u]
  BY GotoIs, DoneIs DEF Dial
<1>5. \A u \in Workers : worker'[u].at # "dial"
  BY <1>2, <1>4
<1>6. ASSUME ledger' = ledger, rings' \in {rings, rung} PROVE Booked'
  BY <1>0, <1>1, <1>3, <1>5, <1>6 DEF Booked
<1>7. ASSUME ledger' = ledger \ {i}, rings' = rings PROVE Booked'
  BY <1>0, <1>1, <1>3, <1>5, <1>7 DEF Booked
<1>. QED
  BY <1>6, <1>7 DEF Dial

LEMMA BookedStays == Typed /\ OneExecutes /\ Booked /\ [Next]_vars => Booked'
<1>. SUFFICES ASSUME Typed, OneExecutes, Booked, [Next]_vars PROVE Booked'
  OBVIOUS
<1>1. plan' = plan
  <2>1. ASSUME NEW w \in Workers, Execute(w) \/ Die(w) PROVE plan' = plan
    BY <2>1 DEF Execute, Claim, Begin, Check, Finish, Advance, Throw, Fail, Defer, Die, Reserve,
                Send, Park, Wait, Gate, Prompt, Stamp, Call, Dial, Route
  <2>2. ASSUME Tick \/ Cancel PROVE plan' = plan
    BY <2>2 DEF Tick, Reclaim, EscalateOffer, ResumeOverdue, Wake, Cancel
  <2>3. ASSUME NEW v \in Visitors, Visit(v) PROVE plan' = plan
    BY <2>3 DEF Visit, Read, Write, Leave, Respond
  <2>. QED
    BY <2>1, <2>2, <2>3 DEF Next, Switch, AtOnce, Respond, vars
<1>2. Steps' = Steps
  BY <1>1, TypesStay
<1>3. ASSUME NEW w \in Workers, Execute(w) \/ Die(w), ~Call(w), ~Dial(w) PROVE Booked'
  BY <1>2, <1>3, NoDial DEF Booked
<1>4. ASSUME UNCHANGED <<rings, ledger, worker>> PROVE Booked'
  BY <1>2, <1>4 DEF Booked
<1>5. ASSUME Tick \/ Cancel PROVE Booked'
  BY <1>4, <1>5 DEF Tick, Reclaim, EscalateOffer, ResumeOverdue, Wake, Cancel, world
<1>6. ASSUME NEW v \in Visitors, Visit(v) PROVE Booked'
  BY <1>4, <1>6 DEF Visit, Read, Write, Leave, Respond, world
<1>7. ASSUME NEW ask, AtOnce(ask[1], ask[2]) PROVE Booked'
  BY <1>4, <1>7 DEF AtOnce, Respond, world
<1>8. ASSUME NEW to, Switch(to) PROVE Booked'
  BY <1>4, <1>8 DEF Switch, world
<1>9. CASE UNCHANGED vars
  BY <1>4, <1>9 DEF vars
<1>. QED
  BY <1>3, <1>5, <1>6, <1>7, <1>8, <1>9, CallBooked, DialBooked DEF Next, Execute

LEMMA BookedIsCalledOnce == Booked => CalledOnce
BY DEF Booked, CalledOnce

\* A step's phone rings at most once, though the step may be run again after a
\* crash, a lost answer or a lost write: the row in the ledger comes first.
THEOREM CallsOnce == Spec => []CalledOnce
BY InitTyped, NextTyped, OneExecutesInit, OneExecutesStays, BookedInit, BookedStays,
   BookedIsCalledOnce, PTL DEF Spec

-----------------------------------------------------------------------------
(* Whoever claims the lead, and whoever holds it, came to it by right. *)

\* In a copy of the context, the teammate the lead is offered to and the one who
\* claims it were texted an offer, or else come late and were tried; and whoever
\* holds it was one or the other.
Rightful(r) ==
    LET entitled == r.log \cup (IF r.late THEN r.tried ELSE {})
    IN  /\ r.offered \in entitled \cup {NoAgent}
        /\ r.event = "claim" => r.from \in entitled
        /\ r.by \in r.log \cup r.tried \cup {NoAgent}

\* A "1" comes from a teammate who may take the lead in the row it read.
CameByRight(t) ==
    t.what = "1" => t.who # NoAgent /\ (Live(t.seen, t.who) \/ t.who \in Takers(t.seen))

\* Every copy that may be written back is such a copy, and every request such a
\* request.
EveryCopyRightful ==
    /\ Rightful(run.ctx.routing)
    /\ \A w \in Workers : Rightful(worker[w].ctx.routing)
    /\ \A v \in Visitors :
          /\ Rightful(visitor[v].seen.ctx.routing)
          /\ CameByRight(visitor[v])

LEMMA NewIsRightful ==
    /\ Rightful(NewContext(plan).routing)
    /\ Rightful(NewRun(plan).ctx.routing)
    /\ Rightful(IdleWorker(plan).ctx.routing)
    /\ Rightful(Nobody(plan).seen.ctx.routing) /\ CameByRight(Nobody(plan))
BY DEF Rightful, NewContext, NewRun, IdleWorker, Nobody, NoRouting, NoAgent,
       CameByRight

LEMMA RightfulInit == Init => EveryCopyRightful
<1>. SUFFICES ASSUME Init PROVE EveryCopyRightful
  OBVIOUS
<1>1. run = NewRun(plan)
  BY DEF Init
<1>2. \A w \in Workers : worker[w] = IdleWorker(plan)
  BY DEF Init
<1>3. \A v \in Visitors : visitor[v] = Nobody(plan)
  BY DEF Init
<1>. QED
  BY <1>1, <1>2, <1>3, NewIsRightful DEF EveryCopyRightful

\* What a route step makes of the routing.
LEMMA RouteKeepsRight ==
    ASSUME NEW r \in Routings, Rightful(r)
    PROVE  /\ r.event = "claim" => Rightful(Claimed(r))
           /\ Rightful(Unclaimed(r))
           /\ \A next \in Onward(r) :
                 /\ Rightful(next)
                 /\ \A a \in Agents, i \in Steps : Rightful(Offered(next, a, i))
<1>1. ASSUME r.event = "claim" PROVE Rightful(Claimed(r))
  BY <1>1 DEF Rightful, Claimed, Routings
<1>2. Rightful(Unclaimed(r))
  BY DEF Rightful, Unclaimed, Routings
<1>3. ASSUME NEW them PROVE Rightful(Skipped(Retired(r), them))
  <2>1. /\ Retired(r).offered = NoAgent /\ Retired(r).event = "none"
        /\ Retired(r).by = r.by /\ r.log \subseteq Retired(r).log
        /\ r.tried \subseteq Retired(r).tried
    BY DEF Retired, Routings
  <2>2. /\ Skipped(Retired(r), them).offered = NoAgent
        /\ Skipped(Retired(r), them).event = "none"
        /\ Skipped(Retired(r), them).by = r.by
        /\ r.log \subseteq Skipped(Retired(r), them).log
        /\ r.tried \subseteq Skipped(Retired(r), them).tried
    BY <2>1 DEF Skipped, Retired, Routings
  <2>. QED
    BY <2>2 DEF Rightful
<1>4. Onward(r) \subseteq Routings
  BY RouteTypes
<1>5. ASSUME NEW s \in Routings, Rightful(s), NEW a \in Agents, NEW i \in Steps
      PROVE  Rightful(Offered(s, a, i))
  BY <1>5 DEF Rightful, Offered, Routings
<1>. QED
  BY <1>1, <1>2, <1>3, <1>4, <1>5 DEF Onward

\* A write leaves requests that read before it, as they were, or nobody.
LEMMA StaleRightful ==
    ASSUME NEW vs \in [Visitors -> Visits],
           \A v \in Visitors :
              /\ Rightful(vs[v].seen.ctx.routing)
              /\ CameByRight(vs[v])
    PROVE  \A v \in Visitors :
              /\ Rightful(Stale(vs)[v].seen.ctx.routing)
              /\ CameByRight(Stale(vs)[v])
BY NewIsRightful DEF Stale

\* Every copy of the next state is a rightful one.
LEMMA RightfulNext ==
    ASSUME Rightful(run'.ctx.routing), \A w \in Workers : Rightful(worker'[w].ctx.routing),
           \A v \in Visitors : /\ Rightful(visitor'[v].seen.ctx.routing)
                               /\ CameByRight(visitor'[v])
    PROVE  EveryCopyRightful'
BY DEF EveryCopyRightful, Rightful, CameByRight, Live, Takers, Late

\* A row that is saved with a rightful context.
LEMMA SaveRightful ==
    ASSUME Typed, EveryCopyRightful, NEW row, Save(row), Rightful(row.ctx.routing),
           \A w \in Workers : Rightful(worker'[w].ctx.routing)
    PROVE  EveryCopyRightful'
<1>1. visitor \in [Visitors -> Visits]
  BY DEF Typed, RunTyped
<1>2. \A v \in Visitors :
         /\ Rightful(visitor'[v].seen.ctx.routing)
         /\ CameByRight(visitor'[v])
  BY <1>1, StaleRightful DEF Save, EveryCopyRightful
<1>. QED
  BY <1>2, RightfulNext DEF Save

LEMMA UpdateRightful ==
    ASSUME Typed, EveryCopyRightful, NEW row, Update(row) \/ UNCHANGED <<run, visitor>>,
           Rightful(row.ctx.routing), \A w \in Workers : Rightful(worker'[w].ctx.routing)
    PROVE  EveryCopyRightful'
<1>1. CASE UNCHANGED <<run, visitor>>
  BY <1>1, RightfulNext DEF EveryCopyRightful
<1>2. CASE Save(row)
  BY <1>2, SaveRightful
<1>. QED
  BY <1>1, <1>2 DEF Update

\* A worker's copy after a move: its own, a new one, or one that is rightful.
LEMMA GotoRightful ==
    ASSUME Typed, EveryCopyRightful, NEW w \in Workers,
           \/ \E at : Goto(w, at)
           \/ Return(w)
           \/ \E c, n : Rightful(c.routing) /\ Done(w, c, n)
    PROVE  \A u \in Workers : Rightful(worker'[u].ctx.routing)
BY GotoIs, ReturnIs, DoneIs, NewIsRightful DEF EveryCopyRightful

\* What is written into a context beside its routing leaves the routing alone.
LEMMA RoutingAlone ==
    ASSUME NEW c \in Contexts
    PROVE  /\ \A i, a : [c EXCEPT !.answer[i] = a].routing = c.routing
           /\ [c EXCEPT !.consumed = TRUE].routing = c.routing
           /\ \A i : [c EXCEPT !.slack = i].routing = c.routing
           /\ \A q : [c EXCEPT !.decision = q, !.consumed = FALSE, !.slack = 0].routing = c.routing
           /\ \A r : [c EXCEPT !.routing = r].routing = r
BY DEF Contexts

LEMMA CopyOf ==
    ASSUME NEW r \in Rows
    PROVE  /\ \A s : [r EXCEPT !.status = s].ctx = r.ctx
           /\ \A s, n : [r EXCEPT !.status = s, !.retries = n].ctx = r.ctx
           /\ \A s, c : [r EXCEPT !.status = s, !.ctx = c].ctx = c
           /\ \A s, n, c : [r EXCEPT !.status = s, !.step = n, !.ctx = c].ctx = c
           /\ \A s, d, n, c : [r EXCEPT !.status = s, !.deferred = d, !.step = n, !.ctx = c].ctx = c
           /\ \A s, d, n, c : [r EXCEPT !.status = s, !.step = n, !.deferred = d, !.ctx = c].ctx = c
           /\ \A n, c : [r EXCEPT !.step = n, !.ctx = c].ctx = c
           /\ \A c : [r EXCEPT !.ctx = c].ctx = c
           /\ \A d : [r EXCEPT !.deferred = d].ctx = r.ctx
BY DEF Rows

LEMMA WriteRightful ==
    ASSUME Typed, EveryCopyRightful, NEW w \in Workers,
           \/ Begin(w) \/ Finish(w) \/ Advance(w) \/ Throw(w) \/ Fail(w) \/ Defer(w)
           \/ Park(w) \/ Stamp(w)
    PROVE  EveryCopyRightful'
<1>1. run \in Rows /\ worker[w].ctx \in Contexts
  BY Current
<1>2. Rightful(run.ctx.routing) /\ Rightful(worker[w].ctx.routing)
  BY DEF EveryCopyRightful
<1>3. \A u \in Workers : Rightful(worker'[u].ctx.routing)
  BY GotoRightful DEF Begin, Finish, Advance, Throw, Fail, Defer, Park, Stamp, Try
<1>0. ASSUME NEW row, row.ctx \in {run.ctx, worker[w].ctx},
             Update(row) \/ UNCHANGED <<run, visitor>>
      PROVE  EveryCopyRightful'
  BY <1>0, <1>2, <1>3, UpdateRightful
<1>4. CASE Begin(w)
  <2>1. PICK s : Update([run EXCEPT !.status = s]) \/ UNCHANGED <<run, visitor>>
    BY <1>4 DEF Begin, Try
  <2>. DEFINE new == [run EXCEPT !.status = s]
  <2>2. new.ctx = run.ctx
    BY <1>1, CopyOf
  <2>3. Update(new) \/ UNCHANGED <<run, visitor>>
    BY <2>1
  <2>. HIDE DEF new
  <2>. QED
    BY <1>0, <2>2, <2>3
<1>5. CASE Finish(w)
  <2>. DEFINE new == [run EXCEPT !.status = "done", !.step = worker[w].step, !.ctx = worker[w].ctx]
  <2>1. Update(new) \/ UNCHANGED <<run, visitor>>
    BY <1>5 DEF Finish, Try
  <2>2. new.ctx = worker[w].ctx
    BY <1>1, CopyOf
  <2>. HIDE DEF new
  <2>. QED
    BY <1>0, <2>1, <2>2
<1>6. CASE Advance(w)
  <2>. DEFINE new == [run EXCEPT !.step = worker[w].step, !.ctx = worker[w].ctx]
  <2>1. Update(new) \/ UNCHANGED <<run, visitor>>
    BY <1>6 DEF Advance, Try
  <2>2. new.ctx = worker[w].ctx
    BY <1>1, CopyOf
  <2>. HIDE DEF new
  <2>. QED
    BY <1>0, <2>1, <2>2
<1>7. CASE Throw(w)
  <2>. DEFINE failed == [run EXCEPT !.status = "failed"]
              again == [run EXCEPT !.status = "queued", !.retries = @ + 1]
  <2>1. Update(failed) \/ Update(again) \/ UNCHANGED <<run, visitor>>
    BY <1>7 DEF Throw, Try
  <2>2. failed.ctx = run.ctx /\ again.ctx = run.ctx
    BY <1>1, CopyOf
  <2>. HIDE DEF failed, again
  <2>. QED
    BY <1>0, <2>1, <2>2
<1>8. CASE Fail(w)
  <2>. DEFINE new == [run EXCEPT !.status = "failed", !.ctx = worker[w].ctx]
  <2>1. Update(new) \/ UNCHANGED <<run, visitor>>
    BY <1>8 DEF Fail, Try
  <2>2. new.ctx = worker[w].ctx
    BY <1>1, CopyOf
  <2>. HIDE DEF new
  <2>. QED
    BY <1>0, <2>1, <2>2
<1>9. CASE Defer(w)
  <2>. DEFINE new == [run EXCEPT !.status = "queued", !.deferred = TRUE,
                    !.step = worker[w].step, !.ctx = worker[w].ctx]
  <2>1. Update(new) \/ UNCHANGED <<run, visitor>>
    BY <1>9 DEF Defer, Try
  <2>2. new.ctx = worker[w].ctx
    BY <1>1, CopyOf
  <2>. HIDE DEF new
  <2>. QED
    BY <1>0, <2>1, <2>2
<1>10. CASE Park(w)
  <2>. DEFINE new == [run EXCEPT !.status = ParkedStatus(plan[worker[w].step]),
                    !.step = worker[w].step, !.ctx = worker[w].ctx]
  <2>1. Update(new) \/ UNCHANGED <<run, visitor>>
    BY <1>10 DEF Park, Try
  <2>2. new.ctx = worker[w].ctx
    BY <1>1, CopyOf
  <2>. HIDE DEF new
  <2>. QED
    BY <1>0, <2>1, <2>2
<1>11. CASE Stamp(w)
  <2>. DEFINE new == [run EXCEPT !.ctx = [worker[w].ctx EXCEPT !.slack = worker[w].step]]
  <2>1. Update(new) \/ UNCHANGED <<run, visitor>>
    BY <1>11 DEF Stamp
  <2>2. new.ctx = [worker[w].ctx EXCEPT !.slack = worker[w].step]
    BY <1>1, CopyOf
  <2>3. new.ctx.routing = worker[w].ctx.routing
    BY <1>1, <2>2 DEF Contexts
  <2>. HIDE DEF new
  <2>. QED
    BY <1>2, <1>3, <2>1, <2>3, UpdateRightful
<1>. QED
  BY <1>4, <1>5, <1>6, <1>7, <1>8, <1>9, <1>10, <1>11

\* Steps that write no row.
LEMMA StepRightful ==
    ASSUME Typed, EveryCopyRightful, NEW w \in Workers,
           \/ Claim(w) \/ Die(w) \/ Check(w) \/ Reserve(w) \/ Send(w) \/ Wait(w) \/ Gate(w)
           \/ Prompt(w) \/ Call(w) \/ Dial(w) \/ Route(w)
    PROVE  EveryCopyRightful'
<1>0. /\ run \in Rows /\ worker \in [Workers -> Invocations]
      /\ worker[w].ctx \in Contexts
  BY Current DEF Typed, RunTyped, WorkersTyped
<1>1. Rightful(run.ctx.routing) /\ \A u \in Workers : Rightful(worker[u].ctx.routing)
  BY DEF EveryCopyRightful
<1>2. ASSUME UNCHANGED <<run, visitor>>, \A u \in Workers : Rightful(worker'[u].ctx.routing)
      PROVE  EveryCopyRightful'
  BY <1>2, RightfulNext DEF EveryCopyRightful
<1>3. CASE Claim(w)
  <2>. DEFINE new == [run EXCEPT !.status = "running"]
  <2>1. Save(new) /\ new.ctx = run.ctx
    BY <1>0, <1>3, CopyOf DEF Claim
  <2>2. \A u \in Workers : Rightful(worker'[u].ctx.routing)
    BY <1>0, <1>1, <1>3 DEF Claim
  <2>. HIDE DEF new
  <2>. QED
    BY <1>1, <2>1, <2>2, SaveRightful
<1>4. CASE Die(w) \/ Check(w) \/ Reserve(w) \/ Send(w) \/ Wait(w) \/ Prompt(w)
  <2>1. \A u \in Workers : Rightful(worker'[u].ctx.routing)
    BY <1>1, <1>4, GotoRightful DEF Die, Check, Reserve, Send, Wait, Prompt
  <2>. QED
    BY <1>2, <1>4, <2>1 DEF Die, Check, Reserve, Send, Wait, Prompt
<1>5. CASE Gate(w)
  <2>1. [worker[w].ctx EXCEPT !.consumed = TRUE].routing = worker[w].ctx.routing
    BY <1>0, RoutingAlone
  <2>2. CASE worker' = [worker EXCEPT ![w].at = "check", ![w].step = @ + SkipsGuarded]
    <3>1. /\ worker'[w].ctx = worker[w].ctx
          /\ \A u \in Workers \ {w} : worker'[u] = worker[u]
      BY <1>0, <2>2 DEF Invocations
    <3>. QED
      BY <1>1, <1>2, <1>5, <3>1 DEF Gate
  <2>3. CASE Goto(w, "park") \/ \E n : Done(w, [worker[w].ctx EXCEPT !.consumed = TRUE], n)
    <3>. DEFINE used == [worker[w].ctx EXCEPT !.consumed = TRUE]
    <3>1. Rightful(used.routing)
      BY <1>1, <2>1
    <3>2. \/ Goto(w, "park")
          \/ \E n : Done(w, used, n)
      BY <2>3
    <3>. HIDE DEF used
    <3>3. \A u \in Workers : Rightful(worker'[u].ctx.routing)
      BY <1>1, <3>1, <3>2, GotoIs, DoneIs
    <3>. QED
      BY <1>2, <1>5, <3>3 DEF Gate
  <2>. QED
    BY <1>5, <2>2, <2>3 DEF Gate
<1>6. CASE Call(w) \/ Dial(w)
  <2>1. \A a : [worker[w].ctx EXCEPT !.answer[worker[w].step] = a].routing = worker[w].ctx.routing
    BY <1>0, RoutingAlone
  <2>2. \/ \E at : Goto(w, at)
        \/ \E c, n : Done(w, c, n) /\ c.routing = worker[w].ctx.routing
    BY <1>6, <2>1 DEF Call, Dial
  <2>3. \A u \in Workers : Rightful(worker'[u].ctx.routing)
    BY <1>1, <2>2, GotoIs, DoneIs
  <2>. QED
    BY <1>2, <1>6, <2>3 DEF Call, Dial
<1>7. CASE Route(w)
  <2>. DEFINE i == worker[w].step
              c == worker[w].ctx
              r == c.routing
  <2>1. r \in Routings /\ i \in Steps
    BY <1>7, RouteMoves
  <2>2. /\ r.event = "claim" => Rightful(Claimed(r))
        /\ Rightful(Unclaimed(r))
        /\ \A next \in Onward(r) :
              Rightful(next) /\ \A a \in Agents : Rightful(Offered(next, a, i))
    BY <1>1, <2>1, RouteKeepsRight
  <2>3. \A new : [c EXCEPT !.routing = new].routing = new
    BY <1>0, RoutingAlone
  <2>4. ASSUME NEW new, NEW n, Rightful(new), Done(w, [c EXCEPT !.routing = new], n)
        PROVE  \A u \in Workers : Rightful(worker'[u].ctx.routing)
    <3>. DEFINE copy == [c EXCEPT !.routing = new]
    <3>1. copy.routing = new
      BY <2>3
    <3>2. Done(w, copy, n)
      BY <2>4
    <3>. HIDE DEF copy, r
    <3>. QED
      BY <1>1, <2>4, <3>1, <3>2, DoneIs
  <2>5. ASSUME NEW new, Rightful(new),
               worker' = [worker EXCEPT ![w].at = "park", ![w].ctx.routing = new]
        PROVE  \A u \in Workers : Rightful(worker'[u].ctx.routing)
    <3>1. /\ worker'[w].ctx.routing = new
          /\ \A u \in Workers \ {w} : worker'[u] = worker[u]
      BY <1>0, <2>5 DEF Invocations, Contexts
    <3>. QED
      BY <1>1, <2>5, <3>1
  <2>6. ASSUME Goto(w, "thrown") PROVE \A u \in Workers : Rightful(worker'[u].ctx.routing)
    BY <1>1, <2>6, GotoIs
  <2>7. \/ \E new, n : Rightful(new) /\ Done(w, [c EXCEPT !.routing = new], n)
        \/ Goto(w, "thrown")
        \/ \E new : /\ Rightful(new)
                    /\ worker' = [worker EXCEPT ![w].at = "park", ![w].ctx.routing = new]
    <3>1. CASE r.event = "claim" \/ r.event = "unclaim"
      BY <1>7, <2>2, <3>1 DEF Route
    <3>2. CASE r.event \notin {"claim", "unclaim"}
      <4>1. PICK them \in SUBSET (Agents \ Retired(r).tried) :
              \/ \E a \in Agents :
                    worker' = [worker EXCEPT ![w].at = "park",
                                  ![w].ctx.routing = Offered(Skipped(Retired(r), them), a, i)]
              \/ Done(w, [c EXCEPT !.routing = Skipped(Retired(r), them)], 1)
              \/ Goto(w, "thrown")
        BY <1>7, <3>2 DEF Route
      <4>2. Skipped(Retired(r), them) \in Onward(r)
        BY DEF Onward
      <4>. HIDE DEF r, c, i
      <4>. QED
        BY <2>2, <4>1, <4>2
    <3>. QED
      BY <3>1, <3>2
  <2>. QED
    BY <1>2, <1>7, <2>4, <2>5, <2>6, <2>7 DEF Route
<1>. QED
  BY <1>3, <1>4, <1>5, <1>6, <1>7

\* The sweeps and the owner's stop leave the routing, but for the deadline's event.
LEMMA TickRightful == ASSUME Typed, EveryCopyRightful, Tick \/ Cancel PROVE EveryCopyRightful'
<1>0. run \in Rows /\ run.ctx \in Contexts /\ run.ctx.routing \in Routings
  BY RowTyped, ContextTyped DEF Typed, RunTyped
<1>1. worker' = worker /\ Rightful(run.ctx.routing)
  BY DEF Tick, Cancel, Reclaim, EscalateOffer, ResumeOverdue, Wake, EveryCopyRightful
<1>2. ASSUME NEW new, Save(new), Rightful(new.ctx.routing) PROVE EveryCopyRightful'
  BY <1>1, <1>2, SaveRightful DEF EveryCopyRightful
<1>3. CASE Reclaim \/ Cancel
  <2>1. PICK s : Save([run EXCEPT !.status = s])
    BY <1>3 DEF Reclaim, Cancel
  <2>. DEFINE new == [run EXCEPT !.status = s]
  <2>2. new.ctx = run.ctx /\ Save(new)
    BY <1>0, <2>1, CopyOf
  <2>. HIDE DEF new
  <2>. QED
    BY <1>1, <1>2, <2>2
<1>4. CASE EscalateOffer
  <2>. DEFINE new == [run EXCEPT !.status = "queued", !.ctx.routing.event = "timeout"]
  <2>1. new.ctx.routing = [run.ctx.routing EXCEPT !.event = "timeout"]
    BY <1>0 DEF Rows, Contexts
  <2>2. Rightful([run.ctx.routing EXCEPT !.event = "timeout"])
    BY <1>0, <1>1 DEF Rightful, Routings
  <2>3. Save(new)
    BY <1>4 DEF EscalateOffer
  <2>. HIDE DEF new
  <2>. QED
    BY <1>2, <2>1, <2>2, <2>3
<1>5. ASSUME NEW status, ResumeOverdue(status) PROVE EveryCopyRightful'
  <2>. DEFINE new == [run EXCEPT !.status = "queued", !.ctx.answer[run.step] = "timeout"]
  <2>1. new.ctx.routing = run.ctx.routing
    BY <1>0 DEF Rows, Contexts
  <2>2. Save(new)
    BY <1>5 DEF ResumeOverdue
  <2>. HIDE DEF new
  <2>. QED
    BY <1>1, <1>2, <2>1, <2>2
<1>6. CASE Wake
  <2>1. run'.ctx = run.ctx /\ visitor' = visitor
    BY <1>0, <1>6, CopyOf DEF Wake
  <2>. QED
    BY <1>1, <2>1, RightfulNext DEF EveryCopyRightful
<1>. QED
  BY <1>3, <1>4, <1>5, <1>6 DEF Tick

\* A "1" that finds its row comes from a teammate who may take the lead.
LEMMA FoundIsRightful ==
    ASSUME NEW q, NEW a, NEW row, Finds(q, a, row)
    PROVE  CameByRight([what |-> q, who |-> a, seen |-> row])
BY DEF Finds, Teammate, CameByRight

\* Every answer writes a rightful context.
LEMMA AnswerRightful ==
    ASSUME NEW r \in Rows, NEW row \in Rows, r = run, Rightful(row.ctx.routing),
           NEW q, NEW a, CameByRight([what |-> q, who |-> a, seen |-> row])
    PROVE  /\ Rightful(Decided(q, row).ctx.routing)
           /\ Rightful(Resumed(q, row).ctx.routing)
           /\ q = "2" \/ (q = "1" /\ Live(row, a)) => Rightful(Replied(q, a, row).ctx.routing)
           /\ q = "1" /\ ~Live(row, a) => Rightful(TakenOver(a, row).ctx.routing)
           /\ q = "86" => Rightful(Released86(a, row).ctx.routing)
<1>0. /\ row.ctx \in Contexts /\ row.ctx.routing \in Routings /\ run \in Rows
  BY RowTyped, ContextTyped
<1>1. Decided(q, row).ctx.routing = row.ctx.routing
  <2>. DEFINE c == [row.ctx EXCEPT !.decision = q, !.consumed = FALSE, !.slack = 0]
  <2>1. c.routing = row.ctx.routing
    BY <1>0, RoutingAlone
  <2>2. Decided(q, row).ctx = c
    BY <1>0, CopyOf DEF Decided
  <2>. QED
    BY <2>1, <2>2
<1>2. Resumed(q, row).ctx.routing = row.ctx.routing
  <2>. DEFINE c == [row.ctx EXCEPT !.answer[row.step] = IF q = "reply" THEN "reply" ELSE "answered"]
  <2>1. c.routing = row.ctx.routing
    BY <1>0, RoutingAlone
  <2>2. Resumed(q, row).ctx = c
    BY <1>0, CopyOf DEF Resumed
  <2>. QED
    BY <2>1, <2>2
<1>3. ASSUME NEW e, e = "claim" => a # NoAgent /\ row.ctx.routing.offered = a
      PROVE  Rightful([row.ctx EXCEPT !.routing.event = e, !.routing.from = a].routing)
  <2>1. [row.ctx EXCEPT !.routing.event = e, !.routing.from = a].routing
            = [row.ctx.routing EXCEPT !.event = e, !.from = a]
    BY <1>0 DEF Contexts
  <2>2. Rightful([row.ctx.routing EXCEPT !.event = e, !.from = a])
    BY <1>0, <1>3 DEF Rightful, Routings
  <2>. QED
    BY <2>1, <2>2
<1>4. ASSUME q = "2" \/ (q = "1" /\ Live(row, a)) PROVE Rightful(Replied(q, a, row).ctx.routing)
  <2>. DEFINE c == [row.ctx EXCEPT !.routing.event = IF q = "1" THEN "claim" ELSE "reject",
                                   !.routing.from = a]
  <2>1. q = "1" => a # NoAgent /\ row.ctx.routing.offered = a
    BY <1>4 DEF CameByRight, Live
  <2>3. (IF q = "1" THEN "claim" ELSE "reject") = "claim" => q = "1"
    OBVIOUS
  <2>4. Rightful(c.routing)
    BY <1>3, <2>1, <2>3
  <2>2. Replied(q, a, row).ctx = c
    BY <1>0, CopyOf DEF Replied
  <2>. QED
    BY <2>2, <2>4
<1>5. ASSUME q = "1", ~Live(row, a) PROVE Rightful(TakenOver(a, row).ctx.routing)
  <2>. DEFINE r0 == row.ctx.routing
              tried == IF Late(row) THEN r0.tried ELSE r0.tried \cup ({r0.offered} \ {NoAgent})
              new == [r0 EXCEPT !.tried = tried, !.event = "claim", !.from = a,
                                !.offered = a, !.late = @ \/ Late(row)]
  <2>1. TakenOver(a, row).ctx = [row.ctx EXCEPT !.routing = new]
    BY <1>0 DEF TakenOver, Rows
  <2>2. TakenOver(a, row).ctx.routing = new
    BY <1>0, <2>1, RoutingAlone
  <2>3. a \in Takers(row) /\ r0.tried \subseteq tried
    BY <1>5 DEF CameByRight
  <2>4. /\ new.tried = tried /\ new.log = r0.log /\ new.offered = a /\ new.from = a
        /\ new.by = r0.by /\ new.late = (r0.late \/ Late(row))
    <3>. HIDE DEF tried
    <3>. QED
      BY <1>0 DEF Routings
  <2>5. a \in r0.log \/ (Late(row) /\ a \in r0.tried)
    BY <2>3 DEF Takers
  <2>6. r0.by \in r0.log \cup r0.tried \cup {NoAgent}
    BY DEF Rightful
  <2>. HIDE DEF new, tried, r0
  <2>7. Rightful(new)
    BY <2>3, <2>4, <2>5, <2>6 DEF Rightful
  <2>. QED
    BY <2>2, <2>7
<1>6. ASSUME q = "86" PROVE Rightful(Released86(a, row).ctx.routing)
  <2>. DEFINE c == [row.ctx EXCEPT !.routing.event = "unclaim", !.routing.from = a]
  <2>1. Rightful(c.routing)
    BY <1>3, <1>6
  <2>2. Released86(a, row).ctx = c
    BY <1>0, CopyOf DEF Released86
  <2>. QED
    BY <2>1, <2>2
<1>. QED
  BY <1>1, <1>2, <1>4, <1>5, <1>6

LEMMA RespondRightful ==
    ASSUME Typed, EveryCopyRightful, NEW q \in Requests, NEW a \in Agents \cup {NoAgent},
           NEW row \in Rows, Rightful(row.ctx.routing),
           CameByRight([what |-> q, who |-> a, seen |-> row]),
           NEW vs \in [Visitors -> Visits],
           \A v \in Visitors :
              /\ Rightful(vs[v].seen.ctx.routing)
              /\ CameByRight(vs[v]),
           Respond(q, a, row, vs)
    PROVE  EveryCopyRightful'
<1>1. q \in RequestKinds /\ run \in Rows
  BY FlowAssumption DEF Typed, RunTyped
<1>2. /\ Rightful(Decided(q, row).ctx.routing)
      /\ Rightful(Resumed(q, row).ctx.routing)
      /\ q = "2" \/ (q = "1" /\ Live(row, a)) => Rightful(Replied(q, a, row).ctx.routing)
      /\ q = "1" /\ ~Live(row, a) => Rightful(TakenOver(a, row).ctx.routing)
      /\ q = "86" => Rightful(Released86(a, row).ctx.routing)
  BY <1>1, AnswerRightful
<1>3. run' = CASE q \in Owner -> Decided(q, row)
               [] q \in {"reply", "outcome"} -> Resumed(q, row)
               [] q = "2" \/ (q = "1" /\ Live(row, a)) -> Replied(q, a, row)
               [] q = "1" /\ ~Live(row, a) -> TakenOver(a, row)
               [] q = "86" -> Released86(a, row)
  BY DEF Respond
<1>4. Rightful(run'.ctx.routing)
  <2>1. CASE q \in Owner
    BY <1>2, <1>3, <2>1 DEF Owner
  <2>2. CASE q \in {"reply", "outcome"}
    BY <1>2, <1>3, <2>2 DEF Owner
  <2>3. CASE q = "2" \/ (q = "1" /\ Live(row, a))
    BY <1>2, <1>3, <2>3 DEF Owner
  <2>4. CASE q = "1" /\ ~Live(row, a)
    BY <1>2, <1>3, <2>4 DEF Owner
  <2>5. CASE q = "86"
    BY <1>2, <1>3, <2>5 DEF Owner
  <2>. QED
    BY <1>1, <2>1, <2>2, <2>3, <2>4, <2>5 DEF RequestKinds, Owner
<1>5. worker' = worker /\ visitor' = Stale(vs)
  BY DEF Respond
<1>6. \A v \in Visitors :
         /\ Rightful(Stale(vs)[v].seen.ctx.routing)
         /\ CameByRight(Stale(vs)[v])
  BY StaleRightful
<1>7. \A w \in Workers : Rightful(worker'[w].ctx.routing)
  BY <1>5 DEF EveryCopyRightful
<1>. QED
  BY <1>4, <1>5, <1>6, <1>7, RightfulNext

LEMMA VisitRightful ==
    ASSUME Typed, EveryCopyRightful, NEW v \in Visitors, Visit(v) PROVE EveryCopyRightful'
<1>0. /\ run \in Rows /\ visitor \in [Visitors -> Visits]
      /\ Rightful(Nobody(plan).seen.ctx.routing) /\ CameByRight(Nobody(plan))
      /\ Nobody(plan) \in Visits
  BY NewIsRightful, NewTypes DEF Typed, RunTyped, WorldTyped
<1>1. /\ Rightful(run.ctx.routing)
      /\ \A u \in Visitors :
            /\ Rightful(visitor[u].seen.ctx.routing)
            /\ CameByRight(visitor[u])
  BY DEF EveryCopyRightful
<1>2. ASSUME UNCHANGED <<run, worker>>, NEW t,
             Rightful(t.seen.ctx.routing), CameByRight(t),
             visitor' = [visitor EXCEPT ![v] = t]
      PROVE  EveryCopyRightful'
  <2>1. \A u \in Visitors :
           Rightful(visitor'[u].seen.ctx.routing) /\ CameByRight(visitor'[u])
    BY <1>0, <1>1, <1>2
  <2>. QED
    BY <1>1, <1>2, <2>1, RightfulNext DEF EveryCopyRightful
<1>3. ASSUME NEW q, NEW a, Read(v, q, a) PROVE EveryCopyRightful'
  <2>. DEFINE t == [what |-> q, who |-> a, seen |-> run]
  <2>1. CameByRight(t)
    BY <1>3, FoundIsRightful DEF Read
  <2>2. /\ Rightful(t.seen.ctx.routing)
        /\ CameByRight(t)
        /\ visitor' = [visitor EXCEPT ![v] = t] /\ UNCHANGED <<run, worker>>
    BY <1>1, <1>3, <2>1 DEF Read
  <2>. HIDE DEF t
  <2>. QED
    BY <1>2, <2>2
<1>4. CASE Write(v)
  <2>. DEFINE t == visitor[v]
              vs == [visitor EXCEPT ![v] = Nobody(plan)]
  <2>1. /\ t.what \in Requests /\ t.who \in Agents \cup {NoAgent} /\ t.seen \in Rows
        /\ Respond(t.what, t.who, t.seen, vs)
    BY <1>0, <1>4 DEF Write, Visits
  <2>2. /\ vs \in [Visitors -> Visits]
        /\ \A u \in Visitors :
              /\ Rightful(vs[u].seen.ctx.routing)
              /\ CameByRight(vs[u])
    BY <1>0, <1>1
  <2>3. Rightful(t.seen.ctx.routing) /\ CameByRight([what |-> t.what, who |-> t.who, seen |-> t.seen])
    BY <1>1 DEF CameByRight
  <2>. HIDE DEF t, vs
  <2>. QED
    BY <2>1, <2>2, <2>3, RespondRightful
<1>5. CASE Leave(v)
  BY <1>0, <1>2, <1>5 DEF Leave
<1>. QED
  BY <1>3, <1>4, <1>5 DEF Visit

LEMMA RightfulStays == Typed /\ EveryCopyRightful /\ [Next]_vars => EveryCopyRightful'
<1>. SUFFICES ASSUME Typed, EveryCopyRightful, [Next]_vars PROVE EveryCopyRightful'
  OBVIOUS
<1>1. ASSUME NEW ask \in Asking, AtOnce(ask[1], ask[2]) PROVE EveryCopyRightful'
  <2>. DEFINE q == ask[1]
              a == ask[2]
  <2>1. /\ q \in Requests /\ a \in Agents \cup {NoAgent} /\ run \in Rows
        /\ visitor \in [Visitors -> Visits]
    BY DEF Asking, Typed, RunTyped
  <2>2. Finds(q, a, run) /\ Respond(q, a, run, visitor)
    BY <1>1 DEF AtOnce
  <2>3. /\ Rightful(run.ctx.routing)
        /\ \A v \in Visitors :
              /\ Rightful(visitor[v].seen.ctx.routing)
              /\ CameByRight(visitor[v])
    BY DEF EveryCopyRightful
  <2>. HIDE DEF q, a
  <2>4. CameByRight([what |-> q, who |-> a, seen |-> run])
    BY <2>2, FoundIsRightful
  <2>. QED
    BY <2>1, <2>2, <2>3, <2>4, RespondRightful
<1>2. ASSUME NEW to, Switch(to) PROVE EveryCopyRightful'
  BY <1>2 DEF Switch, EveryCopyRightful, Rightful
<1>3. CASE UNCHANGED vars
  BY <1>3 DEF vars, EveryCopyRightful, Rightful
<1>. QED
  BY <1>1, <1>2, <1>3, TickRightful, StepRightful, WriteRightful, VisitRightful DEF Next, Execute

LEMMA RightfulTaker == EveryCopyRightful => TakenByRight
BY DEF EveryCopyRightful, Rightful, TakenByRight

\* Who claims the lead was texted an offer of it, unless the claim is a late one
\* of a teammate the rotation tried; and who holds it was texted or tried.  So it
\* is in any flow, though workers and requests write back copies of the context
\* that are older than the row: no claim, late claim or unclaim names a stranger.
THEOREM TakersHadTheRight == Spec => []TakenByRight
BY InitTyped, NextTyped, RightfulInit, RightfulStays, RightfulTaker, PTL DEF Spec

=============================================================================
