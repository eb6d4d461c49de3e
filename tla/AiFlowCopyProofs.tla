-------------------------- MODULE AiFlowCopyProofs --------------------------
(***************************************************************************)
(* What the copies of a run's context may do to each other, for every flow *)
(* in which one step at most asks somebody: gates hold, answers, decisions *)
(* and claims are not overwritten, and offers are made once.               *)
(*                                                                         *)
(* A flow with a gate has no route and a flow with a route has no gate, so *)
(* there are two invariants beside what holds in every flow: GateInv ties  *)
(* the copies that are as old as the park at the gate to the row, RouteInv *)
(* says where the run is with each state of the lead's routing.            *)
(***************************************************************************)
EXTENDS AiFlowRunProofs

-----------------------------------------------------------------------------
(* The steps of a worker, by what they do to the row and to its own copy.   *)

Gates == {i \in Steps : plan[i] = "gate"}
Routes == {i \in Steps : plan[i] = "route"}

Runs(w) == Executing(w) /\ run.status = "running"
Alive == run.status \notin {"failed", "canceled"}

\* The note of where Slack has a prompt is still to be written.
Noting(w) ==
    /\ worker[w].at \in {"prompt", "stamp"}
    /\ worker[w].step \in Gates
    /\ worker[w].ctx.slack # worker[w].step

Elsewhere(w) == \A u \in Workers \ {w} : worker'[u] = worker[u]
RowStays == UNCHANGED <<run, visitor>>
CopyStays(w) == worker'[w].step = worker[w].step /\ worker'[w].ctx = worker[w].ctx

\* The offer is texted.
Tells(w) ==
    /\ worker[w].at = "prompt" /\ worker[w].step \in Routes
    /\ offers' = [offers EXCEPT ![worker[w].ctx.routing.offered] = @ + 1]

\* A worker is done with the run.
Quits(w) ==
    /\ RowStays
    /\ worker'[w].at = "idle" /\ worker'[w].ctx = NewContext(plan)
    /\ offers' = offers \/ Tells(w)

\* It goes on with the step.  Undecided: no decision that was not used yet.
Undecided(c) == c.decision = "none" \/ c.consumed
Turned(x, at) ==
    \/ at = "check" /\ (x.at = "begin" \/ (x.at = "advance" /\ run.status = "canceled"))
    \/ at = "step" /\ x.at = "check" /\ x.step \in Steps
    \/ at = "send" /\ x.at = "step"
    \/ at = "dial" /\ x.at = "step" /\ plan[x.step] = "call" /\ x.ctx.answer[x.step] = "none"
    \/ /\ at = "park" /\ x.at = "step" /\ plan[x.step] \in {"wait", "call"}
       /\ x.ctx.answer[x.step] = "none"
    \/ at = "park" /\ x.at = "step" /\ plan[x.step] = "gate" /\ Undecided(x.ctx)
    \/ at = "park" /\ x.at = "dial"
    \/ at = "stamp" /\ x.at = "prompt" /\ x.step \in Gates /\ x.ctx.slack # x.step
    \/ at \in {"thrown", "fail", "defer"} /\ x.at \notin {"idle", "prompt", "stamp"}
Turns(w) ==
    /\ RowStays /\ CopyStays(w)
    /\ Turned(worker[w], worker'[w].at)
    /\ offers' = offers

\* It is done with the step: a gate has used its decision, a call has an
\* outcome, a route has a new routing.
Used(x, y) ==
    /\ plan[x.step] = "gate"
    /\ x.ctx.decision # "none" /\ ~x.ctx.consumed
    /\ y.ctx = [x.ctx EXCEPT !.consumed = TRUE]
    /\ y.step = x.step + (IF x.ctx.decision = "skip" THEN 2 ELSE 1)
Outcome(x, y) ==
    /\ plan[x.step] = "call"
    /\ x.at = "dial" \/ x.ctx.answer[x.step] = "none"
    /\ \E a \in Answers : y.ctx = [x.ctx EXCEPT !.answer[x.step] = a]
    /\ y.step = x.step + 1
Settles(r, new) ==
    \/ r.event = "unclaim" /\ new = Unclaimed(r)
    \/ r.event = "claim" /\ new = Claimed(r)
    \/ r.event \notin {"claim", "unclaim"} /\ new \in Onward(r)
Routed(x, y) ==
    /\ plan[x.step] = "route" /\ x.at = "step"
    /\ \E new \in Routings : Settles(x.ctx.routing, new) /\ y.ctx = [x.ctx EXCEPT !.routing = new]
    /\ y.step \in Nat /\ y.step > x.step
Completes(w) ==
    /\ RowStays
    /\ worker[w].at \in {"step", "send", "dial"} /\ worker[w].step \in Steps
    /\ worker'[w].at = "advance"
    /\ \/ /\ plan[worker[w].step] \in {"text", "wait", "call"}
          /\ worker'[w].ctx = worker[w].ctx /\ worker'[w].step = worker[w].step + 1
       \/ worker[w].at = "step" /\ Used(worker[w], worker'[w])
       \/ Outcome(worker[w], worker'[w])
       \/ Routed(worker[w], worker'[w])
    /\ offers' = offers

\* A gate that is cooling down is passed with the step behind it.
Cools(w) ==
    /\ RowStays
    /\ worker[w].at = "step" /\ worker[w].step \in Gates
    /\ Undecided(worker[w].ctx)
    /\ worker'[w].at = "check"
    /\ worker'[w].step = worker[w].step + 2 /\ worker'[w].ctx = worker[w].ctx
    /\ offers' = offers

\* The lead is offered to the next teammate.
Offering(w) ==
    /\ RowStays
    /\ worker[w].at = "step" /\ worker[w].step \in Routes
    /\ worker'[w].at = "park" /\ worker'[w].step = worker[w].step
    /\ LET r == worker[w].ctx.routing
       IN  /\ r.event \notin {"claim", "unclaim"}
           /\ \E next \in Onward(r) : \E a \in Agents \ next.tried :
                 worker'[w].ctx = [worker[w].ctx EXCEPT
                                      !.routing = Offered(next, a, worker[w].step)]
    /\ offers' = offers

\* The copy is written over the row.
Saves(w) ==
    /\ run.status # "canceled" /\ visitor' = Stale(visitor)
    /\ run'.ctx = worker[w].ctx /\ run'.step = worker[w].step
    /\ \/ worker[w].at = "advance" /\ run'.status = run.status
          /\ worker'[w].at = "check" /\ CopyStays(w)
       \/ worker[w].at = "check" /\ worker[w].step \notin Steps /\ run'.status = "done"
          /\ worker'[w].at = "idle" /\ worker'[w].ctx = NewContext(plan)
       \/ worker[w].at = "defer" /\ run'.status = "queued"
          /\ worker'[w].at = "idle" /\ worker'[w].ctx = NewContext(plan)
       \/ /\ worker[w].at = "park" /\ run'.status = ParkedStatus(plan[worker[w].step])
          /\ \/ /\ plan[worker[w].step] \in {"wait", "call"}
                /\ worker'[w].at = "idle" /\ worker'[w].ctx = NewContext(plan)
             \/ /\ plan[worker[w].step] \in {"gate", "route"}
                /\ worker'[w].at = "prompt" /\ CopyStays(w)
    /\ offers' = offers

\* The run fails, with the copy of the worker that failed it.
GivesUp(w) ==
    /\ worker[w].at = "fail"
    /\ run.status # "canceled" /\ visitor' = Stale(visitor)
    /\ run'.ctx = worker[w].ctx /\ run'.step = run.step /\ run'.status = "failed"
    /\ worker'[w].at = "idle" /\ worker'[w].ctx = NewContext(plan)
    /\ offers' = offers

\* The run is given away as it is in the row.
HandsBack(w) ==
    /\ Executing(w)
    /\ run.status # "canceled" /\ visitor' = Stale(visitor)
    /\ run'.ctx = run.ctx /\ run'.step = run.step
    /\ run'.status \in {"queued", "canceled", "failed"}
    /\ worker'[w].at = "idle" /\ worker'[w].ctx = NewContext(plan)
    /\ offers' = offers

\* The note of a prompt, with the context of the park.
Notes(w) ==
    /\ worker[w].at = "stamp"
    /\ run.status # "canceled" /\ visitor' = Stale(visitor)
    /\ run'.ctx = [worker[w].ctx EXCEPT !.slack = worker[w].step]
    /\ run'.step = run.step /\ run'.status = run.status
    /\ worker'[w].at = "idle" /\ worker'[w].ctx = NewContext(plan)
    /\ offers' = offers

Claims(w) ==
    /\ run.status = "queued" /\ visitor' = Stale(visitor)
    /\ run'.ctx = run.ctx /\ run'.step = run.step /\ run'.status = "running"
    /\ worker'[w].at = "begin" /\ worker'[w].step = run.step /\ worker'[w].ctx = run.ctx
    /\ offers' = offers

\* What a step of a worker is.
Acts(w) ==
    /\ Elsewhere(w)
    /\ UNCHANGED <<plan, answered>>
    /\ texts' = texts \/ (worker[w].at = "send" /\ texts' = texts \cup {worker[w].step})
    /\ \/ Quits(w) \/ Turns(w) \/ Completes(w) \/ Cools(w) \/ Offering(w)
       \/ Saves(w) \/ GivesUp(w) \/ HandsBack(w) \/ Notes(w) \/ Claims(w)

-----------------------------------------------------------------------------
(* Every step of a worker is one of these. *)

LEMMA Written ==
    ASSUME NEW row, Update(row)
    PROVE  \/ run.status = "canceled" /\ RowStays
           \/ run.status # "canceled" /\ run' = row /\ visitor' = Stale(visitor)
BY DEF Update, Save, RowStays

\* The writes around the steps.
LEMMA WriteActs ==
    ASSUME Typed, NEW w \in Workers,
           Begin(w) \/ Finish(w) \/ Advance(w) \/ Throw(w) \/ Fail(w) \/ Defer(w)
    PROVE  Acts(w)
<1>0. run \in Rows /\ worker[w] \in Invocations
  BY Current
<1>1. UNCHANGED <<plan, answered, texts, offers>>
  BY DEF Begin, Finish, Advance, Throw, Fail, Defer, world
<1>2. CASE Begin(w)
  <2>1. CASE Goto(w, "check") /\ RowStays
    BY <1>1, <1>2, <2>1, GotoIs DEF Begin, Acts, Turns, Turned, CopyStays, Elsewhere
  <2>2. CASE Return(w) /\ RowStays
    BY <1>1, <2>2, ReturnIs DEF Acts, Quits, Elsewhere
  <2>3. ASSUME NEW s \in {"queued", "canceled"}, run.status # "canceled",
               run' = [run EXCEPT !.status = s], visitor' = Stale(visitor), Return(w)
        PROVE  Acts(w)
    BY <1>0, <1>1, <1>2, <2>3, ReturnIs DEF Begin, Executing, Acts, HandsBack, Elsewhere, Rows
  <2>. QED
    BY <1>2, <2>1, <2>2, <2>3, Written DEF Begin, Try, RowStays
<1>3. CASE Finish(w)
  <2>. DEFINE row == [run EXCEPT !.status = "done", !.step = worker[w].step, !.ctx = worker[w].ctx]
  <2>1. CASE Goto(w, "thrown") /\ RowStays
    BY <1>1, <1>3, <2>1, GotoIs DEF Finish, Acts, Turns, Turned, CopyStays, Elsewhere
  <2>2. CASE Return(w) /\ RowStays
    BY <1>1, <2>2, ReturnIs DEF Acts, Quits, Elsewhere
  <2>3. ASSUME run.status # "canceled", run' = row, visitor' = Stale(visitor), Return(w)
        PROVE  Acts(w)
    BY <1>0, <1>1, <1>3, <2>3, ReturnIs DEF Finish, Acts, Saves, Elsewhere, Rows
  <2>. QED
    BY <1>3, <2>1, <2>2, <2>3, Written DEF Finish, Try, RowStays
<1>4. CASE Advance(w)
  <2>. DEFINE row == [run EXCEPT !.step = worker[w].step, !.ctx = worker[w].ctx]
  <2>1. CASE Goto(w, "thrown") /\ RowStays
    BY <1>1, <1>4, <2>1, GotoIs DEF Advance, Acts, Turns, Turned, CopyStays, Elsewhere
  <2>2. CASE Goto(w, "check") /\ RowStays /\ run.status = "canceled"
    BY <1>1, <1>4, <2>2, GotoIs DEF Advance, Acts, Turns, Turned, CopyStays, Elsewhere
  <2>3. ASSUME run.status # "canceled", run' = row, visitor' = Stale(visitor), Goto(w, "check")
        PROVE  Acts(w)
    BY <1>0, <1>1, <1>4, <2>3, GotoIs DEF Advance, Acts, Saves, CopyStays, Elsewhere, Rows
  <2>. QED
    BY <1>4, <2>1, <2>2, <2>3, Written DEF Advance, Try, RowStays
<1>5. CASE Throw(w)
  <2>1. CASE Return(w) /\ RowStays
    BY <1>1, <2>1, ReturnIs DEF Acts, Quits, Elsewhere
  <2>2. ASSUME NEW row \in {[run EXCEPT !.status = "failed"],
                            [run EXCEPT !.status = "queued", !.retries = @ + 1]},
               run.status # "canceled", run' = row, visitor' = Stale(visitor), Return(w)
        PROVE  Acts(w)
    BY <1>0, <1>1, <1>5, <2>2, ReturnIs DEF Throw, Executing, Acts, HandsBack, Elsewhere, Rows
  <2>. QED
    BY <1>5, <2>1, <2>2, Written DEF Throw, Try, RowStays
<1>6. CASE Fail(w)
  <2>. DEFINE row == [run EXCEPT !.status = "failed", !.ctx = worker[w].ctx]
  <2>1. CASE Return(w) /\ RowStays
    BY <1>1, <2>1, ReturnIs DEF Acts, Quits, Elsewhere
  <2>2. ASSUME run.status # "canceled", run' = row, visitor' = Stale(visitor), Return(w)
        PROVE  Acts(w)
    BY <1>0, <1>1, <1>6, <2>2, ReturnIs DEF Fail, Acts, GivesUp, Elsewhere, Rows
  <2>. QED
    BY <1>6, <2>1, <2>2, Written DEF Fail, Try, RowStays
<1>7. CASE Defer(w)
  <2>. DEFINE row == [run EXCEPT !.status = "queued", !.deferred = TRUE,
                                 !.step = worker[w].step, !.ctx = worker[w].ctx]
  <2>1. CASE Goto(w, "thrown") /\ RowStays
    BY <1>1, <1>7, <2>1, GotoIs DEF Defer, Acts, Turns, Turned, CopyStays, Elsewhere
  <2>2. CASE Return(w) /\ RowStays
    BY <1>1, <2>2, ReturnIs DEF Acts, Quits, Elsewhere
  <2>3. ASSUME run.status # "canceled", run' = row, visitor' = Stale(visitor), Return(w)
        PROVE  Acts(w)
    BY <1>0, <1>1, <1>7, <2>3, ReturnIs DEF Defer, Acts, Saves, Elsewhere, Rows
  <2>. QED
    BY <1>7, <2>1, <2>2, <2>3, Written DEF Defer, Try, RowStays
<1>. QED
  BY <1>2, <1>3, <1>4, <1>5, <1>6, <1>7

\* Claims and parks, the prompt and its note, and a death.
LEMMA WaitActs ==
    ASSUME Typed, NEW w \in Workers,
           Claim(w) \/ Check(w) \/ Die(w) \/ Park(w) \/ Prompt(w) \/ Stamp(w)
    PROVE  Acts(w)
<1>0. /\ run \in Rows /\ worker[w] \in Invocations /\ worker \in [Workers -> Invocations]
      /\ worker[w].at \in Holding =>
            worker[w].step \in Steps /\ plan[worker[w].step] \in StepKinds
      /\ worker[w].at = "park" => plan[worker[w].step] # "text"
      /\ worker[w].at \in {"prompt", "stamp"} => plan[worker[w].step] \in {"gate", "route"}
  BY Current DEF Typed, WorkersTyped, OnAStep
<1>1. UNCHANGED <<plan, answered, texts>> /\ (~Prompt(w) => offers' = offers)
  BY DEF Claim, Check, Die, Park, Prompt, Stamp, world
<1>2. CASE Claim(w)
  BY <1>0, <1>1, <1>2 DEF Claim, Claimable, Save, Acts, Claims, Elsewhere, Rows, Prompt
<1>3. CASE Check(w)
  <2>1. CASE Return(w)
    BY <1>3, <2>1, ReturnIs DEF Check, Acts, Quits, Elsewhere, RowStays, world
  <2>2. CASE Goto(w, "step")
    BY <1>3, <2>2, GotoIs DEF Check, Acts, Turns, Turned, CopyStays, Elsewhere, RowStays, world
  <2>. QED
    BY <1>3, <2>1, <2>2 DEF Check
<1>4. CASE Die(w)
  BY <1>4, ReturnIs DEF Die, Acts, Quits, Elsewhere, RowStays, world
<1>5. CASE Park(w)
  <2>. DEFINE row == [run EXCEPT !.status = ParkedStatus(plan[worker[w].step]),
                                 !.step = worker[w].step, !.ctx = worker[w].ctx]
  <2>1. CASE Goto(w, "thrown") /\ RowStays
    BY <1>5, <2>1, GotoIs DEF Park, Acts, Turns, Turned, CopyStays, Elsewhere, world
  <2>2. CASE Return(w) /\ RowStays
    BY <1>5, <2>2, ReturnIs DEF Park, Acts, Quits, Elsewhere, world
  <2>3. ASSUME run.status # "canceled", run' = row, visitor' = Stale(visitor),
               IF plan[worker[w].step] \notin {"gate", "route"} THEN Return(w) ELSE Goto(w, "prompt")
        PROVE  Acts(w)
    <3>1. /\ run'.status = ParkedStatus(plan[worker[w].step])
          /\ run'.step = worker[w].step /\ run'.ctx = worker[w].ctx
      BY <1>0, <2>3 DEF Rows
    <3>2. worker[w].at = "park" /\ UNCHANGED <<plan, answered, texts, offers>>
      BY <1>5 DEF Park, world
    <3>3. plan[worker[w].step] \in {"gate", "route", "wait", "call"}
      BY <1>0, <3>2 DEF StepKinds, Holding
    <3>4. CASE plan[worker[w].step] \in {"gate", "route"}
      BY <2>3, <3>1, <3>2, <3>4, GotoIs DEF Acts, Saves, CopyStays, Elsewhere
    <3>5. CASE plan[worker[w].step] \in {"wait", "call"}
      BY <2>3, <3>1, <3>2, <3>5, ReturnIs DEF Acts, Saves, Elsewhere
    <3>. QED
      BY <3>3, <3>4, <3>5
  <2>4. \/ Goto(w, "thrown") /\ RowStays
        \/ /\ Update(row)
           /\ IF run.status = "canceled" \/ plan[worker[w].step] \notin {"gate", "route"}
              THEN Return(w) ELSE Goto(w, "prompt")
    BY <1>5 DEF Park, Try, RowStays
  <2>. HIDE DEF row
  <2>. QED
    BY <2>1, <2>2, <2>3, <2>4, Written
<1>6. CASE Prompt(w)
  <2>1. worker[w].at = "prompt" /\ RowStays /\ worker[w].step \in Steps
    BY <1>0, <1>6 DEF Prompt, RowStays, Holding
  <2>2. CASE Return(w)
    <3>1. offers' = offers \/ Tells(w)
      BY <1>6, <2>1 DEF Prompt, Tells, Routes
    <3>. QED
      BY <1>1, <2>1, <2>2, <3>1, ReturnIs DEF Acts, Quits, Elsewhere
  <2>3. CASE Goto(w, "stamp") /\ plan[worker[w].step] # "route"
    <3>1. worker[w].step \in Gates /\ worker[w].ctx.slack # worker[w].step /\ offers' = offers
      BY <1>0, <1>6, <2>1, <2>3, GotoIs, ReturnIs DEF Prompt, Gates
    <3>. QED
      BY <1>1, <2>1, <2>3, <3>1, GotoIs DEF Acts, Turns, Turned, CopyStays, Elsewhere
  <2>. QED
    BY <1>6, <2>2, <2>3 DEF Prompt
<1>7. CASE Stamp(w)
  <2>. DEFINE row == [run EXCEPT !.ctx = [worker[w].ctx EXCEPT !.slack = worker[w].step]]
  <2>1. CASE RowStays
    BY <1>7, <2>1, ReturnIs DEF Stamp, Acts, Quits, Elsewhere, world
  <2>2. ASSUME run.status # "canceled", run' = row, visitor' = Stale(visitor)
        PROVE  Acts(w)
    <3>1. run'.status = run.status /\ run'.step = run.step
          /\ run'.ctx = [worker[w].ctx EXCEPT !.slack = worker[w].step]
      BY <1>0, <2>2 DEF Rows
    <3>. QED
      BY <1>7, <2>2, <3>1, ReturnIs DEF Stamp, Acts, Notes, Elsewhere, world
  <2>3. Update(row) \/ RowStays
    BY <1>7 DEF Stamp, RowStays
  <2>. HIDE DEF row
  <2>. QED
    BY <2>1, <2>2, <2>3, Written
<1>. QED
  BY <1>2, <1>3, <1>4, <1>5, <1>6, <1>7

\* The steps of the flow.
LEMMA StepActs ==
    ASSUME Typed, NEW w \in Workers,
           Reserve(w) \/ Send(w) \/ Wait(w) \/ Gate(w) \/ Call(w) \/ Dial(w) \/ Route(w)
    PROVE  Acts(w)
<1>. DEFINE i == worker[w].step
            c == worker[w].ctx
<1>0. /\ worker[w] \in Invocations /\ worker \in [Workers -> Invocations]
      /\ worker[w].at \in {"step", "send", "dial"} /\ i \in Steps
      /\ worker[w].at = "dial" => plan[i] = "call"
      /\ worker[w].at = "send" => plan[i] = "text"
  BY Current DEF Reserve, Send, Wait, Gate, Call, Dial, Route, At, Typed, WorkersTyped, OnAStep, Holding
<1>1. UNCHANGED <<plan, answered, offers>> /\ RowStays
  BY DEF Reserve, Send, Wait, Gate, Call, Dial, Route, world, RowStays
<1>2. texts' = texts \/ (worker[w].at = "send" /\ texts' = texts \cup {i})
  BY DEF Reserve, Send, Wait, Gate, Call, Dial, Route, world
<1>3. ASSUME NEW at, Goto(w, at), Turned(worker[w], at) PROVE Acts(w)
  BY <1>1, <1>2, <1>3, GotoIs DEF Acts, Turns, CopyStays, Elsewhere
<1>4. ASSUME plan[i] \in {"text", "wait", "call"}, Done(w, c, 1) PROVE Acts(w)
  BY <1>0, <1>1, <1>2, <1>4, DoneIs DEF Acts, Completes, Elsewhere
<1>5. CASE Reserve(w)
  <2>1. worker[w].at = "step" /\ plan[i] = "text"
    BY <1>5 DEF Reserve, At
  <2>. QED
    BY <1>3, <1>4, <1>5, <2>1 DEF Reserve, Turned
<1>6. CASE Send(w)
  BY <1>0, <1>3, <1>4, <1>6 DEF Send, Turned
<1>7. CASE Wait(w)
  BY <1>3, <1>4, <1>7 DEF Wait, At, Turned
<1>8. CASE Gate(w)
  <2>. DEFINE used == [c EXCEPT !.consumed = TRUE]
  <2>1. worker[w].at = "step" /\ plan[i] = "gate"
    BY <1>8 DEF Gate, At
  <2>2. CASE c.decision # "none" /\ ~c.consumed
    <3>1. Done(w, used, IF c.decision = "skip" THEN 2 ELSE 1)
      BY <1>8, <2>2 DEF Gate, SkipsGuarded
    <3>2. Used(worker[w], worker'[w])
      <4>. HIDE DEF used
      <4>. QED
        BY <2>1, <2>2, <3>1, DoneIs DEF Used, used
    <3>3. worker'[w].at = "advance" /\ Elsewhere(w)
      <4>. HIDE DEF used
      <4>. QED
        BY <3>1, DoneIs DEF Elsewhere
    <3>. QED
      BY <1>0, <1>1, <1>2, <2>1, <3>2, <3>3 DEF Acts, Completes
  <2>3. CASE Undecided(c)
    <3>1. CASE Goto(w, "park")
      BY <1>3, <2>1, <2>3, <3>1 DEF Turned
    <3>2. CASE worker' = [worker EXCEPT ![w].at = "check", ![w].step = @ + SkipsGuarded]
      <4>1. /\ worker'[w].at = "check" /\ worker'[w].step = i + 2 /\ worker'[w].ctx = c
            /\ Elsewhere(w)
        BY <1>0, <3>2 DEF Invocations, SkipsGuarded, Elsewhere
      <4>. QED
        BY <1>0, <1>1, <1>2, <2>1, <2>3, <4>1 DEF Acts, Cools, Gates
    <3>. QED
      BY <1>8, <2>3, <3>1, <3>2 DEF Gate, Undecided
  <2>. QED
    BY <2>2, <2>3 DEF Undecided
<1>9. ASSUME NEW a \in Answers, plan[i] = "call", worker[w].at = "dial" \/ c.answer[i] = "none",
             Done(w, [c EXCEPT !.answer[i] = a], 1)
      PROVE  Acts(w)
  <2>. DEFINE copy == [c EXCEPT !.answer[i] = a]
  <2>1. Done(w, copy, 1)
    BY <1>9
  <2>2. worker'[w].at = "advance" /\ worker'[w].ctx = copy /\ worker'[w].step = i + 1 /\ Elsewhere(w)
    <3>. HIDE DEF copy
    <3>. QED
      BY <2>1, DoneIs DEF Elsewhere
  <2>3. Outcome(worker[w], worker'[w])
    BY <1>9, <2>2 DEF Outcome
  <2>4. Completes(w)
    BY <1>0, <1>1, <2>2, <2>3 DEF Completes
  <2>. QED
    BY <1>1, <1>2, <2>2, <2>4 DEF Acts
<1>10. CASE Call(w)
  <2>1. worker[w].at = "step" /\ plan[i] = "call"
    BY <1>10 DEF Call, At
  <2>2. CASE c.answer[i] # "none"
    BY <1>4, <1>10, <2>1, <2>2 DEF Call
  <2>3. CASE c.answer[i] = "none"
    BY <1>3, <1>9, <1>10, <2>1, <2>3 DEF Call, Turned, Answers
  <2>. QED
    BY <2>2, <2>3
<1>11. CASE Dial(w)
  <2>1. worker[w].at = "dial" /\ plan[i] = "call"
    BY <1>0, <1>11 DEF Dial
  <2>2. \/ Goto(w, "park") \/ Goto(w, "defer")
        \/ Done(w, [c EXCEPT !.answer[i] = "not_placed"], 1)
        \/ Done(w, [c EXCEPT !.answer[i] = "failed"], 1)
    BY <1>11 DEF Dial
  <2>3. "not_placed" \in Answers /\ "failed" \in Answers
    BY DEF Answers
  <2>. QED
    BY <1>3, <1>9, <2>1, <2>2, <2>3 DEF Turned
<1>12. CASE Route(w)
  <2>. DEFINE r == c.routing
  <2>1. worker[w].at = "step" /\ plan[i] = "route" /\ r \in Routings /\ c \in Contexts
    BY <1>12, RouteMoves DEF Route, At
  <2>2. ASSUME NEW new \in Routings, Settles(r, new), NEW n \in {1, Len(plan) + 1 - i},
               Done(w, [c EXCEPT !.routing = new], n)
        PROVE  Acts(w)
    <3>. DEFINE copy == [c EXCEPT !.routing = new]
    <3>1. Done(w, copy, n)
      BY <2>2
    <3>2. worker'[w].at = "advance" /\ worker'[w].ctx = copy /\ worker'[w].step = i + n /\ Elsewhere(w)
      <4>. HIDE DEF copy
      <4>. QED
        BY <3>1, DoneIs DEF Elsewhere
    <3>3. i + n \in Nat /\ i + n > i
      <4>1. PICK len \in Nat : len = Len(plan) /\ i \in 1..len
        BY <1>0, PlanSteps DEF Typed, WorldTyped
      <4>2. PICK m \in 1..len : m = i
        BY <4>1
      <4>3. n \in {1, len + 1 - m}
        BY <2>2, <4>1, <4>2
      <4>4. m + n \in Nat /\ m + n > m
        BY <4>3
      <4>. QED
        BY <4>2, <4>4
    <3>4. Routed(worker[w], worker'[w])
      BY <2>1, <2>2, <3>2, <3>3 DEF Routed
    <3>5. Completes(w)
      BY <1>0, <1>1, <2>1, <3>2, <3>4 DEF Completes
    <3>. QED
      BY <1>1, <1>2, <3>2, <3>5 DEF Acts
  <2>3. ASSUME NEW next \in Onward(r), NEW a \in Agents \ next.tried,
               r.event \notin {"claim", "unclaim"},
               worker' = [worker EXCEPT ![w].at = "park", ![w].ctx.routing = Offered(next, a, i)]
        PROVE  Acts(w)
    <3>1. /\ worker'[w].at = "park" /\ worker'[w].step = i
          /\ worker'[w].ctx = [c EXCEPT !.routing = Offered(next, a, i)]
          /\ Elsewhere(w)
      BY <1>0, <2>3 DEF Invocations, Contexts, Elsewhere
    <3>2. Offering(w)
      BY <1>0, <1>1, <2>1, <2>3, <3>1 DEF Offering, Routes
    <3>. QED
      BY <1>1, <1>2, <3>1, <3>2 DEF Acts
  <2>4. CASE Goto(w, "thrown")
    BY <1>0, <1>3, <2>4 DEF Turned
  <2>5. /\ Unclaimed(r) \in Routings /\ Claimed(r) \in Routings
        /\ Onward(r) \subseteq Routings
    BY <2>1, RouteTypes
  <2>6. CASE r.event \in {"claim", "unclaim"}
    BY <1>12, <2>2, <2>4, <2>5, <2>6 DEF Route, Settles
  <2>7. CASE r.event \notin {"claim", "unclaim"}
    <3>1. PICK them \in SUBSET (Agents \ Retired(r).tried) :
             \/ \E a \in Agents \ Skipped(Retired(r), them).tried :
                   worker' = [worker EXCEPT ![w].at = "park",
                                 ![w].ctx.routing = Offered(Skipped(Retired(r), them), a, i)]
             \/ Done(w, [c EXCEPT !.routing = Skipped(Retired(r), them)], 1)
             \/ Goto(w, "thrown") /\ Fault
      BY <1>12, <2>7 DEF Route
    <3>. DEFINE next == Skipped(Retired(r), them)
    <3>2. next \in Onward(r)
      BY DEF Onward
    <3>3. next \in Routings /\ Settles(r, next)
      BY <2>5, <2>7, <3>2 DEF Settles
    <3>. HIDE DEF next
    <3>. QED
      BY <2>2, <2>3, <2>4, <2>7, <3>1, <3>2, <3>3 DEF next
  <2>. QED
    BY <2>6, <2>7
<1>. QED
  BY <1>5, <1>6, <1>7, <1>8, <1>10, <1>11, <1>12

LEMMA ExecuteActs ==
    ASSUME Typed, NEW w \in Workers, Execute(w) \/ Die(w) PROVE Acts(w)
BY WriteActs, WaitActs, StepActs DEF Execute

-----------------------------------------------------------------------------
(* The steps of everybody else. *)

\* A request that is not the owner's has read the row as it is; an owner's has
\* read it at a gate.
Fresh(t) ==
    /\ t.what \in Owner => t.seen.status = "awaiting_approval" /\ t.seen.step \in Gates
    /\ t.what \notin Owner \cup {"none"} =>
          t.seen.ctx = run.ctx /\ t.seen.step = run.step /\ t.seen.status = run.status
    /\ t.what = "1" => Live(t.seen, t.who) \/ t.seen.ctx.routing.by = NoAgent
    /\ t.what = "2" => Live(t.seen, t.who)
    /\ t.what = "86" => t.seen.ctx.routing.by = t.who
Visited == \A v \in Visitors : Fresh(visitor[v])

\* A write of the row leaves no request but those of the owner.
Cleared ==
    \A v \in Visitors : \/ visitor'[v] = Nobody(plan)
                        \/ visitor[v].what \in Owner /\ visitor'[v] = visitor[v]

\* The row stays as it is; requests read it, or leave.
Keeps ==
    /\ run'.status = run.status /\ run'.step = run.step /\ run'.ctx = run.ctx
    /\ answered' = answered
    /\ \A v \in Visitors :
          \/ visitor'[v] = visitor[v] \/ visitor'[v] = Nobody(plan)
          \/ \E q \in Requests, a \in Agents \cup {NoAgent} :
                Finds(q, a, run) /\ visitor'[v] = [what |-> q, who |-> a, seen |-> run]

Requeues ==
    /\ run'.step = run.step /\ run'.ctx = run.ctx /\ answered' = answered
    /\ run'.status = "canceled" \/ (Reclaimable /\ run'.status = "queued")

Escalates ==
    /\ run.status = "awaiting_agent" /\ run'.status = "queued"
    /\ run'.step = run.step /\ answered' = answered
    /\ run'.ctx = [run.ctx EXCEPT !.routing = [run.ctx.routing EXCEPT !.event = "timeout"]]

Resumes ==
    /\ run.status \in {"awaiting_reply", "awaiting_call"} /\ run'.status = "queued"
    /\ run'.step = run.step /\ answered' = answered
    /\ \E a \in Answers \ {"none"} : run'.ctx = [run.ctx EXCEPT !.answer[run.step] = a]

\* The owner's decision is written into the row that was read, at a gate.
Decides ==
    /\ run.status = "awaiting_approval" /\ run'.step = run.step
    /\ \E q \in Owner, row \in Rows :
          /\ row = run \/ \E v \in Visitors : visitor[v].what \in Owner /\ visitor[v].seen = row
          /\ row.step \in Gates
          /\ run'.status = (IF q = "deny" THEN "canceled" ELSE "queued")
          /\ run'.ctx = [row.ctx EXCEPT !.decision = q, !.consumed = FALSE, !.slack = 0]
          /\ answered' = q

Replies ==
    /\ run.status \in {"awaiting_agent", "queued"} /\ run'.status = "queued"
    /\ run'.step = run.step /\ answered' = answered
    /\ \E e \in {"claim", "reject"} :
          /\ run.ctx.routing.offered \in Agents
          /\ run'.ctx = [run.ctx EXCEPT !.routing = [run.ctx.routing EXCEPT !.event = e, !.from = run.ctx.routing.offered]]

Taken(r, a, tried, late) ==
    [r EXCEPT !.tried = tried, !.event = "claim", !.from = a, !.offered = a, !.late = late]
TakesOver ==
    LET r == run.ctx.routing
    IN  /\ run.status \notin {"running", "failed", "canceled"} /\ run'.status = "queued"
        /\ r.by = NoAgent /\ r.at \in Steps /\ run'.step = r.at /\ answered' = answered
        /\ \E a \in Agents, late \in BOOLEAN, tried \in SUBSET Agents :
              /\ tried = IF Late(run) THEN r.tried ELSE r.tried \cup ({r.offered} \ {NoAgent})
              /\ run'.ctx = [run.ctx EXCEPT !.routing = Taken(r, a, tried, late)]

Releases ==
    LET r == run.ctx.routing
    IN  /\ run.status \notin {"running", "failed", "canceled"} /\ run'.status = "queued"
        /\ r.by \in Agents /\ r.home \in Steps /\ run'.step = r.home /\ answered' = answered
        /\ run'.ctx = [run.ctx EXCEPT !.routing = [r EXCEPT !.event = "unclaim", !.from = r.by]]

\* What a step of anybody but a worker is.
Asks ==
    /\ UNCHANGED <<plan, worker, texts, offers>>
    /\ \/ Keeps
       \/ /\ Cleared
          /\ \/ Requeues \/ Escalates \/ Resumes \/ Decides \/ Replies \/ TakesOver \/ Releases

LEMMA StaleClears ==
    ASSUME Typed, NEW vs, \A v \in Visitors : vs[v] = visitor[v] \/ vs[v] = Nobody(plan),
           visitor' = Stale(vs)
    PROVE  Cleared
BY DEF Cleared, Stale, Nobody, Owner

LEMMA TickAsks ==
    ASSUME Typed, Tick \/ Cancel \/ (\E to : Switch(to)) \/ UNCHANGED vars PROVE Asks
<1>0. run \in Rows /\ run.ctx \in Contexts /\ run.ctx.routing \in Routings
  BY RowTyped, ContextTyped DEF Typed, RunTyped
<1>1. UNCHANGED <<plan, worker, texts, offers, answered>>
  BY DEF Tick, Cancel, Reclaim, EscalateOffer, ResumeOverdue, Wake, Switch, world, vars
<1>2. ASSUME NEW row, Save(row) PROVE Cleared /\ run' = row
  BY <1>2, StaleClears DEF Save
<1>3. CASE Reclaim \/ Cancel
  <2>1. PICK s : /\ Save([run EXCEPT !.status = s])
                 /\ s = "canceled" \/ (Reclaimable /\ s = "queued")
    BY <1>3 DEF Reclaim, Cancel
  <2>2. Cleared /\ run' = [run EXCEPT !.status = s]
    BY <1>2, <2>1
  <2>3. run'.step = run.step /\ run'.ctx = run.ctx /\ run'.status = s
    BY <1>0, <2>2 DEF Rows
  <2>. QED
    BY <1>1, <2>1, <2>2, <2>3 DEF Asks, Requeues
<1>4. CASE EscalateOffer
  <2>1. Cleared /\ run' = [run EXCEPT !.status = "queued", !.ctx.routing.event = "timeout"]
    BY <1>2, <1>4 DEF EscalateOffer
  <2>2. /\ run'.status = "queued" /\ run'.step = run.step
        /\ run'.ctx = [run.ctx EXCEPT !.routing = [run.ctx.routing EXCEPT !.event = "timeout"]]
    BY <1>0, <2>1 DEF Rows, Contexts, Routings
  <2>. QED
    BY <1>1, <1>4, <2>1, <2>2 DEF EscalateOffer, Overdue, Asks, Escalates
<1>5. ASSUME NEW status \in {"awaiting_reply", "awaiting_call"}, ResumeOverdue(status) PROVE Asks
  <2>1. Cleared /\ run' = [run EXCEPT !.status = "queued", !.ctx.answer[run.step] = "timeout"]
    BY <1>2, <1>5 DEF ResumeOverdue
  <2>2. /\ run'.status = "queued" /\ run'.step = run.step
        /\ run'.ctx = [run.ctx EXCEPT !.answer[run.step] = "timeout"]
    BY <1>0, <2>1 DEF Rows, Contexts
  <2>3. "timeout" \in Answers \ {"none"} /\ run.status = status
    BY <1>5 DEF Answers, ResumeOverdue, Overdue
  <2>. QED
    BY <1>1, <1>5, <2>1, <2>2, <2>3 DEF Asks, Resumes
<1>6. CASE Wake \/ (\E to : Switch(to)) \/ UNCHANGED vars
  <2>1. run'.status = run.status /\ run'.step = run.step /\ run'.ctx = run.ctx /\ visitor' = visitor
    BY <1>0, <1>6 DEF Wake, Switch, vars, Rows
  <2>. QED
    BY <1>1, <2>1 DEF Asks, Keeps
<1>. QED
  BY <1>3, <1>4, <1>5, <1>6 DEF Tick

\* An answer that is written.
LEMMA RespondAsks ==
    ASSUME Typed, NEW q \in Requests, NEW a \in Agents \cup {NoAgent}, NEW row \in Rows,
           Aimed([what |-> q, who |-> a, seen |-> row]),
           Fresh([what |-> q, who |-> a, seen |-> row]),
           q \in Owner => \/ row = run
                          \/ \E v \in Visitors : visitor[v].what \in Owner /\ visitor[v].seen = row,
           NEW vs, \A v \in Visitors : vs[v] = visitor[v] \/ vs[v] = Nobody(plan),
           Respond(q, a, row, vs)
    PROVE  Asks
<1>0. /\ q \in RequestKinds /\ run \in Rows /\ row.ctx \in Contexts /\ row.ctx.routing \in Routings
  BY FlowAssumption, RowTyped, ContextTyped DEF Typed, RunTyped
<1>1. Cleared /\ UNCHANGED <<plan, worker, texts, offers>>
  BY StaleClears DEF Respond, world
<1>2. /\ run.status \in (IF q = "1" /\ Live(row, a) THEN Open("2") ELSE Open(q))
      /\ answered' = IF q \in Owner THEN q ELSE answered
  BY DEF Respond
<1>3. run' = CASE q \in Owner -> Decided(q, row)
               [] q \in {"reply", "outcome"} -> Resumed(q, row)
               [] q = "2" \/ (q = "1" /\ Live(row, a)) -> Replied(q, a, row)
               [] q = "1" /\ ~Live(row, a) -> TakenOver(a, row)
               [] q = "86" -> Released86(a, row)
  BY DEF Respond
<1>4. /\ q \in Owner => row.status = "awaiting_approval" /\ row.step \in Gates
      /\ q \notin Owner \cup {"none"} =>
            row.ctx = run.ctx /\ row.step = run.step /\ row.status = run.status
      /\ q = "1" => Live(row, a) \/ row.ctx.routing.by = NoAgent
      /\ q = "2" => Live(row, a)
      /\ q = "86" => row.ctx.routing.by = a
  BY DEF Fresh
<1>5. /\ q \in Teammate => a \in Agents
      /\ q = "1" /\ ~Live(row, a) => row.ctx.routing.at \in Steps
      /\ q = "86" => row.ctx.routing.home \in Steps
  BY DEF Aimed
<1>6. CASE q \in Owner
  <2>1. run' = Decided(q, row)
    BY <1>3, <1>6 DEF Owner
  <2>2. /\ run'.status = (IF q = "deny" THEN "canceled" ELSE "queued")
        /\ run'.step = run.step
        /\ run'.ctx = [row.ctx EXCEPT !.decision = q, !.consumed = FALSE, !.slack = 0]
    BY <1>0, <2>1 DEF Decided, Rows
  <2>3. run.status = "awaiting_approval"
    BY <1>2, <1>6 DEF Owner, Open
  <2>. QED
    BY <1>1, <1>2, <1>4, <1>6, <2>2, <2>3 DEF Asks, Decides
<1>7. CASE q \in {"reply", "outcome"}
  <2>1. q \notin Owner \cup {"none", "1", "2", "86"}
    BY <1>7 DEF Owner
  <2>2. run' = Resumed(q, row)
    BY <1>3, <1>7, <2>1
  <2>. DEFINE x == IF q = "reply" THEN "reply" ELSE "answered"
  <2>3. x \in Answers \ {"none"}
    BY DEF Answers
  <2>4. /\ run'.status = "queued" /\ run'.step = run.step
        /\ run'.ctx = [row.ctx EXCEPT !.answer[row.step] = x]
    BY <1>0, <2>2 DEF Resumed, Rows
  <2>5. run.status \in {"awaiting_reply", "awaiting_call"}
    BY <1>2, <1>7 DEF Owner, Open
  <2>. HIDE DEF x
  <2>. QED
    BY <1>1, <1>2, <1>4, <2>1, <2>3, <2>4, <2>5 DEF Asks, Resumes
<1>8. CASE q = "2" \/ (q = "1" /\ Live(row, a))
  <2>. DEFINE e == IF q = "1" THEN "claim" ELSE "reject"
  <2>1. q \notin Owner \cup {"none", "reply", "outcome", "86"} /\ q \in Teammate /\ Live(row, a)
    BY <1>4, <1>8 DEF Owner, Teammate
  <2>2. run' = Replied(q, a, row)
    BY <1>3, <1>8, <2>1
  <2>3. [row.ctx EXCEPT !.routing.event = e, !.routing.from = a]
            = [row.ctx EXCEPT !.routing = [row.ctx.routing EXCEPT !.event = e, !.from = a]]
    BY <1>0 DEF Contexts, Routings
  <2>4. /\ run'.status = "queued" /\ run'.step = run.step
        /\ run'.ctx = [row.ctx EXCEPT !.routing = [row.ctx.routing EXCEPT !.event = e, !.from = a]]
    BY <1>0, <2>2, <2>3 DEF Replied, Rows
  <2>5. run.status \in {"awaiting_agent", "queued"}
    BY <1>2, <1>8 DEF Owner, Open
  <2>6. row.ctx.routing.offered = a /\ a \in Agents
    BY <1>5, <2>1 DEF Live
  <2>7. e \in {"claim", "reject"}
    OBVIOUS
  <2>. HIDE DEF e
  <2>. QED
    BY <1>1, <1>2, <1>4, <2>1, <2>4, <2>5, <2>6, <2>7 DEF Asks, Replies
<1>9. CASE q = "1" /\ ~Live(row, a)
  <2>. DEFINE r == row.ctx.routing
              tried == IF Late(row) THEN r.tried ELSE r.tried \cup ({r.offered} \ {NoAgent})
              late == r.late \/ Late(row)
  <2>1. q \notin Owner \cup {"none", "reply", "outcome", "2", "86"} /\ q \in Teammate
    BY <1>9 DEF Owner, Teammate
  <2>2. run' = TakenOver(a, row)
    BY <1>3, <1>9, <2>1
  <2>3. /\ run'.status = "queued" /\ run'.step = r.at
        /\ run'.ctx = [row.ctx EXCEPT !.routing = Taken(r, a, tried, late)]
    BY <1>0, <2>2 DEF TakenOver, Taken, Rows, Contexts, Routings
  <2>4. tried \in SUBSET Agents
    BY <1>0 DEF Routings
  <2>5. late \in BOOLEAN
    BY Zenon
  <2>6. Late(row) = Late(run)
    BY <1>4, <2>1 DEF Late
  <2>7. run.status \notin {"running", "failed", "canceled"}
    BY <1>2, <1>9 DEF Owner, Open
  <2>8. r.by = NoAgent /\ r.at \in Steps /\ a \in Agents /\ row.ctx = run.ctx
    BY <1>4, <1>5, <1>9, <2>1
  <2>9. tried = IF Late(run) THEN r.tried ELSE r.tried \cup ({r.offered} \ {NoAgent})
    BY <2>6
  <2>10. answered' = answered
    BY <1>2, <2>1
  <2>11. TakesOver
    <3>1. run.ctx.routing = r
      BY <2>8
    <3>. HIDE DEF tried, late, r
    <3>. QED
      BY <2>3, <2>4, <2>5, <2>7, <2>8, <2>9, <2>10, <3>1 DEF TakesOver
  <2>. QED
    BY <1>1, <2>11 DEF Asks
<1>10. CASE q = "86"
  <2>. DEFINE r == row.ctx.routing
  <2>1. q \notin Owner \cup {"none", "reply", "outcome", "2", "1"} /\ q \in Teammate
    BY <1>10 DEF Owner, Teammate
  <2>2. run' = Released86(a, row)
    BY <1>3, <1>10, <2>1
  <2>3. [row.ctx EXCEPT !.routing.event = "unclaim", !.routing.from = a]
            = [row.ctx EXCEPT !.routing = [r EXCEPT !.event = "unclaim", !.from = a]]
    BY <1>0 DEF Contexts, Routings
  <2>4. /\ run'.status = "queued" /\ run'.step = r.home
        /\ run'.ctx = [row.ctx EXCEPT !.routing = [r EXCEPT !.event = "unclaim", !.from = a]]
    BY <1>0, <2>2, <2>3 DEF Released86, Rows
  <2>5. run.status \notin {"running", "failed", "canceled"}
    BY <1>2, <1>10 DEF Owner, Open
  <2>6. r.by = a /\ r.home \in Steps /\ a \in Agents /\ row.ctx = run.ctx
    BY <1>4, <1>5, <1>10, <2>1
  <2>7. answered' = answered
    BY <1>2, <2>1
  <2>8. Releases
    BY <2>4, <2>5, <2>6, <2>7 DEF Releases
  <2>. QED
    BY <1>1, <2>8 DEF Asks
<1>. QED
  BY <1>0, <1>6, <1>7, <1>8, <1>9, <1>10 DEF RequestKinds, Owner

-----------------------------------------------------------------------------
(* Where the run is with each status, in every flow. *)

PlacedRow ==
    /\ run.status = "awaiting_approval" => run.step \in Gates
    /\ run.status = "awaiting_agent" => run.step \in Routes
    /\ run.status \in {"awaiting_reply", "awaiting_call"} => run.step \in Steps \ (Gates \cup Routes)
    /\ run.status = "done" => run.step \notin Steps
PlacedWorkers ==
    \A w \in Workers :
       /\ worker[w].at = "stamp" => Noting(w)
       /\ Runs(w) => run.step <= worker[w].step
Placed == PlacedRow /\ PlacedWorkers

LEMMA FoundIsFresh ==
    ASSUME NEW q \in Requests, NEW a, Finds(q, a, run), PlacedRow
    PROVE  Fresh([what |-> q, who |-> a, seen |-> run])
<1>1. q \in RequestKinds
  BY FlowAssumption
<1>2. CASE q \in Owner
  BY <1>2 DEF Finds, Open, Owner, Fresh, PlacedRow
<1>3. CASE q \in {"reply", "outcome"}
  BY <1>3 DEF Fresh, Owner
<1>4. CASE q = "1"
  BY <1>4 DEF Finds, Fresh, Owner
<1>5. CASE q = "2"
  BY <1>5 DEF Finds, Fresh, Owner
<1>6. CASE q = "86"
  BY <1>6 DEF Finds, Fresh, Owner
<1>. QED
  BY <1>1, <1>2, <1>3, <1>4, <1>5, <1>6 DEF RequestKinds, Owner

LEMMA VisitAsks ==
    ASSUME Typed, PlacedRow, Visited, NEW v \in Visitors, Visit(v) PROVE Asks
<1>0. run \in Rows /\ visitor \in [Visitors -> Visits]
  BY DEF Typed, RunTyped
<1>1. ASSUME NEW q \in Requests, NEW a \in Agents \cup {NoAgent}, Read(v, q, a) PROVE Asks
  <2>. DEFINE t == [what |-> q, who |-> a, seen |-> run]
  <2>1. UNCHANGED <<plan, worker, texts, offers, run, answered>> /\ Finds(q, a, run)
    BY <1>1 DEF Read, world
  <2>2. visitor'[v] = t /\ \A u \in Visitors \ {v} : visitor'[u] = visitor[u]
    BY <1>0, <1>1 DEF Read
  <2>3. \A u \in Visitors : visitor'[u] = visitor[u] \/ (Finds(q, a, run) /\ visitor'[u] = t)
    BY <2>1, <2>2
  <2>4. Keeps
    BY <2>1, <2>3 DEF Keeps
  <2>. QED
    BY <2>1, <2>4 DEF Asks
<1>2. CASE Write(v)
  <2>. DEFINE t == visitor[v]
              vs == [visitor EXCEPT ![v] = Nobody(plan)]
  <2>1. t.what # "none" /\ Respond(t.what, t.who, t.seen, vs)
    BY <1>2 DEF Write
  <2>2. /\ t.what \in Requests /\ t.who \in Agents \cup {NoAgent} /\ t.seen \in Rows
        /\ t = [what |-> t.what, who |-> t.who, seen |-> t.seen]
    BY <1>0, <2>1 DEF Visits
  <2>3. Aimed(t) /\ Fresh(t)
    BY DEF Typed, RunTyped, Visited
  <2>4. \A u \in Visitors : vs[u] = visitor[u] \/ vs[u] = Nobody(plan)
    BY <1>0
  <2>5. t.what \in Owner => \E u \in Visitors : visitor[u].what \in Owner /\ visitor[u].seen = t.seen
    OBVIOUS
  <2>. HIDE DEF t, vs
  <2>. QED
    BY <2>1, <2>2, <2>3, <2>4, <2>5, RespondAsks
<1>3. CASE Leave(v)
  <2>1. UNCHANGED <<plan, worker, texts, offers, run, answered>>
    BY <1>3 DEF Leave, world
  <2>2. \A u \in Visitors : visitor'[u] = visitor[u] \/ visitor'[u] = Nobody(plan)
    BY <1>0, <1>3 DEF Leave
  <2>. QED
    BY <2>1, <2>2 DEF Asks, Keeps
<1>. QED
  BY <1>1, <1>2, <1>3 DEF Visit, Asking

LEMMA AtOnceAsks ==
    ASSUME Typed, PlacedRow, NEW q \in Requests, NEW a \in Agents \cup {NoAgent}, AtOnce(q, a)
    PROVE  Asks
<1>1. run \in Rows /\ Finds(q, a, run) /\ Respond(q, a, run, visitor)
  BY DEF AtOnce, Typed, RunTyped
<1>2. Aimed([what |-> q, who |-> a, seen |-> run])
  BY <1>1, FoundIsAimed DEF Aimed
<1>3. Fresh([what |-> q, who |-> a, seen |-> run])
  BY <1>1, FoundIsFresh
<1>. QED
  BY <1>1, <1>2, <1>3, RespondAsks

\* Every step is a worker's, or leaves the workers alone.
LEMMA NextActs ==
    ASSUME Typed, PlacedRow, Visited, [Next]_vars
    PROVE  Asks \/ \E w \in Workers : Acts(w)
<1>1. ASSUME NEW ask \in Asking, AtOnce(ask[1], ask[2]) PROVE Asks
  BY <1>1, AtOnceAsks DEF Asking
<1>. QED
  BY <1>1, TickAsks, VisitAsks, ExecuteActs DEF Next

LEMMA PlanStays ==
    ASSUME Asks \/ \E w \in Workers : Acts(w)
    PROVE  /\ plan' = plan /\ Steps' = Steps /\ Gates' = Gates /\ Routes' = Routes
           /\ AsksOnce' = AsksOnce
BY DEF Asks, Acts, Steps, Gates, Routes, AsksOnce

LEMMA PlacedInit == Init => Placed /\ Visited
<1>. SUFFICES ASSUME Init PROVE Placed /\ Visited
  OBVIOUS
<1>1. run.status = "queued" /\ \A w \in Workers : worker[w].at = "idle"
  BY DEF Init, NewRun, IdleWorker
<1>2. \A v \in Visitors : visitor[v].what = "none"
  BY DEF Init, Nobody
<1>. QED
  BY <1>1, <1>2 DEF Placed, PlacedRow, PlacedWorkers, Visited, Fresh, Runs, Executing, Owner

LEMMA VisitedStays ==
    ASSUME Typed, PlacedRow, Visited, [Next]_vars PROVE Visited'
<1>0. visitor \in [Visitors -> Visits] /\ run \in Rows
  BY DEF Typed, RunTyped
<1>1. Gates' = Gates
  BY NextActs, PlanStays
<1>2. \A v \in Visitors : (visitor'[v] = Nobody(plan)) => Fresh(visitor[v])'
  BY DEF Fresh, Nobody, Owner
<1>3. ASSUME run'.status = run.status, run'.step = run.step, run'.ctx = run.ctx
      PROVE  \A v \in Visitors : visitor'[v] = visitor[v] => Fresh(visitor[v])'
  BY <1>1, <1>3 DEF Visited, Fresh, Live
<1>4. CASE Keeps
  <2>1. ASSUME NEW v \in Visitors, NEW q \in Requests, NEW a, Finds(q, a, run),
               visitor'[v] = [what |-> q, who |-> a, seen |-> run]
        PROVE  Fresh(visitor[v])'
    <3>1. Fresh([what |-> q, who |-> a, seen |-> run])
      BY <2>1, FoundIsFresh
    <3>. QED
      BY <1>1, <1>4, <2>1, <3>1 DEF Keeps, Fresh, Live
  <2>. QED
    BY <1>2, <1>3, <1>4, <2>1 DEF Keeps, Visited
<1>5. CASE Cleared
  BY <1>1, <1>2, <1>5 DEF Cleared, Visited, Fresh, Owner
<1>6. ASSUME NEW w \in Workers, Acts(w) PROVE Visited'
  <2>1. CASE RowStays
    BY <1>3, <2>1 DEF RowStays, Visited
  <2>2. CASE visitor' = Stale(visitor)
    BY <1>5, <2>2, StaleClears
  <2>. QED
    BY <1>6, <2>1, <2>2 DEF Acts, Quits, Turns, Completes, Cools, Offering, Saves, GivesUp,
                             HandsBack, Notes, Claims
<1>. QED
  BY <1>4, <1>5, <1>6, NextActs DEF Asks

\* A worker that has the run goes on having it, or another has it only after it
\* was given away.
LEMMA OneRuns ==
    ASSUME Typed, OneExecutes, NEW w \in Workers, Executing(w)
    PROVE  /\ run.status \in {"running", "canceled"}
           /\ \A u \in Workers : Executing(u) => u = w
BY DEF OneExecutes

LEMMA PlacedStays ==
    ASSUME Typed, OneExecutes, Placed, Visited, [Next]_vars PROVE Placed'
<1>0. /\ run \in Rows /\ worker \in [Workers -> Invocations]
      /\ \A u \in Workers : worker[u].step \in Nat
  <2>1. plan \in Plans /\ \A u \in Workers : worker[u].step \in Places
    BY DEF Typed, WorldTyped, WorkersTyped, Invocations
  <2>. QED
    BY <2>1, PlanSteps DEF Typed, RunTyped, WorkersTyped, Places
<1>1. Gates' = Gates /\ Routes' = Routes /\ Steps' = Steps
  BY NextActs, PlanStays DEF Placed
<1>2. CASE Asks
  <2>1. worker' = worker
    BY <1>2 DEF Asks
  <2>2. \/ run'.status = run.status /\ run'.step = run.step
        \/ run'.status \in {"queued", "canceled"}
    BY <1>2 DEF Asks, Keeps, Requeues, Escalates, Resumes, Decides, Replies, TakesOver, Releases
  <2>. QED
    BY <1>1, <2>1, <2>2 DEF Placed, PlacedRow, PlacedWorkers, Noting, Runs, Executing
<1>3. ASSUME NEW w \in Workers, Acts(w) PROVE Placed'
  <2>1. \A u \in Workers \ {w} : worker'[u] = worker[u]
    BY <1>3 DEF Acts, Elsewhere
  <2>2. worker[w].at \in Holding => worker[w].step \in Steps /\ plan[worker[w].step] \in StepKinds
    BY Current
  <2>3. CASE Quits(w)
    BY <1>1, <2>1, <2>3 DEF Quits, RowStays, Placed, PlacedRow, PlacedWorkers, Noting, Runs, Executing
  <2>4. CASE Turns(w)
    BY <1>1, <2>1, <2>4 DEF Turns, Turned, CopyStays, RowStays, Placed, PlacedRow, PlacedWorkers,
                             Noting, Runs, Executing
  <2>5. CASE Completes(w) \/ Cools(w) \/ Offering(w)
    <3>1. /\ RowStays /\ worker'[w].at \in {"advance", "check", "park"} /\ Executing(w)
          /\ worker'[w].step \in Nat /\ worker'[w].step >= worker[w].step
      BY <1>0, <2>5 DEF Completes, Cools, Offering, Used, Outcome, Routed, Executing
    <3>. QED
      BY <1>0, <1>1, <2>1, <3>1 DEF RowStays, Placed, PlacedRow, PlacedWorkers, Noting, Runs, Executing, Rows, Places
  <2>6. CASE Saves(w)
    <3>1. Executing(w) /\ \A u \in Workers \ {w} : ~Executing(u)
      BY <2>6, OneRuns DEF Saves, Executing
    <3>2. PlacedRow'
      BY <1>1, <2>2, <2>6, <3>1, OneRuns
         DEF Saves, Placed, PlacedRow, ParkedStatus, StepKinds, Holding, Gates, Routes
    <3>3. PlacedWorkers'
      BY <1>0, <1>1, <2>1, <2>6, <3>1 DEF Saves, CopyStays, Placed, PlacedWorkers, Noting, Runs, Executing
    <3>. QED
      BY <3>2, <3>3 DEF Placed
  <2>7. CASE GivesUp(w) \/ HandsBack(w)
    <3>1. Executing(w) /\ \A u \in Workers \ {w} : ~Executing(u)
      BY <2>7, OneRuns DEF GivesUp, HandsBack, Executing
    <3>. QED
      BY <1>1, <2>1, <2>7, <3>1 DEF GivesUp, HandsBack, Placed, PlacedRow, PlacedWorkers, Noting, Runs, Executing
  <2>8. CASE Notes(w)
    BY <1>1, <2>1, <2>8 DEF Notes, Placed, PlacedRow, PlacedWorkers, Noting, Runs, Executing
  <2>9. CASE Claims(w)
    <3>1. \A u \in Workers : ~Executing(u)
      BY <2>9 DEF Claims, OneExecutes
    <3>. QED
      BY <1>0, <1>1, <2>1, <2>9, <3>1 DEF Claims, Placed, PlacedRow, PlacedWorkers, Noting, Runs, Executing, Rows, Places
  <2>. QED
    BY <1>3, <2>3, <2>4, <2>5, <2>6, <2>7, <2>8, <2>9 DEF Acts
<1>. QED
  BY <1>2, <1>3, NextActs DEF Placed

-----------------------------------------------------------------------------
(* Who waits for an answer has none, and a worker's copy has every answer of *)
(* the row, as long as the notes of prompts do.                              *)

UnansweredRow ==
    run.status \in {"awaiting_reply", "awaiting_call"} => run.ctx.answer[run.step] = "none"
UnansweredParks ==
    \A w \in Workers :
       worker[w].at = "dial" \/ (worker[w].at = "park" /\ plan[worker[w].step] \in {"wait", "call"})
          => worker[w].ctx.answer[worker[w].step] = "none"
AnswersCopied ==
    \A w \in Workers : Runs(w) =>
       \A i \in Steps : run.ctx.answer[i] # "none" => worker[w].ctx.answer[i] = run.ctx.answer[i]
Unanswered == UnansweredRow /\ UnansweredParks /\ AnswersCopied

\* The answers of a copy are those of the row before the gate, and none behind it.
Reached(c, n) == \A i \in Steps : c.answer[i] # "none" => i <= n /\ i \notin Gates
Older(c, g) ==
    /\ g <= run.step
    /\ Reached(c, g)
    /\ \A i \in Steps : i < g => c.answer[i] = run.ctx.answer[i]
NotesOlder ==
    \A w \in Workers : Noting(w) /\ run.status # "canceled" => Older(worker[w].ctx, worker[w].step)

LEMMA UnansweredInit == Init => Unanswered
BY DEF Init, Unanswered, UnansweredRow, UnansweredParks, AnswersCopied, NewRun, IdleWorker, Runs, Executing

\* What writes of one field do to the others.
LEMMA FieldsOf ==
    ASSUME NEW c \in Contexts
    PROVE  /\ c.answer \in [Steps -> Answers] /\ c.routing \in Routings
           /\ c.consumed \in BOOLEAN
           /\ \A i \in Steps, a \in Answers :
                 LET d == [c EXCEPT !.answer[i] = a]
                 IN  /\ d.answer[i] = a /\ \A j \in Steps \ {i} : d.answer[j] = c.answer[j]
                     /\ d.decision = c.decision /\ d.consumed = c.consumed /\ d.slack = c.slack
                     /\ d.routing = c.routing
           /\ LET d == [c EXCEPT !.consumed = TRUE]
              IN  /\ d.answer = c.answer /\ d.decision = c.decision /\ d.slack = c.slack
                  /\ d.routing = c.routing /\ d.consumed = TRUE
           /\ \A n : LET d == [c EXCEPT !.slack = n]
                     IN  /\ d.answer = c.answer /\ d.decision = c.decision
                         /\ d.consumed = c.consumed /\ d.routing = c.routing /\ d.slack = n
           /\ \A r : LET d == [c EXCEPT !.routing = r]
                     IN  /\ d.answer = c.answer /\ d.decision = c.decision
                         /\ d.consumed = c.consumed /\ d.slack = c.slack /\ d.routing = r
           /\ \A q : LET d == [c EXCEPT !.decision = q, !.consumed = FALSE, !.slack = 0]
                     IN  /\ d.answer = c.answer /\ d.routing = c.routing
                         /\ d.decision = q /\ d.consumed = FALSE /\ d.slack = 0
<1>1. c.answer \in [Steps -> Answers] /\ c.routing \in Routings /\ c.consumed \in BOOLEAN
  BY DEF Contexts, Answers
<1>2. ASSUME NEW i \in Steps, NEW a \in Answers
      PROVE  LET d == [c EXCEPT !.answer[i] = a]
             IN  /\ d.answer[i] = a /\ \A j \in Steps \ {i} : d.answer[j] = c.answer[j]
                 /\ d.decision = c.decision /\ d.consumed = c.consumed /\ d.slack = c.slack
                 /\ d.routing = c.routing
  BY <1>1 DEF Contexts
<1>. QED
  BY <1>1, <1>2 DEF Contexts

\* A note has no answer that the row has not.
LEMMA NoteAnswers ==
    ASSUME Typed, Placed, NotesOlder, NEW w \in Workers, Notes(w)
    PROVE  /\ \A i \in Steps : run'.ctx.answer[i] # "none" => run'.ctx.answer[i] = run.ctx.answer[i]
           /\ run'.status = run.status /\ run'.step = run.step
<1>1. worker[w].ctx \in Contexts
  BY Current
<1>2. Older(worker[w].ctx, worker[w].step) /\ worker[w].step \in Gates
  BY DEF Notes, Placed, PlacedWorkers, Noting, NotesOlder
<1>3. run'.ctx.answer = worker[w].ctx.answer
  BY <1>1, FieldsOf DEF Notes
<1>4. Steps \subseteq Int
  BY PlanSteps DEF Typed, WorldTyped
<1>. QED
  BY <1>2, <1>3, <1>4 DEF Notes, Older, Reached, Gates

LEMMA UnansweredStays ==
    ASSUME Typed, OneExecutes, Placed, Visited, NotesOlder, Unanswered, [Next]_vars
    PROVE  Unanswered'
<1>0. /\ run \in Rows /\ run.ctx \in Contexts /\ worker \in [Workers -> Invocations]
      /\ \A u \in Workers : worker[u].ctx \in Contexts
  BY Current, RowTyped DEF Typed, RunTyped, WorkersTyped
<1>1. plan' = plan /\ Steps' = Steps
  BY NextActs, PlanStays DEF Placed
<1>2. CASE Asks
  <2>1. worker' = worker
    BY <1>2 DEF Asks
  <2>2. \/ run'.status = run.status /\ run'.step = run.step /\ run'.ctx = run.ctx
        \/ run'.status \in {"queued", "canceled"}
    BY <1>2 DEF Asks, Keeps, Requeues, Escalates, Resumes, Decides, Replies, TakesOver, Releases
  <2>. QED
    BY <1>1, <2>1, <2>2 DEF Unanswered, UnansweredRow, UnansweredParks, AnswersCopied, Runs, Executing
<1>3. ASSUME NEW w \in Workers, Acts(w) PROVE Unanswered'
  <2>1. \A u \in Workers \ {w} : worker'[u] = worker[u]
    BY <1>3 DEF Acts, Elsewhere
  <2>2. worker[w].at \in Holding => worker[w].step \in Steps /\ plan[worker[w].step] \in StepKinds
    BY Current
  <2>3. CASE Quits(w)
    BY <1>1, <2>1, <2>3 DEF Quits, RowStays, Unanswered, UnansweredRow, UnansweredParks, AnswersCopied, Runs, Executing
  <2>4. CASE Turns(w)
    BY <1>1, <2>1, <2>4 DEF Turns, Turned, CopyStays, RowStays, Unanswered, UnansweredRow,
                            UnansweredParks, AnswersCopied, Runs, Executing
  <2>5. CASE Completes(w) \/ Cools(w) \/ Offering(w)
    <3>1. /\ RowStays /\ worker'[w].at \in {"advance", "check", "park"} /\ Executing(w)
          /\ worker'[w].at = "park" => worker'[w].step = worker[w].step /\ plan[worker[w].step] = "route"
      BY <2>5 DEF Completes, Cools, Offering, Executing, Routes
    <3>2. \A i \in Steps : \/ worker'[w].ctx.answer[i] = worker[w].ctx.answer[i]
                           \/ worker[w].ctx.answer[i] = "none"
      <4>1. CASE worker'[w].ctx = worker[w].ctx
        BY <4>1
      <4>2. CASE Used(worker[w], worker'[w])
        BY <1>0, <4>2, FieldsOf DEF Used
      <4>3. CASE Outcome(worker[w], worker'[w]) /\ worker[w].step \in Steps
        <5>1. worker[w].ctx.answer[worker[w].step] = "none"
          BY <4>3 DEF Outcome, Unanswered, UnansweredParks
        <5>2. \A i \in Steps \ {worker[w].step} : worker'[w].ctx.answer[i] = worker[w].ctx.answer[i]
          BY <1>0, <4>3, FieldsOf DEF Outcome
        <5>. QED
          BY <5>1, <5>2
      <4>4. ASSUME NEW r, worker'[w].ctx = [worker[w].ctx EXCEPT !.routing = r]
            PROVE  worker'[w].ctx.answer = worker[w].ctx.answer
        BY <1>0, <4>4, FieldsOf
      <4>. QED
        BY <2>5, <4>1, <4>2, <4>3, <4>4 DEF Completes, Cools, Offering, Routed
    <3>3. UnansweredRow'
      BY <3>1 DEF RowStays, Unanswered, UnansweredRow
    <3>4. UnansweredParks'
      BY <1>1, <2>1, <3>1 DEF Unanswered, UnansweredParks
    <3>5. AnswersCopied'
      BY <1>1, <2>1, <3>1, <3>2 DEF RowStays, Unanswered, AnswersCopied, Runs, Executing
    <3>. QED
      BY <3>3, <3>4, <3>5 DEF Unanswered
  <2>6. CASE Saves(w)
    <3>1. Executing(w) /\ \A u \in Workers \ {w} : ~Executing(u)
      BY <2>6, OneRuns DEF Saves, Executing
    <3>2. UnansweredRow'
      BY <2>2, <2>6, <3>1, OneRuns DEF Saves, Unanswered, UnansweredRow, UnansweredParks, ParkedStatus, StepKinds, Holding
    <3>3. UnansweredParks'
      BY <1>1, <2>1, <2>6 DEF Saves, CopyStays, Unanswered, UnansweredParks
    <3>4. AnswersCopied'
      BY <1>1, <2>1, <2>6, <3>1 DEF Saves, CopyStays, AnswersCopied, Runs, Executing
    <3>. QED
      BY <3>2, <3>3, <3>4 DEF Unanswered
  <2>7. CASE GivesUp(w) \/ HandsBack(w)
    <3>1. Executing(w) /\ \A u \in Workers \ {w} : ~Executing(u)
      BY <2>7, OneRuns DEF GivesUp, HandsBack, Executing
    <3>. QED
      BY <1>1, <2>1, <2>7, <3>1 DEF GivesUp, HandsBack, Unanswered, UnansweredRow, UnansweredParks,
                                    AnswersCopied, Runs, Executing
  <2>8. CASE Notes(w)
    <3>1. \A i \in Steps : run'.ctx.answer[i] # "none" => run'.ctx.answer[i] = run.ctx.answer[i]
      BY <2>8, NoteAnswers
    <3>2. run'.status = run.status /\ run'.step = run.step /\ worker'[w].at = "idle"
      BY <2>8 DEF Notes
    <3>3. UnansweredRow'
      BY <3>1, <3>2 DEF Unanswered, UnansweredRow, Placed, PlacedRow
    <3>4. UnansweredParks'
      BY <1>1, <2>1, <3>2 DEF Unanswered, UnansweredParks
    <3>5. AnswersCopied'
      BY <1>1, <2>1, <3>1, <3>2 DEF Unanswered, AnswersCopied, Runs, Executing
    <3>. QED
      BY <3>3, <3>4, <3>5 DEF Unanswered
  <2>9. CASE Claims(w)
    <3>1. \A u \in Workers : ~Executing(u)
      BY <2>9 DEF Claims, OneExecutes
    <3>. QED
      BY <1>0, <1>1, <2>1, <2>9, <3>1 DEF Claims, Unanswered, UnansweredRow, UnansweredParks,
                                          AnswersCopied, Runs, Executing
  <2>. QED
    BY <1>3, <2>3, <2>4, <2>5, <2>6, <2>7, <2>8, <2>9 DEF Acts
<1>. QED
  BY <1>2, <1>3, NextActs DEF Placed

-----------------------------------------------------------------------------
(* Flows with one route: where the run is with each state of the lead.       *)

\* Whoever holds the lead is not offered it, and only the holder lets it go; a
\* claim is the teammate's who is offered the lead.
Sound(r) ==
    /\ r.by # NoAgent => r.offered = NoAgent /\ r.at = 0 /\ r.event \in {"none", "unclaim"}
    /\ r.event = "unclaim" => r.from = r.by /\ r.by # NoAgent
    /\ r.event = "claim" => r.from = r.offered
    /\ r.at \in {0} \cup Routes /\ r.home \in {0} \cup Routes
\* A lead that is held is past the route; while it is offered the run is there;
\* and whoever was offered it has been tried, until it is held.
Position(r, n) ==
    /\ r.by # NoAgent /\ r.event = "none" => \A i \in Routes : i < n
    /\ r.offered # NoAgent => n \in Routes /\ r.at = n
    /\ \/ r.log \subseteq r.tried \cup ({r.offered} \ {NoAgent})
       \/ r.at = 0 /\ (r.event = "unclaim" \/ \A i \in Routes : i < n)
\* What a newer routing owes to an older one.
Follows(r, n) ==
    /\ r.event = "claim" => \/ n.event = "claim" \/ n.by = r.from
                            \/ n.event = "reject" /\ n.from = r.from
    /\ r.by # NoAgent => \/ n.by = r.by
                         \/ r.event = "unclaim" /\ r.from = r.by

RouteRow ==
    /\ Sound(run.ctx.routing)
    /\ Alive => Position(run.ctx.routing, run.step)
    /\ run.status = "awaiting_agent" => run.ctx.routing.event = "none" /\ run.ctx.routing.by = NoAgent
    /\ run.ctx.decision = "none"
RouteCopies ==
    \A w \in Workers :
       /\ worker[w].ctx.decision = "none"
       /\ Executing(w) => Sound(worker[w].ctx.routing) /\ Position(worker[w].ctx.routing, worker[w].step)
       /\ worker[w].at = "park" /\ worker[w].step \in Routes =>
             /\ worker[w].ctx.routing.event = "none" /\ worker[w].ctx.routing.by = NoAgent
             /\ worker[w].ctx.routing.offered \in worker[w].ctx.routing.log \ {NoAgent}
RouteRuns ==
    \A w \in Workers : Runs(w) =>
       /\ worker[w].at \in {"begin", "check", "step"} => worker[w].ctx.routing = run.ctx.routing
       /\ Follows(run.ctx.routing, worker[w].ctx.routing)
       /\ run.ctx.routing.log \subseteq worker[w].ctx.routing.log
       /\ worker[w].at = "park" /\ worker[w].step \in Routes =>
             worker[w].ctx.routing.offered \notin run.ctx.routing.log
\* Who was offered the lead is in the log, and so is whoever is about to be, who
\* was not yet and is by one worker only.
OffersMade ==
    /\ \A a \in Agents : offers[a] <= 1
    /\ run.status # "canceled" =>
          \A a \in Agents : offers[a] > 0 => a \in run.ctx.routing.log
OffersToMake ==
    \A w \in Workers : worker[w].at = "prompt" =>
       /\ worker[w].ctx.routing.offered \in Agents
       /\ offers[worker[w].ctx.routing.offered] = 0
       /\ run.status # "canceled" => worker[w].ctx.routing.offered \in run.ctx.routing.log
OffersApart ==
    \A u, w \in Workers :
       /\ worker[u].at = "prompt" /\ worker[w].at = "prompt"
       /\ worker[u].ctx.routing.offered = worker[w].ctx.routing.offered
       => u = w
RouteOffers == OffersMade /\ OffersToMake /\ OffersApart
RouteInv == RouteRow /\ RouteCopies /\ RouteRuns /\ RouteOffers

LEMMA OneAsks == AsksOnce => \A i, j \in Gates \cup Routes : i = j
BY DEF AsksOnce, Gates, Routes

LEMMA AskedSteps ==
    ASSUME plan \in Plans
    PROVE  Steps \subseteq Nat \ {0} /\ Gates \subseteq Nat \ {0} /\ Routes \subseteq Nat \ {0}
<1>1. Steps \subseteq Nat \ {0}
  BY PlanSteps
<1>. QED
  BY <1>1 DEF Gates, Routes

\* Whoever the lead was offered to is tried and logged; whoever was skipped, tried.
LEMMA OnwardIs ==
    ASSUME NEW r \in Routings, NEW next \in Onward(r)
    PROVE  /\ next.by = r.by /\ next.event = "none" /\ next.offered = NoAgent
           /\ next.at = r.at /\ next.home = r.home
           /\ next.log = r.log \cup ({r.offered} \ {NoAgent})
           /\ r.tried \cup ({r.offered} \ {NoAgent}) \subseteq next.tried
<1>1. PICK them \in SUBSET (Agents \ Retired(r).tried) : next = Skipped(Retired(r), them)
  BY DEF Onward
<1>2. /\ Retired(r).by = r.by /\ Retired(r).event = "none" /\ Retired(r).offered = NoAgent
      /\ Retired(r).at = r.at /\ Retired(r).home = r.home
      /\ Retired(r).log = r.log \cup ({r.offered} \ {NoAgent})
      /\ Retired(r).tried = r.tried \cup ({r.offered} \ {NoAgent})
      /\ DOMAIN Retired(r) = DOMAIN r /\ "tried" \in DOMAIN r
  BY DEF Retired, Routings
<1>3. \A f \in DOMAIN r \ {"tried"} : next[f] = Retired(r)[f]
  BY <1>1, <1>2 DEF Skipped
<1>4. next.tried = Retired(r).tried \cup them
  BY <1>1, <1>2 DEF Skipped
<1>5. /\ next.by = Retired(r).by /\ next.event = Retired(r).event
      /\ next.offered = Retired(r).offered /\ next.at = Retired(r).at
      /\ next.home = Retired(r).home /\ next.log = Retired(r).log
  BY <1>3 DEF Routings
<1>. QED
  BY <1>2, <1>4, <1>5

\* What a route step makes of the lead.
LEMMA SettlesSound ==
    ASSUME plan \in Plans, AsksOnce, NEW r \in Routings, NEW n \in Routes, Sound(r), Position(r, n),
           NEW new, Settles(r, new), NEW m \in Nat, m > n
    PROVE  Sound(new) /\ Position(new, m) /\ Follows(r, new) /\ r.log \subseteq new.log
<1>0. /\ \A i \in Routes : i = n
      /\ n \in Nat
  BY AskedSteps, OneAsks
<1>1. CASE r.event = "unclaim" /\ new = Unclaimed(r)
  <2>1. /\ new.by = NoAgent /\ new.event = "none" /\ new.offered = NoAgent
        /\ new.at = r.at /\ new.home = r.home /\ new.log = r.log
    BY <1>1 DEF Unclaimed, Routings
  <2>. QED
    BY <1>0, <1>1, <2>1 DEF Sound, Position, Follows
<1>2. CASE r.event = "claim" /\ new = Claimed(r)
  <2>1. /\ new.by = r.from /\ new.event = "none" /\ new.offered = NoAgent
        /\ new.at = 0 /\ new.home = r.home /\ new.log = r.log
    BY <1>2 DEF Claimed, Routings
  <2>. QED
    BY <1>0, <1>2, <2>1 DEF Sound, Position, Follows
<1>3. CASE r.event \notin {"claim", "unclaim"} /\ new \in Onward(r)
  <2>1. /\ new.by = r.by /\ new.event = "none" /\ new.offered = NoAgent
        /\ new.at = r.at /\ new.home = r.home
        /\ new.log = r.log \cup ({r.offered} \ {NoAgent})
        /\ r.tried \cup ({r.offered} \ {NoAgent}) \subseteq new.tried
    BY <1>3, OnwardIs
  <2>2. r.by = NoAgent
    BY <1>0, <1>3 DEF Sound, Position
  <2>. QED
    BY <1>0, <1>3, <2>1, <2>2 DEF Sound, Position, Follows
<1>. QED
  BY <1>1, <1>2, <1>3 DEF Settles

LEMMA OfferSound ==
    ASSUME plan \in Plans, AsksOnce, NEW r \in Routings, NEW n \in Routes, Sound(r), Position(r, n),
           r.event \notin {"claim", "unclaim"}, NEW next \in Onward(r),
           NEW a \in Agents \ next.tried, NEW new, new = Offered(next, a, n)
    PROVE  /\ Sound(new) /\ Position(new, n) /\ Follows(r, new) /\ r.log \subseteq new.log
           /\ new.event = "none" /\ new.by = NoAgent /\ new.offered = a
           /\ a \in new.log \ {NoAgent} /\ a \notin r.log
<1>0. n \in Nat /\ a # NoAgent
  BY PlanSteps, NoAgentAssumption DEF Routes
<1>1. /\ r.tried \cup ({r.offered} \ {NoAgent}) \subseteq next.tried
      /\ next \in Routings
  BY OnwardIs, RouteTypes
<1>2. /\ new.by = r.by /\ new.event = "none" /\ new.offered = a
      /\ new.at = n /\ new.home = n
      /\ new.log = r.log \cup ({r.offered} \ {NoAgent}) \cup {a}
      /\ new.tried = next.tried
  BY <1>1, OnwardIs DEF Offered, Routings
<1>3. r.by = NoAgent
  BY <1>0 DEF Sound, Position
<1>4. a \notin r.log
  BY <1>0, <1>1 DEF Position
<1>. QED
  BY <1>0, <1>1, <1>2, <1>3, <1>4 DEF Sound, Position, Follows

LEMMA RouteInit == Init => RouteInv
<1>. SUFFICES ASSUME Init PROVE RouteInv
  OBVIOUS
<1>1. run.ctx = NewContext(plan) /\ run.status = "queued" /\ run.step = 1
  BY DEF Init, NewRun
<1>2. \A w \in Workers : worker[w].at = "idle" /\ worker[w].ctx = NewContext(plan)
  BY DEF Init, IdleWorker
<1>3. offers = [a \in Agents |-> 0]
  BY DEF Init
<1>4. NewContext(plan).routing = NoRouting /\ NewContext(plan).decision = "none"
  BY DEF NewContext
<1>5. Sound(NoRouting) /\ \A n : Position(NoRouting, n)
  BY DEF Sound, Position, NoRouting
<1>6. RouteRow
  BY <1>1, <1>4, <1>5 DEF RouteRow
<1>7. RouteCopies /\ RouteRuns
  BY <1>2, <1>4 DEF RouteCopies, RouteRuns, Runs, Executing
<1>8. RouteOffers
  BY <1>2, <1>3 DEF RouteOffers, OffersMade, OffersToMake, OffersApart
<1>. QED
  BY <1>6, <1>7, <1>8 DEF RouteInv

\* What an answer or a deadline makes of the lead.
LEMMA AskedSound ==
    ASSUME Typed, AsksOnce, Placed, RouteRow, Escalates \/ Replies \/ TakesOver \/ Releases
    PROVE  /\ run'.ctx \in Contexts
           /\ Sound(run'.ctx.routing) /\ Position(run'.ctx.routing, run'.step)
           /\ run'.ctx.decision = run.ctx.decision
           /\ run'.ctx.routing.log = run.ctx.routing.log
<1>. DEFINE r == run.ctx.routing
<1>0. /\ run.ctx \in Contexts /\ r \in Routings
      /\ Sound(r) /\ (Alive => Position(r, run.step))
      /\ run.step \in Nat /\ Routes \subseteq Nat
  <2>1. run \in Rows /\ plan \in Plans
    BY DEF Typed, RunTyped, WorldTyped
  <2>2. Steps \subseteq Nat /\ Places \subseteq Nat
    BY <2>1, PlanSteps DEF Places
  <2>. QED
    BY <2>1, <2>2, RowTyped, ContextTyped DEF RouteRow, Routes
<1>1. ASSUME NEW new \in Routings, run'.ctx = [run.ctx EXCEPT !.routing = new]
      PROVE  /\ run'.ctx \in Contexts /\ run'.ctx.routing = new
             /\ run'.ctx.decision = run.ctx.decision
  <2>. DEFINE copy == [run.ctx EXCEPT !.routing = new]
  <2>1. copy \in Contexts
    BY <1>0, ContextTyped
  <2>2. copy.routing = new /\ copy.decision = run.ctx.decision
    BY <1>0, FieldsOf
  <2>. HIDE DEF copy
  <2>. QED
    BY <1>1, <2>1, <2>2 DEF copy
<1>2. ASSUME NEW e \in Events, NEW a \in Agents \cup {NoAgent}
      PROVE  LET new == [r EXCEPT !.event = e, !.from = a]
             IN  /\ new \in Routings
                 /\ new.event = e /\ new.from = a /\ new.offered = r.offered /\ new.by = r.by
                 /\ new.at = r.at /\ new.home = r.home /\ new.log = r.log /\ new.tried = r.tried
  BY <1>0 DEF Routings, Events
<1>3. CASE Escalates
  <2>. DEFINE new == [r EXCEPT !.event = "timeout"]
  <2>1. /\ new \in Routings
        /\ new.event = "timeout" /\ new.from = r.from /\ new.offered = r.offered /\ new.by = r.by
        /\ new.at = r.at /\ new.home = r.home /\ new.log = r.log /\ new.tried = r.tried
    BY <1>0 DEF Routings
  <2>2. Alive /\ r.event = "none" /\ r.by = NoAgent
    BY <1>3 DEF Escalates, Alive, RouteRow
  <2>3. Sound(new) /\ Position(new, run.step)
    <3>. HIDE DEF new, r
    <3>. QED
      BY <1>0, <2>1, <2>2 DEF Sound, Position
  <2>4. run'.ctx = [run.ctx EXCEPT !.routing = new] /\ run'.step = run.step
    BY <1>3 DEF Escalates
  <2>. HIDE DEF new
  <2>. QED
    BY <1>1, <2>1, <2>3, <2>4
<1>4. CASE Replies
  <2>1. PICK e \in {"claim", "reject"} :
            /\ r.offered \in Agents
            /\ run'.ctx = [run.ctx EXCEPT !.routing = [r EXCEPT !.event = e, !.from = r.offered]]
    BY <1>4 DEF Replies
  <2>. DEFINE new == [r EXCEPT !.event = e, !.from = r.offered]
  <2>2. /\ new \in Routings
        /\ new.event = e /\ new.from = r.offered /\ new.offered = r.offered /\ new.by = r.by
        /\ new.at = r.at /\ new.home = r.home /\ new.log = r.log /\ new.tried = r.tried
    <3>1. e \in Events /\ r.offered \in Agents \cup {NoAgent}
      BY <2>1 DEF Events
    <3>. HIDE DEF r
    <3>. QED
      BY <1>2, <3>1
  <2>3. Alive /\ run'.step = run.step
    BY <1>4 DEF Replies, Alive
  <2>4. r.offered # NoAgent
    BY <2>1, NoAgentAssumption
  <2>5. Sound(new) /\ Position(new, run.step)
    <3>. HIDE DEF new, r
    <3>. QED
      BY <1>0, <2>2, <2>3, <2>4 DEF Sound, Position
  <2>. HIDE DEF new
  <2>. QED
    BY <1>1, <2>1, <2>2, <2>3, <2>5 DEF new
<1>5. CASE TakesOver
  <2>1. PICK a \in Agents, late \in BOOLEAN, tried \in SUBSET Agents :
            /\ tried = IF Late(run) THEN r.tried ELSE r.tried \cup ({r.offered} \ {NoAgent})
            /\ run'.ctx = [run.ctx EXCEPT !.routing = Taken(r, a, tried, late)]
    BY <1>5 DEF TakesOver
  <2>. DEFINE new == Taken(r, a, tried, late)
  <2>2. /\ new \in Routings
        /\ new.event = "claim" /\ new.from = a /\ new.offered = a /\ new.by = r.by
        /\ new.at = r.at /\ new.home = r.home /\ new.log = r.log /\ new.tried = tried
    <3>. HIDE DEF r
    <3>. QED
      BY <1>0 DEF Taken, Routings
  <2>3. Alive /\ r.by = NoAgent /\ r.at \in Steps /\ run'.step = r.at
    BY <1>5 DEF TakesOver, Alive
  <2>4. r.at \in Routes /\ r.at # 0
    <3>1. r.at # 0
      BY <2>3, AskedSteps DEF Typed, WorldTyped
    <3>. QED
      BY <1>0, <3>1 DEF Sound
  <2>5. r.log \subseteq tried \cup {a}
    <3>1. r.log \subseteq r.tried \cup ({r.offered} \ {NoAgent})
      BY <1>0, <2>3, <2>4 DEF Position
    <3>2. Late(run) => r.offered = NoAgent
      BY <1>0, <2>3, <2>4 DEF Late, Position, Placed, PlacedRow, Routes
    <3>. QED
      BY <2>1, <3>1, <3>2
  <2>6. Sound(new) /\ Position(new, r.at)
    <3>. HIDE DEF new, r
    <3>. QED
      BY <1>0, <2>2, <2>3, <2>4, <2>5, NoAgentAssumption DEF Sound, Position
  <2>. HIDE DEF new
  <2>. QED
    BY <1>1, <2>1, <2>2, <2>3, <2>6 DEF new
<1>6. CASE Releases
  <2>. DEFINE new == [r EXCEPT !.event = "unclaim", !.from = r.by]
  <2>1. r.by \in Agents /\ r.home \in Steps /\ run'.step = r.home
        /\ run'.ctx = [run.ctx EXCEPT !.routing = new]
    BY <1>6 DEF Releases
  <2>2. /\ new \in Routings
        /\ new.event = "unclaim" /\ new.from = r.by /\ new.offered = r.offered /\ new.by = r.by
        /\ new.at = r.at /\ new.home = r.home /\ new.log = r.log /\ new.tried = r.tried
    BY <1>2, <2>1 DEF Events
  <2>3. r.by # NoAgent
    BY <2>1, NoAgentAssumption
  <2>4. Sound(new) /\ Position(new, r.home)
    <3>. HIDE DEF new, r
    <3>. QED
      BY <1>0, <2>2, <2>3 DEF Sound, Position
  <2>. HIDE DEF new
  <2>. QED
    BY <1>1, <2>1, <2>2, <2>4
<1>. QED
  BY <1>3, <1>4, <1>5, <1>6

\* No prompt begins, and the log loses nobody.
LEMMA OffersStay ==
    ASSUME RouteOffers, offers' = offers,
           \A u \in Workers : worker'[u].at = "prompt" => worker'[u] = worker[u],
           run'.status # "canceled" =>
              /\ run.status # "canceled"
              /\ run.ctx.routing.log \subseteq run'.ctx.routing.log
    PROVE  RouteOffers'
<1>1. OffersMade'
  BY DEF RouteOffers, OffersMade
<1>2. OffersToMake'
  BY DEF RouteOffers, OffersToMake
<1>3. OffersApart'
  BY DEF RouteOffers, OffersApart
<1>. QED
  BY <1>1, <1>2, <1>3 DEF RouteOffers

\* The copies are sound when the one that moved is.
LEMMA CopiesFollow ==
    ASSUME RouteCopies, Routes' = Routes, NEW w \in Workers,
           \A u \in Workers \ {w} : worker'[u] = worker[u],
           worker'[w].ctx.decision = "none",
           Executing(w)' => /\ Sound(worker'[w].ctx.routing)
                            /\ Position(worker'[w].ctx.routing, worker'[w].step),
           worker'[w].at = "park" /\ worker'[w].step \in Routes =>
              /\ worker'[w].ctx.routing.event = "none" /\ worker'[w].ctx.routing.by = NoAgent
              /\ worker'[w].ctx.routing.offered \in worker'[w].ctx.routing.log \ {NoAgent}
    PROVE  RouteCopies'
<1>1. ASSUME NEW u \in Workers
      PROVE  /\ worker'[u].ctx.decision = "none"
             /\ Executing(u)' => /\ Sound(worker'[u].ctx.routing)
                                 /\ Position(worker'[u].ctx.routing, worker'[u].step)
             /\ worker'[u].at = "park" /\ worker'[u].step \in Routes =>
                   /\ worker'[u].ctx.routing.event = "none" /\ worker'[u].ctx.routing.by = NoAgent
                   /\ worker'[u].ctx.routing.offered \in worker'[u].ctx.routing.log \ {NoAgent}
  <2>1. CASE u = w
    BY <2>1
  <2>2. CASE u # w
    BY <2>2 DEF RouteCopies, Executing
  <2>. QED
    BY <2>1, <2>2
<1>2. \A u \in Workers :
         /\ Sound(worker'[u].ctx.routing) => Sound(worker[u].ctx.routing)'
         /\ Position(worker'[u].ctx.routing, worker'[u].step)
               => Position(worker[u].ctx.routing, worker[u].step)'
  BY DEF Sound, Position
<1>3. \A u \in Workers :
         /\ worker'[u].ctx.decision = "none"
         /\ Executing(u)' => /\ Sound(worker[u].ctx.routing)'
                             /\ Position(worker[u].ctx.routing, worker[u].step)'
         /\ worker'[u].at = "park" /\ worker'[u].step \in Routes' =>
               /\ worker'[u].ctx.routing.event = "none" /\ worker'[u].ctx.routing.by = NoAgent
               /\ worker'[u].ctx.routing.offered \in worker'[u].ctx.routing.log \ {NoAgent}
  BY <1>1, <1>2
<1>. QED
  BY <1>3 DEF RouteCopies

\* An answer, a deadline, or a row that is handed back.
LEMMA RouteAsked ==
    ASSUME Typed, Placed, AsksOnce, Gates = {}, RouteInv, Asks PROVE RouteInv'
<1>. DEFINE r == run.ctx.routing
<1>0. /\ run.ctx \in Contexts /\ worker' = worker /\ offers' = offers /\ Routes' = Routes
  BY RowTyped, PlanStays DEF Typed, RunTyped, Asks
<1>1. ASSUME Sound(run'.ctx.routing), Position(run'.ctx.routing, run'.step),
             run'.ctx.decision = "none", run'.ctx.routing.log = r.log, run'.status = "queued",
             run.status # "canceled"
      PROVE  RouteInv'
  <2>1. RouteRow'
    BY <1>0, <1>1 DEF RouteRow, Sound, Position
  <2>2. RouteCopies'
    BY <1>0 DEF RouteInv, RouteCopies, Sound, Position, Executing
  <2>3. RouteRuns'
    BY <1>0, <1>1 DEF RouteRuns, Executing, Runs
  <2>4. RouteOffers'
    BY <1>0, <1>1, OffersStay DEF RouteInv
  <2>. QED
    BY <2>1, <2>2, <2>3, <2>4 DEF RouteInv
<1>2. ASSUME run'.status = run.status \/ run'.status = "canceled",
             run'.step = run.step, run'.ctx = run.ctx
      PROVE  RouteInv'
  <2>1. RouteRow'
    BY <1>0, <1>2 DEF RouteInv, RouteRow, Sound, Position, Alive
  <2>2. RouteCopies'
    BY <1>0 DEF RouteInv, RouteCopies, Sound, Position, Executing
  <2>3. RouteRuns'
    BY <1>0, <1>2 DEF RouteInv, RouteRuns, Follows, Executing, Runs
  <2>4. RouteOffers'
    BY <1>0, <1>2, OffersStay DEF RouteInv
  <2>. QED
    BY <2>1, <2>2, <2>3, <2>4 DEF RouteInv
<1>3. CASE Keeps
  BY <1>2, <1>3 DEF Keeps
<1>4. CASE Requeues
  BY <1>1, <1>2, <1>4 DEF Requeues, Reclaimable, RouteInv, RouteRow, Alive
<1>5. CASE Resumes
  <2>1. run.step \in Steps /\ run.status \notin {"failed", "canceled"}
    BY <1>5 DEF Resumes, Placed, PlacedRow
  <2>2. run'.ctx.routing = r /\ run'.ctx.decision = run.ctx.decision
    BY <1>0, <1>5, <2>1, FieldsOf DEF Resumes
  <2>. QED
    BY <1>1, <1>5, <2>1, <2>2 DEF Resumes, RouteInv, RouteRow, Alive
<1>6. CASE Escalates \/ Replies \/ TakesOver \/ Releases
  <2>1. /\ Sound(run'.ctx.routing) /\ Position(run'.ctx.routing, run'.step)
        /\ run'.ctx.decision = "none" /\ run'.ctx.routing.log = r.log
    BY <1>6, AskedSound DEF RouteInv, RouteRow
  <2>. QED
    BY <1>1, <1>6, <2>1 DEF Escalates, Replies, TakesOver, Releases
<1>7. ~Decides
  BY DEF Decides, Placed, PlacedRow
<1>. QED
  BY <1>3, <1>4, <1>5, <1>6, <1>7 DEF Asks

LEMMA RouteActs ==
    ASSUME Typed, OneExecutes, Placed, AsksOnce, Gates = {}, RouteInv,
           NEW w \in Workers, Acts(w)
    PROVE  RouteInv'
<1>. DEFINE c == worker[w].ctx
            r == c.routing
            i == worker[w].step
<1>0. /\ run \in Rows /\ run.ctx \in Contexts /\ worker \in [Workers -> Invocations]
      /\ c \in Contexts /\ r \in Routings /\ plan \in Plans
      /\ worker[w].at \in Holding => i \in Steps /\ plan[i] \in StepKinds
      /\ Routes' = Routes
  BY Current, RowTyped, ContextTyped, PlanStays DEF Typed, RunTyped, WorkersTyped
<1>1. \A u \in Workers \ {w} : worker'[u] = worker[u]
  BY DEF Acts, Elsewhere
<1>2. worker[w].at # "stamp" /\ (worker[w].at \in {"prompt", "stamp"} => i \in Routes)
  BY <1>0 DEF Placed, PlacedWorkers, Noting, Typed, WorkersTyped, OnAStep, Holding, Gates, Routes
<1>3. NewContext(plan).decision = "none"
  BY DEF NewContext
<1>4. Executing(w) => /\ run.status \in {"running", "canceled"}
                      /\ \A u \in Workers \ {w} : ~Executing(u)
  BY OneRuns
\* The row stays, and this worker goes on, or is done.
<1>5. ASSUME RowStays, offers' = offers, worker'[w].at # "prompt",
             worker'[w].ctx.decision = "none",
             Executing(w)' => /\ Sound(worker'[w].ctx.routing)
                              /\ Position(worker'[w].ctx.routing, worker'[w].step),
             worker'[w].at = "park" /\ worker'[w].step \in Routes =>
                /\ worker'[w].ctx.routing.event = "none" /\ worker'[w].ctx.routing.by = NoAgent
                /\ worker'[w].ctx.routing.offered \in worker'[w].ctx.routing.log \ {NoAgent}
                /\ Runs(w)' => worker'[w].ctx.routing.offered \notin run.ctx.routing.log,
             Runs(w)' =>
                /\ worker'[w].at \in {"begin", "check", "step"} => worker'[w].ctx.routing = run.ctx.routing
                /\ Follows(run.ctx.routing, worker'[w].ctx.routing)
                /\ run.ctx.routing.log \subseteq worker'[w].ctx.routing.log
      PROVE  RouteInv'
  <2>1. RouteRow'
    BY <1>0, <1>5 DEF RowStays, RouteInv, RouteRow, Sound, Position, Alive
  <2>2. RouteCopies'
    BY <1>0, <1>1, <1>5, CopiesFollow DEF RouteInv
  <2>3. RouteRuns'
    BY <1>0, <1>1, <1>5 DEF RowStays, RouteInv, RouteRuns, Follows, Executing, Runs
  <2>4. RouteOffers'
    BY <1>1, <1>5, OffersStay DEF RowStays, RouteInv
  <2>. QED
    BY <2>1, <2>2, <2>3, <2>4 DEF RouteInv
<1>6. CASE Quits(w)
  <2>1. CASE offers' = offers
    BY <1>3, <1>5, <1>6, <2>1 DEF Quits, Runs, Executing
  <2>2. CASE Tells(w)
    <3>. DEFINE a == r.offered
    <3>1. /\ worker[w].at = "prompt" /\ a \in Agents /\ offers[a] = 0
          /\ run.status # "canceled" => a \in run.ctx.routing.log
          /\ \A u \in Workers : worker[u].at = "prompt" /\ worker[u].ctx.routing.offered = a => u = w
      BY <2>2 DEF Tells, RouteInv, RouteOffers, OffersToMake, OffersApart
    <3>2. /\ offers'[a] = 1 /\ \A b \in Agents \ {a} : offers'[b] = offers[b]
      BY <2>2, <3>1 DEF Tells, Typed, WorldTyped
    <3>3. RouteOffers'
      <4>1. UNCHANGED run /\ worker'[w].at = "idle"
        BY <1>6 DEF Quits, RowStays
      <4>2. OffersMade'
        BY <3>1, <3>2, <4>1 DEF RouteInv, RouteOffers, OffersMade
      <4>3. OffersToMake'
        BY <1>1, <3>1, <3>2, <4>1 DEF RouteInv, RouteOffers, OffersToMake
      <4>4. OffersApart'
        BY <1>1, <4>1 DEF RouteInv, RouteOffers, OffersApart
      <4>. QED
        BY <4>2, <4>3, <4>4 DEF RouteOffers
    <3>4. RouteRow'
      BY <1>0, <1>6 DEF Quits, RowStays, RouteInv, RouteRow, Sound, Position, Alive
    <3>5. RouteCopies'
      BY <1>0, <1>1, <1>3, <1>6, CopiesFollow DEF Quits, RouteInv, Executing
    <3>6. RouteRuns'
      BY <1>0, <1>1, <1>6 DEF Quits, RowStays, RouteInv, RouteRuns, Follows, Executing, Runs
    <3>. QED
      BY <3>3, <3>4, <3>5, <3>6 DEF RouteInv
  <2>. QED
    BY <1>6, <2>1, <2>2 DEF Quits
<1>7. CASE Turns(w)
  <2>1. /\ worker'[w].ctx = c /\ worker'[w].step = i /\ RowStays /\ offers' = offers
        /\ worker'[w].at # "prompt"
        /\ worker'[w].at = "park" => i \notin Routes
        /\ Executing(w)' => Executing(w)
        /\ worker'[w].at \in {"begin", "check", "step"} /\ Runs(w)' => worker[w].at \in {"begin", "check", "step"}
    BY <1>0, <1>7 DEF Turns, Turned, CopyStays, Executing, Runs, RowStays, Gates, Routes,
                      Typed, WorkersTyped, OnAStep
  <2>2. Runs(w)' => Runs(w)
    BY <2>1 DEF Runs, RowStays
  <2>. QED
    BY <1>5, <2>1, <2>2 DEF RouteInv, RouteCopies, RouteRuns
<1>8. CASE Completes(w)
  <2>1. /\ Executing(w) /\ RowStays /\ offers' = offers /\ worker'[w].at = "advance"
        /\ i \in Steps
    BY <1>8 DEF Completes, Executing
  <2>2. Runs(w)' => Runs(w)
    BY <2>1 DEF Runs, RowStays
  <2>3. CASE Routed(worker[w], worker'[w])
    <3>1. PICK new \in Routings : Settles(r, new) /\ worker'[w].ctx = [c EXCEPT !.routing = new]
      BY <2>3 DEF Routed
    <3>2. worker'[w].ctx.routing = new /\ worker'[w].ctx.decision = "none"
      BY <1>0, <3>1, FieldsOf DEF RouteInv, RouteCopies
    <3>3. /\ Sound(new) /\ Position(new, worker'[w].step) /\ Follows(r, new)
          /\ r.log \subseteq new.log
      <4>1. /\ i \in Routes /\ Sound(r) /\ Position(r, i)
            /\ worker'[w].step \in Nat /\ worker'[w].step > i
        BY <2>1, <2>3 DEF Routed, Routes, RouteInv, RouteCopies
      <4>. HIDE DEF r, i
      <4>. QED
        BY <1>0, <3>1, <4>1, SettlesSound
    <3>4. Runs(w) => r = run.ctx.routing
      BY <2>3 DEF Routed, RouteInv, RouteRuns
    <3>. QED
      BY <1>5, <2>1, <2>2, <3>2, <3>3, <3>4
  <2>4. CASE ~Routed(worker[w], worker'[w])
    <3>1. worker'[w].ctx.routing = r /\ worker'[w].ctx.decision = "none" /\ worker'[w].step = i + 1
      <4>1. ~Used(worker[w], worker'[w])
        BY <2>1 DEF Used, Gates
      <4>2. c.decision = "none"
        BY DEF RouteInv, RouteCopies
      <4>3. CASE Outcome(worker[w], worker'[w])
        BY <1>0, <2>1, <4>2, <4>3, FieldsOf DEF Outcome
      <4>. QED
        BY <1>8, <2>4, <4>1, <4>2, <4>3 DEF Completes
    <3>2. i \notin Routes
      BY <1>8, <2>4 DEF Completes, Used, Outcome, Routes
    <3>3. Sound(r) /\ Position(r, i)
      BY <2>1 DEF RouteInv, RouteCopies
    <3>4. Position(r, i + 1)
      BY <1>0, <2>1, <3>2, <3>3, AskedSteps DEF Position
    <3>. QED
      BY <1>5, <2>1, <2>2, <3>1, <3>3, <3>4 DEF RouteInv, RouteRuns
  <2>. QED
    BY <2>3, <2>4
<1>9. ~Cools(w)
  BY DEF Cools
<1>10. CASE Offering(w)
  <2>0. PICK next \in Onward(r) : \E a \in Agents \ next.tried :
            worker'[w].ctx = [c EXCEPT !.routing = Offered(next, a, i)]
    BY <1>10 DEF Offering
  <2>1. PICK a \in Agents \ next.tried :
            worker'[w].ctx = [c EXCEPT !.routing = Offered(next, a, i)]
    BY <2>0
  <2>. DEFINE new == Offered(next, a, i)
  <2>2. /\ RowStays /\ worker[w].at = "step" /\ i \in Routes /\ worker'[w].at = "park"
        /\ worker'[w].step = i /\ r.event \notin {"claim", "unclaim"} /\ offers' = offers
        /\ Executing(w)
    BY <1>10 DEF Offering, Executing
  <2>3. worker'[w].ctx.routing = new /\ worker'[w].ctx.decision = "none"
    BY <1>0, <2>1, FieldsOf DEF RouteInv, RouteCopies
  <2>4. /\ Sound(new) /\ Position(new, i) /\ Follows(r, new) /\ r.log \subseteq new.log
        /\ new.event = "none" /\ new.by = NoAgent /\ new.offered = a
        /\ a \in new.log \ {NoAgent} /\ a \notin r.log
    <3>1. Sound(r) /\ Position(r, i)
      BY <2>2 DEF RouteInv, RouteCopies
    <3>. HIDE DEF r, i
    <3>. QED
      BY <1>0, <2>1, <2>2, <3>1, OfferSound DEF new
  <2>5. Runs(w)' => r = run.ctx.routing
    BY <2>2 DEF Runs, RowStays, RouteInv, RouteRuns
  <2>. HIDE DEF new
  <2>. QED
    BY <1>5, <2>2, <2>3, <2>4, <2>5
<1>11. CASE Saves(w)
  <2>1. /\ Executing(w) /\ run.status = "running" /\ Runs(w)
        /\ \A u \in Workers \ {w} : ~Executing(u)
    BY <1>4, <1>11 DEF Saves, Executing, Runs
  <2>2. /\ Sound(r) /\ Position(r, i) /\ run.ctx.routing.log \subseteq r.log /\ c.decision = "none"
        /\ run'.ctx = c /\ run'.step = i /\ run'.status # "canceled"
    <3>1. worker[w].at = "park" => ParkedStatus(plan[i]) # "canceled"
      BY <1>0, <1>11 DEF Typed, WorkersTyped, OnAStep, Holding, StepKinds, ParkedStatus
    <3>. QED
      BY <1>11, <2>1, <3>1 DEF Saves, RouteInv, RouteCopies, RouteRuns
  <2>3. RouteRow'
    <3>1. run'.status = "awaiting_agent" => worker[w].at = "park" /\ i \in Routes
      BY <1>0, <1>11, <2>1 DEF Saves, Typed, WorkersTyped, OnAStep, Holding, StepKinds, ParkedStatus, Routes
    <3>. QED
      BY <1>0, <2>2, <3>1 DEF RouteInv, RouteRow, RouteCopies, Sound, Position
  <2>4. RouteCopies'
    <3>1. /\ worker'[w].ctx.decision = "none"
          /\ Executing(w)' => worker'[w].ctx = c /\ worker'[w].step = i
          /\ worker'[w].at # "park"
      BY <1>3, <1>11, <2>2 DEF Saves, CopyStays, Executing
    <3>. QED
      BY <1>0, <1>1, <2>2, <3>1, CopiesFollow DEF RouteInv
  <2>5. RouteRuns'
    <3>1. Follows(r, r)
      BY DEF Follows
    <3>2. \A u \in Workers : Runs(u)' => u = w /\ worker'[w].at = "check" /\ worker'[w].ctx = c
      BY <1>1, <1>11, <2>1 DEF Saves, CopyStays, Runs, Executing
    <3>. QED
      BY <1>0, <2>2, <3>1, <3>2 DEF RouteRuns, Follows
  <2>6. RouteOffers'
    <3>1. worker'[w].at = "prompt" => worker[w].at = "park" /\ i \in Routes /\ worker'[w].ctx = c
      BY <1>0, <1>11 DEF Saves, CopyStays, Gates, Routes, Holding
    <3>2. worker'[w].at = "prompt" => /\ r.offered \in r.log \ {NoAgent}
                                      /\ r.offered \notin run.ctx.routing.log
      BY <2>1, <3>1 DEF RouteInv, RouteCopies, RouteRuns
    <3>3. r.log \subseteq Agents
      BY <1>0 DEF Routings
    <3>4. offers' = offers /\ offers \in [Agents -> Nat]
      BY <1>11 DEF Saves, Typed, WorldTyped
    <3>5. \A a \in Agents : offers[a] > 0 => a \in run.ctx.routing.log
      BY <2>1 DEF RouteInv, RouteOffers, OffersMade
    <3>6. worker'[w].at = "prompt" => r.offered \in Agents /\ offers[r.offered] = 0
      BY <3>2, <3>3, <3>4, <3>5
    <3>7. \A u \in Workers \ {w} : worker'[u].at = "prompt" =>
              /\ worker[u].ctx.routing.offered \in run.ctx.routing.log
              /\ worker'[u] = worker[u] /\ worker[u].at = "prompt"
      BY <1>1, <2>1 DEF RouteInv, RouteOffers, OffersToMake
    <3>8. OffersMade'
      BY <2>2, <3>4, <3>5 DEF RouteInv, RouteOffers, OffersMade
    <3>9. OffersToMake'
      BY <2>2, <3>1, <3>2, <3>4, <3>6, <3>7 DEF RouteInv, RouteOffers, OffersToMake
    <3>10. OffersApart'
      BY <3>1, <3>2, <3>7 DEF RouteInv, RouteOffers, OffersApart
    <3>. QED
      BY <3>8, <3>9, <3>10 DEF RouteOffers
  <2>. QED
    BY <2>3, <2>4, <2>5, <2>6 DEF RouteInv
<1>12. CASE GivesUp(w) \/ HandsBack(w)
  <2>1. /\ Executing(w) /\ run.status = "running" /\ Runs(w)
        /\ \A u \in Workers \ {w} : ~Executing(u)
    BY <1>4, <1>12 DEF GivesUp, HandsBack, Executing, Runs
  <2>2. /\ worker'[w].at = "idle" /\ worker'[w].ctx = NewContext(plan) /\ offers' = offers
        /\ run'.status \in {"failed", "queued", "canceled"}
        /\ \/ run'.status = "failed" /\ run'.ctx = c
           \/ run'.ctx = run.ctx /\ run'.step = run.step
    BY <1>12 DEF GivesUp, HandsBack
  <2>3. /\ Sound(r) /\ run.ctx.routing.log \subseteq r.log /\ c.decision = "none"
        /\ Sound(run.ctx.routing) /\ Position(run.ctx.routing, run.step) /\ run.ctx.decision = "none"
    BY <2>1 DEF RouteInv, RouteCopies, RouteRuns, RouteRow, Alive
  <2>4. RouteRow'
    BY <1>0, <2>2, <2>3 DEF RouteRow, Sound, Position, Alive
  <2>5. RouteCopies' /\ RouteRuns'
    <3>1. RouteCopies'
      BY <1>0, <1>1, <1>3, <2>2, CopiesFollow DEF RouteInv, Executing
    <3>2. RouteRuns'
      BY <1>1, <2>1, <2>2 DEF RouteRuns, Executing, Runs
    <3>. QED
      BY <3>1, <3>2
  <2>6. RouteOffers'
    BY <1>1, <2>1, <2>2, <2>3, OffersStay DEF RouteInv
  <2>. QED
    BY <2>4, <2>5, <2>6 DEF RouteInv
<1>13. ~Notes(w)
  BY <1>2 DEF Notes
<1>14. CASE Claims(w)
  <2>1. \A u \in Workers : ~Executing(u)
    BY <1>14 DEF Claims, OneExecutes
  <2>2. /\ run'.ctx = run.ctx /\ run'.step = run.step /\ run'.status = "running"
        /\ worker'[w].at = "begin" /\ worker'[w].step = run.step /\ worker'[w].ctx = run.ctx
        /\ offers' = offers /\ run.status = "queued"
    BY <1>14 DEF Claims
  <2>3. /\ Sound(run.ctx.routing) /\ Position(run.ctx.routing, run.step) /\ run.ctx.decision = "none"
        /\ Follows(run.ctx.routing, run.ctx.routing)
    BY <2>2 DEF RouteInv, RouteRow, Alive, Follows
  <2>4. RouteRow'
    BY <1>0, <2>2, <2>3 DEF RouteRow, Sound, Position
  <2>5. RouteCopies'
    BY <1>0, <1>1, <2>2, <2>3, CopiesFollow DEF RouteInv
  <2>6. RouteRuns'
    BY <1>0, <1>1, <2>1, <2>2, <2>3 DEF RouteRuns, Follows, Executing, Runs
  <2>7. RouteOffers'
    BY <1>1, <2>2, OffersStay DEF RouteInv
  <2>. QED
    BY <2>4, <2>5, <2>6, <2>7 DEF RouteInv
<1>. QED
  BY <1>6, <1>7, <1>8, <1>9, <1>10, <1>11, <1>12, <1>13, <1>14 DEF Acts

-----------------------------------------------------------------------------
(* Flows with one gate: the copies that are as old as the park at it.        *)

Unused(c, n) == \A g \in Gates : n <= g => ~c.consumed

\* Only a decision that was acknowledged is in the row, and it is not used
\* before the gate; behind the gate the run has the owner's approval.
GateRow ==
    /\ \A a \in Agents : offers[a] = 0
    /\ run.ctx.routing = NoRouting
    /\ run.ctx.decision \in {"none", answered}
    /\ Alive => /\ Reached(run.ctx, run.step) /\ Unused(run.ctx, run.step)
                /\ run.ctx.decision # "deny"
                /\ run.step - 1 \in Gates => answered = "approve"
\* The same of a worker's copy; a worker that parks at the gate has no decision.
GateCopies ==
    \A w \in Workers :
       /\ worker[w].ctx.routing = NoRouting
       /\ Executing(w) =>
             /\ worker[w].ctx.decision \in {"none", answered} \ {"deny"}
             /\ Reached(worker[w].ctx, worker[w].step) /\ Unused(worker[w].ctx, worker[w].step)
             /\ worker[w].step - 1 \in Gates => answered = "approve"
       /\ worker[w].at = "park" /\ worker[w].step \in Gates => worker[w].ctx.decision = "none"
\* What a worker has before the gate that the row has not is of steps the row
\* has not passed; it has the row's decision; and it acts behind the gate only
\* once the row is there.
GateRuns ==
    \A w \in Workers : Runs(w) =>
       /\ \A i \in Steps : /\ \E g \in Gates : i < g
                           /\ run.ctx.answer[i] = "none" /\ worker[w].ctx.answer[i] # "none"
                           => run.step <= i
       /\ run.ctx.decision \in {"none", worker[w].ctx.decision}
       /\ worker[w].at \in {"begin", "check", "step", "send"} /\ worker[w].step - 1 \in Gates
             => run.step = worker[w].step
\* One note is still to be written.  Its copy is as old as the park, and has no
\* decision; the run is at the gate again only with a decision to use.
GateNotes ==
    \A w \in Workers : Noting(w) =>
       /\ worker[w].ctx.decision = "none" /\ ~worker[w].ctx.consumed
       /\ run.status # "canceled" => run.ctx.slack # worker[w].step
       /\ Alive /\ run.step <= worker[w].step /\ run.status # "awaiting_approval"
             => run.ctx.decision # "none" /\ ~run.ctx.consumed
       /\ \A u \in Workers : Noting(u) => u = w
       /\ \A u \in Workers : Runs(u) =>
             /\ worker[u].ctx.slack # worker[w].step
             /\ worker[u].step <= worker[w].step =>
                   /\ worker[u].ctx.decision # "none" /\ ~worker[u].ctx.consumed
                   /\ worker[u].at # "park"
\* A decision that is still to be written has a row that is as old.
OlderVisit(t) ==
    /\ t.seen.ctx.routing = NoRouting
    /\ t.what \in Owner /\ run.status # "canceled" => Older(t.seen.ctx, t.seen.step)
GateVisitors == \A v \in Visitors : OlderVisit(visitor[v])
GateTexts ==
    \A i \in texts : i - 1 \in Gates => answered = "approve" /\ (Alive => i <= run.step)
GateInv ==
    GateRow /\ GateCopies /\ GateRuns /\ NotesOlder /\ GateNotes /\ GateVisitors /\ GateTexts

LEMMA GateInit == Init => GateInv
<1>. SUFFICES ASSUME Init PROVE GateInv
  OBVIOUS
<1>1. /\ run.ctx = NewContext(plan) /\ run.status = "queued" /\ run.step = 1
      /\ texts = {} /\ plan \in Plans
  BY DEF Init, NewRun
<1>2. \A w \in Workers : worker[w].at = "idle" /\ worker[w].ctx = NewContext(plan)
  BY DEF Init, IdleWorker
<1>3. \A v \in Visitors : visitor[v].what = "none" /\ visitor[v].seen.ctx = NewContext(plan)
  BY DEF Init, Nobody, NewRun
<1>4. offers = [a \in Agents |-> 0]
  BY DEF Init
<1>5. /\ NewContext(plan).routing = NoRouting /\ NewContext(plan).decision = "none"
      /\ NewContext(plan).consumed = FALSE
      /\ \A i \in Steps : NewContext(plan).answer[i] = "none"
  BY DEF NewContext, Steps
<1>6. 0 \notin Gates
  BY <1>1, AskedSteps
<1>7. GateRow
  BY <1>1, <1>4, <1>5, <1>6 DEF GateRow, Reached, Unused
<1>8. GateCopies /\ GateRuns /\ NotesOlder /\ GateNotes
  BY <1>2, <1>5 DEF GateCopies, GateRuns, NotesOlder, GateNotes, Noting, Runs, Executing
<1>9. GateVisitors /\ GateTexts
  BY <1>1, <1>3, <1>5 DEF GateVisitors, OlderVisit, GateTexts, Owner
<1>. QED
  BY <1>7, <1>8, <1>9 DEF GateInv

\* A copy that is as old as a gate stays so, when what the row has from before
\* the gate does not change and the run does not go back.
SameBefore ==
    \A g \in Gates : g <= run.step =>
       /\ g <= run'.step
       /\ \A i \in Steps : i < g => run'.ctx.answer[i] = run.ctx.answer[i]

LEMMA OlderStays ==
    ASSUME Gates' = Gates, Steps' = Steps, SameBefore
    PROVE  \A c : \A g \in Gates : Older(c, g) => Older(c, g)'
BY DEF Older, Reached, SameBefore

\* What is as old as the gate after a step.
LEMMA OldStay ==
    ASSUME Gates' = Gates, Steps' = Steps, Visited, NotesOlder, GateVisitors,
           run'.status # "canceled" => run.status # "canceled" /\ SameBefore,
           \A w \in Workers : Noting(w)' =>
              \/ worker'[w].ctx = worker[w].ctx /\ worker'[w].step = worker[w].step /\ Noting(w)
              \/ Older(worker[w].ctx, worker[w].step)',
           \A v \in Visitors : \/ visitor'[v] = Nobody(plan) \/ visitor'[v] = visitor[v]
                               \/ OlderVisit(visitor[v])'
    PROVE  NotesOlder' /\ GateVisitors'
<1>1. NotesOlder'
  <2>. SUFFICES ASSUME NEW w \in Workers, Noting(w)', run'.status # "canceled"
                PROVE  Older(worker[w].ctx, worker[w].step)'
    BY DEF NotesOlder
  <2>. SUFFICES ASSUME worker'[w].ctx = worker[w].ctx, worker'[w].step = worker[w].step, Noting(w)
                PROVE  Older(worker[w].ctx, worker[w].step)'
    OBVIOUS
  <2>1. PICK c, g : c = worker[w].ctx /\ g = worker[w].step
    OBVIOUS
  <2>2. Older(c, g) /\ g \in Gates
    BY <2>1 DEF NotesOlder, Noting
  <2>3. Older(c, g)'
    BY <2>2, OlderStays
  <2>4. worker'[w].ctx = c /\ worker'[w].step = g
    BY <2>1
  <2>. QED
    BY <2>3, <2>4 DEF Older, Reached
<1>2. GateVisitors'
  <2>. SUFFICES ASSUME NEW v \in Visitors PROVE OlderVisit(visitor[v])'
    BY DEF GateVisitors
  <2>1. CASE visitor'[v] = Nobody(plan)
    BY <2>1 DEF OlderVisit, Nobody, NewRun, NewContext, Owner
  <2>2. CASE visitor'[v] = visitor[v]
    <3>1. visitor[v].seen.ctx.routing = NoRouting
      BY DEF GateVisitors, OlderVisit
    <3>2. ASSUME visitor[v].what \in Owner, run'.status # "canceled"
          PROVE  Older(visitor[v].seen.ctx, visitor[v].seen.step)'
      <4>1. PICK c, g : c = visitor[v].seen.ctx /\ g = visitor[v].seen.step
        OBVIOUS
      <4>2. Older(c, g) /\ g \in Gates
        BY <3>2, <4>1 DEF GateVisitors, OlderVisit, Visited, Fresh
      <4>3. Older(c, g)'
        BY <3>2, <4>2, OlderStays
      <4>4. visitor'[v].seen.ctx = c /\ visitor'[v].seen.step = g
        BY <2>2, <4>1
      <4>. QED
        BY <4>3, <4>4 DEF Older, Reached
    <3>. QED
      BY <2>2, <3>1, <3>2 DEF OlderVisit
  <2>. QED
    BY <2>1, <2>2
<1>. QED
  BY <1>1, <1>2

\* A decision is written into a row that is as old as the park.
LEMMA DecisionWritten ==
    ASSUME Typed, Placed, Visited, AsksOnce, GateInv, Decides
    PROVE  /\ run.status = "awaiting_approval" /\ run'.step = run.step /\ run.step \in Gates
           /\ run'.ctx.routing = NoRouting /\ run'.ctx.decision = answered'
           /\ answered' \in Owner /\ run'.ctx.consumed = FALSE /\ run'.ctx.slack = 0
           /\ run'.status = (IF answered' = "deny" THEN "canceled" ELSE "queued")
           /\ Reached(run'.ctx, run.step)
           /\ \A i \in Steps : i < run.step => run'.ctx.answer[i] = run.ctx.answer[i]
<1>1. PICK q \in Owner, row \in Rows :
          /\ row = run \/ \E v \in Visitors : visitor[v].what \in Owner /\ visitor[v].seen = row
          /\ row.step \in Gates
          /\ run'.status = (IF q = "deny" THEN "canceled" ELSE "queued")
          /\ run'.ctx = [row.ctx EXCEPT !.decision = q, !.consumed = FALSE, !.slack = 0]
          /\ answered' = q
  BY DEF Decides
<1>2. /\ run.status = "awaiting_approval" /\ run'.step = run.step /\ Alive
      /\ run.step \in Gates /\ run.step = row.step
  BY <1>1, OneAsks DEF Decides, Placed, PlacedRow, Alive
<1>3. row.ctx \in Contexts
  BY <1>1, RowTyped
<1>4. /\ run'.ctx.answer = row.ctx.answer /\ run'.ctx.routing = row.ctx.routing
      /\ run'.ctx.decision = q /\ run'.ctx.consumed = FALSE /\ run'.ctx.slack = 0
  BY <1>1, <1>3, FieldsOf
<1>5. row.ctx.routing = NoRouting /\ Older(row.ctx, run.step)
  <2>1. CASE row = run
    <3>1. run.step <= run.step
      <4>1. plan \in Plans /\ run.step \in Places
        BY RowTyped DEF Typed, RunTyped, WorldTyped
      <4>. QED
        BY <4>1, PlanSteps DEF Places
    <3>. QED
      BY <1>2, <2>1, <3>1 DEF GateInv, GateRow, Older
  <2>2. CASE row # run
    <3>1. PICK v \in Visitors : visitor[v].what \in Owner /\ visitor[v].seen = row
      BY <1>1, <2>2
    <3>. QED
      BY <1>2, <3>1 DEF OlderVisit, GateInv, GateVisitors
  <2>. QED
    BY <2>1, <2>2
<1>. QED
  BY <1>1, <1>2, <1>4, <1>5 DEF Older, Reached

\* An answer, a deadline, a decision, or a row that is handed back.
LEMMA GateAsked ==
    ASSUME Typed, OneExecutes, Placed, Visited, AsksOnce, Routes = {}, GateInv, Asks
    PROVE  GateInv'
<1>0. /\ run \in Rows /\ run.ctx \in Contexts /\ run.ctx.routing = NoRouting
      /\ worker' = worker /\ texts' = texts /\ offers' = offers
      /\ Gates' = Gates /\ Steps' = Steps /\ plan' = plan
      /\ Steps \subseteq Nat \ {0} /\ Gates \subseteq Nat \ {0} /\ Gates \subseteq Steps
      /\ run.step \in Nat /\ texts \subseteq Steps
  <2>1. /\ run \in Rows /\ run.ctx \in Contexts /\ plan \in Plans /\ run.step \in Places
        /\ texts \subseteq Steps
    BY RowTyped DEF Typed, RunTyped, WorldTyped, Rows
  <2>2. Steps \subseteq Nat \ {0} /\ Gates \subseteq Nat \ {0} /\ Gates \subseteq Steps
    BY <2>1, AskedSteps DEF Gates
  <2>3. run.step \in Nat
    BY <2>1, PlanSteps DEF Places
  <2>4. Gates' = Gates /\ Steps' = Steps /\ plan' = plan
    BY PlanStays
  <2>5. worker' = worker /\ texts' = texts /\ offers' = offers /\ run.ctx.routing = NoRouting
    BY DEF Asks, GateInv, GateRow
  <2>. QED
    BY <2>1, <2>2, <2>3, <2>4, <2>5
<1>1. \A v \in Visitors : OlderVisit(visitor[v])
  BY DEF GateInv, GateVisitors
\* Nobody has the run then.
<1>2. ASSUME run'.status \in {"queued", "canceled"}, GateRow', GateTexts', Cleared,
             \A w \in Workers : worker[w].at = "park" /\ worker[w].step \in Gates =>
                                   worker[w].ctx.decision = "none",
             \A w \in Workers : Executing(w) => run'.ctx.decision = run.ctx.decision /\ answered' = answered,
             run'.status # "canceled" =>
                /\ run.status # "canceled" /\ SameBefore
                /\ \A w \in Workers : Noting(w) => run'.ctx.slack # worker[w].step
                /\ \A w \in Workers : Noting(w) /\ run'.step <= worker[w].step =>
                                         run'.ctx.decision # "none" /\ ~run'.ctx.consumed
      PROVE  GateInv'
  <2>1. NotesOlder' /\ GateVisitors'
    BY <1>0, <1>2, OldStay DEF Noting, Cleared, GateInv
  <2>2. GateCopies'
    BY <1>0, <1>2 DEF GateInv, GateCopies, Executing, Reached, Unused
  <2>3. GateRuns'
    BY <1>2 DEF GateRuns, Runs
  <2>4. GateNotes'
    BY <1>0, <1>2 DEF GateInv, GateNotes, Noting, Runs, Alive
  <2>. QED
    BY <1>2, <2>1, <2>2, <2>3, <2>4 DEF GateInv
<1>3. CASE Keeps
  <2>1. run'.status = run.status /\ run'.step = run.step /\ run'.ctx = run.ctx /\ answered' = answered
    BY <1>3 DEF Keeps
  <2>2. ASSUME NEW v \in Visitors, NEW q \in Requests, NEW a,
               Finds(q, a, run), visitor'[v] = [what |-> q, who |-> a, seen |-> run]
        PROVE  OlderVisit(visitor[v])'
    <3>1. q \in Owner => run.status = "awaiting_approval"
      BY <2>2 DEF Finds, Open, Owner
    <3>2. q \in Owner => Reached(run.ctx, run.step)
      BY <3>1 DEF GateInv, GateRow, Alive
    <3>. QED
      BY <1>0, <2>1, <2>2, <3>2 DEF OlderVisit, Older, Reached
  <2>3. \A v \in Visitors : \/ visitor'[v] = Nobody(plan) \/ visitor'[v] = visitor[v]
                            \/ OlderVisit(visitor[v])'
    BY <1>3, <2>2 DEF Keeps
  <2>4. SameBefore
    BY <2>1 DEF SameBefore
  <2>5. NotesOlder' /\ GateVisitors'
    BY <1>0, <2>1, <2>3, <2>4, OldStay DEF Noting, GateInv
  <2>6. GateRow' /\ GateTexts'
    BY <1>0, <2>1 DEF GateInv, GateRow, GateTexts, Alive, Reached, Unused
  <2>7. GateCopies' /\ GateRuns' /\ GateNotes'
    BY <1>0, <2>1 DEF GateInv, GateCopies, GateRuns, GateNotes, Executing, Reached, Unused,
                      Noting, Runs, Alive
  <2>. QED
    BY <2>5, <2>6, <2>7 DEF GateInv
<1>4. CASE Requeues /\ Cleared
  <2>1. /\ run'.step = run.step /\ run'.ctx = run.ctx /\ answered' = answered
        /\ run'.status = "canceled" \/ (run.status = "running" /\ run'.status = "queued")
    BY <1>4 DEF Requeues, Reclaimable
  <2>2. SameBefore
    BY <2>1 DEF SameBefore
  <2>3. GateRow' /\ GateTexts'
    BY <1>0, <2>1 DEF GateInv, GateRow, GateTexts, Alive, Reached, Unused
  <2>4. run'.status # "canceled" => Alive /\ run.status # "awaiting_approval"
    BY <2>1 DEF Alive
  <2>. QED
    BY <1>2, <1>4, <2>1, <2>2, <2>3, <2>4 DEF GateInv, GateCopies, GateNotes
<1>5. CASE Resumes /\ Cleared
  <2>1. PICK a \in Answers \ {"none"} : run'.ctx = [run.ctx EXCEPT !.answer[run.step] = a]
    BY <1>5 DEF Resumes
  <2>2. /\ run.status \in {"awaiting_reply", "awaiting_call"} /\ run'.status = "queued"
        /\ run'.step = run.step /\ answered' = answered /\ Alive
        /\ run.step \in Steps /\ run.step \notin Gates
    BY <1>5 DEF Resumes, Placed, PlacedRow, Alive
  <2>3. /\ \A j \in Steps \ {run.step} : run'.ctx.answer[j] = run.ctx.answer[j]
        /\ run'.ctx.decision = run.ctx.decision /\ run'.ctx.consumed = run.ctx.consumed
        /\ run'.ctx.slack = run.ctx.slack /\ run'.ctx.routing = run.ctx.routing
    BY <1>0, <2>1, <2>2, FieldsOf
  <2>4. SameBefore
    <3>1. ASSUME NEW g \in Gates, NEW j \in Steps, g <= run.step, j < g
          PROVE  run'.ctx.answer[j] = run.ctx.answer[j]
      <4>1. j # run.step
        BY <1>0, <3>1
      <4>. QED
        BY <2>3, <4>1
    <3>. QED
      BY <2>2, <3>1 DEF SameBefore
  <2>5. GateRow' /\ GateTexts'
    BY <1>0, <2>2, <2>3 DEF GateInv, GateRow, GateTexts, Alive, Reached, Unused
  <2>6. run.status \notin {"canceled", "awaiting_approval"}
    BY <2>2
  <2>. QED
    BY <1>2, <1>5, <2>2, <2>3, <2>4, <2>5, <2>6 DEF GateInv, GateCopies, GateNotes
<1>6. CASE Decides /\ Cleared
  <2>1. /\ run.status = "awaiting_approval" /\ run'.step = run.step /\ Alive /\ run.step \in Gates
        /\ run'.ctx.routing = NoRouting /\ run'.ctx.decision = answered'
        /\ answered' \in Owner /\ run'.ctx.consumed = FALSE /\ run'.ctx.slack = 0
        /\ run'.status = (IF answered' = "deny" THEN "canceled" ELSE "queued")
        /\ Reached(run'.ctx, run.step)
        /\ \A i \in Steps : i < run.step => run'.ctx.answer[i] = run.ctx.answer[i]
    BY <1>6, DecisionWritten DEF Alive
  <2>2. \A w \in Workers : ~Executing(w)
    BY <2>1 DEF OneExecutes
  <2>3. SameBefore
    BY <1>0, <2>1, OneAsks DEF SameBefore
  <2>4. GateRow'
    <3>1. run.step - 1 \notin Gates
      BY <1>0, <2>1, OneAsks
    <3>2. Reached(run.ctx, run.step)'
      BY <1>0, <2>1 DEF Reached
    <3>3. Unused(run.ctx, run.step)'
      BY <2>1 DEF Unused
    <3>. QED
      BY <1>0, <2>1, <3>1, <3>2, <3>3 DEF GateInv, GateRow, Alive
  <2>5. GateTexts'
    <3>1. \A i \in texts : i - 1 \notin Gates
      BY <1>0, <2>1, OneAsks DEF GateInv, GateTexts
    <3>. QED
      BY <1>0, <3>1 DEF GateTexts
  <2>6. \A w \in Workers : Noting(w) => run'.ctx.slack # worker[w].step
    BY <1>0, <2>1 DEF Noting
  <2>7. run'.status \in {"queued", "canceled"} /\ run'.ctx.decision # "none"
    BY <2>1 DEF Owner
  <2>8. \A w \in Workers : worker[w].at = "park" => Executing(w)
    BY DEF Executing
  <2>. QED
    BY <1>2, <1>6, <2>1, <2>2, <2>3, <2>4, <2>5, <2>6, <2>7, <2>8
<1>7. ~Escalates /\ ~Replies /\ ~TakesOver /\ ~Releases
  <2>1. NoRouting.offered \notin Agents /\ NoRouting.at \notin Steps /\ NoRouting.by \notin Agents
    BY <1>0, NoAgentAssumption DEF NoRouting
  <2>. QED
    BY <1>0, <2>1 DEF Escalates, Replies, TakesOver, Releases, Placed, PlacedRow
<1>. QED
  BY <1>3, <1>4, <1>5, <1>6, <1>7 DEF Asks

LEMMA GateActs ==
    ASSUME Typed, OneExecutes, Placed, Visited, AsksOnce, Routes = {}, Unanswered, GateInv,
           NEW w \in Workers, Acts(w)
    PROVE  GateInv'
<1>. DEFINE c == worker[w].ctx
            n == worker[w].step
<1>0. /\ run.ctx \in Contexts /\ c \in Contexts /\ run.step \in Nat
      /\ \A u \in Workers : worker[u].step \in Nat
      /\ Steps \subseteq Nat \ {0} /\ Gates \subseteq Nat \ {0} /\ Gates \subseteq Steps
      /\ texts \subseteq Steps /\ answered \in {"none"} \cup Owner
      /\ Gates' = Gates /\ Steps' = Steps /\ plan' = plan /\ answered' = answered
  <2>1. /\ run \in Rows /\ run.ctx \in Contexts /\ plan \in Plans /\ run.step \in Places
        /\ texts \subseteq Steps /\ answered \in {"none"} \cup Owner
        /\ \A u \in Workers : worker[u].step \in Places /\ worker[u].ctx \in Contexts
    BY Current, RowTyped DEF Typed, RunTyped, WorldTyped
  <2>2. Steps \subseteq Nat \ {0} /\ Gates \subseteq Nat \ {0} /\ Gates \subseteq Steps
    BY <2>1, AskedSteps DEF Gates
  <2>3. run.step \in Nat /\ \A u \in Workers : worker[u].step \in Nat
    BY <2>1, PlanSteps DEF Places
  <2>4. Gates' = Gates /\ Steps' = Steps /\ plan' = plan
    BY PlanStays
  <2>. QED
    BY <2>1, <2>2, <2>3, <2>4 DEF Acts
<1>1. \A u \in Workers \ {w} : worker'[u] = worker[u]
  BY DEF Acts, Elsewhere
<1>2. /\ worker[w].at \in Holding => n \in Steps /\ plan[n] \in StepKinds
      /\ worker[w].at \in {"prompt", "stamp"} => n \in Gates
      /\ worker[w].at = "dial" => plan[n] = "call"
      /\ worker[w].at = "send" => plan[n] = "text"
  BY Current DEF Typed, WorkersTyped, OnAStep, Holding, Gates, Routes
<1>3. /\ NewContext(plan).routing = NoRouting
      /\ \A g, h \in Gates : g = h
  BY OneAsks DEF NewContext
<1>4. Executing(w) => /\ run.status \in {"running", "canceled"}
                      /\ \A u \in Workers \ {w} : ~Executing(u)
                      /\ Alive => Runs(w)
  BY OneRuns DEF Alive, Runs
<1>5. offers' = offers
  BY DEF Acts, Quits, Tells, Turns, Completes, Cools, Offering, Saves, GivesUp, HandsBack, Notes, Claims
<1>6. \A i \in texts' : i - 1 \in Gates => answered = "approve" /\ (Alive => i <= run.step)
  <2>1. \A i \in texts : i - 1 \in Gates => answered = "approve" /\ (Alive => i <= run.step)
    BY DEF GateInv, GateTexts
  <2>2. worker[w].at = "send" /\ n - 1 \in Gates => answered = "approve" /\ (Alive => n <= run.step)
    BY <1>0, <1>4 DEF GateInv, GateCopies, GateRuns, Executing
  <2>. QED
    BY <2>1, <2>2 DEF Acts
\* What the row has from before the gate is what the worker has.
<1>7. ASSUME Runs(w), run'.ctx = c, run'.step \in {run.step, n} PROVE SameBefore
  <2>1. run.step <= n
    BY <1>7 DEF Placed, PlacedWorkers
  <2>2. ASSUME NEW g \in Gates, NEW i \in Steps, g <= run.step, i < g
        PROVE  c.answer[i] = run.ctx.answer[i]
    <3>1. CASE run.ctx.answer[i] # "none"
      BY <1>7, <3>1 DEF Unanswered, AnswersCopied
    <3>2. CASE run.ctx.answer[i] = "none"
      <4>1. ~(run.step <= i)
        BY <1>0, <2>2
      <4>. QED
        BY <1>7, <2>2, <3>2, <4>1 DEF GateInv, GateRuns
    <3>. QED
      BY <3>1, <3>2
  <2>. QED
    <3>1. ASSUME NEW g \in Gates, g <= run.step PROVE g <= run'.step
      <4>1. g \in Nat /\ run.step \in Nat /\ n \in Nat
        BY <1>0
      <4>2. g <= n
        BY <2>1, <3>1, <4>1
      <4>. QED
        BY <1>7, <3>1, <4>2
    <3>2. run'.ctx.answer = c.answer
      BY <1>7
    <3>. HIDE DEF c, n
    <3>. QED
      BY <2>2, <3>1, <3>2 DEF SameBefore
\* The row stays, and this worker goes on, or is done.
<1>8. ASSUME RowStays, worker'[w].ctx.routing = NoRouting,
             Executing(w)' =>
                /\ worker'[w].ctx.decision \in {"none", answered} \ {"deny"}
                /\ Reached(worker'[w].ctx, worker'[w].step) /\ Unused(worker'[w].ctx, worker'[w].step)
                /\ worker'[w].step - 1 \in Gates => answered = "approve",
             worker'[w].at = "park" /\ worker'[w].step \in Gates => worker'[w].ctx.decision = "none",
             Runs(w)' =>
                /\ \A i \in Steps : /\ \E g \in Gates : i < g
                                    /\ run.ctx.answer[i] = "none" /\ worker'[w].ctx.answer[i] # "none"
                                    => run.step <= i
                /\ run.ctx.decision \in {"none", worker'[w].ctx.decision}
                /\ worker'[w].at \in {"begin", "check", "step", "send"} /\ worker'[w].step - 1 \in Gates
                      => run.step = worker'[w].step,
             Noting(w)' => Noting(w) /\ worker'[w].ctx = c /\ worker'[w].step = n,
             Runs(w)' => \A u \in Workers \ {w} : Noting(u) =>
                /\ worker'[w].ctx.slack # worker[u].step
                /\ worker'[w].step <= worker[u].step =>
                      /\ worker'[w].ctx.decision # "none" /\ ~worker'[w].ctx.consumed
                      /\ worker'[w].at # "park"
      PROVE  GateInv'
  <2>1. run' = run /\ visitor' = visitor
    BY <1>8 DEF RowStays
  <2>2. GateRow' /\ GateTexts'
    BY <1>0, <1>5, <1>6, <2>1 DEF GateInv, GateRow, GateTexts, Alive, Reached, Unused
  <2>3. NotesOlder' /\ GateVisitors'
    <3>1. SameBefore
      BY <2>1 DEF SameBefore
    <3>2. \A u \in Workers : Noting(u)' =>
             worker'[u].ctx = worker[u].ctx /\ worker'[u].step = worker[u].step /\ Noting(u)
      BY <1>0, <1>1, <1>8 DEF Noting
    <3>. QED
      BY <1>0, <2>1, <3>1, <3>2, OldStay DEF GateInv
  <2>4. GateCopies'
    BY <1>0, <1>1, <1>8 DEF GateInv, GateCopies, Executing, Reached, Unused
  <2>5. GateRuns'
    BY <1>0, <1>1, <1>8, <2>1 DEF GateInv, GateRuns, Executing, Runs
  <2>6. GateNotes'
    <3>. SUFFICES ASSUME NEW u \in Workers, Noting(u)'
                  PROVE  /\ worker'[u].ctx.decision = "none" /\ ~worker'[u].ctx.consumed
                         /\ run'.status # "canceled" => run'.ctx.slack # worker'[u].step
                         /\ Alive' /\ run'.step <= worker'[u].step /\ run'.status # "awaiting_approval"
                               => run'.ctx.decision # "none" /\ ~run'.ctx.consumed
                         /\ \A v \in Workers : Noting(v)' => v = u
                         /\ \A v \in Workers : Runs(v)' =>
                               /\ worker'[v].ctx.slack # worker'[u].step
                               /\ worker'[v].step <= worker'[u].step =>
                                     /\ worker'[v].ctx.decision # "none" /\ ~worker'[v].ctx.consumed
                                     /\ worker'[v].at # "park"
      BY DEF GateNotes
    <3>1. Noting(u) /\ worker'[u].ctx = worker[u].ctx /\ worker'[u].step = worker[u].step
      BY <1>0, <1>1, <1>8 DEF Noting
    <3>2. /\ worker[u].ctx.decision = "none" /\ ~worker[u].ctx.consumed
          /\ run.status # "canceled" => run.ctx.slack # worker[u].step
          /\ Alive /\ run.step <= worker[u].step /\ run.status # "awaiting_approval"
                               => run.ctx.decision # "none" /\ ~run.ctx.consumed
          /\ \A v \in Workers : Noting(v) => v = u
      BY <3>1 DEF GateInv, GateNotes
    <3>3. \A v \in Workers : Noting(v)' => v = u
      BY <1>0, <1>1, <1>8, <3>2 DEF Noting
    <3>4. Alive' = Alive
      BY <2>1 DEF Alive
    <3>5. ASSUME NEW v \in Workers, Runs(v)'
          PROVE  /\ worker'[v].ctx.slack # worker'[u].step
                 /\ worker'[v].step <= worker'[u].step =>
                       /\ worker'[v].ctx.decision # "none" /\ ~worker'[v].ctx.consumed
                       /\ worker'[v].at # "park"
      <4>1. CASE v = w
        <5>1. u # w
          BY <3>5, <4>1 DEF Noting, Runs, Executing
        <5>. QED
          BY <1>8, <3>1, <3>5, <4>1, <5>1
      <4>2. CASE v # w
        <5>1. worker'[v] = worker[v] /\ Runs(v)
          BY <1>1, <2>1, <3>5, <4>2 DEF Runs, Executing
        <5>. QED
          BY <3>1, <5>1 DEF GateInv, GateNotes
      <4>. QED
        BY <4>1, <4>2
    <3>. QED
      BY <2>1, <3>1, <3>2, <3>3, <3>4, <3>5
  <2>. QED
    BY <2>2, <2>3, <2>4, <2>5, <2>6 DEF GateInv

<1>9. CASE Quits(w)
  <2>1. RowStays /\ worker'[w].at = "idle" /\ worker'[w].ctx.routing = NoRouting
    BY <1>3, <1>9 DEF Quits
  <2>. QED
    BY <1>8, <2>1 DEF Runs, Executing, Noting
<1>10. CASE Turns(w)
  <2>1. /\ worker'[w].ctx = c /\ worker'[w].step = n /\ RowStays
        /\ Turned(worker[w], worker'[w].at)
    BY <1>10 DEF Turns, CopyStays
  <2>2. /\ Executing(w)' => Executing(w)
        /\ Runs(w)' => Runs(w)
        /\ Noting(w)' => Noting(w)
    BY <1>0, <2>1 DEF Turned, Executing, Runs, RowStays, Noting
  <2>3. worker'[w].at = "park" /\ n \in Gates => Undecided(c) /\ Executing(w)
    BY <1>2, <2>1 DEF Turned, Gates, Executing
  <2>4. worker'[w].at = "park" /\ n \in Gates => c.decision = "none"
    BY <1>0, <2>3 DEF Undecided, GateInv, GateCopies, Unused
  <2>5. ASSUME NEW u \in Workers \ {w}, Noting(u), Runs(w)'
        PROVE  /\ c.slack # worker[u].step
               /\ n <= worker[u].step => /\ c.decision # "none" /\ ~c.consumed
                                         /\ worker'[w].at # "park"
    <3>1. /\ c.slack # worker[u].step
          /\ n <= worker[u].step => c.decision # "none" /\ ~c.consumed
      BY <2>2, <2>5 DEF GateInv, GateNotes
    <3>2. n <= worker[u].step => n \in Gates
      <4>1. worker[u].step \in Gates /\ worker[u].step <= run.step
        BY <2>2, <2>5 DEF Noting, GateInv, NotesOlder, Older, Runs
      <4>2. run.step <= n
        BY <2>2, <2>5 DEF Placed, PlacedWorkers
      <4>. QED
        BY <1>0, <4>1, <4>2
    <3>. QED
      BY <2>4, <3>1, <3>2
  <2>6. Runs(w)' /\ worker'[w].at \in {"begin", "check", "step", "send"}
           => worker[w].at \in {"begin", "check", "step", "send"}
    BY <2>1 DEF Turned, Runs, RowStays
  <2>7. c.routing = NoRouting
    BY DEF GateInv, GateCopies
  <2>8. Executing(w)' => /\ c.decision \in {"none", answered} \ {"deny"}
                         /\ Reached(c, n) /\ Unused(c, n)
                         /\ n - 1 \in Gates => answered = "approve"
    BY <2>2 DEF GateInv, GateCopies
  <2>9. Runs(w)' => /\ \A i \in Steps : /\ \E g \in Gates : i < g
                                        /\ run.ctx.answer[i] = "none" /\ c.answer[i] # "none"
                                        => run.step <= i
                    /\ run.ctx.decision \in {"none", c.decision}
                    /\ worker'[w].at \in {"begin", "check", "step", "send"} /\ n - 1 \in Gates
                          => run.step = n
    BY <2>2, <2>6 DEF GateInv, GateRuns
  <2>. QED
    BY <1>8, <2>1, <2>2, <2>4, <2>5, <2>7, <2>8, <2>9
<1>11. CASE Completes(w) \/ Cools(w)
  <2>. DEFINE d == worker'[w].ctx
              m == worker'[w].step
  <2>1. /\ RowStays /\ Executing(w) /\ worker'[w].at \in {"advance", "check"}
        /\ n \in Steps
    BY <1>0, <1>11 DEF Completes, Cools, Executing
  <2>2. Runs(w)' => Runs(w) /\ run.step <= n
    BY <2>1 DEF Runs, RowStays, Placed, PlacedWorkers
  <2>3. /\ c.routing = NoRouting /\ c.decision \in {"none", answered} \ {"deny"}
        /\ Reached(c, n) /\ Unused(c, n)
    BY <2>1 DEF GateInv, GateCopies
  <2>4. Runs(w) => /\ run.ctx.decision \in {"none", c.decision}
                   /\ \A i \in Steps : /\ \E g \in Gates : i < g
                                       /\ run.ctx.answer[i] = "none" /\ c.answer[i] # "none"
                                       => run.step <= i
                   /\ \A u \in Workers \ {w} : Noting(u) =>
                         /\ c.slack # worker[u].step
                         /\ n <= worker[u].step => c.decision # "none" /\ ~c.consumed
    BY DEF GateInv, GateRuns, GateNotes
  <2>5. \A u \in Workers : Noting(u) => worker[u].step \in Gates
    BY DEF Noting
  \* Past the step, and not past the gate by this.
  <2>6. ASSUME n \notin Gates, m = n + 1, worker'[w].at = "advance",
               d.routing = c.routing, d.decision = c.decision, d.slack = c.slack,
               d.consumed = c.consumed,
               \A i \in Steps \ {n} : d.answer[i] = c.answer[i]
        PROVE  GateInv'
    <3>1. Reached(d, m)
      BY <1>0, <2>1, <2>3, <2>6 DEF Reached
    <3>2. Unused(d, m)
      BY <1>0, <2>3, <2>6 DEF Unused
    <3>3. m - 1 \notin Gates
      BY <1>0, <2>6
    <3>4. Runs(w)' => \A i \in Steps : /\ \E g \in Gates : i < g
                                       /\ run.ctx.answer[i] = "none" /\ d.answer[i] # "none"
                                       => run.step <= i
      BY <2>2, <2>4, <2>6
    <3>5. Runs(w)' => \A u \in Workers \ {w} : Noting(u) =>
             /\ d.slack # worker[u].step
             /\ m <= worker[u].step => d.decision # "none" /\ ~d.consumed
      BY <1>0, <2>2, <2>4, <2>5, <2>6
    <3>6. Runs(w)' => run.ctx.decision \in {"none", d.decision}
      BY <2>2, <2>4, <2>6
    <3>. HIDE DEF d, m
    <3>. QED
      BY <1>8, <2>1, <2>3, <2>6, <3>1, <3>2, <3>3, <3>4, <3>5, <3>6 DEF d, m, Noting
  \* Past the gate.
  <2>7. ASSUME n \in Gates, m \in {n + 1, n + 2}, d.routing = c.routing,
               d.decision = c.decision, d.slack = c.slack, d.answer = c.answer,
               m = n + 1 => worker'[w].at = "advance" /\ c.decision \notin {"none", "skip"}
        PROVE  GateInv'
    <3>1. Reached(d, m)
      BY <1>0, <2>1, <2>3, <2>7 DEF Reached
    <3>2. Unused(d, m)
      BY <1>0, <1>3, <2>7 DEF Unused
    <3>3. m - 1 \in Gates => m = n + 1 /\ answered = "approve"
      BY <1>0, <1>3, <2>3, <2>7 DEF Owner
    <3>4. \A u \in Workers : Noting(u) => ~(m <= worker[u].step)
      BY <1>0, <1>3, <2>5, <2>7
    <3>5. Runs(w)' => \A i \in Steps : /\ \E g \in Gates : i < g
                                       /\ run.ctx.answer[i] = "none" /\ d.answer[i] # "none"
                                       => run.step <= i
      BY <2>2, <2>4, <2>7
    <3>6. Runs(w)' => /\ run.ctx.decision \in {"none", d.decision}
                      /\ \A u \in Workers \ {w} : Noting(u) => d.slack # worker[u].step
      BY <2>2, <2>4, <2>7
    <3>. HIDE DEF d, m
    <3>. QED
      BY <1>8, <2>1, <2>3, <2>7, <3>1, <3>2, <3>3, <3>4, <3>5, <3>6 DEF d, m, Noting
  <2>8. CASE Used(worker[w], worker'[w]) /\ worker'[w].at = "advance"
    <3>1. /\ n \in Gates /\ c.decision # "none" /\ d = [c EXCEPT !.consumed = TRUE]
          /\ m = n + (IF c.decision = "skip" THEN 2 ELSE 1)
      BY <2>1, <2>8 DEF Used, Gates
    <3>. QED
      BY <1>0, <2>7, <2>8, <3>1, FieldsOf
  <2>9. CASE Outcome(worker[w], worker'[w]) /\ worker'[w].at = "advance"
    <3>1. PICK a \in Answers : d = [c EXCEPT !.answer[n] = a]
      BY <2>9 DEF Outcome
    <3>2. n \notin Gates /\ m = n + 1
      BY <2>9 DEF Outcome, Gates
    <3>. QED
      BY <1>0, <2>1, <2>6, <2>9, <3>1, <3>2, FieldsOf
  <2>10. CASE /\ plan[n] \in {"text", "wait", "call"} /\ worker'[w].at = "advance"
              /\ worker'[w].ctx = c /\ worker'[w].step = n + 1
    BY <2>6, <2>10 DEF Gates
  <2>11. CASE Cools(w)
    BY <1>0, <2>7, <2>11 DEF Cools
  <2>12. ~Routed(worker[w], worker'[w])
    BY <2>1 DEF Routed, Routes
  <2>. QED
    BY <1>11, <2>8, <2>9, <2>10, <2>11, <2>12 DEF Completes
<1>12. ~Offering(w)
  BY DEF Offering

<1>13. CASE Saves(w)
  <2>1. /\ Executing(w) /\ Runs(w) /\ \A u \in Workers \ {w} : ~Executing(u)
        /\ run.status = "running"
    BY <1>4, <1>13 DEF Saves, Executing, Runs
  <2>2. /\ run'.ctx = c /\ run'.step = n /\ run'.status \notin {"canceled", "failed"}
        /\ visitor' = Stale(visitor) /\ run.step <= n
    <3>1. worker[w].at = "park" => ParkedStatus(plan[n]) \notin {"canceled", "failed"}
      BY <1>2, <1>13 DEF Saves, ParkedStatus
    <3>. QED
      BY <1>13, <2>1, <3>1 DEF Saves, Placed, PlacedWorkers
  <2>3. /\ c.routing = NoRouting /\ c.decision \in {"none", answered} \ {"deny"}
        /\ Reached(c, n) /\ Unused(c, n) /\ (n - 1 \in Gates => answered = "approve")
        /\ worker[w].at = "park" /\ n \in Gates => c.decision = "none"
    BY <2>1 DEF GateInv, GateCopies
  \* Another prompt is not noted any more than this one is parked for.
  <2>4. \A u \in Workers \ {w} : Noting(u) =>
           /\ c.slack # worker[u].step
           /\ n <= worker[u].step => c.decision # "none" /\ ~c.consumed
           /\ worker[w].at = "park" => n \notin Gates
    <3>1. ASSUME NEW u \in Workers \ {w}, Noting(u)
          PROVE  /\ c.slack # worker[u].step
                 /\ n <= worker[u].step => /\ c.decision # "none" /\ ~c.consumed
                                           /\ worker[w].at # "park"
      BY <2>1, <3>1 DEF GateInv, GateNotes
    <3>2. ASSUME NEW u \in Workers, Noting(u), n \in Gates PROVE n <= worker[u].step
      BY <1>0, <1>3, <3>2 DEF Noting
    <3>. QED
      BY <3>1, <3>2
  <2>5. \/ worker'[w].at = "prompt" /\ worker'[w].ctx = c /\ worker'[w].step = n
           /\ worker[w].at = "park" /\ run'.status = ParkedStatus(plan[n])
        \/ worker'[w].at = "check" /\ worker'[w].ctx = c /\ worker'[w].step = n
           /\ run'.status = run.status
        \/ worker'[w].at = "idle" /\ worker'[w].ctx = NewContext(plan)
           /\ run'.status # "running"
    <3>1. worker[w].at = "park" => ParkedStatus(plan[n]) # "running"
      BY <1>2, <1>13 DEF Saves, ParkedStatus
    <3>. QED
      BY <1>13, <3>1 DEF Saves, CopyStays
  <2>6. Noting(w)' => /\ n \in Gates /\ worker[w].at = "park" /\ c.slack # n
                      /\ worker'[w].ctx = c /\ worker'[w].step = n
                      /\ run'.status = "awaiting_approval"
    BY <1>0, <2>5 DEF Noting, ParkedStatus, Gates
  <2>7. Runs(w)' => worker'[w].at = "check" /\ worker'[w].ctx = c /\ worker'[w].step = n
    BY <2>5 DEF Runs, Executing
  <2>8. \A u \in Workers \ {w} : ~Executing(u)' /\ (Noting(u)' => Noting(u))
    BY <1>0, <1>1, <2>1 DEF Executing, Noting
  <2>9. GateRow'
    BY <1>0, <1>5, <2>2, <2>3 DEF GateInv, GateRow, Reached, Unused
  <2>10. GateCopies'
    <3>1. worker'[w].ctx.routing = NoRouting /\ (Executing(w)' => worker'[w].ctx = c /\ worker'[w].step = n)
          /\ worker'[w].at # "park"
      BY <1>3, <2>3, <2>5 DEF Executing
    <3>. QED
      BY <1>0, <1>1, <2>3, <2>8, <3>1 DEF GateInv, GateCopies, Executing, Reached, Unused
  <2>11. GateRuns'
    <3>. SUFFICES ASSUME NEW u \in Workers, Runs(u)'
                  PROVE  /\ \A i \in Steps : /\ run'.ctx.answer[i] = "none"
                                             => worker'[u].ctx.answer[i] = "none"
                         /\ run'.ctx.decision \in {"none", worker'[u].ctx.decision}
                         /\ run'.step = worker'[u].step
      BY <1>0 DEF GateRuns
    <3>1. u = w
      BY <2>8 DEF Runs
    <3>. QED
      BY <2>2, <2>7, <3>1
  <2>12. SameBefore
    BY <1>7, <2>1, <2>2
  <2>13. NotesOlder' /\ GateVisitors'
    <3>1. Older(worker[w].ctx, worker[w].step)' \/ ~Noting(w)'
      BY <1>0, <2>2, <2>3, <2>6 DEF Older, Reached
    <3>2. \A u \in Workers \ {w} : Noting(u)' =>
             worker'[u].ctx = worker[u].ctx /\ worker'[u].step = worker[u].step /\ Noting(u)
      BY <1>1, <2>8
    <3>3. Cleared
      BY <2>2, StaleClears
    <3>4. run.status # "canceled"
      BY <2>1
    <3>. QED
      BY <1>0, <2>12, <3>1, <3>2, <3>3, <3>4, OldStay DEF Cleared, GateInv
  <2>14. GateNotes'
    <3>. SUFFICES ASSUME NEW u \in Workers, Noting(u)'
                  PROVE  /\ worker'[u].ctx.decision = "none" /\ ~worker'[u].ctx.consumed
                         /\ run'.status # "canceled" => run'.ctx.slack # worker'[u].step
                         /\ Alive' /\ run'.step <= worker'[u].step /\ run'.status # "awaiting_approval"
                               => run'.ctx.decision # "none" /\ ~run'.ctx.consumed
                         /\ \A v \in Workers : Noting(v)' => v = u
                         /\ \A v \in Workers : Runs(v)' =>
                               /\ worker'[v].ctx.slack # worker'[u].step
                               /\ worker'[v].step <= worker'[u].step =>
                                     /\ worker'[v].ctx.decision # "none" /\ ~worker'[v].ctx.consumed
                                     /\ worker'[v].at # "park"
      BY DEF GateNotes
    <3>1. \A v \in Workers : Noting(v)' => v = u
      <4>1. \A x, v \in Workers : Noting(x) /\ Noting(v) => x = v
        BY DEF GateInv, GateNotes
      <4>. QED
        BY <2>4, <2>6, <2>8, <4>1
    <3>2. CASE u = w
      <4>1. \A v \in Workers : ~Runs(v)'
        BY <2>8, <3>2 DEF Runs, Noting, Executing
      <4>2. ~c.consumed
        BY <1>0, <2>3, <2>6, <3>2 DEF Unused
      <4>. QED
        BY <2>2, <2>3, <2>6, <3>1, <3>2, <4>1, <4>2
    <3>3. CASE u # w
      <4>1. Noting(u) /\ worker'[u] = worker[u]
        BY <1>1, <2>8, <3>3
      <4>2. worker[u].ctx.decision = "none" /\ ~worker[u].ctx.consumed
        BY <4>1 DEF GateInv, GateNotes
      <4>3. \A v \in Workers : Runs(v)' =>
               v = w /\ worker'[v].at = "check" /\ worker'[v].ctx = c /\ worker'[v].step = n
        BY <2>7, <2>8 DEF Runs
      <4>. QED
        BY <2>2, <2>4, <3>1, <3>3, <4>1, <4>2, <4>3
    <3>. QED
      BY <3>2, <3>3
  <2>15. GateTexts'
    <3>1. texts' = texts /\ Alive
      BY <1>13, <2>1 DEF Saves, Acts, Alive
    <3>. QED
      <4>1. ASSUME NEW i \in texts, i - 1 \in Gates PROVE answered = "approve" /\ i <= n
        <5>1. i <= run.step /\ i \in Nat /\ answered = "approve"
          BY <1>0, <1>6, <3>1, <4>1
        <5>. QED
          BY <1>0, <2>2, <5>1
      <4>. HIDE DEF n
      <4>. QED
        BY <1>0, <2>2, <3>1, <4>1 DEF GateTexts
  <2>. QED
    BY <2>9, <2>10, <2>11, <2>13, <2>14, <2>15 DEF GateInv

<1>14. CASE GivesUp(w) \/ HandsBack(w)
  <2>1. /\ Executing(w) /\ Runs(w) /\ \A u \in Workers \ {w} : ~Executing(u)
        /\ run.status = "running" /\ worker'[w].at = "idle" /\ worker'[w].ctx.routing = NoRouting
        /\ visitor' = Stale(visitor) /\ Alive
    BY <1>3, <1>4, <1>14 DEF GivesUp, HandsBack, Executing, Runs, Alive
  <2>2. /\ run'.step = run.step /\ run'.status \in {"queued", "canceled", "failed"}
        /\ \/ run'.ctx = run.ctx
           \/ run'.ctx = c /\ run'.status = "failed"
    BY <1>14 DEF GivesUp, HandsBack
  <2>3. SameBefore
    BY <1>7, <2>1, <2>2 DEF SameBefore
  <2>4. GateRow' /\ GateTexts'
    <3>1. c.routing = NoRouting /\ c.decision \in {"none", answered}
      BY <2>1 DEF GateInv, GateCopies
    <3>. QED
      BY <1>0, <1>5, <1>6, <2>1, <2>2, <3>1 DEF GateInv, GateRow, GateTexts, Alive, Reached, Unused
  <2>5. GateCopies'
    BY <1>0, <1>1, <2>1 DEF GateInv, GateCopies, Executing
  <2>6. GateRuns'
    BY <2>2 DEF GateRuns, Runs
  <2>7. \A u \in Workers : Noting(u)' =>
           u # w /\ worker'[u] = worker[u] /\ Noting(u)
    BY <1>0, <1>1, <2>1 DEF Noting
  <2>8. NotesOlder' /\ GateVisitors'
    <3>1. Cleared
      BY <2>1, StaleClears
    <3>. QED
      BY <1>0, <2>1, <2>3, <2>7, <3>1, OldStay DEF Cleared, GateInv
  <2>9. GateNotes'
    <3>1. \A u \in Workers : Noting(u) =>
             /\ run.ctx.slack # worker[u].step
             /\ c.slack # worker[u].step
             /\ run.step <= worker[u].step => run.ctx.decision # "none" /\ ~run.ctx.consumed
      BY <2>1 DEF GateInv, GateNotes
    <3>2. \A u \in Workers : ~Runs(u)'
      BY <2>2 DEF Runs
    <3>3. Alive' => run'.ctx = run.ctx
      BY <2>2 DEF Alive
    <3>. QED
      BY <2>2, <2>7, <3>1, <3>2, <3>3 DEF GateInv, GateNotes
  <2>. QED
    BY <2>4, <2>5, <2>6, <2>8, <2>9 DEF GateInv
<1>15. CASE Notes(w)
  <2>1. /\ Noting(w) /\ n \in Gates /\ run.status # "canceled" /\ Older(c, n)
        /\ c.decision = "none" /\ ~c.consumed /\ c.routing = NoRouting
        /\ \A u \in Workers : Noting(u) => u = w
    BY <1>15 DEF Notes, Placed, PlacedWorkers, Noting, GateInv, GateNotes, NotesOlder, GateCopies
  <2>2. /\ run'.ctx.answer = c.answer /\ run'.ctx.decision = "none" /\ ~run'.ctx.consumed
        /\ run'.ctx.routing = NoRouting
        /\ run'.step = run.step /\ run'.status = run.status /\ visitor' = Stale(visitor)
        /\ worker'[w].at = "idle" /\ worker'[w].ctx.routing = NoRouting
    BY <1>0, <1>3, <1>15, <2>1, FieldsOf DEF Notes
  <2>3. SameBefore
    BY <1>0, <1>3, <2>1, <2>2 DEF SameBefore, Older
  <2>4. GateRow'
    <3>1. Reached(run.ctx, run.step)'
      BY <1>0, <2>1, <2>2 DEF Older, Reached
    <3>2. Unused(run.ctx, run.step)'
      BY <2>2 DEF Unused
    <3>. QED
      BY <1>0, <1>5, <2>2, <3>1, <3>2 DEF GateInv, GateRow, Alive
  <2>5. GateTexts'
    BY <1>0, <1>6, <2>2 DEF GateTexts, Alive
  <2>6. GateCopies'
    BY <1>0, <1>1, <2>2 DEF GateInv, GateCopies, Executing, Reached, Unused
  <2>7. GateRuns'
    <3>. SUFFICES ASSUME NEW u \in Workers, Runs(u)'
                  PROVE  /\ \A i \in Steps : /\ \E g \in Gates : i < g
                                             /\ run'.ctx.answer[i] = "none" /\ worker'[u].ctx.answer[i] # "none"
                                             => run'.step <= i
                         /\ run'.ctx.decision \in {"none", worker'[u].ctx.decision}
                         /\ worker'[u].at \in {"begin", "check", "step", "send"} /\ worker'[u].step - 1 \in Gates
                               => run'.step = worker'[u].step
      BY <1>0 DEF GateRuns
    <3>1. u # w /\ worker'[u] = worker[u] /\ Runs(u)
      BY <1>1, <2>2 DEF Runs, Executing
    <3>2. \A i \in Steps : (\E g \in Gates : i < g) => run'.ctx.answer[i] = run.ctx.answer[i]
      BY <1>3, <2>1, <2>2 DEF Older
    <3>. QED
      BY <2>2, <3>1, <3>2 DEF GateInv, GateRuns
  <2>8. \A u \in Workers : ~Noting(u)'
    BY <1>0, <1>1, <2>1, <2>2 DEF Noting
  <2>9. NotesOlder' /\ GateVisitors'
    <3>1. Cleared
      BY <2>2, StaleClears
    <3>. QED
      BY <1>0, <2>1, <2>3, <2>8, <3>1, OldStay DEF Cleared, GateInv
  <2>10. GateNotes'
    BY <2>8 DEF GateNotes
  <2>. QED
    BY <2>4, <2>5, <2>6, <2>7, <2>9, <2>10 DEF GateInv
<1>16. CASE Claims(w)
  <2>1. \A u \in Workers : ~Executing(u)
    BY <1>16 DEF Claims, OneExecutes
  <2>2. /\ run'.ctx = run.ctx /\ run'.step = run.step /\ run'.status = "running"
        /\ run.status = "queued" /\ Alive /\ visitor' = Stale(visitor)
        /\ worker'[w].at = "begin" /\ worker'[w].step = run.step /\ worker'[w].ctx = run.ctx
    BY <1>16 DEF Claims, Alive
  <2>3. \A u \in Workers \ {w} : worker'[u] = worker[u] /\ ~Runs(u)' /\ (Noting(u)' => Noting(u))
    BY <1>0, <1>1, <2>1 DEF Runs, Executing, Noting
  <2>4. ~Noting(w)'
    BY <2>2 DEF Noting
  <2>5. GateRow' /\ GateTexts'
    BY <1>0, <1>5, <1>6, <2>2 DEF GateInv, GateRow, GateTexts, Alive, Reached, Unused
  <2>6. GateCopies'
    BY <1>0, <1>1, <2>1, <2>2 DEF GateInv, GateRow, GateCopies, Executing, Reached, Unused
  <2>7. GateRuns'
    <3>. SUFFICES ASSUME NEW u \in Workers, Runs(u)'
                  PROVE  worker'[u].ctx = run'.ctx /\ worker'[u].step = run'.step
      BY <1>0 DEF GateRuns
    <3>. QED
      BY <2>2, <2>3
  <2>8. NotesOlder' /\ GateVisitors'
    <3>1. SameBefore
      BY <2>2 DEF SameBefore
    <3>2. Cleared
      BY <2>2, StaleClears
    <3>. QED
      BY <1>0, <2>2, <2>3, <2>4, <3>1, <3>2, OldStay DEF Cleared, GateInv
  <2>9. GateNotes'
    <3>. SUFFICES ASSUME NEW u \in Workers, Noting(u)'
                  PROVE  /\ worker'[u].ctx.decision = "none" /\ ~worker'[u].ctx.consumed
                         /\ run'.ctx.slack # worker'[u].step
                         /\ run'.step <= worker'[u].step
                               => run'.ctx.decision # "none" /\ ~run'.ctx.consumed
                         /\ \A v \in Workers : Noting(v)' => v = u
                         /\ \A v \in Workers : Runs(v)' =>
                               worker'[v].ctx = run'.ctx /\ worker'[v].step = run'.step
                               /\ worker'[v].at # "park"
      BY DEF GateNotes
    <3>1. u # w /\ Noting(u) /\ worker'[u] = worker[u]
      BY <2>3, <2>4
    <3>2. /\ worker[u].ctx.decision = "none" /\ ~worker[u].ctx.consumed
          /\ run.ctx.slack # worker[u].step
          /\ run.step <= worker[u].step => run.ctx.decision # "none" /\ ~run.ctx.consumed
          /\ \A v \in Workers : Noting(v) => v = u
      BY <2>2, <3>1 DEF GateInv, GateNotes
    <3>3. \A v \in Workers : Noting(v)' => v = u
      BY <2>3, <2>4, <3>2
    <3>. QED
      BY <2>2, <2>3, <3>1, <3>2, <3>3
  <2>. QED
    BY <2>5, <2>6, <2>7, <2>8, <2>9 DEF GateInv
<1>. QED
  BY <1>9, <1>10, <1>11, <1>12, <1>13, <1>14, <1>15, <1>16 DEF Acts

-----------------------------------------------------------------------------
(* Both together. *)

CopyInv ==
    /\ Typed /\ OneExecutes /\ Placed /\ Visited
    /\ AsksOnce => /\ Unanswered
                   /\ Gates = {} => RouteInv
                   /\ Routes = {} => GateInv

LEMMA OneKind == AsksOnce => Gates = {} \/ Routes = {}
BY OneAsks DEF Gates, Routes

LEMMA CopyInvInit == Init => CopyInv
BY InitTyped, OneExecutesInit, PlacedInit, UnansweredInit, RouteInit, GateInit DEF CopyInv

LEMMA CopyInvStays == CopyInv /\ [Next]_vars => CopyInv'
<1>. SUFFICES ASSUME CopyInv, [Next]_vars PROVE CopyInv'
  OBVIOUS
<1>1. Typed /\ OneExecutes /\ Placed /\ Visited
  BY DEF CopyInv
<1>2. (Typed /\ OneExecutes /\ Placed /\ Visited)'
  BY <1>1, NextTyped, OneExecutesStays, PlacedStays, VisitedStays DEF Placed
<1>3. Asks \/ \E w \in Workers : Acts(w)
  BY <1>1, NextActs DEF Placed
<1>4. Gates' = Gates /\ Routes' = Routes /\ AsksOnce' = AsksOnce
  BY <1>3, PlanStays
<1>5. ASSUME AsksOnce PROVE Unanswered' /\ (Gates = {} => RouteInv') /\ (Routes = {} => GateInv')
  <2>1. NotesOlder
    <3>1. CASE Gates = {}
      BY <3>1 DEF NotesOlder, Noting
    <3>2. CASE Routes = {}
      BY <1>5, <3>2 DEF CopyInv, GateInv
    <3>. QED
      BY <1>5, <3>1, <3>2, OneKind
  <2>2. Unanswered'
    BY <1>1, <1>5, <2>1, UnansweredStays DEF CopyInv
  <2>3. Gates = {} => RouteInv'
    BY <1>1, <1>3, <1>5, RouteAsked, RouteActs DEF CopyInv
  <2>4. Routes = {} => GateInv'
    BY <1>1, <1>3, <1>5, GateAsked, GateActs DEF CopyInv
  <2>. QED
    BY <2>2, <2>3, <2>4
<1>. QED
  BY <1>2, <1>4, <1>5 DEF CopyInv

\* The invariant holds in every reachable state, for any flow.
THEOREM CopyInvHolds == Spec => []CopyInv
BY CopyInvInit, CopyInvStays, PTL DEF Spec

-----------------------------------------------------------------------------
(* What follows of the gate and of the offers. *)

LEMMA GateInvHolds == CopyInv => GateHolds
<1>. SUFFICES ASSUME CopyInv, AsksOnce, NEW i \in texts, i > 1, plan[i - 1] = "gate"
              PROVE  answered = "approve"
  BY DEF GateHolds
<1>1. plan \in Plans /\ texts \subseteq Steps
  BY DEF CopyInv, Typed, WorldTyped
<1>2. i - 1 \in Gates
  BY <1>1, PlanSteps DEF Gates
<1>3. GateInv
  BY <1>2, OneKind DEF CopyInv
<1>. QED
  BY <1>2, <1>3 DEF GateInv, GateTexts

LEMMA OffersInvHolds == CopyInv => OffersAreRecorded
<1>. SUFFICES ASSUME CopyInv, AsksOnce, NEW a \in Agents
              PROVE  /\ offers[a] <= 1
                     /\ offers[a] > 0 /\ run.status # "canceled" => a \in run.ctx.routing.log
  BY DEF OffersAreRecorded
<1>1. CASE Gates = {}
  BY <1>1 DEF CopyInv, RouteInv, RouteOffers, OffersMade
<1>2. CASE Routes = {}
  BY <1>2 DEF CopyInv, GateInv, GateRow
<1>. QED
  BY <1>1, <1>2, OneKind

\* The step behind a gate is not sent before the owner approved it, whatever
\* was written late, taken back by a note, or run again after a crash.
THEOREM GatesHold == Spec => []GateHolds
BY CopyInvHolds, GateInvHolds, PTL

\* A teammate is texted one offer, and the row has it in its log, however often
\* the route step is run again.
THEOREM OffersRecorded == Spec => []OffersAreRecorded
BY CopyInvHolds, OffersInvHolds, PTL

-----------------------------------------------------------------------------
(* What a step does to what was answered. *)

\* The note of a prompt is the one write of an older context.
LEMMA NoteOverwrites == ASSUME CopyInv, AsksOnce, NEW w \in Workers, Notes(w) PROVE Overwritten
<1>1. Noting(w) /\ run.status # "canceled" /\ worker[w].ctx \in Contexts
  BY Current DEF Notes, CopyInv, Placed, PlacedWorkers
<1>2. Routes = {}
  BY <1>1, OneKind DEF Noting
<1>3. run.ctx.slack # worker[w].step
  BY <1>1, <1>2 DEF CopyInv, GateInv, GateNotes
<1>4. run'.ctx.slack = worker[w].step
  BY <1>1, FieldsOf DEF Notes
<1>. QED
  BY <1>3, <1>4 DEF Overwritten

\* Any other step of a worker leaves the row's context or writes its own copy.
LEMMA ActWrites ==
    ASSUME CopyInv, NEW w \in Workers, Acts(w)
    PROVE  \/ run'.ctx = run.ctx \/ Notes(w)
           \/ run'.ctx = worker[w].ctx /\ Runs(w)
<1>1. CASE Saves(w) \/ GivesUp(w)
  <2>1. Executing(w) /\ run.status # "canceled" /\ run'.ctx = worker[w].ctx
    BY <1>1 DEF Saves, GivesUp, Executing
  <2>. QED
    BY <2>1 DEF CopyInv, OneExecutes, Runs
<1>. QED
  BY <1>1 DEF Acts, Quits, Turns, Completes, Cools, Offering, RowStays, HandsBack, Claims

\* Of the other steps a decision alone writes another row than the run's.
LEMMA AskedWrites ==
    ASSUME CopyInv, AsksOnce, Asks
    PROVE  \/ run'.ctx = run.ctx
           \/ Decides /\ Routes = {} /\ GateInv
           \/ /\ Resumes /\ run.step \in Steps
              /\ run'.ctx.routing = run.ctx.routing /\ run'.ctx.decision = run.ctx.decision
              /\ \A i \in Steps \ {run.step} : run'.ctx.answer[i] = run.ctx.answer[i]
           \/ /\ Escalates \/ Replies \/ TakesOver \/ Releases
              /\ run'.ctx.answer = run.ctx.answer /\ run'.ctx.decision = run.ctx.decision
              /\ \E r : run'.ctx = [run.ctx EXCEPT !.routing = r] /\ run'.ctx.routing = r
<1>0. run.ctx \in Contexts
  BY RowTyped DEF CopyInv, Typed, RunTyped
<1>1. CASE Keeps \/ Requeues
  BY <1>1 DEF Keeps, Requeues
<1>2. CASE Decides
  <2>1. Gates # {}
    BY <1>2 DEF Decides
  <2>. QED
    BY <1>2, <2>1, OneKind DEF CopyInv
<1>3. CASE Resumes
  <2>1. run.step \in Steps
    BY <1>3 DEF Resumes, CopyInv, Placed, PlacedRow
  <2>2. PICK a \in Answers : run'.ctx = [run.ctx EXCEPT !.answer[run.step] = a]
    BY <1>3 DEF Resumes
  <2>. QED
    BY <1>0, <1>3, <2>1, <2>2, FieldsOf
<1>4. CASE Escalates \/ Replies \/ TakesOver \/ Releases
  <2>1. PICK r : run'.ctx = [run.ctx EXCEPT !.routing = r]
    BY <1>4 DEF Escalates, Replies, TakesOver, Releases
  <2>. QED
    BY <1>0, <1>4, <2>1, FieldsOf
<1>. QED
  BY <1>1, <1>2, <1>3, <1>4 DEF Asks

KeepsAnswers ==
    AsksOnce => \/ Overwritten
                \/ \A i \in Steps : run.ctx.answer[i] # "none"
                                       => run'.ctx.answer[i] = run.ctx.answer[i]

LEMMA AnswersStay == CopyInv /\ [Next]_vars => KeepsAnswers
<1>. SUFFICES ASSUME CopyInv, [Next]_vars, AsksOnce, ~Overwritten,
                     NEW i \in Steps, run.ctx.answer[i] # "none"
              PROVE  run'.ctx.answer[i] = run.ctx.answer[i]
  BY DEF KeepsAnswers
<1>1. CASE Asks
  <2>1. CASE Decides /\ Routes = {} /\ GateInv
    <3>1. run.step \in Gates /\ \A j \in Steps : j < run.step => run'.ctx.answer[j] = run.ctx.answer[j]
      BY <2>1, DecisionWritten DEF CopyInv
    <3>2. run.status = "awaiting_approval"
      BY <2>1 DEF Decides
    <3>3. i <= run.step /\ i \notin Gates
      BY <2>1, <3>2 DEF GateInv, GateRow, Alive, Reached
    <3>4. Steps \subseteq Nat /\ Gates \subseteq Nat
      BY AskedSteps DEF CopyInv, Typed, WorldTyped
    <3>5. i # run.step /\ i \in Nat /\ run.step \in Nat /\ i <= run.step
      BY <3>1, <3>3, <3>4
    <3>6. i < run.step
      BY <3>5
    <3>. QED
      BY <3>1, <3>6
  <2>2. CASE Resumes /\ \A j \in Steps \ {run.step} : run'.ctx.answer[j] = run.ctx.answer[j]
    BY <2>2 DEF Resumes, CopyInv, Unanswered, UnansweredRow
  <2>. QED
    BY <1>1, <2>1, <2>2, AskedWrites
<1>2. ASSUME NEW w \in Workers, Acts(w) PROVE run'.ctx.answer[i] = run.ctx.answer[i]
  <2>1. ~Notes(w)
    BY NoteOverwrites
  <2>2. Runs(w) => worker[w].ctx.answer[i] = run.ctx.answer[i]
    BY DEF CopyInv, Unanswered, AnswersCopied
  <2>. QED
    BY <1>2, <2>1, <2>2, ActWrites
<1>. QED
  BY <1>1, <1>2, NextActs DEF CopyInv, Placed

\* What the lead or the call answered stays in the row: no deadline that passed
\* meanwhile, no late decision and no copy of a worker writes over it.
THEOREM AnswersKept == Spec => AnswersAreKept
<1>1. CopyInv /\ [Next]_vars => [KeepsAnswers]_vars
  BY AnswersStay
<1>. QED
  BY <1>1, CopyInvInit, CopyInvStays, PTL DEF Spec, AnswersAreKept, KeepsAnswers

KeepsDecision ==
    AsksOnce => \/ Overwritten \/ answered = "none"
                \/ run'.ctx.decision \in {run.ctx.decision, answered'}

LEMMA DecisionStays == CopyInv /\ [Next]_vars => KeepsDecision
<1>. SUFFICES ASSUME CopyInv, [Next]_vars, AsksOnce, ~Overwritten
              PROVE  run'.ctx.decision \in {run.ctx.decision, answered'}
  BY DEF KeepsDecision
<1>1. CASE Asks
  <2>1. CASE Decides /\ Routes = {} /\ GateInv
    BY <2>1, DecisionWritten DEF CopyInv
  <2>. QED
    BY <1>1, <2>1, AskedWrites
<1>2. ASSUME NEW w \in Workers, Acts(w), Runs(w), run'.ctx = worker[w].ctx
      PROVE  run'.ctx.decision \in {run.ctx.decision, answered'}
  <2>1. CASE Gates = {}
    BY <1>2, <2>1 DEF CopyInv, RouteInv, RouteRow, RouteCopies
  <2>2. CASE Routes = {}
    <3>1. /\ worker[w].ctx.decision \in {"none", answered}
          /\ run.ctx.decision \in {"none", worker[w].ctx.decision}
      BY <1>2, <2>2 DEF CopyInv, GateInv, GateCopies, GateRuns, Runs
    <3>2. answered' = answered
      BY <1>2 DEF Acts
    <3>. QED
      BY <1>2, <3>1, <3>2
  <2>. QED
    BY <2>1, <2>2, OneKind
<1>3. \A w \in Workers : ~Notes(w)
  BY NoteOverwrites
<1>. QED
  BY <1>1, <1>2, <1>3, NextActs, ActWrites DEF CopyInv, Placed

\* An accepted decision is not lost but to the note of the prompt, or a stop.
THEOREM DecisionsKept == Spec => LostOnlyToSlack
<1>1. CopyInv /\ [Next]_vars => [KeepsDecision]_vars
  BY DecisionStays
<1>. QED
  BY <1>1, CopyInvInit, CopyInvStays, PTL DEF Spec, LostOnlyToSlack, KeepsDecision

KeepsClaim ==
    LET r == run.ctx.routing
        n == run'.ctx.routing
    IN  AsksOnce => \/ Overwritten
                    \/ /\ r.event = "claim" => \/ n.event = "claim" \/ n.by = r.from
                                               \/ n.event = "reject" /\ n.from = r.from
                       /\ r.by # NoAgent => \/ n.by = r.by
                                            \/ r.event = "unclaim" /\ r.from = r.by

LEMMA ClaimStays == CopyInv /\ [Next]_vars => KeepsClaim
<1>. SUFFICES ASSUME CopyInv, [Next]_vars, AsksOnce, ~Overwritten
              PROVE  Follows(run.ctx.routing, run'.ctx.routing)
  BY DEF KeepsClaim, Follows
<1>1. Follows(run.ctx.routing, run.ctx.routing)
  BY DEF Follows
<1>2. CASE Routes = {}
  <2>1. GateInv /\ GateInv'
    <3>1. AsksOnce' /\ Routes' = Routes
      BY PlanStays, NextActs DEF CopyInv, Placed
    <3>. QED
      BY <1>2, <3>1, CopyInvStays DEF CopyInv
  <2>. QED
    BY <1>1, <2>1 DEF GateInv, GateRow
<1>3. CASE Gates = {}
  <2>0. RouteInv /\ run.ctx \in Contexts /\ run.ctx.routing \in Routings
    BY <1>3, RowTyped, ContextTyped DEF CopyInv, Typed, RunTyped
  <2>1. CASE Asks
    <3>1. ~Decides
      BY <1>3 DEF Decides
    <3>2. ASSUME Escalates, NEW n, run'.ctx.routing = n PROVE Follows(run.ctx.routing, n)
      BY <2>0, <3>2 DEF Escalates, RouteInv, RouteRow, Follows
    <3>3. ASSUME Replies PROVE Follows(run.ctx.routing, run'.ctx.routing)
      <4>1. PICK e \in {"claim", "reject"} :
                run'.ctx = [run.ctx EXCEPT !.routing = [run.ctx.routing EXCEPT !.event = e, !.from = run.ctx.routing.offered]]
        BY <3>3 DEF Replies
      <4>2. run'.ctx.routing = [run.ctx.routing EXCEPT !.event = e, !.from = run.ctx.routing.offered]
        BY <2>0, <4>1, FieldsOf
      <4>3. run'.ctx.routing.event = e /\ run'.ctx.routing.from = run.ctx.routing.offered
        BY <2>0, <4>2 DEF Routings
      <4>4. run.ctx.routing.offered # NoAgent
        BY <3>3, NoAgentAssumption DEF Replies
      <4>. QED
        BY <2>0, <4>3, <4>4 DEF RouteInv, RouteRow, Sound, Follows
    <3>4. ASSUME TakesOver PROVE Follows(run.ctx.routing, run'.ctx.routing)
      <4>1. PICK a, tried, late : run'.ctx = [run.ctx EXCEPT !.routing = Taken(run.ctx.routing, a, tried, late)]
        BY <3>4 DEF TakesOver
      <4>2. run'.ctx.routing = Taken(run.ctx.routing, a, tried, late)
        BY <2>0, <4>1, FieldsOf
      <4>3. run'.ctx.routing.event = "claim" /\ run.ctx.routing.by = NoAgent
        BY <2>0, <3>4, <4>2 DEF TakesOver, Taken, Routings
      <4>. QED
        BY <4>3 DEF Follows
    <3>5. ASSUME Releases PROVE Follows(run.ctx.routing, run'.ctx.routing)
      <4>1. run'.ctx.routing = [run.ctx.routing EXCEPT !.event = "unclaim", !.from = run.ctx.routing.by]
        BY <2>0, <3>5, FieldsOf DEF Releases
      <4>2. run'.ctx.routing.by = run.ctx.routing.by /\ run.ctx.routing.by # NoAgent
        BY <2>0, <3>5, <4>1, NoAgentAssumption DEF Releases, Routings
      <4>. QED
        BY <2>0, <4>2 DEF RouteInv, RouteRow, Sound, Follows
    <3>. QED
      BY <1>1, <2>1, <3>1, <3>2, <3>3, <3>4, <3>5, AskedWrites
  <2>2. ASSUME NEW w \in Workers, Acts(w) PROVE Follows(run.ctx.routing, run'.ctx.routing)
    <3>1. ~Notes(w)
      BY NoteOverwrites
    <3>2. Runs(w) => Follows(run.ctx.routing, worker[w].ctx.routing)
      BY <2>0 DEF RouteInv, RouteRuns
    <3>. QED
      BY <1>1, <2>2, <3>1, <3>2, ActWrites
  <2>. QED
    BY <2>1, <2>2, NextActs DEF CopyInv, Placed
<1>. QED
  BY <1>2, <1>3, OneKind

\* A claim ends with its claimer holding the lead, and a lead that is held is
\* let go by its holder only, whichever copy of the context is written last.
THEOREM ClaimsKept == Spec => ClaimIsKept
<1>1. CopyInv /\ [Next]_vars => [KeepsClaim]_vars
  BY ClaimStays
<1>. QED
  BY <1>1, CopyInvInit, CopyInvStays, PTL DEF Spec, ClaimIsKept, KeepsClaim

=============================================================================
