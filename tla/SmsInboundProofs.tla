--------------------------- MODULE SmsInboundProofs ---------------------------
(***************************************************************************)
(* Theorems about SmsInbound, for any number of messages, contacts,        *)
(* invocations, attempts and faults.                                       *)
(***************************************************************************)
EXTENDS SmsInbound, FiniteSetTheorems, TLAPS

USE DEF Replies

-----------------------------------------------------------------------------
(* The inductive invariant. *)

States == {"none", "inserting", "pending", "processing", "done", "dead_letter"}
Working == {"gate", "compose", "reserve", "rcs", "send", "complete", "recover", "recomplete",
            "release", "failed", "forward", "forwarded", "meter"}
Replying == {"compose", "reserve", "rcs", "send", "complete", "recover", "recomplete", "release"}
PayingAt == {"rcs", "send", "complete", "recover", "recomplete", "release"}

\* What an invocation holds besides the job it is at: the rest of its batch.  A
\* claim's snapshot holds nothing.
Taken(w) == IF worker[w].at = "claim" THEN {} ELSE worker[w].batch
Holds(w, m) == Msg(w) = m \/ m \in Taken(w)

\* An invocation is at a message exactly while it works, and no two of them hold
\* the same one.
Shaped ==
    /\ \A w \in Workers :
          /\ Msg(w) \in Messages <=> worker[w].at \in Working
          /\ worker[w].at = "idle" => worker[w].batch = {}
          /\ Msg(w) \notin worker[w].batch
    /\ \A u, w \in Workers, m \in Messages : Holds(u, m) /\ Holds(w, m) => u = w

\* A message: its row x, what Telnyx accepted, its slots, the faults so far, and
\* where it is, which is the step of the invocation that works on it, "batch" or
\* "free".  In order: who holds it, what its attempts have come to, what is
\* reserved for it and may be left over, and what Telnyx has of it.
Good(x, a, s, f, at) ==
    /\ at \in Working =>
          \/ x.state = "processing"
          \/ x.state = "done" /\ \/ at = "meter"
                                 \/ at = "recomplete" /\ f >= 1
                                 \/ at \in {"release", "failed"} /\ f >= 2
    /\ at = "batch" => x.state = "processing"
    /\ x.attempts <= MaxAttempts + f
    /\ x.state \in {"none", "inserting", "pending"} \/ (x.state = "processing" /\ at \in {"free", "meter"})
          => x.attempts < MaxAttempts + f
    /\ at \in PayingAt => 1 <= s /\ s <= 1 + f
    /\ at \notin PayingAt /\ ~(x.state = "done" /\ at = "free") => s <= f
    /\ at = "meter" /\ x.state = "processing" => s < f
    /\ x.state = "done" /\ at = "free" => s <= f + 1 /\ (a = "none" => s <= f)
    /\ at \in {"complete", "recomplete", "forwarded", "meter"} => a # "none"
    /\ f = 0 /\ a \in Replies => at = "complete" \/ (x.state = "done" /\ at = "free")
    /\ f = 0 /\ a = "forward" => at \in {"forwarded", "meter"} \/ (x.state = "done" /\ at = "free")
    /\ f <= 1 /\ a = "reply" => s >= 1 /\ at # "release"
    /\ f <= 1 /\ a = "rcs" => s >= 1 /\ (at \in {"rcs", "send", "recover", "release"} => s >= 2)
    /\ x.result = "sent" => x.state = "done" /\ (f <= 1 => s >= 1) /\ (f = 0 => a \in Replies)

GoodAt(m, at) == Good(job[m], accepted[m], slots[m], faults, at)

Local ==
    \A m \in Messages :
       /\ (\A w \in Workers : ~Holds(w, m)) => GoodAt(m, "free")
       /\ \A w \in Workers : m \in Taken(w) => GoodAt(m, "batch")
       /\ \A w \in Workers : Msg(w) = m => GoodAt(m, worker[w].at)

\* A suppressed row is not replied to, and a row starts out suppressed.
Suppressed ==
    /\ \A m \in Messages :
          /\ accepted[m] \in Replies => ~job[m].suppress
          /\ job[m].state \in {"none", "inserting"} => job[m].suppress
    /\ \A w \in Workers : worker[w].at \in Replying => ~job[Msg(w)].suppress

\* A claim's snapshot has only rows that were committed.
Snapped ==
    \A w \in Workers, m \in Messages :
        worker[w].at = "claim" /\ m \in worker[w].batch =>
            job[m].state \notin {"none", "inserting"}

\* The stamps of rows are distinct, and none is later than the clock.
Rows == {m \in Messages : job[m].state # "none"}
Stamped ==
    /\ \A m \in Messages :
          /\ job[m].state \in {"inserting", "pending", "processing"} => job[m].stamp > 0
          /\ job[m].stamp <= Cardinality(Rows) + faults
    /\ \A m, n \in Messages : job[m].stamp > 0 /\ job[m].stamp = job[n].stamp => m = n
    /\ \A w \in Workers : worker[w].at \in Working => job[Msg(w)].stamp > 0

\* Who is worked on, or about to be: a claim has seen it.
Chosen(m) ==
    \/ job[m].state = "processing"
    \/ /\ job[m].state = "pending"
       /\ \E w \in Workers : worker[w].at = "claim" /\ m \in worker[w].batch

\* A text is chosen after the older ones of its contact are settled.
Ordered ==
    faults <= 1 =>
       \A m \in Messages : \A n \in Siblings(m) :
           Active(m) /\ m \notin late /\ job[m].stamp < job[n].stamp => ~Chosen(n)

\* A webhook invocation is at a message while it runs; it alone inserts its row.
Handled ==
    /\ \A h \in Handlers : handler[h].msg \in Messages <=> handler[h].at # "idle"
    /\ \A h \in Handlers : handler[h].at = "commit" => job[handler[h].msg].state = "inserting"
    /\ \A g, h \in Handlers :
          handler[g].at = "commit" /\ handler[h].at = "commit"
             /\ handler[g].msg = handler[h].msg => g = h

\* Before the flows are asked a text is owned by none; and its row stays
\* suppressed where one took it.
Undecided(h) ==
    \/ handler[h].at \in {"gate", "persist", "commit", "evaluate", "forwarded"}
    \/ handler[h].at = "flip" /\ ~handler[h].owns
Flows ==
    \A m \in Messages :
       /\ flow[m] = "always" =>
             /\ job[m].suppress
             /\ \A h \in Handlers :
                   handler[h].msg = m /\ handler[h].at = "flip" => handler[h].owns
       /\ m \notin again =>
             /\ \A g, h \in Handlers : handler[g].msg = m /\ handler[h].msg = m => g = h
             /\ \A h \in Handlers : handler[h].msg = m => event[m] \in {"leased", "lapsed"}
             /\ event[m] = "none" => ~owned[m] /\ job[m].suppress
             /\ \A h \in Handlers :
                   handler[h].msg = m /\ Undecided(h) => ~owned[m] /\ job[m].suppress
             /\ owned[m] => job[m].suppress

IInv ==
    /\ TypeOK
    /\ Shaped /\ Local /\ Suppressed
    /\ Snapped /\ Stamped /\ Ordered
    /\ Handled /\ Flows

-----------------------------------------------------------------------------
(* Types. *)

LEMMA StepIs ==
    ASSUME TypeOK, NEW w \in Workers, NEW at \in Working, Step(w, at)
    PROVE  /\ worker' \in [Workers -> Worker]
           /\ worker'[w].at = at /\ worker'[w].msg = worker[w].msg
           /\ worker'[w].batch = worker[w].batch
           /\ \A u \in Workers \ {w} : worker'[u] = worker[u]
<1>1. [worker[w] EXCEPT !.at = at] \in Worker
  BY DEF TypeOK, Worker, Working
<1>. QED
  BY <1>1 DEF Step, TypeOK, Worker

LEMMA FinishIs ==
    ASSUME TypeOK, NEW w \in Workers, Finish(w)
    PROVE  /\ worker' \in [Workers -> Worker]
           /\ worker'[w].at \in {"idle", "next"} /\ worker'[w].msg = NoMessage
           /\ worker'[w].batch = worker[w].batch
           /\ worker'[w].at = "idle" => worker[w].batch = {}
           /\ \A u \in Workers \ {w} : worker'[u] = worker[u]
<1>1. PICK v : /\ v = IF worker[w].batch = {} THEN IdleWorker
                      ELSE [worker[w] EXCEPT !.at = "next", !.msg = NoMessage]
               /\ worker' = [worker EXCEPT ![w] = v]
  BY DEF Finish
<1>2. /\ v \in Worker /\ v.at \in {"idle", "next"} /\ v.msg = NoMessage
      /\ v.batch = worker[w].batch /\ (v.at = "idle" => worker[w].batch = {})
  <2>1. worker[w] \in Worker
    BY DEF TypeOK
  <2>. QED
    BY <1>1, <2>1 DEF IdleWorker, Worker
<1>. QED
  BY <1>1, <1>2 DEF TypeOK

LEMMA FaultIs ==
    ASSUME TypeOK, Fault PROVE faults' \in 0..MaxFaults /\ faults' = faults + 1 /\ faults <= faults'
BY InboundAssumption DEF TypeOK, Fault

LEMMA NoFaultIs ==
    ASSUME TypeOK, NoFault PROVE faults' \in 0..MaxFaults /\ faults' = faults /\ faults <= faults'
BY InboundAssumption DEF TypeOK, NoFault

\* Where faults have grown, what was good still is.
LEMMA GoodLater ==
    ASSUME NEW x \in Job, NEW a, NEW s \in Nat, NEW f \in Nat, NEW g \in Nat, f <= g, NEW at,
           Good(x, a, s, f, at)
    PROVE  Good(x, a, s, g, at)
<1>1. x.attempts \in Nat /\ MaxAttempts \in Nat
  BY InboundAssumption DEF Job
<1>. QED
  BY <1>1 DEF Good

LEMMA Ranges ==
    ASSUME TypeOK
    PROVE  /\ faults \in Nat /\ MaxAttempts \in Nat /\ MaxAttempts >= 1
           /\ \A m \in Messages :
                 /\ job[m] \in Job /\ job[m].attempts \in Nat /\ job[m].stamp \in Nat
                 /\ slots[m] \in Nat /\ accepted[m] \in {"none", "forward", "reply", "rcs", "unseen"}
BY InboundAssumption DEF TypeOK, Job

\* The row of one message is written.
LEMMA RowIs ==
    ASSUME TypeOK, NEW m \in Messages, NEW x \in Job, job' = [job EXCEPT ![m] = x]
    PROVE  /\ job' \in [Messages -> Job] /\ job'[m] = x
           /\ \A n \in Messages \ {m} : job'[n] = job[n]
BY DEF TypeOK

\* A worker that works on a message holds a row that is being processed, or was
\* completed under its hands.
LEMMA MineIs ==
    ASSUME IInv, NEW w \in Workers, worker[w].at \in Working
    PROVE  /\ Msg(w) \in Messages /\ GoodAt(Msg(w), worker[w].at)
           /\ job[Msg(w)].state \in {"processing", "done"}
           /\ job[Msg(w)].stamp > 0
BY DEF IInv, Shaped, Local, GoodAt, Good, Stamped

-----------------------------------------------------------------------------
(* A worker's steps on its message. *)

\* The worker w goes on with m, or lets it go.
Moves(w, m, to) ==
    /\ \A u \in Workers \ {w} : worker'[u] = worker[u]
    /\ worker'[w].batch = worker[w].batch
    /\ \/ /\ to = "free" /\ worker'[w].msg = NoMessage
          /\ worker'[w].at \in {"idle", "next"}
          /\ worker'[w].at = "idle" => worker[w].batch = {}
       \/ to \in Working /\ worker'[w].msg = m /\ worker'[w].at = to

Works(w, m, to) ==
    /\ m \in Messages /\ Msg(w) = m /\ worker[w].at \in Working
    /\ UNCHANGED <<mode, flow, owned, event, handler, history>> /\ faults <= faults'
    /\ Moves(w, m, to)
    /\ \A n \in Messages \ {m} :
          job'[n] = job[n] /\ accepted'[n] = accepted[n] /\ slots'[n] = slots[n]
    /\ job'[m].stamp = job[m].stamp /\ job'[m].suppress = job[m].suppress
    /\ job'[m].state \in {job[m].state, "pending", "done", "dead_letter"}
    /\ job'[m].state = "pending" => job[m].state = "processing" \/ faults > 1
    /\ accepted'[m] \in Replies => accepted[m] \in Replies \/ worker[w].at \in Replying
    /\ to \in Replying => worker[w].at \in Replying \/ ~job[m].suppress
    /\ Good(job'[m], accepted'[m], slots'[m], faults', to)

LEMMA WorksKeeps ==
    ASSUME IInv, TypeOK', NEW w \in Workers, NEW m \in Messages, NEW to, Works(w, m, to)
    PROVE  IInv'
<1>. USE DEF IInv
<1>1. /\ Msg(w) = m /\ worker[w].at \in Working
      /\ UNCHANGED <<mode, flow, owned, event, handler, again, late>> /\ faults <= faults'
      /\ \A u \in Workers \ {w} : worker'[u] = worker[u]
      /\ worker'[w].batch = worker[w].batch
      /\ \A n \in Messages \ {m} :
            job'[n] = job[n] /\ accepted'[n] = accepted[n] /\ slots'[n] = slots[n]
      /\ job'[m].stamp = job[m].stamp /\ job'[m].suppress = job[m].suppress
  BY DEF Works, Moves, history
<1>2. \/ to = "free" /\ Msg(w)' = NoMessage /\ worker'[w].at \in {"idle", "next"}
      \/ to \in Working /\ Msg(w)' = m /\ worker'[w].at = to
  BY DEF Works, Moves, Msg
<1>3. worker'[w].at \notin {"claim"} /\ worker[w].at \notin {"claim", "idle", "next"}
      /\ NoMessage \notin Messages /\ "free" \notin Working
  BY <1>1, <1>2, InboundAssumption DEF Working
<1>4. \A u \in Workers \ {w} : Msg(u)' = Msg(u) /\ Taken(u)' = Taken(u)
  BY <1>1 DEF Msg, Taken
<1>5. Taken(w)' = Taken(w) /\ Taken(w) = worker[w].batch
  BY <1>1, <1>3 DEF Taken
<1>6. job[m].state \in {"processing", "done"} /\ job[m].stamp > 0
  BY <1>1, MineIs
<1>7. /\ job'[m].state \in {"processing", "pending", "done", "dead_letter"}
      /\ job'[m].state = "processing" => job[m].state = "processing"
  BY <1>6 DEF Works
<1>8. Shaped'
  <2>1. ASSUME NEW u \in Workers
        PROVE  /\ (Msg(u) \in Messages <=> worker[u].at \in Working)'
               /\ worker'[u].at = "idle" => worker'[u].batch = {}
               /\ Msg(u)' \notin worker'[u].batch
    <3>1. CASE u = w
      <4>1. worker[w].batch \subseteq Messages
        BY DEF TypeOK, Worker
      <4>2. m \notin worker[w].batch
        BY <1>1 DEF Shaped
      <4>3. CASE to = "free" /\ Msg(w)' = NoMessage /\ worker'[w].at \in {"idle", "next"}
        BY <1>1, <1>3, <3>1, <4>1, <4>3 DEF Works, Moves, Working
      <4>4. CASE to \in Working /\ Msg(w)' = m /\ worker'[w].at = to
        BY <1>1, <3>1, <4>2, <4>4 DEF Working
      <4>. QED
        BY <1>2, <4>3, <4>4
    <3>2. CASE u # w
      BY <1>1, <1>4, <3>2 DEF Shaped
    <3>. QED
      BY <3>1, <3>2
  <2>2. \A u \in Workers, n \in Messages : Holds(u, n)' => Holds(u, n)
    BY <1>1, <1>2, <1>3, <1>4, <1>5 DEF Holds
  <2>. QED
    BY <2>1, <2>2 DEF Shaped
<1>9. Local'
  <2>1. ASSUME NEW n \in Messages \ {m}
        PROVE  /\ (\A u \in Workers : ~Holds(u, n)') => GoodAt(n, "free")'
               /\ \A u \in Workers : n \in Taken(u)' => GoodAt(n, "batch")'
               /\ \A u \in Workers : Msg(u)' = n => GoodAt(n, worker[u].at)'
    <3>1. ASSUME NEW at, GoodAt(n, at) PROVE Good(job'[n], accepted'[n], slots'[n], faults', at)
      <4>1. job[n] \in Job /\ slots[n] \in Nat /\ faults \in Nat /\ faults' \in Nat
        BY InboundAssumption DEF TypeOK
      <4>2. Good(job[n], accepted[n], slots[n], faults, at)
        BY <3>1 DEF GoodAt
      <4>3. Good(job[n], accepted[n], slots[n], faults', at)
        BY <1>1, <4>1, <4>2, GoodLater
      <4>. QED
        BY <1>1, <4>3
    <3>2. \A u \in Workers : (n \in Taken(u)' <=> n \in Taken(u)) /\ (Msg(u)' = n <=> Msg(u) = n)
      BY <1>1, <1>2, <1>3, <1>4, <1>5
    <3>3. (\A u \in Workers : ~Holds(u, n)') => \A u \in Workers : ~Holds(u, n)
      BY <3>2 DEF Holds
    <3>4. \A u \in Workers : Msg(u)' = n => worker'[u] = worker[u]
      BY <1>1, <3>2
    <3>. QED
      BY <3>1, <3>2, <3>3, <3>4 DEF Local, GoodAt
  <2>2. \A u \in Workers : m \notin Taken(u)' /\ (u # w => Msg(u)' # m)
    <3>1. ASSUME NEW u \in Workers \ {w} PROVE ~Holds(u, m)
      BY <1>1 DEF Shaped, Holds
    <3>2. m \notin Taken(w)
      BY <1>1, <1>5 DEF Shaped
    <3>. QED
      BY <1>4, <1>5, <3>1, <3>2 DEF Holds
  <2>3. /\ (\A u \in Workers : ~Holds(u, m)') => GoodAt(m, "free")'
        /\ \A u \in Workers : Msg(u)' = m => GoodAt(m, worker[u].at)'
    <3>1. CASE to = "free" /\ Msg(w)' = NoMessage
      BY <1>3, <2>2, <3>1 DEF Works, GoodAt
    <3>2. CASE to \in Working /\ Msg(w)' = m /\ worker'[w].at = to
      BY <2>2, <3>2 DEF Works, GoodAt, Holds
    <3>. QED
      BY <1>2, <3>1, <3>2
  <2>. QED
    BY <2>1, <2>2, <2>3 DEF Local
<1>10. Suppressed'
  <2>1. \A n \in Messages : job'[n].suppress = job[n].suppress
    BY <1>1
  <2>2. ASSUME NEW n \in Messages, accepted'[n] \in Replies PROVE ~job[n].suppress
    <3>1. CASE accepted[n] \in Replies
      BY <3>1 DEF Suppressed
    <3>2. CASE accepted[n] \notin Replies
      <4>1. n = m
        BY <1>1, <2>2, <3>2
      <4>2. worker[w].at \in Replying
        BY <2>2, <3>2, <4>1 DEF Works
      <4>. QED
        BY <1>1, <4>1, <4>2 DEF Suppressed
    <3>. QED
      BY <3>1, <3>2
  <2>3. \A n \in Messages : job'[n].state \in {"none", "inserting"} => job[n].suppress
    BY <1>1, <1>7 DEF Suppressed
  <2>4. ASSUME NEW u \in Workers, worker'[u].at \in Replying PROVE ~job[Msg(u)'].suppress
    <3>1. CASE u = w
      <4>1. to \in Replying /\ Msg(w)' = m
        BY <1>2, <2>4, <3>1 DEF Replying
      <4>. QED
        BY <1>1, <3>1, <4>1 DEF Works, Suppressed
    <3>2. CASE u # w
      BY <1>1, <1>4, <2>4, <3>2 DEF Suppressed
    <3>. QED
      BY <3>1, <3>2
  <2>5. \A u \in Workers : worker'[u].at \in Replying => Msg(u)' \in Messages
    BY <1>8 DEF Shaped, Replying, Working
  <2>. QED
    BY <2>1, <2>2, <2>3, <2>4, <2>5 DEF Suppressed
<1>11. Snapped'
  BY <1>1, <1>3, <1>7 DEF Snapped
<1>12. Stamped'
  <2>1. Rows' = Rows
    BY <1>1, <1>6, <1>7 DEF Rows
  <2>2. \A n \in Messages : job'[n].stamp = job[n].stamp /\ job[n].stamp \in Nat
    BY <1>1, Ranges
  <2>3. Cardinality(Rows) \in Nat /\ faults \in Nat /\ faults' \in Nat
    <3>1. Rows \in SUBSET Messages
      BY DEF Rows
    <3>. QED
      BY <3>1, InboundAssumption, FS_Subset, FS_CardinalityType DEF TypeOK
  <2>4. \A n \in Messages : job[n].stamp <= Cardinality(Rows) + faults'
    BY <1>1, <2>2, <2>3 DEF Stamped
  <2>5. \A n \in Messages :
           job'[n].state \in {"inserting", "pending", "processing"} => job[n].stamp > 0
    BY <1>1, <1>6 DEF Stamped
  <2>6. ASSUME NEW u \in Workers, worker'[u].at \in Working
        PROVE  Msg(u)' \in Messages /\ job[Msg(u)'].stamp > 0
    <3>1. CASE u = w
      BY <1>2, <1>6, <2>6, <3>1 DEF Working
    <3>2. CASE u # w
      BY <1>1, <1>4, <2>6, <3>2 DEF Stamped, Shaped
    <3>. QED
      BY <3>1, <3>2
  <2>. QED
    BY <2>1, <2>2, <2>4, <2>5, <2>6 DEF Stamped
<1>13. Ordered'
  <2>. SUFFICES ASSUME faults' <= 1 PROVE Ordered'
    BY DEF Ordered
  <2>1. faults <= 1 /\ ~(faults > 1)
    BY <1>1, Ranges DEF TypeOK
  <2>2. job'[m].state = "pending" => job[m].state = "processing"
    BY <2>1 DEF Works
  <2>3. \A n \in Messages : Active(n)' => Active(n)
    BY <1>1, <1>7, <2>2 DEF Active
  <2>4. ASSUME NEW n \in Messages, Chosen(n)' PROVE Chosen(n)
    <3>1. CASE n = m
      BY <1>7, <2>2, <2>4, <3>1 DEF Chosen
    <3>2. CASE n # m
      BY <1>1, <1>3, <2>4, <3>2 DEF Chosen
    <3>. QED
      BY <3>1, <3>2
  <2>5. \A n \in Messages : job'[n].stamp = job[n].stamp
    BY <1>1
  <2>. QED
    BY <1>1, <2>1, <2>3, <2>4, <2>5 DEF Ordered, Siblings
<1>14. Handled'
  <2>1. ASSUME NEW h \in Handlers, handler[h].at = "commit"
        PROVE  job'[handler[h].msg].state = "inserting"
    BY <1>1, <1>6, <2>1 DEF Handled
  <2>. QED
    BY <1>1, <2>1 DEF Handled
<1>15. Flows'
  <2>1. \A n \in Messages : job'[n].suppress = job[n].suppress
    BY <1>1
  <2>. QED
    BY <1>1, <2>1 DEF Flows, Undecided
<1>. QED
  BY <1>8, <1>9, <1>10, <1>11, <1>12, <1>13, <1>14, <1>15

Results == {"quiet", "suppressed_by_ai_flow", "paused", "not_configured", "not_cached", "refused", "gave_up"}

\* The row of m after a step: its state and result are written, or not.
Wrote(m, state, result) ==
    /\ job' \in [Messages -> Job]
    /\ \A n \in Messages \ {m} : job'[n] = job[n]
    /\ job'[m].stamp = job[m].stamp /\ job'[m].suppress = job[m].suppress
    /\ job'[m].attempts = job[m].attempts
    /\ job'[m].state = state /\ job'[m].result = result

LEMMA WroteIs ==
    ASSUME TypeOK, NEW m \in Messages, NEW state \in States, NEW result \in Results \cup {"none", "sent", "forwarded"},
           NEW cached \in BOOLEAN,
           job' = [job EXCEPT ![m] = [@ EXCEPT !.state = state, !.result = result, !.cached = cached]]
    PROVE  Wrote(m, state, result)
<1>1. PICK x : /\ x = [job[m] EXCEPT !.state = state, !.result = result, !.cached = cached]
               /\ job' = [job EXCEPT ![m] = x]
  BY DEF TypeOK
<1>2. /\ x \in Job /\ x.stamp = job[m].stamp /\ x.suppress = job[m].suppress
      /\ x.attempts = job[m].attempts /\ x.state = state /\ x.result = result
  <2>1. job[m] \in Job
    BY DEF TypeOK
  <2>. QED
    BY <1>1, <2>1, Zenon DEF Job, States, Results
<1>. QED
  BY <1>1, <1>2, RowIs DEF Wrote

LEMMA NotWritten ==
    ASSUME TypeOK, UNCHANGED job, NEW m \in Messages PROVE Wrote(m, job[m].state, job[m].result)
BY DEF TypeOK, Wrote

LEMMA CloseIs ==
    ASSUME IInv, NEW w \in Workers, worker[w].at \in Working,
           NEW state \in {"done", "dead_letter"}, NEW result \in Results \cup {"sent", "forwarded"},
           Close(w, state, result)
    PROVE  /\ worker' \in [Workers -> Worker] /\ Moves(w, Msg(w), "free")
           /\ \/ Wrote(Msg(w), state, result) /\ faults' = faults
              \/ Wrote(Msg(w), job[Msg(w)].state, job[Msg(w)].result) /\ faults' = faults + 1
           /\ faults' \in 0..MaxFaults /\ faults <= faults'
<1>0. TypeOK /\ Msg(w) \in Messages
  BY MineIs DEF IInv
<1>1. PICK m \in Messages : m = Msg(w)
  BY <1>0
<1>2. worker' \in [Workers -> Worker] /\ Moves(w, m, "free")
  BY <1>0, FinishIs DEF Close, Moves
<1>3. CASE job' = Closed(m, state, result) /\ NoFault
  <2>1. job' = [job EXCEPT ![m] = [@ EXCEPT !.state = state, !.result = result, !.cached = FALSE]]
    BY <1>0, <1>3 DEF Closed, TypeOK, Job
  <2>2. Wrote(m, state, result)
    BY <1>0, <2>1, WroteIs DEF States
  <2>. QED
    BY <1>0, <1>1, <1>2, <1>3, <2>2, NoFaultIs
<1>4. CASE job' = [job EXCEPT ![m].cached = FALSE] /\ Fault
  <2>1. PICK x : x = [job[m] EXCEPT !.cached = FALSE] /\ job' = [job EXCEPT ![m] = x]
    BY <1>0, <1>4 DEF TypeOK
  <2>2. /\ x \in Job /\ x.stamp = job[m].stamp /\ x.suppress = job[m].suppress
        /\ x.attempts = job[m].attempts /\ x.state = job[m].state /\ x.result = job[m].result
    <3>1. job[m] \in Job
      BY <1>0 DEF TypeOK
    <3>. QED
      BY <2>1, <3>1, Zenon DEF Job
  <2>3. Wrote(m, job[m].state, job[m].result)
    BY <1>0, <2>1, <2>2, RowIs DEF Wrote
  <2>. QED
    BY <1>0, <1>1, <1>2, <1>4, <2>3, FaultIs
<1>. QED
  BY <1>1, <1>3, <1>4 DEF Close

LEMMA PutBackIs ==
    ASSUME IInv, NEW w \in Workers, worker[w].at \in Working, PutBack(w)
    PROVE  /\ worker' \in [Workers -> Worker] /\ Moves(w, Msg(w), "free")
           /\ \/ Wrote(Msg(w), "pending", "none") /\ faults' = faults
              \/ Wrote(Msg(w), job[Msg(w)].state, job[Msg(w)].result) /\ faults' = faults + 1
           /\ faults' \in 0..MaxFaults /\ faults <= faults'
<1>0. TypeOK /\ Msg(w) \in Messages
  BY MineIs DEF IInv
<1>1. PICK m \in Messages : m = Msg(w)
  BY <1>0
<1>2. worker' \in [Workers -> Worker] /\ Moves(w, m, "free")
  BY <1>0, FinishIs DEF PutBack, Moves
<1>3. CASE job' = [job EXCEPT ![m].state = "pending", ![m].result = "none"] /\ NoFault
  <2>1. PICK cached \in BOOLEAN : cached = job[m].cached
    BY <1>0 DEF TypeOK, Job
  <2>2. job' = [job EXCEPT ![m] = [@ EXCEPT !.state = "pending", !.result = "none", !.cached = cached]]
    BY <1>0, <1>3, <2>1 DEF TypeOK, Job
  <2>3. Wrote(m, "pending", "none")
    BY <1>0, <2>2, WroteIs DEF States
  <2>. QED
    BY <1>0, <1>1, <1>2, <1>3, <2>3, NoFaultIs
<1>4. CASE UNCHANGED job /\ Fault
  BY <1>0, <1>1, <1>2, <1>4, NotWritten, FaultIs
<1>. QED
  BY <1>1, <1>3, <1>4 DEF PutBack

\* What a worker's step leaves alone.
Aside == UNCHANGED <<mode, flow, owned, event, handler, history>>

\* The types after a step on a row, and what makes it a Works.
LEMMA WorksIs ==
    ASSUME IInv, Aside, NEW w \in Workers, worker[w].at \in Working,
           NEW m \in Messages, m = Msg(w), NEW to,
           worker' \in [Workers -> Worker], Moves(w, m, to),
           NEW state, NEW result, Wrote(m, state, result),
           state \in {job[m].state, "pending", "done", "dead_letter"},
           state = "pending" => job[m].state = "processing" \/ faults > 1,
           accepted' \in [Messages -> {"none", "forward", "reply", "rcs", "unseen"}], slots' \in [Messages -> Nat],
           \A n \in Messages \ {m} : accepted'[n] = accepted[n] /\ slots'[n] = slots[n],
           accepted'[m] \in Replies => accepted[m] \in Replies \/ worker[w].at \in Replying,
           to \in Replying => worker[w].at \in Replying \/ ~job[m].suppress,
           faults' \in 0..MaxFaults, faults <= faults',
           Good(job'[m], accepted'[m], slots'[m], faults', to)
    PROVE  TypeOK' /\ Works(w, m, to)
<1>1. TypeOK'
  BY DEF IInv, TypeOK, Aside, history, Wrote
<1>2. /\ m \in Messages /\ Msg(w) = m /\ worker[w].at \in Working
      /\ UNCHANGED <<mode, flow, owned, event, handler, history>> /\ faults <= faults'
  BY DEF Aside
<1>3. /\ \A n \in Messages \ {m} : job'[n] = job[n]
      /\ job'[m].stamp = job[m].stamp /\ job'[m].suppress = job[m].suppress
      /\ job'[m].state = state
  BY DEF Wrote
<1>. QED
  BY <1>1, <1>2, <1>3 DEF Works

\* A row that is closed for a reason to stay silent.
LEMMA CloseWorks ==
    ASSUME IInv, Aside, UNCHANGED <<accepted, slots>>, NEW w \in Workers,
           worker[w].at \in {"gate", "compose", "reserve", "failed"},
           NEW state \in {"done", "dead_letter"}, NEW result \in Results,
           Close(w, state, result)
    PROVE  TypeOK' /\ Works(w, Msg(w), "free")
<1>0. worker[w].at \in Working /\ TypeOK
  BY DEF Working, IInv
<1>1. PICK m \in Messages : m = Msg(w)
  BY <1>0, MineIs
<1>2. Good(job[m], accepted[m], slots[m], faults, worker[w].at)
  BY <1>0, <1>1, MineIs DEF GoodAt
<1>3. /\ job[m].attempts \in Nat /\ slots[m] \in Nat /\ faults \in Nat
      /\ MaxAttempts \in Nat /\ job[m].state \in {"processing", "done"}
  BY <1>0, <1>1, Ranges, MineIs
<1>4. /\ worker' \in [Workers -> Worker] /\ Moves(w, m, "free")
      /\ faults' \in 0..MaxFaults /\ faults <= faults'
  BY <1>0, <1>1, CloseIs
<1>5. \/ Wrote(m, state, result) /\ faults' = faults
      \/ Wrote(m, job[m].state, job[m].result) /\ faults' = faults + 1
  BY <1>0, <1>1, CloseIs
<1>6. PICK st, res : /\ Wrote(m, st, res)
                     /\ \/ st = state /\ res = result /\ faults' = faults
                        \/ st = job[m].state /\ res = job[m].result /\ faults' = faults + 1
  BY <1>5
<1>7. Good(job'[m], accepted[m], slots[m], faults', "free")
  <2>1. job'[m].attempts = job[m].attempts /\ job'[m].state = st /\ job'[m].result = res
    BY <1>6 DEF Wrote
  <2>. QED
    BY <1>2, <1>3, <1>6, <2>1 DEF Good, Results, Working, PayingAt
<1>8. /\ accepted' \in [Messages -> {"none", "forward", "reply", "rcs", "unseen"}] /\ slots' \in [Messages -> Nat]
      /\ \A n \in Messages : accepted'[n] = accepted[n] /\ slots'[n] = slots[n]
  BY <1>0 DEF TypeOK
<1>9. st \in {job[m].state, "pending", "done", "dead_letter"} /\ (st = "pending" => job[m].state = "processing")
  BY <1>3, <1>6
<1>10. "free" \notin Replying
  BY DEF Replying
<1>. QED
  BY <1>0, <1>1, <1>4, <1>6, <1>7, <1>8, <1>9, <1>10, WorksIs

\* A job that is put back has attempts left.
LEMMA PutBackWorks ==
    ASSUME IInv, Aside, UNCHANGED <<accepted, slots>>, NEW w \in Workers,
           worker[w].at \in {"gate", "compose", "failed"},
           ~GivesUp(Msg(w)), PutBack(w)
    PROVE  TypeOK' /\ Works(w, Msg(w), "free")
<1>0. worker[w].at \in Working /\ TypeOK
  BY DEF Working, IInv
<1>1. PICK m \in Messages : m = Msg(w)
  BY <1>0, MineIs
<1>2. Good(job[m], accepted[m], slots[m], faults, worker[w].at)
  BY <1>0, <1>1, MineIs DEF GoodAt
<1>3. /\ job[m].attempts \in Nat /\ slots[m] \in Nat /\ faults \in Nat
      /\ MaxAttempts \in Nat /\ job[m].state \in {"processing", "done"}
  BY <1>0, <1>1, Ranges, MineIs
<1>4. /\ worker' \in [Workers -> Worker] /\ Moves(w, m, "free")
      /\ faults' \in 0..MaxFaults /\ faults <= faults'
  BY <1>0, <1>1, PutBackIs
<1>5. \/ Wrote(m, "pending", "none") /\ faults' = faults
      \/ Wrote(m, job[m].state, job[m].result) /\ faults' = faults + 1
  BY <1>0, <1>1, PutBackIs
<1>6. PICK st, res : /\ Wrote(m, st, res)
                     /\ \/ st = "pending" /\ res = "none" /\ faults' = faults
                        \/ st = job[m].state /\ res = job[m].result /\ faults' = faults + 1
  BY <1>5
<1>7. Good(job'[m], accepted[m], slots[m], faults', "free")
  <2>1. job'[m].attempts = job[m].attempts /\ job'[m].state = st /\ job'[m].result = res
    BY <1>6 DEF Wrote
  <2>2. job[m].attempts < MaxAttempts
    BY <1>1, <1>3 DEF GivesUp
  <2>. QED
    BY <1>2, <1>3, <1>6, <2>1, <2>2 DEF Good, Working, PayingAt
<1>8. /\ accepted' \in [Messages -> {"none", "forward", "reply", "rcs", "unseen"}] /\ slots' \in [Messages -> Nat]
      /\ \A n \in Messages : accepted'[n] = accepted[n] /\ slots'[n] = slots[n]
  BY <1>0 DEF TypeOK
<1>9. st \in {job[m].state, "pending", "done", "dead_letter"} /\ (st = "pending" => job[m].state = "processing" \/ faults > 1)
  BY <1>2, <1>3, <1>6 DEF Good, Working
<1>10. "free" \notin Replying
  BY DEF Replying
<1>. QED
  BY <1>0, <1>1, <1>4, <1>6, <1>7, <1>8, <1>9, <1>10, WorksIs

LEMMA RetryWorks ==
    ASSUME IInv, Aside, UNCHANGED <<accepted, slots>>, NEW w \in Workers,
           worker[w].at \in {"compose", "failed"}, Retry(w)
    PROVE  TypeOK' /\ Works(w, Msg(w), "free")
BY CloseWorks, PutBackWorks DEF Retry, Results

\* A step that writes no row.
LEMMA StepWorks ==
    ASSUME IInv, Aside, UNCHANGED job, NEW w \in Workers, worker[w].at \in Working,
           NEW m \in Messages, m = Msg(w), NEW to \in Working, Step(w, to),
           accepted' \in [Messages -> {"none", "forward", "reply", "rcs", "unseen"}], slots' \in [Messages -> Nat],
           \A n \in Messages \ {m} : accepted'[n] = accepted[n] /\ slots'[n] = slots[n],
           accepted'[m] \in Replies => accepted[m] \in Replies \/ worker[w].at \in Replying,
           to \in Replying => worker[w].at \in Replying \/ ~job[m].suppress,
           faults' \in 0..MaxFaults, faults <= faults',
           Good(job[m], accepted'[m], slots'[m], faults', to)
    PROVE  TypeOK' /\ Works(w, m, to)
<1>0. TypeOK
  BY DEF IInv
<1>1. worker' \in [Workers -> Worker] /\ Moves(w, m, to)
  BY <1>0, StepIs DEF Moves, Msg
<1>2. Wrote(m, job[m].state, job[m].result) /\ job'[m] = job[m]
  BY <1>0, NotWritten
<1>3. job[m].state = "pending" => job[m].state = "processing" \/ faults > 1
  BY MineIs
<1>. QED
  BY <1>1, <1>2, <1>3, WorksIs

\* A step that only moves on, with or without a fault.
LEMMA GoesOnWorks ==
    ASSUME IInv, Aside, UNCHANGED <<job, accepted, slots>>, NEW w \in Workers,
           worker[w].at \in Working,
           NEW m \in Messages, m = Msg(w), NEW to \in Working, Step(w, to),
           to \in Replying => worker[w].at \in Replying \/ ~job[m].suppress,
           NoFault \/ Fault,
           Good(job[m], accepted[m], slots[m], faults', to)
    PROVE  TypeOK' /\ Works(w, m, to)
<1>0. TypeOK
  BY DEF IInv
<1>1. /\ accepted' \in [Messages -> {"none", "forward", "reply", "rcs", "unseen"}] /\ slots' \in [Messages -> Nat]
      /\ \A n \in Messages : accepted'[n] = accepted[n] /\ slots'[n] = slots[n]
  BY <1>0 DEF TypeOK
<1>2. faults' \in 0..MaxFaults /\ faults <= faults'
  BY <1>0, NoFaultIs, FaultIs
<1>. QED
  BY <1>1, <1>2, StepWorks

LEMMA GateWorks ==
    ASSUME IInv, Aside, NEW w \in Workers, Gate(w)
    PROVE  \E to : TypeOK' /\ Works(w, Msg(w), to)
<1>0. /\ worker[w].at = "gate" /\ worker[w].at \in Working /\ TypeOK
      /\ UNCHANGED <<accepted, slots>>
  BY DEF Gate, Working, IInv, StaysQuiet
<1>1. PICK m \in Messages : m = Msg(w)
  BY <1>0, MineIs
<1>2. Good(job[m], accepted[m], slots[m], faults, "gate")
  BY <1>0, <1>1, MineIs DEF GoodAt
<1>3. job[m].attempts \in Nat /\ slots[m] \in Nat /\ faults \in Nat /\ MaxAttempts \in Nat
  BY <1>0, Ranges
<1>4. CASE \E state \in {"done", "dead_letter"}, result \in Results : Close(w, state, result)
  BY <1>0, <1>4, CloseWorks
<1>5. CASE ~GivesUp(Msg(w)) /\ PutBack(w)
  BY <1>0, <1>5, PutBackWorks
<1>6. ASSUME NEW to \in {"forward", "compose"}, Step(w, to), UNCHANGED job, NoFault,
             to = "compose" => ~job[m].suppress
      PROVE  \E st : TypeOK' /\ Works(w, Msg(w), st)
  <2>1. faults' = faults /\ to \in Working /\ (to \in Replying => ~job[m].suppress)
    BY <1>6 DEF NoFault, Working, Replying
  <2>2. Good(job[m], accepted[m], slots[m], faults', to)
    BY <1>2, <1>3, <1>6, <2>1 DEF Good, Working, PayingAt
  <2>. QED
    BY <1>0, <1>1, <1>6, <2>1, <2>2, GoesOnWorks
<1>. QED
  BY <1>1, <1>4, <1>5, <1>6 DEF Gate, Results

LEMMA ComposeWorks ==
    ASSUME IInv, Aside, NEW w \in Workers, Compose(w)
    PROVE  \E to : TypeOK' /\ Works(w, Msg(w), to)
<1>0. /\ worker[w].at = "compose" /\ worker[w].at \in Working /\ worker[w].at \in Replying
      /\ TypeOK /\ UNCHANGED <<accepted, slots>>
  BY DEF Compose, Working, Replying, IInv, StaysQuiet
<1>1. PICK m \in Messages : m = Msg(w)
  BY <1>0, MineIs
<1>2. Good(job[m], accepted[m], slots[m], faults, "compose")
  BY <1>0, <1>1, MineIs DEF GoodAt
<1>3. job[m].attempts \in Nat /\ slots[m] \in Nat /\ faults \in Nat /\ MaxAttempts \in Nat
  BY <1>0, Ranges
<1>4. CASE Retry(w)
  BY <1>0, <1>4, RetryWorks
<1>5. CASE Close(w, "done", "quiet") \/ Close(w, "dead_letter", "not_cached")
  BY <1>0, <1>5, CloseWorks DEF Results
<1>6. CASE job' = [job EXCEPT ![m].cached = TRUE] /\ Step(w, "reserve") /\ NoFault
  <2>1. PICK x : x = [job[m] EXCEPT !.cached = TRUE] /\ job' = [job EXCEPT ![m] = x]
    BY <1>0, <1>6 DEF TypeOK
  <2>2. /\ x \in Job /\ x.stamp = job[m].stamp /\ x.suppress = job[m].suppress
        /\ x.attempts = job[m].attempts /\ x.state = job[m].state /\ x.result = job[m].result
    <3>1. job[m] \in Job
      BY <1>0 DEF TypeOK
    <3>. QED
      BY <2>1, <3>1, Zenon DEF Job
  <2>3. Wrote(m, job[m].state, job[m].result) /\ job'[m] = x
    BY <1>0, <2>1, <2>2, RowIs DEF Wrote
  <2>4. worker' \in [Workers -> Worker] /\ Moves(w, m, "reserve")
    BY <1>0, <1>1, <1>6, StepIs DEF Moves, Msg, Working
  <2>5. faults' \in 0..MaxFaults /\ faults' = faults /\ faults <= faults'
    BY <1>0, <1>6, NoFaultIs
  <2>6. Good(job'[m], accepted'[m], slots'[m], faults', "reserve")
    BY <1>0, <1>2, <1>3, <2>2, <2>3, <2>5 DEF Good, Working, PayingAt
  <2>7. /\ accepted' \in [Messages -> {"none", "forward", "reply", "rcs", "unseen"}] /\ slots' \in [Messages -> Nat]
        /\ \A n \in Messages : accepted'[n] = accepted[n] /\ slots'[n] = slots[n]
    BY <1>0 DEF TypeOK
  <2>8. job[m].state = "pending" => job[m].state = "processing" \/ faults > 1
    BY <1>0, <1>1, MineIs
  <2>. QED
    BY <1>0, <1>1, <2>3, <2>4, <2>5, <2>6, <2>7, <2>8, WorksIs
<1>. QED
  BY <1>1, <1>4, <1>5, <1>6 DEF Compose

LEMMA ReserveWorks ==
    ASSUME IInv, Aside, NEW w \in Workers, Reserve(w)
    PROVE  \E to : TypeOK' /\ Works(w, Msg(w), to)
<1>0. /\ worker[w].at = "reserve" /\ worker[w].at \in Working /\ worker[w].at \in Replying
      /\ TypeOK /\ UNCHANGED accepted
  BY DEF Reserve, Working, Replying, IInv
<1>1. PICK m \in Messages : m = Msg(w)
  BY <1>0, MineIs
<1>2. Good(job[m], accepted[m], slots[m], faults, "reserve")
  BY <1>0, <1>1, MineIs DEF GoodAt
<1>3. job[m].attempts \in Nat /\ slots[m] \in Nat /\ faults \in Nat /\ MaxAttempts \in Nat
  BY <1>0, Ranges
<1>4. CASE Close(w, "done", "quiet") /\ UNCHANGED slots
  BY <1>0, <1>4, CloseWorks DEF Results
<1>5. CASE Close(w, "dead_letter", "refused") /\ UNCHANGED slots
  BY <1>0, <1>5, CloseWorks DEF Results
<1>6. /\ accepted' \in [Messages -> {"none", "forward", "reply", "rcs", "unseen"}]
      /\ \A n \in Messages : accepted'[n] = accepted[n]
  BY <1>0 DEF TypeOK
<1>7. ASSUME NEW to \in {"send", "rcs"}, Step(w, to), NoFault, UNCHANGED job,
             slots' = [slots EXCEPT ![m] = @ + 1]
      PROVE  \E st : TypeOK' /\ Works(w, Msg(w), st)
  <2>2. /\ slots' \in [Messages -> Nat] /\ slots'[m] = slots[m] + 1
        /\ \A n \in Messages \ {m} : slots'[n] = slots[n]
    BY <1>0, <1>3, <1>7 DEF TypeOK
  <2>3. faults' \in 0..MaxFaults /\ faults' = faults /\ faults <= faults' /\ to \in Working
    BY <1>0, <1>7, NoFaultIs DEF Working
  <2>4. Good(job[m], accepted'[m], slots'[m], faults', to)
    BY <1>0, <1>2, <1>3, <2>2, <2>3 DEF Good, Working, PayingAt
  <2>. QED
    BY <1>0, <1>1, <1>6, <1>7, <2>2, <2>3, <2>4, StepWorks
<1>8. CASE /\ Fault /\ job' = Closed(m, "dead_letter", "refused") /\ Finish(w)
           /\ \E counted \in 0..1 : slots' = [slots EXCEPT ![m] = @ + counted]
  <2>1. PICK counted \in 0..1 : slots' = [slots EXCEPT ![m] = @ + counted]
    BY <1>8
  <2>2. /\ slots' \in [Messages -> Nat] /\ slots'[m] = slots[m] + counted
        /\ \A n \in Messages \ {m} : slots'[n] = slots[n]
    BY <1>0, <1>3, <2>1 DEF TypeOK
  <2>3. job' = [job EXCEPT ![m] = [@ EXCEPT !.state = "dead_letter", !.result = "refused",
                                            !.cached = FALSE]]
    BY <1>0, <1>8 DEF Closed, TypeOK, Job
  <2>4. Wrote(m, "dead_letter", "refused")
    BY <1>0, <2>3, WroteIs DEF States, Results
  <2>5. worker' \in [Workers -> Worker] /\ Moves(w, m, "free")
    BY <1>0, <1>8, FinishIs DEF Moves
  <2>6. faults' \in 0..MaxFaults /\ faults' = faults + 1 /\ faults <= faults'
    BY <1>0, <1>8, FaultIs
  <2>7. Good(job'[m], accepted'[m], slots'[m], faults', "free")
    BY <1>0, <1>2, <1>3, <2>2, <2>4, <2>6 DEF Good, Working, PayingAt, Wrote
  <2>. QED
    BY <1>0, <1>1, <1>6, <2>2, <2>4, <2>5, <2>6, <2>7, WorksIs DEF Replying
<1>. QED
  BY <1>1, <1>4, <1>5, <1>7, <1>8 DEF Reserve

LEMMA AcceptIs ==
    ASSUME TypeOK, NEW m \in Messages, NEW text \in {"forward", "reply", "rcs", "unseen"}, AcceptAs(m, text)
    PROVE  /\ accepted' \in [Messages -> {"none", "forward", "reply", "rcs", "unseen"}]
           /\ accepted'[m] = IF accepted[m] = "none" THEN text ELSE accepted[m]
           /\ \A n \in Messages \ {m} : accepted'[n] = accepted[n]
BY DEF TypeOK, AcceptAs

LEMMA SendRcsWorks ==
    ASSUME IInv, Aside, NEW w \in Workers, SendRcs(w)
    PROVE  \E to : TypeOK' /\ Works(w, Msg(w), to)
<1>0. /\ worker[w].at = "rcs" /\ worker[w].at \in Working /\ worker[w].at \in Replying
      /\ TypeOK /\ UNCHANGED <<job, slots>>
  BY DEF SendRcs, Working, Replying, IInv
<1>1. PICK m \in Messages : m = Msg(w)
  BY <1>0, MineIs
<1>2. Good(job[m], accepted[m], slots[m], faults, "rcs")
  BY <1>0, <1>1, MineIs DEF GoodAt
<1>3. job[m].attempts \in Nat /\ slots[m] \in Nat /\ faults \in Nat /\ MaxAttempts \in Nat
  BY <1>0, Ranges
<1>4. ASSUME UNCHANGED accepted, NEW to \in {"send", "recover"}, Step(w, to), NoFault
      PROVE  \E st : TypeOK' /\ Works(w, Msg(w), st)
  <2>1. faults' = faults /\ to \in Working
    BY <1>4 DEF NoFault, Working
  <2>2. Good(job[m], accepted[m], slots[m], faults', to)
    BY <1>2, <1>3, <2>1 DEF Good, Working, PayingAt
  <2>. QED
    BY <1>0, <1>1, <1>4, <2>1, <2>2, GoesOnWorks
<1>5. ASSUME NEW text \in {"rcs", "unseen"}, AcceptAs(m, text),
             NEW to \in {"complete", "recover"}, Step(w, to),
             \/ to = "complete" /\ text = "rcs" /\ NoFault
             \/ to = "recover" /\ text = "unseen" /\ Fault
      PROVE  \E st : TypeOK' /\ Works(w, Msg(w), st)
  <2>1. /\ accepted' \in [Messages -> {"none", "forward", "reply", "rcs", "unseen"}]
        /\ accepted'[m] = IF accepted[m] = "none" THEN text ELSE accepted[m]
        /\ \A n \in Messages \ {m} : accepted'[n] = accepted[n]
    BY <1>5, AcceptIs, <1>0
  <2>3. slots' \in [Messages -> Nat] /\ \A n \in Messages : slots'[n] = slots[n]
    BY <1>0 DEF TypeOK
  <2>4. /\ faults' \in 0..MaxFaults /\ faults <= faults' /\ to \in Working
        /\ \/ to = "complete" /\ text = "rcs" /\ faults' = faults
           \/ to = "recover" /\ text = "unseen" /\ faults' = faults + 1
    BY <1>0, <1>5, NoFaultIs, FaultIs DEF Working
  <2>5. Good(job[m], accepted'[m], slots'[m], faults', to)
    BY <1>2, <1>3, <1>5, <2>1, <2>3, <2>4 DEF Good, Working, PayingAt
  <2>. QED
    BY <1>0, <1>1, <1>5, <2>1, <2>3, <2>4, <2>5, StepWorks
<1>. QED
  BY <1>1, <1>4, <1>5 DEF SendRcs

LEMMA SendWorks ==
    ASSUME IInv, Aside, NEW w \in Workers, Send(w)
    PROVE  \E to : TypeOK' /\ Works(w, Msg(w), to)
<1>0. /\ worker[w].at = "send" /\ worker[w].at \in Working /\ worker[w].at \in Replying
      /\ TypeOK /\ UNCHANGED <<job, slots>>
  BY DEF Send, Working, Replying, IInv
<1>1. PICK m \in Messages : m = Msg(w)
  BY <1>0, MineIs
<1>2. Good(job[m], accepted[m], slots[m], faults, "send")
  BY <1>0, <1>1, MineIs DEF GoodAt
<1>3. job[m].attempts \in Nat /\ slots[m] \in Nat /\ faults \in Nat /\ MaxAttempts \in Nat
  BY <1>0, Ranges
<1>4. CASE UNCHANGED accepted /\ Step(w, "recover") /\ NoFault
  <2>1. faults' = faults /\ "recover" \in Working
    BY <1>4 DEF NoFault, Working
  <2>2. Good(job[m], accepted[m], slots[m], faults', "recover")
    BY <1>2, <1>3, <2>1 DEF Good, Working, PayingAt
  <2>. QED
    BY <1>0, <1>1, <1>4, <2>1, <2>2, GoesOnWorks
<1>5. ASSUME AcceptAs(m, "reply"), NEW to \in {"complete", "recover"}, Step(w, to),
             \/ to = "complete" /\ NoFault
             \/ Fault
      PROVE  \E st : TypeOK' /\ Works(w, Msg(w), st)
  <2>1. /\ accepted' \in [Messages -> {"none", "forward", "reply", "rcs", "unseen"}]
        /\ accepted'[m] = IF accepted[m] = "none" THEN "reply" ELSE accepted[m]
        /\ \A n \in Messages \ {m} : accepted'[n] = accepted[n]
    BY <1>5, AcceptIs, <1>0
  <2>3. slots' \in [Messages -> Nat] /\ \A n \in Messages : slots'[n] = slots[n]
    BY <1>0 DEF TypeOK
  <2>4. /\ faults' \in 0..MaxFaults /\ faults <= faults' /\ to \in Working
        /\ (to = "complete" /\ faults' = faults) \/ faults' = faults + 1
    BY <1>0, <1>5, NoFaultIs, FaultIs DEF Working
  <2>5. Good(job[m], accepted'[m], slots'[m], faults', to)
    BY <1>2, <1>3, <1>5, <2>1, <2>3, <2>4 DEF Good, Working, PayingAt
  <2>. QED
    BY <1>0, <1>1, <1>5, <2>1, <2>3, <2>4, <2>5, StepWorks
<1>. QED
  BY <1>1, <1>4, <1>5 DEF Send

\* A job that is done while its worker goes on, or lets it go.
LEMMA CompletedIs ==
    ASSUME TypeOK, NEW m \in Messages,
           job' = [job EXCEPT ![m].state = "done", ![m].result = "sent"]
    PROVE  Wrote(m, "done", "sent")
<1>1. PICK cached \in BOOLEAN : cached = job[m].cached
  BY DEF TypeOK, Job
<1>2. job' = [job EXCEPT ![m] = [@ EXCEPT !.state = "done", !.result = "sent", !.cached = cached]]
  BY <1>1 DEF TypeOK, Job
<1>. QED
  BY <1>2, WroteIs DEF States

LEMMA ClosedIs ==
    ASSUME TypeOK, NEW m \in Messages, NEW state \in {"done", "dead_letter"},
           NEW result \in Results \cup {"sent", "forwarded"}, job' = Closed(m, state, result)
    PROVE  Wrote(m, state, result)
<1>1. job' = [job EXCEPT ![m] = [@ EXCEPT !.state = state, !.result = result, !.cached = FALSE]]
  BY DEF Closed, TypeOK, Job
<1>. QED
  BY <1>1, WroteIs DEF States

LEMMA CompleteWorks ==
    ASSUME IInv, Aside, UNCHANGED <<accepted, slots>>, NEW w \in Workers,
           worker[w].at \in {"complete", "recomplete"},
           NEW next \in Working, CompleteOr(w, next),
           \/ worker[w].at = "complete" /\ next = "recomplete"
           \/ worker[w].at = "recomplete" /\ next = "release"
    PROVE  \E to : TypeOK' /\ Works(w, Msg(w), to)
<1>0. worker[w].at \in Working /\ worker[w].at \in Replying /\ TypeOK
  BY DEF Working, Replying, IInv
<1>1. PICK m \in Messages : m = Msg(w)
  BY <1>0, MineIs
<1>2. Good(job[m], accepted[m], slots[m], faults, worker[w].at)
  BY <1>0, <1>1, MineIs DEF GoodAt
<1>3. /\ job[m].attempts \in Nat /\ slots[m] \in Nat /\ faults \in Nat
      /\ MaxAttempts \in Nat /\ job[m].state \in {"processing", "done"}
  BY <1>0, <1>1, Ranges, MineIs
<1>4. /\ accepted' \in [Messages -> {"none", "forward", "reply", "rcs", "unseen"}] /\ slots' \in [Messages -> Nat]
      /\ \A n \in Messages : accepted'[n] = accepted[n] /\ slots'[n] = slots[n]
  BY <1>0 DEF TypeOK
<1>5. CASE job' = Closed(m, "done", "sent") /\ Finish(w) /\ NoFault
  <2>1. Wrote(m, "done", "sent")
    BY <1>0, <1>5, ClosedIs
  <2>2. worker' \in [Workers -> Worker] /\ Moves(w, m, "free")
    BY <1>0, <1>5, FinishIs DEF Moves
  <2>3. faults' \in 0..MaxFaults /\ faults' = faults /\ faults <= faults'
    BY <1>0, <1>5, NoFaultIs
  <2>4. Good(job'[m], accepted'[m], slots'[m], faults', "free")
    <3>1. job'[m].attempts = job[m].attempts /\ job'[m].state = "done" /\ job'[m].result = "sent"
      BY <2>1 DEF Wrote
    <3>. QED
      BY <1>2, <1>3, <1>4, <2>3, <3>1 DEF Good, Working, PayingAt
  <2>. QED
    BY <1>0, <1>1, <1>4, <2>1, <2>2, <2>3, <2>4, WorksIs DEF Replying
<1>6. CASE /\ job' \in {job, [job EXCEPT ![m].state = "done", ![m].result = "sent"]}
           /\ Step(w, next) /\ Fault
  <2>1. PICK st, res : /\ Wrote(m, st, res)
                       /\ \/ st = job[m].state /\ res = job[m].result
                          \/ st = "done" /\ res = "sent"
    BY <1>0, <1>6, NotWritten, CompletedIs
  <2>2. worker' \in [Workers -> Worker] /\ Moves(w, m, next)
    BY <1>0, <1>1, <1>6, StepIs DEF Moves, Msg
  <2>3. faults' \in 0..MaxFaults /\ faults' = faults + 1 /\ faults <= faults'
    BY <1>0, <1>6, FaultIs
  <2>4. Good(job'[m], accepted'[m], slots'[m], faults', next)
    <3>1. job'[m].attempts = job[m].attempts /\ job'[m].state = st /\ job'[m].result = res
      BY <2>1 DEF Wrote
    <3>2. worker[w].at \in {"complete", "recomplete"} /\ next \in {"recomplete", "release"}
      OBVIOUS
    <3>3. accepted[m] # "none"
      BY <1>2, <3>2 DEF Good
    <3>4. 1 <= slots[m] /\ slots[m] <= 1 + faults
      BY <1>2, <3>2 DEF Good, PayingAt
    <3>. QED
      BY <1>2, <1>3, <1>4, <2>1, <2>3, <3>1, <3>2, <3>3, <3>4 DEF Good, Working, PayingAt
  <2>5. st \in {job[m].state, "pending", "done", "dead_letter"} /\ st # "pending"
    BY <1>3, <2>1
  <2>. QED
    BY <1>0, <1>1, <1>4, <2>1, <2>2, <2>3, <2>4, <2>5, WorksIs
<1>. QED
  BY <1>1, <1>5, <1>6 DEF CompleteOr

LEMMA RecoverWorks ==
    ASSUME IInv, Aside, NEW w \in Workers, Recover(w)
    PROVE  \E to : TypeOK' /\ Works(w, Msg(w), to)
<1>0. /\ worker[w].at = "recover" /\ worker[w].at \in Working /\ worker[w].at \in Replying
      /\ TypeOK /\ UNCHANGED <<job, accepted, slots>>
  BY DEF Recover, Working, Replying, IInv, StaysQuiet
<1>1. PICK m \in Messages : m = Msg(w)
  BY <1>0, MineIs
<1>2. Good(job[m], accepted[m], slots[m], faults, "recover")
  BY <1>0, <1>1, MineIs DEF GoodAt
<1>3. /\ job[m].attempts \in Nat /\ slots[m] \in Nat /\ faults \in Nat /\ MaxAttempts \in Nat
      /\ accepted[m] \in {"none", "forward", "reply", "rcs", "unseen"}
  BY <1>0, Ranges
<1>4. PICK to \in {"recomplete", "release"} :
         /\ Step(w, to)
         /\ \/ to = "recomplete" /\ accepted[m] \in {"forward", "reply"} /\ NoFault
            \/ to = "release" /\ accepted[m] \notin {"forward", "reply"} /\ NoFault
            \/ to = "release" /\ Fault
  BY <1>1 DEF Recover, Found
<1>5. to \in Working /\ (faults' = faults \/ faults' = faults + 1)
      /\ (faults' = faults => (to = "release" <=> accepted[m] \notin {"forward", "reply"}))
  BY <1>3, <1>4 DEF Working, NoFault, Fault
<1>6. Good(job[m], accepted[m], slots[m], faults', to)
  BY <1>2, <1>3, <1>4, <1>5 DEF Good, Working, PayingAt
<1>7. NoFault \/ Fault
  BY <1>4
<1>. QED
  BY <1>0, <1>1, <1>4, <1>5, <1>6, <1>7, GoesOnWorks

LEMMA ReleaseWorks ==
    ASSUME IInv, Aside, NEW w \in Workers, ReleaseSlot(w)
    PROVE  \E to : TypeOK' /\ Works(w, Msg(w), to)
<1>0. /\ worker[w].at = "release" /\ worker[w].at \in Working /\ worker[w].at \in Replying
      /\ TypeOK /\ UNCHANGED <<job, accepted>> /\ Step(w, "failed")
  BY DEF ReleaseSlot, Working, Replying, IInv
<1>1. PICK m \in Messages : m = Msg(w)
  BY <1>0, MineIs
<1>2. Good(job[m], accepted[m], slots[m], faults, "release")
  BY <1>0, <1>1, MineIs DEF GoodAt
<1>3. job[m].attempts \in Nat /\ slots[m] \in Nat /\ faults \in Nat /\ MaxAttempts \in Nat
  BY <1>0, Ranges
<1>4. slots[m] >= 1 /\ slots[m] - 1 \in Nat
  BY <1>2, <1>3 DEF Good, PayingAt
<1>5. /\ slots' \in [Messages -> Nat]
      /\ \A n \in Messages \ {m} : slots'[n] = slots[n]
      /\ \/ slots'[m] = slots[m] - 1 /\ NoFault
         \/ slots'[m] = slots[m] /\ Fault
  <2>1. CASE slots' = [slots EXCEPT ![m] = @ - 1] /\ NoFault
    BY <1>0, <1>4, <2>1 DEF TypeOK
  <2>2. CASE UNCHANGED slots /\ Fault
    BY <1>0, <2>2 DEF TypeOK
  <2>. QED
    BY <1>1, <2>1, <2>2 DEF ReleaseSlot, ReturnedSlot
<1>6. /\ faults' \in 0..MaxFaults /\ faults <= faults' /\ "failed" \in Working
      /\ \/ slots'[m] = slots[m] - 1 /\ faults' = faults
         \/ slots'[m] = slots[m] /\ faults' = faults + 1
  BY <1>0, <1>5, NoFaultIs, FaultIs DEF Working
<1>7. Good(job[m], accepted'[m], slots'[m], faults', "failed")
  <2>1. slots'[m] <= faults' /\ slots'[m] \in Nat
    BY <1>2, <1>3, <1>4, <1>6 DEF Good, PayingAt
  <2>2. faults' <= 1 => accepted[m] # "reply" /\ (accepted[m] = "rcs" => slots'[m] >= 1)
    BY <1>2, <1>3, <1>6 DEF Good
  <2>3. job[m].state = "processing" \/ (job[m].state = "done" /\ faults >= 2)
    BY <1>2 DEF Good, Working
  <2>. QED
    BY <1>0, <1>2, <1>3, <1>6, <2>1, <2>2, <2>3 DEF Good, Working, PayingAt
<1>8. /\ accepted' \in [Messages -> {"none", "forward", "reply", "rcs", "unseen"}]
      /\ \A n \in Messages : accepted'[n] = accepted[n]
  BY <1>0 DEF TypeOK
<1>. QED
  BY <1>0, <1>1, <1>5, <1>6, <1>7, <1>8, StepWorks

LEMMA ForwardSendWorks ==
    ASSUME IInv, Aside, NEW w \in Workers, ForwardSend(w)
    PROVE  \E to : TypeOK' /\ Works(w, Msg(w), to)
<1>0. /\ worker[w].at = "forward" /\ worker[w].at \in Working
      /\ TypeOK /\ UNCHANGED <<job, slots>>
  BY DEF ForwardSend, Working, IInv
<1>1. PICK m \in Messages : m = Msg(w)
  BY <1>0, MineIs
<1>2. Good(job[m], accepted[m], slots[m], faults, "forward")
  BY <1>0, <1>1, MineIs DEF GoodAt
<1>3. job[m].attempts \in Nat /\ slots[m] \in Nat /\ faults \in Nat /\ MaxAttempts \in Nat
  BY <1>0, Ranges
<1>4. slots' \in [Messages -> Nat] /\ \A n \in Messages : slots'[n] = slots[n]
  BY <1>0 DEF TypeOK
<1>5. CASE UNCHANGED accepted /\ Step(w, "failed") /\ NoFault
  <2>1. faults' = faults /\ "failed" \in Working /\ "failed" \notin Replying
    BY <1>5 DEF NoFault, Working, Replying
  <2>2. Good(job[m], accepted[m], slots[m], faults', "failed")
    BY <1>2, <1>3, <2>1 DEF Good, Working, PayingAt
  <2>. QED
    BY <1>0, <1>1, <1>5, <2>1, <2>2, GoesOnWorks
<1>6. ASSUME AcceptAs(m, "forward"), NEW to \in {"forwarded", "failed"}, Step(w, to),
             \/ to = "forwarded" /\ NoFault
             \/ Fault
      PROVE  \E st : TypeOK' /\ Works(w, Msg(w), st)
  <2>1. /\ accepted' \in [Messages -> {"none", "forward", "reply", "rcs", "unseen"}]
        /\ accepted'[m] = IF accepted[m] = "none" THEN "forward" ELSE accepted[m]
        /\ \A n \in Messages \ {m} : accepted'[n] = accepted[n]
    BY <1>6, AcceptIs, <1>0
  <2>2. /\ faults' \in 0..MaxFaults /\ faults <= faults' /\ to \in Working /\ to \notin Replying
        /\ (to = "forwarded" /\ faults' = faults) \/ faults' = faults + 1
    BY <1>0, <1>6, NoFaultIs, FaultIs DEF Working, Replying
  <2>3. Good(job[m], accepted'[m], slots'[m], faults', to)
    BY <1>2, <1>3, <1>4, <1>6, <2>1, <2>2 DEF Good, Working, PayingAt
  <2>4. accepted'[m] \in Replies => accepted[m] \in Replies
    BY <2>1
  <2>. QED
    BY <1>0, <1>1, <1>4, <1>6, <2>1, <2>2, <2>3, <2>4, StepWorks
<1>. QED
  BY <1>1, <1>5, <1>6 DEF ForwardSend

LEMMA ForwardCompleteWorks ==
    ASSUME IInv, Aside, NEW w \in Workers, ForwardComplete(w)
    PROVE  \E to : TypeOK' /\ Works(w, Msg(w), to)
<1>0. /\ worker[w].at = "forwarded" /\ worker[w].at \in Working
      /\ TypeOK /\ UNCHANGED <<accepted, slots>> /\ Step(w, "meter")
  BY DEF ForwardComplete, Working, IInv, StaysQuiet
<1>1. PICK m \in Messages : m = Msg(w)
  BY <1>0, MineIs
<1>2. Good(job[m], accepted[m], slots[m], faults, "forwarded")
  BY <1>0, <1>1, MineIs DEF GoodAt
<1>3. /\ job[m].attempts \in Nat /\ slots[m] \in Nat /\ faults \in Nat /\ MaxAttempts \in Nat
      /\ job[m].state \in {"processing", "done"}
  BY <1>0, <1>1, Ranges, MineIs
<1>4. /\ accepted' \in [Messages -> {"none", "forward", "reply", "rcs", "unseen"}] /\ slots' \in [Messages -> Nat]
      /\ \A n \in Messages : accepted'[n] = accepted[n] /\ slots'[n] = slots[n]
  BY <1>0 DEF TypeOK
<1>5. PICK st, res : /\ Wrote(m, st, res)
                     /\ \/ st = "done" /\ res = "forwarded" /\ NoFault
                        \/ st = job[m].state /\ res = job[m].result /\ Fault
  BY <1>0, <1>1, ClosedIs, NotWritten DEF ForwardComplete
<1>6. worker' \in [Workers -> Worker] /\ Moves(w, m, "meter")
  BY <1>0, <1>1, StepIs DEF Moves, Msg, Working
<1>7. /\ faults' \in 0..MaxFaults /\ faults <= faults'
      /\ \/ st = "done" /\ res = "forwarded" /\ faults' = faults
         \/ st = job[m].state /\ res = job[m].result /\ faults' = faults + 1
  BY <1>0, <1>5, NoFaultIs, FaultIs
<1>8. Good(job'[m], accepted'[m], slots'[m], faults', "meter")
  <2>1. job'[m].attempts = job[m].attempts /\ job'[m].state = st /\ job'[m].result = res
    BY <1>5 DEF Wrote
  <2>. QED
    BY <1>2, <1>3, <1>4, <1>7, <2>1 DEF Good, Working, PayingAt
<1>9. st \in {job[m].state, "pending", "done", "dead_letter"} /\ st # "pending"
  BY <1>3, <1>5
<1>. QED
  BY <1>0, <1>1, <1>4, <1>5, <1>6, <1>7, <1>8, <1>9, WorksIs DEF Replying

LEMMA ForwardMeterWorks ==
    ASSUME IInv, Aside, NEW w \in Workers, ForwardMeter(w)
    PROVE  \E to : TypeOK' /\ Works(w, Msg(w), to)
<1>0. /\ worker[w].at = "meter" /\ worker[w].at \in Working
      /\ TypeOK /\ UNCHANGED <<job, accepted>> /\ Finish(w)
  BY DEF ForwardMeter, Working, IInv
<1>1. PICK m \in Messages : m = Msg(w)
  BY <1>0, MineIs
<1>2. Good(job[m], accepted[m], slots[m], faults, "meter")
  BY <1>0, <1>1, MineIs DEF GoodAt
<1>3. /\ job[m].attempts \in Nat /\ slots[m] \in Nat /\ faults \in Nat /\ MaxAttempts \in Nat
      /\ job[m].state \in {"processing", "done"}
  BY <1>0, <1>1, Ranges, MineIs
<1>4. /\ slots' \in [Messages -> Nat]
      /\ \A n \in Messages \ {m} : slots'[n] = slots[n]
      /\ \/ slots'[m] = slots[m] + 1 /\ NoFault
         \/ slots'[m] = slots[m] /\ Fault
  BY <1>0, <1>1, <1>3 DEF ForwardMeter, TypeOK
<1>5. /\ faults' \in 0..MaxFaults /\ faults <= faults'
      /\ \/ slots'[m] = slots[m] + 1 /\ faults' = faults
         \/ slots'[m] = slots[m] /\ faults' = faults + 1
  BY <1>0, <1>4, NoFaultIs, FaultIs
<1>6. Good(job[m], accepted[m], slots'[m], faults', "free")
  BY <1>2, <1>3, <1>5 DEF Good, Working, PayingAt
<1>7. /\ accepted' \in [Messages -> {"none", "forward", "reply", "rcs", "unseen"}]
      /\ \A n \in Messages : accepted'[n] = accepted[n]
  BY <1>0 DEF TypeOK
<1>8. worker' \in [Workers -> Worker] /\ Moves(w, m, "free")
  BY <1>0, FinishIs DEF Moves
<1>9. Wrote(m, job[m].state, job[m].result) /\ job'[m] = job[m]
  BY <1>0, NotWritten
<1>. QED
  BY <1>0, <1>1, <1>3, <1>4, <1>5, <1>6, <1>7, <1>8, <1>9, WorksIs DEF Replying

LEMMA WorkKeeps ==
    ASSUME IInv, NEW w \in Workers, \E to : TypeOK' /\ Works(w, Msg(w), to)
    PROVE  IInv'
<1>1. PICK to : TypeOK' /\ Works(w, Msg(w), to)
  OBVIOUS
<1>2. PICK m \in Messages : m = Msg(w)
  BY <1>1 DEF Works
<1>3. Works(w, m, to)
  BY <1>1, <1>2
<1>. QED
  BY <1>1, <1>3, WorksKeeps

LEMMA WorkingKeeps ==
    ASSUME IInv, Aside, NEW w \in Workers,
           \/ Gate(w) \/ Compose(w) \/ Reserve(w) \/ SendRcs(w) \/ Send(w) \/ Complete(w) \/ Recover(w)
           \/ Recomplete(w) \/ ReleaseSlot(w) \/ Failed(w)
           \/ ForwardSend(w) \/ ForwardComplete(w) \/ ForwardMeter(w)
    PROVE  IInv'
<1>. SUFFICES \E to : TypeOK' /\ Works(w, Msg(w), to)
  BY WorkKeeps
<1>1. CASE Complete(w)
  <2>1. /\ worker[w].at = "complete" /\ UNCHANGED <<accepted, slots>>
        /\ "recomplete" \in Working /\ CompleteOr(w, "recomplete")
    BY <1>1 DEF Complete, StaysQuiet, Working
  <2>. QED
    BY <2>1, CompleteWorks
<1>2. CASE Recomplete(w)
  <2>1. /\ worker[w].at = "recomplete" /\ UNCHANGED <<accepted, slots>>
        /\ "release" \in Working /\ CompleteOr(w, "release")
    BY <1>2 DEF Recomplete, StaysQuiet, Working
  <2>. QED
    BY <2>1, CompleteWorks
<1>3. CASE Failed(w)
  <2>1. worker[w].at \in {"compose", "failed"} /\ UNCHANGED <<accepted, slots>> /\ Retry(w)
    BY <1>3 DEF Failed, StaysQuiet
  <2>2. TypeOK' /\ Works(w, Msg(w), "free")
    BY <2>1, RetryWorks
  <2>. QED
    BY <2>2
<1>. QED
  BY <1>1, <1>2, <1>3, GateWorks, ComposeWorks, ReserveWorks, SendRcsWorks, SendWorks,
     RecoverWorks, ReleaseWorks, ForwardSendWorks, ForwardCompleteWorks, ForwardMeterWorks

-----------------------------------------------------------------------------
(* The steps in which a worker takes messages, passes on, or stops. *)

\* Only one worker changes, and it does not go on to reply.
LEMMA WorkerKeeps ==
    ASSUME IInv, TypeOK', UNCHANGED <<mode, flow, owned, event, handler, job, history>>,
           faults <= faults', UNCHANGED <<accepted, slots>>,
           NEW w \in Workers, \A u \in Workers \ {w} : worker'[u] = worker[u],
           worker'[w].at \notin Replying,
           worker'[w].at \in Working => job[worker'[w].msg].stamp > 0,
           worker'[w].at = "claim" =>
              \A m \in worker'[w].batch : job[m].state \notin {"none", "inserting"},
           Shaped', Local', Ordered'
    PROVE  IInv'
<1>. USE DEF IInv
<1>1. Suppressed'
  <2>1. \A u \in Workers : worker'[u].at \in Replying => u # w
    OBVIOUS
  <2>. QED
    BY <2>1 DEF Suppressed, Msg
<1>2. Snapped'
  BY DEF Snapped
<1>3. Stamped'
  <2>1. Rows' = Rows
    BY DEF Rows
  <2>2. Cardinality(Rows) \in Nat /\ faults \in Nat /\ faults' \in Nat
    <3>1. Rows \in SUBSET Messages
      BY DEF Rows
    <3>. QED
      BY <3>1, InboundAssumption, FS_Subset, FS_CardinalityType DEF TypeOK
  <2>3. \A m \in Messages : job[m].stamp \in Nat
    BY Ranges
  <2>4. \A m \in Messages : job[m].stamp <= Cardinality(Rows) + faults'
    BY <2>2, <2>3 DEF Stamped
  <2>5. \A u \in Workers : worker'[u].at \in Working => job[worker'[u].msg].stamp > 0
    BY DEF Stamped, Msg
  <2>. QED
    BY <2>1, <2>4, <2>5 DEF Stamped, Msg
<1>4. Handled'
  BY DEF Handled
<1>5. Flows'
  BY DEF Flows, Undecided, history
<1>. QED
  BY <1>1, <1>2, <1>3, <1>4, <1>5

LEMMA StartKeeps ==
    ASSUME IInv, Aside, NEW w \in Workers, NEW m \in Messages, Start(w, m)
    PROVE  IInv'
<1>. USE DEF IInv
<1>1. /\ worker[w].at \in {"first", "next"} /\ m \in worker[w].batch
      /\ UNCHANGED <<job, accepted, slots, faults>>
  BY DEF Start, StaysQuiet, NoFault
<1>2. PICK v : /\ v = [at |-> "gate", msg |-> m, batch |-> worker[w].batch \ {m}]
               /\ worker' = [worker EXCEPT ![w] = v]
  BY DEF Start
<1>3. v \in Worker
  BY <1>2 DEF TypeOK, Worker
<1>4. TypeOK'
  BY <1>1, <1>2, <1>3 DEF TypeOK, Aside, history
<1>5. /\ worker'[w] = v /\ \A u \in Workers \ {w} : worker'[u] = worker[u]
      /\ v.at = "gate" /\ v.msg = m /\ v.batch = worker[w].batch \ {m}
  BY <1>2 DEF TypeOK
<1>6. Taken(w) = worker[w].batch /\ Taken(w)' = worker[w].batch \ {m} /\ Msg(w)' = m
  BY <1>1, <1>5 DEF Taken, Msg
<1>7. Msg(w) \notin Messages
  BY <1>1 DEF Shaped, Working
<1>8. \A u \in Workers \ {w} : Taken(u)' = Taken(u) /\ Msg(u)' = Msg(u)
  BY <1>5 DEF Taken, Msg
<1>9. \A u \in Workers, n \in Messages : Holds(u, n)' <=> Holds(u, n)
  BY <1>1, <1>6, <1>7, <1>8 DEF Holds
<1>10. GoodAt(m, "batch") /\ job[m].stamp > 0
  <2>1. GoodAt(m, "batch")
    BY <1>1, <1>6 DEF Local
  <2>. QED
    BY <2>1 DEF GoodAt, Good, Stamped
<1>11. GoodAt(m, "gate")
  BY <1>10, Ranges DEF GoodAt, Good, Working, PayingAt
<1>12. Shaped'
  <2>1. \A u \in Workers : u # w => /\ Msg(u)' \in Messages <=> worker'[u].at \in Working
                                    /\ worker'[u].at = "idle" => worker'[u].batch = {}
                                    /\ Msg(u)' \notin worker'[u].batch
    BY <1>5, <1>8 DEF Shaped
  <2>2. /\ Msg(w)' \in Messages /\ worker'[w].at \in Working /\ worker'[w].at # "idle"
        /\ Msg(w)' \notin worker'[w].batch
    BY <1>5, <1>6 DEF Working
  <2>. QED
    BY <1>9, <2>1, <2>2 DEF Shaped
<1>13. Local'
  <2>1. ASSUME NEW n \in Messages
        PROVE  /\ (\A u \in Workers : ~Holds(u, n)') => GoodAt(n, "free")
               /\ \A u \in Workers : n \in Taken(u)' => GoodAt(n, "batch")
               /\ \A u \in Workers : Msg(u)' = n => GoodAt(n, worker'[u].at)
    BY <1>5, <1>6, <1>8, <1>9, <1>11 DEF Local
  <2>. QED
    BY <1>1, <2>1 DEF Local, GoodAt
<1>14. Ordered'
  <2>1. \A n \in Messages : Chosen(n)' => Chosen(n)
    BY <1>1, <1>5 DEF Chosen
  <2>. QED
    BY <1>1, <2>1 DEF Ordered, Siblings, Active, Aside, history
<1>. QED
  BY <1>1, <1>4, <1>5, <1>10, <1>12, <1>13, <1>14, WorkerKeeps, Ranges DEF Aside, Replying, Working

\* The invocation ends and lets go of what it held.
LEMMA WorkerDiesKeeps ==
    ASSUME IInv, Aside, NEW w \in Workers, WorkerDies(w)
    PROVE  IInv'
<1>. USE DEF IInv
<1>1. UNCHANGED <<job, accepted, slots>> /\ Fault /\ worker' = [worker EXCEPT ![w] = IdleWorker]
  BY DEF WorkerDies, StaysQuiet
<1>2. faults' \in 0..MaxFaults /\ faults' = faults + 1 /\ faults \in Nat /\ faults' \in Nat
      /\ faults <= faults'
  BY <1>1, FaultIs, Ranges
<1>3. IdleWorker \in Worker
  BY DEF IdleWorker, Worker
<1>4. TypeOK'
  BY <1>1, <1>2, <1>3 DEF TypeOK, Aside, history
<1>5. /\ worker'[w] = IdleWorker /\ \A u \in Workers \ {w} : worker'[u] = worker[u]
      /\ worker'[w].at = "idle" /\ worker'[w].msg = NoMessage /\ worker'[w].batch = {}
  BY <1>1 DEF TypeOK, IdleWorker
<1>6. Taken(w)' = {} /\ Msg(w)' = NoMessage /\ NoMessage \notin Messages
  BY <1>5, InboundAssumption DEF Taken, Msg
<1>7. \A u \in Workers \ {w} : Taken(u)' = Taken(u) /\ Msg(u)' = Msg(u)
  BY <1>5 DEF Taken, Msg
<1>8. Shaped'
  <2>1. \A u \in Workers, n \in Messages : Holds(u, n)' => Holds(u, n)
    BY <1>6, <1>7 DEF Holds
  <2>2. \A u \in Workers : u # w => /\ Msg(u)' \in Messages <=> worker'[u].at \in Working
                                    /\ worker'[u].at = "idle" => worker'[u].batch = {}
                                    /\ Msg(u)' \notin worker'[u].batch
    BY <1>5, <1>7 DEF Shaped
  <2>3. /\ Msg(w)' \notin Messages /\ worker'[w].at \notin Working /\ worker'[w].batch = {}
    BY <1>5, <1>6 DEF Working
  <2>. QED
    BY <2>1, <2>2, <2>3 DEF Shaped
<1>9. Local'
  <2>1. ASSUME NEW n \in Messages
        PROVE  /\ (\A u \in Workers : ~Holds(u, n)')
                     => Good(job[n], accepted[n], slots[n], faults', "free")
               /\ \A u \in Workers : n \in Taken(u)'
                     => Good(job[n], accepted[n], slots[n], faults', "batch")
               /\ \A u \in Workers : Msg(u)' = n
                     => Good(job[n], accepted[n], slots[n], faults', worker'[u].at)
    <3>1. /\ job[n] \in Job /\ slots[n] \in Nat /\ job[n].attempts \in Nat
          /\ MaxAttempts \in Nat
      BY Ranges
    <3>2. ASSUME NEW at, GoodAt(n, at)
          PROVE  Good(job[n], accepted[n], slots[n], faults', at)
      BY <1>2, <3>1, <3>2, GoodLater DEF GoodAt
    <3>3. ASSUME \A u \in Workers : ~Holds(u, n)'
          PROVE  Good(job[n], accepted[n], slots[n], faults', "free")
      <4>1. \A u \in Workers \ {w} : ~Holds(u, n)
        BY <1>7, <3>3 DEF Holds
      <4>2. PICK at \in Working \cup {"batch", "free"} : GoodAt(n, at)
        <5>1. CASE ~Holds(w, n)
          BY <4>1, <5>1 DEF Local
        <5>2. CASE Msg(w) = n
          BY <5>2 DEF Local, Shaped
        <5>3. CASE n \in Taken(w)
          BY <5>3 DEF Local
        <5>. QED
          BY <5>1, <5>2, <5>3 DEF Holds
      <4>3. Good(job[n], accepted[n], slots[n], faults, at)
        BY <4>2 DEF GoodAt
      <4>. QED
        BY <1>2, <3>1, <4>2, <4>3 DEF Good, Working, PayingAt
    <3>. QED
      BY <1>5, <1>6, <1>7, <3>2, <3>3 DEF Local
  <2>. QED
    BY <1>1, <2>1 DEF Local, GoodAt
<1>10. Ordered'
  <2>1. \A n \in Messages : Chosen(n)' => Chosen(n)
    BY <1>1, <1>5 DEF Chosen
  <2>. QED
    BY <1>1, <1>2, <2>1 DEF Ordered, Siblings, Active, Aside, history
<1>. QED
  BY <1>1, <1>2, <1>4, <1>5, <1>8, <1>9, <1>10, WorkerKeeps DEF Aside, Replying, Working

\* What is not being processed and not done is held by no worker.
LEMMA FreeIs ==
    ASSUME IInv, NEW m \in Messages, job[m].state \notin {"processing", "done"}
    PROVE  (\A w \in Workers : ~Holds(w, m)) /\ GoodAt(m, "free")
<1>1. ASSUME NEW w \in Workers, Holds(w, m) PROVE FALSE
  <2>1. CASE Msg(w) = m
    <3>1. worker[w].at \in Working
      BY <2>1 DEF IInv, Shaped
    <3>. QED
      BY <2>1, <3>1, MineIs
  <2>2. CASE m \in Taken(w)
    BY <2>2 DEF IInv, Local, GoodAt, Good
  <2>. QED
    BY <1>1, <2>1, <2>2 DEF Holds
<1>. QED
  BY <1>1 DEF IInv, Local

LEMMA ClaimBeginKeeps ==
    ASSUME IInv, NEW w \in Workers, ClaimBegin(w)
    PROVE  IInv'
<1>. USE DEF IInv
<1>1. /\ worker[w].at = "idle"
      /\ UNCHANGED <<mode, flow, owned, event, handler, job, accepted, slots, history, faults>>
  BY DEF ClaimBegin
<1>2. PICK v : v = [worker[w] EXCEPT !.at = "claim", !.batch = Claimable]
               /\ worker' = [worker EXCEPT ![w] = v]
  BY DEF ClaimBegin, TypeOK
<1>3. v \in Worker /\ v.at = "claim" /\ v.msg = Msg(w) /\ v.batch = Claimable
  <2>1. worker[w] \in Worker /\ Claimable \subseteq Messages
    BY DEF TypeOK, Claimable
  <2>. QED
    BY <1>2, <2>1, Zenon DEF Worker, Msg
<1>4. TypeOK'
  BY <1>1, <1>2, <1>3 DEF TypeOK, history
<1>5. worker'[w] = v /\ \A u \in Workers \ {w} : worker'[u] = worker[u]
  BY <1>2 DEF TypeOK
<1>6. /\ Taken(w) = {} /\ Taken(w)' = {} /\ Msg(w)' = Msg(w) /\ Msg(w) \notin Messages
      /\ \A u \in Workers \ {w} : Taken(u)' = Taken(u) /\ Msg(u)' = Msg(u)
  BY <1>1, <1>3, <1>5 DEF Taken, Msg, Shaped, Working
<1>7. \A u \in Workers, n \in Messages : Holds(u, n)' <=> Holds(u, n)
  BY <1>6 DEF Holds
<1>8. Shaped'
  <2>1. \A u \in Workers : u # w => /\ Msg(u)' \in Messages <=> worker'[u].at \in Working
                                    /\ worker'[u].at = "idle" => worker'[u].batch = {}
                                    /\ Msg(u)' \notin worker'[u].batch
    BY <1>5, <1>6 DEF Shaped
  <2>2. /\ Msg(w)' \notin Messages /\ worker'[w].at \notin Working /\ worker'[w].at # "idle"
        /\ Msg(w)' \notin worker'[w].batch
    BY <1>3, <1>5, <1>6 DEF Working, Claimable
  <2>. QED
    BY <1>7, <2>1, <2>2 DEF Shaped
<1>9. Local'
  <2>1. ASSUME NEW n \in Messages
        PROVE  /\ (\A u \in Workers : ~Holds(u, n)') => GoodAt(n, "free")
               /\ \A u \in Workers : n \in Taken(u)' => GoodAt(n, "batch")
               /\ \A u \in Workers : Msg(u)' = n => GoodAt(n, worker'[u].at)
    BY <1>5, <1>6, <1>7 DEF Local
  <2>. QED
    BY <1>1, <2>1 DEF Local, GoodAt
<1>10. \A m \in Claimable : job[m].state = "pending" /\ Unblocked(m)
  BY DEF Claimable
<1>11. Ordered'
  <2>. SUFFICES ASSUME faults <= 1, NEW m \in Messages, NEW n \in Siblings(m),
                       Active(m), m \notin late, job[m].stamp < job[n].stamp, Chosen(n)'
                PROVE  FALSE
    BY <1>1 DEF Ordered, Siblings, Active, history
  <2>1. n \in Messages /\ m \in Siblings(n)
    BY DEF Siblings
  <2>2. CASE Chosen(n)
    BY <2>2 DEF Ordered
  <2>3. CASE n \in Claimable
    BY <1>10, <2>1, <2>3 DEF Unblocked, Active
  <2>. QED
    BY <1>1, <1>3, <1>5, <2>1, <2>2, <2>3 DEF Chosen
<1>12. \A m \in worker'[w].batch : job[m].state \notin {"none", "inserting"}
  BY <1>3, <1>5, <1>10
<1>. QED
  BY <1>1, <1>3, <1>4, <1>5, <1>8, <1>9, <1>11, <1>12, WorkerKeeps, Ranges DEF Replying, Working

\* The claim's rows were pending, so that nobody held them.
LEMMA ClaimCommitKeeps ==
    ASSUME IInv, NEW w \in Workers, ClaimCommit(w)
    PROVE  IInv'
<1>. USE DEF IInv
<1>1. /\ worker[w].at = "claim"
      /\ UNCHANGED <<mode, flow, owned, event, handler, accepted, slots, again, late, faults>>
  BY DEF ClaimCommit, history
<1>2. PICK taken : taken = {m \in worker[w].batch : job[m].state = "pending"}
  OBVIOUS
<1>3. taken \subseteq Messages /\ \A m \in taken : job[m].state = "pending" /\ m \in worker[w].batch
  BY <1>2 DEF TypeOK, Worker
<1>4. job' = [m \in Messages |-> IF m \in taken
                                 THEN [job[m] EXCEPT !.state = "processing", !.attempts = @ + 1]
                                 ELSE job[m]]
  BY <1>2 DEF ClaimCommit
<1>5. /\ \A m \in Messages \ taken : job'[m] = job[m]
      /\ \A m \in taken : /\ job'[m] \in Job
                          /\ job'[m].state = "processing" /\ job'[m].stamp = job[m].stamp
                          /\ job'[m].suppress = job[m].suppress /\ job'[m].result = job[m].result
                          /\ job'[m].attempts = job[m].attempts + 1
      /\ job' \in [Messages -> Job]
  <2>1. ASSUME NEW m \in taken
        PROVE  /\ job'[m] \in Job
               /\ job'[m].state = "processing" /\ job'[m].stamp = job[m].stamp
               /\ job'[m].suppress = job[m].suppress /\ job'[m].result = job[m].result
               /\ job'[m].attempts = job[m].attempts + 1
    <3>1. m \in Messages /\ job[m] \in Job /\ job[m].attempts + 1 \in Nat
      BY <1>3, Ranges
    <3>2. job'[m] = [job[m] EXCEPT !.state = "processing", !.attempts = job[m].attempts + 1]
      BY <1>4, <3>1 DEF Job
    <3>. QED
      BY <3>1, <3>2, Zenon DEF Job
  <2>2. \A m \in Messages \ taken : job'[m] = job[m]
    BY <1>4
  <2>. QED
    BY <1>4, <2>1, <2>2 DEF TypeOK
<1>6. PICK v : /\ v = [at |-> IF taken = {} THEN "idle" ELSE "first",
                       msg |-> NoMessage, batch |-> taken]
               /\ worker' = [worker EXCEPT ![w] = v]
  BY <1>2 DEF ClaimCommit
<1>7. /\ v \in Worker /\ v.at \in {"idle", "first"} /\ v.msg = NoMessage /\ v.batch = taken
      /\ v.at = "idle" => taken = {}
  BY <1>3, <1>6 DEF Worker
<1>8. worker'[w] = v /\ \A u \in Workers \ {w} : worker'[u] = worker[u]
  BY <1>6 DEF TypeOK
<1>9. TypeOK'
  BY <1>1, <1>5, <1>6, <1>7 DEF TypeOK
<1>10. /\ Taken(w) = {} /\ Taken(w)' = taken /\ Msg(w)' = NoMessage /\ Msg(w) \notin Messages
       /\ NoMessage \notin Messages
       /\ \A u \in Workers \ {w} : Taken(u)' = Taken(u) /\ Msg(u)' = Msg(u)
  BY <1>1, <1>7, <1>8, InboundAssumption DEF Taken, Msg, Shaped, Working
<1>11. \A m \in taken : (\A u \in Workers : ~Holds(u, m)) /\ GoodAt(m, "free")
  BY <1>3, FreeIs
<1>12. \A u \in Workers, n \in Messages :
          Holds(u, n)' <=> Holds(u, n) \/ (u = w /\ n \in taken)
  BY <1>10 DEF Holds
<1>13. Shaped'
  <2>1. \A u \in Workers : u # w => /\ Msg(u)' \in Messages <=> worker'[u].at \in Working
                                    /\ worker'[u].at = "idle" => worker'[u].batch = {}
                                    /\ Msg(u)' \notin worker'[u].batch
    BY <1>8, <1>10 DEF Shaped
  <2>2. /\ Msg(w)' \notin Messages /\ worker'[w].at \notin Working
        /\ worker'[w].at = "idle" => worker'[w].batch = {}
        /\ Msg(w)' \notin worker'[w].batch
    BY <1>3, <1>7, <1>8, <1>10 DEF Working
  <2>3. \A s, u \in Workers, n \in Messages : Holds(s, n)' /\ Holds(u, n)' => s = u
    BY <1>11, <1>12 DEF Shaped
  <2>. QED
    BY <2>1, <2>2, <2>3 DEF Shaped
<1>14. Local'
  <2>1. ASSUME NEW n \in Messages \ taken
        PROVE  /\ (\A u \in Workers : ~Holds(u, n)') => GoodAt(n, "free")
               /\ \A u \in Workers : n \in Taken(u)' => GoodAt(n, "batch")
               /\ \A u \in Workers : Msg(u)' = n => GoodAt(n, worker'[u].at)
    BY <1>8, <1>10, <1>12 DEF Local
  <2>2. ASSUME NEW n \in taken
        PROVE  /\ Holds(w, n)'
               /\ Good(job'[n], accepted[n], slots[n], faults, "batch")
               /\ \A u \in Workers : Msg(u)' # n
    <3>1. job[n].attempts \in Nat /\ slots[n] \in Nat /\ faults \in Nat /\ MaxAttempts \in Nat
      BY <1>3, Ranges
    <3>2. Good(job[n], accepted[n], slots[n], faults, "free") /\ job[n].state = "pending"
      BY <1>3, <1>11 DEF GoodAt
    <3>3. Good(job'[n], accepted[n], slots[n], faults, "batch")
      BY <1>5, <3>1, <3>2 DEF Good, Working, PayingAt
    <3>. QED
      BY <1>3, <1>10, <1>11, <1>12, <3>3 DEF Holds
  <2>. QED
    BY <1>1, <1>3, <1>5, <2>1, <2>2 DEF Local, GoodAt
<1>15. \A m \in Messages : /\ job'[m].stamp = job[m].stamp /\ job'[m].suppress = job[m].suppress
                           /\ job'[m] = job[m] \/ (job'[m].state = "processing" /\ job[m].state = "pending")
  BY <1>3, <1>5
<1>16. Suppressed'
  <2>1. \A u \in Workers : worker'[u].at \in Replying => u # w /\ Msg(u)' = Msg(u) /\ Msg(u) \in Messages
    BY <1>7, <1>8, <1>10 DEF Replying, Working, Shaped
  <2>. QED
    BY <1>1, <1>8, <1>15, <2>1 DEF Suppressed
<1>17. Snapped'
  BY <1>7, <1>8, <1>15 DEF Snapped
<1>18. Stamped'
  <2>1. Rows' = Rows
    BY <1>15 DEF Rows
  <2>2. \A u \in Workers : worker'[u].at \in Working => u # w /\ Msg(u)' = Msg(u) /\ Msg(u) \in Messages
    BY <1>7, <1>8, <1>10 DEF Working, Shaped
  <2>. QED
    BY <1>1, <1>8, <1>15, <2>1, <2>2 DEF Stamped
<1>19. Ordered'
  <2>1. \A n \in Messages : Active(n)' <=> Active(n)
    BY <1>15 DEF Active
  <2>2. \A n \in Messages : Chosen(n)' => Chosen(n)
    BY <1>1, <1>3, <1>5, <1>7, <1>8 DEF Chosen
  <2>. QED
    BY <1>1, <1>15, <2>1, <2>2 DEF Ordered, Siblings
<1>20. Handled'
  BY <1>1, <1>15 DEF Handled
<1>21. Flows'
  BY <1>1, <1>15 DEF Flows, Undecided
<1>. QED
  BY <1>9, <1>13, <1>14, <1>16, <1>17, <1>18, <1>19, <1>20, <1>21

\* The rest of the batch goes back, all of it being processed.
LEMMA DeferKeeps ==
    ASSUME IInv, Aside, NEW w \in Workers, Defer(w)
    PROVE  IInv'
<1>. USE DEF IInv
<1>1. worker[w].at = "next" /\ UNCHANGED <<accepted, slots>> /\ worker' = [worker EXCEPT ![w] = IdleWorker]
  BY DEF Defer, StaysQuiet
<1>2. CASE UNCHANGED job /\ Fault
  BY <1>1, <1>2, WorkerDiesKeeps DEF WorkerDies, StaysQuiet
<1>3. CASE /\ job' = [m \in Messages |-> IF m \in worker[w].batch /\ job[m].state = "processing"
                                         THEN HandedBack(job[m]) ELSE job[m]]
           /\ NoFault
  <2>1. PICK back : back = worker[w].batch
    OBVIOUS
  <2>2. Taken(w) = back /\ back \subseteq Messages
    BY <1>1, <2>1 DEF Taken, TypeOK, Worker
  <2>3. \A m \in back : GoodAt(m, "batch") /\ job[m].state = "processing"
    BY <2>2 DEF Local, GoodAt, Good
  <2>4. /\ \A m \in Messages \ back : job'[m] = job[m]
        /\ \A m \in back : /\ job'[m] \in Job
                           /\ job'[m].state = "pending" /\ job'[m].stamp = job[m].stamp
                           /\ job'[m].suppress = job[m].suppress /\ job'[m].result = job[m].result
                           /\ job'[m].attempts = 0 \/ job'[m].attempts = job[m].attempts - 1
        /\ job' \in [Messages -> Job]
    <3>1. ASSUME NEW m \in back
          PROVE  /\ job'[m] \in Job
                 /\ job'[m].state = "pending" /\ job'[m].stamp = job[m].stamp
                 /\ job'[m].suppress = job[m].suppress /\ job'[m].result = job[m].result
                 /\ job'[m].attempts = 0 \/ job'[m].attempts = job[m].attempts - 1
      <4>1. m \in Messages /\ job[m] \in Job /\ job[m].attempts \in Nat
        BY <2>2, Ranges
      <4>2. PICK left \in Nat : /\ left = greatest(0, job[m].attempts - 1)
                                /\ left = 0 \/ left = job[m].attempts - 1
        BY <4>1 DEF greatest
      <4>3. job'[m] = [job[m] EXCEPT !.state = "pending", !.attempts = left]
        BY <1>3, <2>1, <2>3, <4>1, <4>2 DEF HandedBack, Job
      <4>4. /\ job'[m] \in Job
            /\ job'[m].state = "pending" /\ job'[m].stamp = job[m].stamp
            /\ job'[m].suppress = job[m].suppress /\ job'[m].result = job[m].result
            /\ job'[m].attempts = left
        BY <4>1, <4>3, Zenon DEF Job
      <4>. QED
        BY <4>2, <4>4
    <3>2. \A m \in Messages \ back : job'[m] = job[m]
      BY <1>3, <2>1
    <3>. QED
      BY <1>3, <2>2, <3>1, <3>2 DEF TypeOK
  <2>5. IdleWorker \in Worker
    BY DEF IdleWorker, Worker
  <2>6. UNCHANGED <<mode, flow, owned, event, handler, again, late, faults>>
    BY <1>3 DEF Aside, history, NoFault
  <2>7. TypeOK'
    BY <1>1, <2>4, <2>5, <2>6 DEF TypeOK
  <2>8. /\ worker'[w] = IdleWorker /\ \A u \in Workers \ {w} : worker'[u] = worker[u]
        /\ worker'[w].at = "idle" /\ worker'[w].msg = NoMessage /\ worker'[w].batch = {}
    BY <1>1 DEF TypeOK, IdleWorker
  <2>9. /\ Taken(w)' = {} /\ Msg(w)' = NoMessage /\ NoMessage \notin Messages
        /\ Msg(w) \notin Messages
        /\ \A u \in Workers \ {w} : Taken(u)' = Taken(u) /\ Msg(u)' = Msg(u)
    BY <1>1, <2>8, InboundAssumption DEF Taken, Msg, Shaped, Working
  <2>10. \A u \in Workers, n \in Messages : Holds(u, n)' <=> Holds(u, n) /\ u # w
    BY <2>9 DEF Holds
  <2>11. \A u \in Workers \ {w}, n \in back : ~Holds(u, n)
    BY <2>2 DEF Shaped, Holds
  <2>12. Shaped'
    <3>1. \A u \in Workers : u # w => /\ Msg(u)' \in Messages <=> worker'[u].at \in Working
                                      /\ worker'[u].at = "idle" => worker'[u].batch = {}
                                      /\ Msg(u)' \notin worker'[u].batch
      BY <2>8, <2>9 DEF Shaped
    <3>2. /\ Msg(w)' \notin Messages /\ worker'[w].at \notin Working /\ worker'[w].batch = {}
      BY <2>8, <2>9 DEF Working
    <3>3. \A s, u \in Workers, n \in Messages : Holds(s, n)' /\ Holds(u, n)' => s = u
      BY <2>10 DEF Shaped
    <3>. QED
      BY <3>1, <3>2, <3>3 DEF Shaped
  <2>13. Local'
    <3>1. ASSUME NEW n \in Messages \ back
          PROVE  /\ (\A u \in Workers : ~Holds(u, n)') => GoodAt(n, "free")
                 /\ \A u \in Workers : n \in Taken(u)' => GoodAt(n, "batch")
                 /\ \A u \in Workers : Msg(u)' = n => GoodAt(n, worker'[u].at)
      <4>1. ~Holds(w, n)
        BY <2>2, <2>9 DEF Holds
      <4>. QED
        BY <2>8, <2>9, <2>10, <4>1 DEF Local
    <3>2. ASSUME NEW n \in back
          PROVE  /\ Good(job'[n], accepted[n], slots[n], faults, "free")
                 /\ \A u \in Workers : ~Holds(u, n)'
      <4>1. /\ job[n].attempts \in Nat /\ slots[n] \in Nat /\ faults \in Nat
            /\ MaxAttempts \in Nat /\ MaxAttempts >= 1
        BY <2>2, Ranges
      <4>2. Good(job[n], accepted[n], slots[n], faults, "batch") /\ job[n].state = "processing"
        BY <2>3 DEF GoodAt
      <4>3. Good(job'[n], accepted[n], slots[n], faults, "free")
        BY <2>4, <4>1, <4>2 DEF Good, Working, PayingAt
      <4>. QED
        BY <2>2, <2>10, <2>11, <4>3
    <3>. QED
      BY <1>1, <2>4, <2>6, <3>1, <3>2 DEF Local, GoodAt, Holds
  <2>14. \A m \in Messages : /\ job'[m].stamp = job[m].stamp /\ job'[m].suppress = job[m].suppress
                             /\ job'[m] = job[m] \/ (job'[m].state = "pending" /\ job[m].state = "processing")
    BY <2>3, <2>4
  <2>15. Suppressed'
    <3>1. \A u \in Workers : worker'[u].at \in Replying => u # w /\ Msg(u)' = Msg(u) /\ Msg(u) \in Messages
      BY <2>8, <2>9 DEF Replying, Working, Shaped
    <3>. QED
      BY <1>1, <2>8, <2>14, <3>1 DEF Suppressed
  <2>16. Snapped'
    BY <2>8, <2>14 DEF Snapped
  <2>17. Stamped'
    <3>1. Rows' = Rows
      BY <2>14 DEF Rows
    <3>2. \A u \in Workers : worker'[u].at \in Working => u # w /\ Msg(u)' = Msg(u) /\ Msg(u) \in Messages
      BY <2>8, <2>9 DEF Working, Shaped
    <3>. QED
      BY <2>6, <2>8, <2>14, <3>1, <3>2 DEF Stamped
  <2>18. Ordered'
    <3>1. \A n \in Messages : Active(n)' <=> Active(n)
      BY <2>14 DEF Active
    <3>2. \A n \in Messages : Chosen(n)' => Chosen(n)
      BY <2>8, <2>14 DEF Chosen
    <3>. QED
      BY <2>6, <2>14, <3>1, <3>2 DEF Ordered, Siblings
  <2>19. Handled'
    BY <2>6, <2>14 DEF Handled
  <2>20. Flows'
    BY <2>6, <2>14 DEF Flows, Undecided
  <2>. QED
    BY <2>7, <2>12, <2>13, <2>15, <2>16, <2>17, <2>18, <2>19, <2>20
<1>. QED
  BY <1>2, <1>3 DEF Defer

-----------------------------------------------------------------------------
(* The steps on a row that no worker holds: the reclaim, and the webhook's. *)

\* The row of m may change, where no worker holds it.
LEMMA RowKeeps ==
    ASSUME IInv, TypeOK', UNCHANGED <<worker, accepted, slots>>, faults <= faults',
           NEW m \in Messages, \A n \in Messages \ {m} : job'[n] = job[n],
           \/ job'[m] = job[m]
           \/ /\ \A w \in Workers : ~Holds(w, m)
              /\ Good(job'[m], accepted[m], slots[m], faults', "free")
    PROVE  Shaped' /\ Local'
<1>. USE DEF IInv
<1>1. \A w \in Workers : Msg(w)' = Msg(w) /\ Taken(w)' = Taken(w) /\ worker'[w] = worker[w]
  BY DEF Msg, Taken
<1>2. \A w \in Workers, n \in Messages : Holds(w, n)' <=> Holds(w, n)
  BY <1>1 DEF Holds
<1>3. Shaped'
  BY <1>1, <1>2 DEF Shaped
<1>4. ASSUME NEW n \in Messages, job'[n] = job[n], NEW at, GoodAt(n, at)
      PROVE  Good(job'[n], accepted[n], slots[n], faults', at)
  <2>1. job[n] \in Job /\ slots[n] \in Nat /\ faults \in Nat /\ faults' \in Nat
    BY InboundAssumption DEF TypeOK
  <2>. QED
    BY <1>4, <2>1, GoodLater DEF GoodAt
<1>5. ASSUME NEW n \in Messages
      PROVE  /\ (\A w \in Workers : ~Holds(w, n)) => Good(job'[n], accepted[n], slots[n], faults', "free")
             /\ \A w \in Workers : n \in Taken(w) => Good(job'[n], accepted[n], slots[n], faults', "batch")
             /\ \A w \in Workers : Msg(w) = n => Good(job'[n], accepted[n], slots[n], faults', worker[w].at)
  <2>1. CASE job'[n] = job[n]
    BY <1>4, <2>1 DEF Local
  <2>2. CASE n = m /\ (\A w \in Workers : ~Holds(w, m))
             /\ Good(job'[m], accepted[m], slots[m], faults', "free")
    BY <2>2 DEF Holds
  <2>. QED
    BY <2>1, <2>2
<1>6. Local'
  BY <1>1, <1>2, <1>5 DEF Local, GoodAt
<1>. QED
  BY <1>3, <1>6

LEMMA RowsAre ==
    ASSUME TypeOK PROVE IsFiniteSet(Rows) /\ Cardinality(Rows) \in Nat /\ Rows \in SUBSET Messages
<1>1. Rows \in SUBSET Messages
  BY DEF Rows
<1>. QED
  BY <1>1, InboundAssumption, FS_Subset, FS_CardinalityType

LEMMA ReclaimKeeps ==
    ASSUME IInv, NEW m \in Messages, Reclaim(m)
    PROVE  IInv'
<1>. USE DEF IInv
<1>1. /\ job[m].state = "processing" /\ \A w \in Workers : Msg(w) # m /\ m \notin worker[w].batch
      /\ UNCHANGED <<mode, flow, owned, event, handler, worker, accepted, slots, again, late, faults>>
  BY DEF Reclaim, Stale, Abandoned, Msg, history
<1>2. PICK x : x = [job[m] EXCEPT !.state = "pending"] /\ job' = [job EXCEPT ![m] = x]
  BY DEF Reclaim, TypeOK
<1>3. /\ x \in Job /\ x.state = "pending" /\ x.stamp = job[m].stamp
      /\ x.suppress = job[m].suppress /\ x.attempts = job[m].attempts /\ x.result = job[m].result
  <2>1. job[m] \in Job
    BY DEF TypeOK
  <2>. QED
    BY <1>2, <2>1, Zenon DEF Job
<1>4. job' \in [Messages -> Job] /\ job'[m] = x /\ \A n \in Messages \ {m} : job'[n] = job[n]
  BY <1>2, <1>3, RowIs
<1>5. TypeOK'
  BY <1>1, <1>4 DEF TypeOK
<1>6. /\ \A w \in Workers : ~Holds(w, m)
      /\ Good(job'[m], accepted[m], slots[m], faults', "free")
  <2>1. \A w \in Workers : ~Holds(w, m)
    BY <1>1 DEF Holds, Taken
  <2>2. Good(job[m], accepted[m], slots[m], faults, "free")
    BY <2>1 DEF Local, GoodAt
  <2>3. job[m].attempts \in Nat /\ slots[m] \in Nat /\ faults \in Nat /\ MaxAttempts \in Nat
    BY Ranges
  <2>. QED
    BY <1>1, <1>3, <1>4, <2>1, <2>2, <2>3 DEF Good, Working, PayingAt
<1>7. Shaped' /\ Local'
  BY <1>1, <1>4, <1>5, <1>6, RowKeeps, Ranges
<1>8. \A n \in Messages : /\ job'[n].stamp = job[n].stamp /\ job'[n].suppress = job[n].suppress
                          /\ job'[n] = job[n] \/ (job'[n].state = "pending" /\ job[n].state = "processing")
  BY <1>1, <1>3, <1>4
<1>9. Suppressed'
  <2>1. \A w \in Workers : worker[w].at \in Replying => Msg(w) \in Messages
    BY DEF Replying, Working, Shaped
  <2>. QED
    BY <1>1, <1>8, <2>1 DEF Suppressed, Msg
<1>10. Snapped'
  BY <1>1, <1>8 DEF Snapped
<1>11. Stamped'
  <2>1. Rows' = Rows
    BY <1>8 DEF Rows
  <2>2. \A w \in Workers : worker[w].at \in Working => Msg(w) \in Messages
    BY DEF Shaped
  <2>. QED
    BY <1>1, <1>8, <2>1, <2>2 DEF Stamped, Msg
<1>12. Ordered'
  <2>1. \A n \in Messages : (Active(n)' <=> Active(n)) /\ (Chosen(n)' => Chosen(n))
    BY <1>1, <1>8 DEF Active, Chosen
  <2>. QED
    BY <1>1, <1>8, <2>1 DEF Ordered, Siblings
<1>13. Handled'
  BY <1>1, <1>8 DEF Handled
<1>14. Flows'
  BY <1>1, <1>8 DEF Flows, Undecided
<1>. QED
  BY <1>5, <1>7, <1>9, <1>10, <1>11, <1>12, <1>13, <1>14

\* No row, no worker and no count changes.
LEMMA NoRowKeeps ==
    ASSUME IInv, TypeOK', UNCHANGED <<job, worker, accepted, slots, late, faults>>,
           Handled', Flows'
    PROVE  IInv'
<1>. USE DEF IInv
<1>1. faults <= faults'
  BY Ranges
<1>2. Shaped' /\ Local'
  <2>1. CASE Messages = {}
    BY <2>1 DEF Shaped, Local, Msg, Holds, Taken
  <2>2. CASE Messages # {}
    <3>1. PICK m \in Messages : TRUE
      BY <2>2
    <3>. QED
      BY <1>1, <3>1, RowKeeps
  <2>. QED
    BY <2>1, <2>2
<1>3. Suppressed' /\ Snapped'
  BY DEF Suppressed, Snapped, Msg
<1>4. Stamped'
  BY DEF Stamped, Rows, Msg
<1>5. Ordered'
  BY DEF Ordered, Siblings, Active, Chosen
<1>. QED
  BY <1>2, <1>3, <1>4, <1>5

LEMMA SetModeKeeps ==
    ASSUME IInv, NEW to \in Modes, SetMode(to) PROVE IInv'
<1>. USE DEF IInv
<1>1. /\ mode' \in Modes
      /\ UNCHANGED <<flow, owned, event, handler, job, worker, accepted, slots, again, late, faults>>
  BY DEF SetMode, history
<1>2. TypeOK'
  BY <1>1 DEF TypeOK
<1>3. Handled' /\ Flows'
  BY <1>1 DEF Handled, Flows, Undecided
<1>. QED
  BY <1>1, <1>2, <1>3, NoRowKeeps

LEMMA LeaseLapsesKeeps ==
    ASSUME IInv, NEW m \in Messages, LeaseLapses(m) PROVE IInv'
<1>. USE DEF IInv
<1>1. /\ event[m] = "leased" /\ event' = [event EXCEPT ![m] = "lapsed"]
      /\ UNCHANGED <<mode, flow, owned, handler, job, worker, accepted, slots, again, late, faults>>
  BY DEF LeaseLapses, history
<1>2. TypeOK' /\ event'[m] = "lapsed" /\ \A n \in Messages \ {m} : event'[n] = event[n]
  BY <1>1 DEF TypeOK
<1>3. Handled'
  BY <1>1 DEF Handled
<1>4. Flows'
  BY <1>1, <1>2 DEF Flows, Undecided
<1>. QED
  BY <1>1, <1>2, <1>3, <1>4, NoRowKeeps

\* A step of one webhook invocation: the others stay where they are.
LEMMA GoToIs ==
    ASSUME TypeOK, NEW h \in Handlers, NEW at \in {"gate", "persist", "commit", "forwarded", "evaluate", "flip", "answer"},
           GoTo(h, at)
    PROVE  /\ handler' \in [Handlers -> Handler]
           /\ handler'[h].at = at /\ handler'[h].msg = handler[h].msg
           /\ handler'[h].owns = handler[h].owns
           /\ \A g \in Handlers \ {h} : handler'[g] = handler[g]
<1>1. PICK v : v = [handler[h] EXCEPT !.at = at] /\ handler' = [handler EXCEPT ![h] = v]
  BY DEF GoTo, TypeOK
<1>2. v \in Handler /\ v.at = at /\ v.msg = handler[h].msg /\ v.owns = handler[h].owns
  <2>1. handler[h] \in Handler
    BY DEF TypeOK
  <2>. QED
    BY <1>1, <2>1, Zenon DEF Handler
<1>. QED
  BY <1>1, <1>2 DEF TypeOK

LEMMA ReturnIs ==
    ASSUME TypeOK, NEW h \in Handlers, Return(h)
    PROVE  /\ handler' \in [Handlers -> Handler]
           /\ handler'[h].at = "idle" /\ handler'[h].msg = NoMessage
           /\ handler'[h].msg \notin Messages
           /\ \A g \in Handlers \ {h} : handler'[g] = handler[g]
<1>1. IdleHandler \in Handler
  BY DEF IdleHandler, Handler
<1>. QED
  BY <1>1, InboundAssumption DEF Return, TypeOK, IdleHandler

LEMMA BeginKeeps ==
    ASSUME IInv, NEW h \in Handlers, NEW m \in Messages, Begin(h, m) PROVE IInv'
<1>. USE DEF IInv
<1>1. /\ handler[h].at = "idle" /\ event[m] \in {"none", "lapsed"}
      /\ event' = [event EXCEPT ![m] = "leased"]
      /\ UNCHANGED <<mode, flow, owned, job, worker, accepted, slots, late, faults>>
      /\ again' = IF event[m] = "lapsed" THEN again \cup {m} ELSE again
  BY DEF Begin, Workable
<1>2. PICK v : /\ v = [at |-> "gate", msg |-> m, owns |-> FALSE]
               /\ handler' = [handler EXCEPT ![h] = v]
  BY DEF Begin
<1>3. v \in Handler
  BY <1>2 DEF Handler
<1>4. TypeOK' /\ event'[m] = "leased" /\ \A n \in Messages \ {m} : event'[n] = event[n]
  BY <1>1, <1>2, <1>3 DEF TypeOK
<1>5. /\ handler'[h].at = "gate" /\ handler'[h].msg = m
      /\ \A g \in Handlers \ {h} : handler'[g] = handler[g]
  BY <1>2 DEF TypeOK
<1>6. Handled'
  BY <1>1, <1>5 DEF Handled
<1>7. Flows'
  <2>. SUFFICES ASSUME NEW n \in Messages
       PROVE  /\ flow[n] = "always" =>
                    /\ job[n].suppress
                    /\ \A g \in Handlers :
                          handler'[g].msg = n /\ handler'[g].at = "flip" => handler'[g].owns
              /\ n \notin again' =>
                    /\ \A f, g \in Handlers : handler'[f].msg = n /\ handler'[g].msg = n => f = g
                    /\ \A g \in Handlers : handler'[g].msg = n => event'[n] \in {"leased", "lapsed"}
                    /\ event'[n] = "none" => ~owned[n] /\ job[n].suppress
                    /\ \A g \in Handlers :
                          handler'[g].msg = n /\ Undecided(g)' => ~owned[n] /\ job[n].suppress
                    /\ owned[n] => job[n].suppress
    BY <1>1 DEF Flows
  <2>1. \A g \in Handlers \ {h} : Undecided(g)' <=> Undecided(g)
    BY <1>5 DEF Undecided
  <2>2. n \notin again' => n \notin again
    BY <1>1
  <2>3. n = m /\ n \notin again' => event[m] = "none"
    BY <1>1
  <2>4. n = m /\ n \notin again' => \A g \in Handlers : handler[g].msg # m
    BY <2>2, <2>3 DEF Flows
  <2>. QED
    BY <1>1, <1>4, <1>5, <2>1, <2>2, <2>3, <2>4 DEF Flows
<1>. QED
  BY <1>1, <1>4, <1>6, <1>7, NoRowKeeps

LEMMA EvaluateKeeps ==
    ASSUME IInv, NEW h \in Handlers, Evaluate(h) PROVE IInv'
<1>. USE DEF IInv
<1>1. /\ handler[h].at \in {"evaluate", "forwarded"}
      /\ UNCHANGED <<mode, flow, event, job, worker, accepted, slots, again, late, faults>>
  BY DEF Evaluate, history
<1>2. PICK m \in Messages : m = handler[h].msg
  BY <1>1 DEF Handled
<1>3. PICK takes \in BOOLEAN : takes = Takes(m)
  BY DEF Takes, TypeOK
<1>4. PICK next \in {"flip", "answer"} :
         /\ handler' = [handler EXCEPT ![h].at = next, ![h].owns = takes]
         /\ owned' = [owned EXCEPT ![m] = @ \/ takes]
  BY <1>1, <1>2, <1>3 DEF Evaluate
<1>5. PICK v : /\ v = [handler[h] EXCEPT !.at = next, !.owns = takes]
               /\ handler' = [handler EXCEPT ![h] = v]
  BY <1>4 DEF TypeOK
<1>6. v \in Handler /\ v.at = next /\ v.owns = takes /\ v.msg = m
  <2>1. handler[h] \in Handler
    BY DEF TypeOK
  <2>. QED
    BY <1>2, <1>5, <2>1, Zenon DEF Handler
<1>7. handler'[h] = v /\ \A g \in Handlers \ {h} : handler'[g] = handler[g]
  BY <1>5 DEF TypeOK
<1>8. owned' \in [Messages -> BOOLEAN] /\ (owned'[m] <=> owned[m] \/ takes)
      /\ \A n \in Messages \ {m} : owned'[n] = owned[n]
  BY <1>4 DEF TypeOK
<1>9. TypeOK'
  BY <1>1, <1>5, <1>6, <1>8 DEF TypeOK
<1>10. Handled'
  BY <1>1, <1>2, <1>6, <1>7 DEF Handled
<1>11. Undecided(h)
  BY <1>1 DEF Undecided
<1>12. Flows'
  <2>. SUFFICES ASSUME NEW n \in Messages
       PROVE  /\ flow[n] = "always" =>
                    /\ job[n].suppress
                    /\ \A g \in Handlers :
                          handler'[g].msg = n /\ handler'[g].at = "flip" => handler'[g].owns
              /\ n \notin again =>
                    /\ \A f, g \in Handlers : handler'[f].msg = n /\ handler'[g].msg = n => f = g
                    /\ \A g \in Handlers : handler'[g].msg = n => event[n] \in {"leased", "lapsed"}
                    /\ event[n] = "none" => ~owned'[n] /\ job[n].suppress
                    /\ \A g \in Handlers :
                          handler'[g].msg = n /\ Undecided(g)' => ~owned'[n] /\ job[n].suppress
                    /\ owned'[n] => job[n].suppress
    BY <1>1 DEF Flows
  <2>1. \A g \in Handlers : handler'[g].msg = handler[g].msg
    BY <1>2, <1>6, <1>7
  <2>2. \A g \in Handlers \ {h} : Undecided(g)' <=> Undecided(g)
    BY <1>7 DEF Undecided
  <2>3. n = m /\ n \notin again => ~owned[m] /\ job[m].suppress /\ event[m] # "none"
                                   /\ \A g \in Handlers : handler[g].msg = m => g = h
    BY <1>2, <1>11 DEF Flows
  <2>4. flow[m] = "always" => takes
    BY <1>3 DEF Takes
  <2>5. Undecided(h)' => ~takes
    BY <1>6, <1>7 DEF Undecided
  <2>. QED
    BY <1>1, <1>2, <1>6, <1>7, <1>8, <2>1, <2>2, <2>3, <2>4, <2>5 DEF Flows
<1>. QED
  BY <1>1, <1>9, <1>10, <1>12, NoRowKeeps

LEMMA AnswerKeeps ==
    ASSUME IInv, NEW h \in Handlers, Answer(h) PROVE IInv'
<1>. USE DEF IInv
<1>1. /\ handler[h].at = "answer" /\ Return(h)
      /\ UNCHANGED <<mode, flow, owned, job, worker, accepted, slots, again, late, faults>>
  BY DEF Answer, history
<1>2. PICK m \in Messages : m = handler[h].msg
  BY <1>1 DEF Handled
<1>3. /\ event' \in [Messages -> {"none", "leased", "lapsed", "complete"}]
      /\ event'[m] = "complete" /\ \A n \in Messages \ {m} : event'[n] = event[n]
  BY <1>2 DEF Answer, TypeOK
<1>4. /\ handler' \in [Handlers -> Handler] /\ handler'[h].at = "idle"
      /\ handler'[h].msg \notin Messages
      /\ \A g \in Handlers \ {h} : handler'[g] = handler[g]
  BY <1>1, ReturnIs
<1>5. TypeOK'
  BY <1>1, <1>3, <1>4 DEF TypeOK
<1>6. Handled'
  BY <1>1, <1>4 DEF Handled
<1>7. Flows'
  <2>1. \A g \in Handlers \ {h} : Undecided(g)' <=> Undecided(g)
    BY <1>4 DEF Undecided
  <2>2. \A g \in Handlers, n \in Messages : handler'[g].msg = n => g # h /\ handler'[g] = handler[g]
    BY <1>4
  <2>3. m \notin again => \A g \in Handlers \ {h} : handler[g].msg # m
    BY <1>2 DEF Flows
  <2>. QED
    BY <1>1, <1>2, <1>3, <2>1, <2>2, <2>3 DEF Flows
<1>. QED
  BY <1>1, <1>5, <1>6, <1>7, NoRowKeeps

\* A row that no claim has seen yet is written.
LEMMA FreshKeeps ==
    ASSUME IInv, TypeOK', UNCHANGED <<worker, accepted, slots>>, faults <= faults',
           NEW m \in Messages, job[m].state \in {"none", "inserting"},
           \A n \in Messages \ {m} : job'[n] = job[n],
           job'[m].suppress, job'[m].state \in {"none", "inserting", "pending", "done"},
           Good(job'[m], accepted[m], slots[m], faults', "free"),
           late \subseteq late',
           job'[m].state = "pending" =>
              job'[m].stamp = job[m].stamp /\ (m \in late' \/ ~Overtaken(m)),
           Stamped', Handled', Flows'
    PROVE  IInv'
<1>. USE DEF IInv
<1>1. (\A w \in Workers : ~Holds(w, m))
  BY FreeIs
<1>2. Shaped' /\ Local'
  BY <1>1, RowKeeps
<1>3. \A w \in Workers : worker[w].at \in Replying => Msg(w) \in Messages \ {m}
  BY <1>1 DEF Holds, Shaped, Replying, Working
<1>4. Suppressed'
  BY <1>3 DEF Suppressed, Msg
<1>5. \A w \in Workers : worker[w].at = "claim" => m \notin worker[w].batch
  BY DEF Snapped
<1>6. Snapped'
  BY <1>5 DEF Snapped
<1>7. Ordered'
  <2>. SUFFICES ASSUME faults' <= 1, NEW a \in Messages, NEW n \in Siblings(a),
                       Active(a)', a \notin late', job'[a].stamp < job'[n].stamp, Chosen(n)'
                PROVE  FALSE
    BY DEF Ordered, Siblings
  <2>1. n \in Messages /\ n # a /\ faults <= 1
    BY Ranges DEF Siblings, TypeOK
  <2>2. n # m /\ Chosen(n) /\ Active(n) /\ job'[n] = job[n]
    BY <1>5, <2>1 DEF Chosen, Active
  <2>3. CASE a = m
    BY <2>1, <2>2, <2>3 DEF Overtaken, Active
  <2>4. CASE a # m
    BY <2>1, <2>2, <2>4 DEF Ordered, Active
  <2>. QED
    BY <2>3, <2>4
<1>. QED
  BY <1>2, <1>4, <1>6, <1>7

\* One row is written, and the clock goes on.
LEMMA StampedKeeps ==
    ASSUME IInv, TypeOK', UNCHANGED worker, NEW m \in Messages,
           job[m].state \in {"none", "inserting"},
           \A n \in Messages \ {m} : job'[n] = job[n],
           \/ job'[m].state \notin {"none", "inserting"} /\ job'[m].stamp = job[m].stamp
           \/ job[m].state = "none" /\ job'[m].state = "inserting" /\ job'[m].stamp = Now
           \/ job'[m].state = "none" /\ job'[m].stamp = 0 /\ faults' = faults + 1,
           job[m].state = "none" => job'[m].state \in {"inserting", "done"},
           faults <= faults'
    PROVE  Stamped'
<1>. USE DEF IInv
<1>0. /\ IsFiniteSet(Rows) /\ Cardinality(Rows) \in Nat /\ faults \in Nat /\ faults' \in Nat
      /\ \A n \in Messages : job[n].stamp \in Nat
  BY RowsAre, Ranges, InboundAssumption DEF TypeOK
<1>1. Cardinality(Rows)' \in Nat /\ Cardinality(Rows) + faults <= Cardinality(Rows)' + faults'
      /\ (job[m].state = "none" => Cardinality(Rows)' = Cardinality(Rows) + 1)
  <2>1. CASE job[m].state = "none"
    <3>1. m \notin Rows /\ Rows' = Rows \cup {m}
      BY <2>1 DEF Rows
    <3>2. Cardinality(Rows \cup {m}) = Cardinality(Rows) + 1
      BY <1>0, <3>1, FS_AddElement
    <3>. QED
      BY <1>0, <3>1, <3>2
  <2>2. CASE job[m].state = "inserting" /\ job'[m].state = "none"
    <3>1. m \in Rows /\ Rows' = Rows \ {m}
      BY <2>2 DEF Rows
    <3>2. Cardinality(Rows \ {m}) = Cardinality(Rows) - 1 /\ Cardinality(Rows \ {m}) \in Nat
      BY <1>0, <3>1, FS_RemoveElement, FS_Subset, FS_CardinalityType
    <3>. QED
      BY <1>0, <2>2, <3>1, <3>2
  <2>3. CASE job[m].state = "inserting" /\ job'[m].state # "none"
    <3>1. Rows' = Rows
      BY <2>3 DEF Rows
    <3>. QED
      BY <1>0, <2>3, <3>1
  <2>. QED
    BY <2>1, <2>2, <2>3
<1>2. PICK c \in Nat : c = Cardinality(Rows)'
  BY <1>1
<1>3. PICK f \in Nat : f = faults'
  BY <1>0
<1>4. \A n \in Messages : job[n].stamp <= Cardinality(Rows) + faults
  BY DEF Stamped
<1>5. Now = 1 + Cardinality(Rows) + faults
  BY DEF Now, Rows
<1>6. \A w \in Workers : worker[w].at \in Working => Msg(w) \in Messages \ {m}
  BY FreeIs DEF Holds, Shaped
<1>7. /\ job'[m].state \in {"inserting", "pending", "processing"} => job'[m].stamp > 0
      /\ job'[m].stamp <= c + f
  BY <1>0, <1>1, <1>2, <1>3, <1>4, <1>5 DEF Stamped
<1>8. \A n \in Messages \ {m} :
         /\ job'[n].stamp <= c + f
         /\ job'[n].stamp > 0 => job'[n].stamp # job'[m].stamp
  BY <1>0, <1>1, <1>2, <1>3, <1>4, <1>5 DEF Stamped
<1>9. \A n \in Messages \ {m} :
         job'[n].state \in {"inserting", "pending", "processing"} => job'[n].stamp > 0
  BY DEF Stamped
<1>10. \A n, k \in Messages : job'[n].stamp > 0 /\ job'[n].stamp = job'[k].stamp => n = k
  BY <1>8 DEF Stamped
<1>11. \A w \in Workers : worker[w].at \in Working => job'[Msg(w)].stamp > 0
  BY <1>6 DEF Stamped
<1>. QED
  BY <1>2, <1>3, <1>7, <1>8, <1>9, <1>10, <1>11 DEF Stamped, Msg

LEMMA HandlerGateKeeps ==
    ASSUME IInv, NEW h \in Handlers, HandlerGate(h) PROVE IInv'
<1>. USE DEF IInv
<1>1. /\ handler[h].at = "gate"
      /\ UNCHANGED <<mode, flow, owned, worker, accepted, slots, again, late, faults>>
  BY DEF HandlerGate, history
<1>2. PICK m \in Messages : m = handler[h].msg
  BY <1>1 DEF Handled
<1>3. PICK result \in {"quiet", "forwarded"} :
         /\ \/ UNCHANGED job
            \/ job' = Audited(m, result)
         /\ \/ event' = [event EXCEPT ![m] = "complete"] /\ Return(h)
            \/ UNCHANGED event /\ GoTo(h, "forwarded")
            \/ UNCHANGED event /\ GoTo(h, "persist")
  BY <1>2 DEF HandlerGate
<1>4. /\ handler' \in [Handlers -> Handler]
      /\ \A g \in Handlers \ {h} : handler'[g] = handler[g]
      /\ \/ handler'[h].at = "idle" /\ handler'[h].msg \notin Messages
         \/ handler'[h].at \in {"forwarded", "persist"} /\ handler'[h].msg = m
  BY <1>2, <1>3, ReturnIs, GoToIs
<1>5. /\ event' \in [Messages -> {"none", "leased", "lapsed", "complete"}]
      /\ \A n \in Messages \ {m} : event'[n] = event[n]
      /\ event'[m] = event[m] \/ (event'[m] = "complete" /\ handler'[h].msg \notin Messages)
  BY <1>3, ReturnIs DEF TypeOK
<1>6. \/ UNCHANGED job
      \/ /\ job[m].state = "none" /\ job' \in [Messages -> Job]
         /\ \A n \in Messages \ {m} : job'[n] = job[n]
         /\ job'[m].state = "done" /\ job'[m].result = result
         /\ job'[m].stamp = job[m].stamp /\ job'[m].suppress = job[m].suppress
         /\ job'[m].attempts = job[m].attempts
  <2>1. CASE job' = Audited(m, result) /\ job[m].state = "none"
    <3>1. PICK x : /\ x = [job[m] EXCEPT !.state = "done", !.result = result]
                   /\ job' = [job EXCEPT ![m] = x]
      BY <2>1 DEF Audited, TypeOK, Job
    <3>2. /\ x \in Job /\ x.state = "done" /\ x.result = result /\ x.stamp = job[m].stamp
          /\ x.suppress = job[m].suppress /\ x.attempts = job[m].attempts
      <4>1. job[m] \in Job
        BY DEF TypeOK
      <4>. QED
        BY <3>1, <4>1, Zenon DEF Job
    <3>. QED
      BY <2>1, <3>1, <3>2, RowIs
  <2>. QED
    BY <1>3, <2>1 DEF Audited
<1>7. TypeOK'
  BY <1>1, <1>4, <1>5, <1>6 DEF TypeOK
<1>8. \A n \in Messages : job'[n].suppress = job[n].suppress
  BY <1>6
<1>9. Handled'
  <2>1. \A g \in Handlers : handler'[g].at = "commit" => g # h /\ job'[handler'[g].msg].state = "inserting"
    BY <1>4, <1>6 DEF Handled
  <2>. QED
    BY <1>2, <1>4, <2>1 DEF Handled
<1>10. Flows'
  <2>1. \A g \in Handlers : Undecided(g)' => Undecided(g)
    BY <1>1, <1>4 DEF Undecided
  <2>2. \A g \in Handlers, n \in Messages : handler'[g].msg = n => handler[g].msg = n
    BY <1>2, <1>4
  <2>3. \A n \in Messages : n \notin again =>
           \A g \in Handlers : handler'[g].msg = n => event'[n] \in {"leased", "lapsed"}
    BY <1>2, <1>4, <1>5 DEF Flows
  <2>4. \A n \in Messages : event'[n] = "none" => event[n] = "none"
    BY <1>5
  <2>5. \A g \in Handlers : handler'[g].at = "flip" => g # h
    BY <1>4
  <2>. QED
    BY <1>1, <1>4, <1>8, <2>1, <2>2, <2>3, <2>4, <2>5 DEF Flows
<1>11. CASE UNCHANGED job
  BY <1>1, <1>7, <1>9, <1>10, <1>11, NoRowKeeps
<1>12. CASE /\ job[m].state = "none" /\ \A n \in Messages \ {m} : job'[n] = job[n]
            /\ job'[m].state = "done" /\ job'[m].result = result
            /\ job'[m].stamp = job[m].stamp /\ job'[m].suppress = job[m].suppress
            /\ job'[m].attempts = job[m].attempts
  <2>1. Good(job[m], accepted[m], slots[m], faults, "free")
    BY <1>12, FreeIs DEF GoodAt
  <2>2. job[m].attempts \in Nat /\ slots[m] \in Nat /\ faults \in Nat /\ MaxAttempts \in Nat
    BY Ranges
  <2>3. Good(job'[m], accepted[m], slots[m], faults', "free")
    BY <1>1, <1>12, <2>1, <2>2 DEF Good, Working, PayingAt
  <2>4. faults <= faults' /\ late \subseteq late' /\ job'[m].suppress
    BY <1>1, <1>12, <2>2 DEF Suppressed
  <2>5. Stamped'
    BY <1>1, <1>7, <1>12, <2>4, StampedKeeps
  <2>. QED
    BY <1>1, <1>7, <1>9, <1>10, <1>12, <2>3, <2>4, <2>5, FreshKeeps
<1>. QED
  BY <1>6, <1>11, <1>12

LEMMA PersistKeeps ==
    ASSUME IInv, NEW h \in Handlers, Persist(h) PROVE IInv'
<1>. USE DEF IInv
<1>1. /\ handler[h].at = "persist"
      /\ UNCHANGED <<mode, flow, owned, event, worker, accepted, slots, again, late, faults>>
  BY DEF Persist, history
<1>2. PICK m \in Messages : m = handler[h].msg
  BY <1>1 DEF Handled
<1>3. Undecided(h)
  BY <1>1 DEF Undecided
<1>4. CASE UNCHANGED job /\ GoTo(h, "evaluate")
  <2>1. /\ handler' \in [Handlers -> Handler] /\ handler'[h].at = "evaluate"
        /\ handler'[h].msg = m /\ \A g \in Handlers \ {h} : handler'[g] = handler[g]
    BY <1>2, <1>4, GoToIs
  <2>2. TypeOK'
    BY <1>1, <1>4, <2>1 DEF TypeOK
  <2>3. Handled'
    BY <1>1, <1>2, <1>4, <2>1 DEF Handled
  <2>4. Flows'
    BY <1>1, <1>2, <1>3, <1>4, <2>1 DEF Flows, Undecided
  <2>. QED
    BY <1>1, <1>4, <2>2, <2>3, <2>4, NoRowKeeps
<1>5. CASE /\ job[m].state = "none" /\ GoTo(h, "commit")
           /\ job' = [job EXCEPT ![m] = [Persisted(NoJob) EXCEPT !.state = "inserting",
                                                                 !.stamp = Now]]
  <2>1. PICK now \in Nat : now = Now
    <3>1. Now = 1 + Cardinality(Rows) + faults /\ Cardinality(Rows) \in Nat /\ faults \in Nat
      BY RowsAre, Ranges DEF Now, Rows
    <3>. QED
      BY <3>1
  <2>2. PICK x : /\ x = [Persisted(NoJob) EXCEPT !.state = "inserting", !.stamp = now]
                 /\ job' = [job EXCEPT ![m] = x]
    BY <1>5, <2>1
  <2>3. /\ x \in Job /\ x.state = "inserting" /\ x.stamp = now /\ x.suppress = TRUE
        /\ x.attempts = 0 /\ x.result = "none"
    BY <2>2 DEF Persisted, NoJob, Job
  <2>4. job' \in [Messages -> Job] /\ job'[m] = x /\ \A n \in Messages \ {m} : job'[n] = job[n]
    BY <2>2, <2>3, RowIs
  <2>5. /\ handler' \in [Handlers -> Handler] /\ handler'[h].at = "commit"
        /\ handler'[h].msg = m /\ \A g \in Handlers \ {h} : handler'[g] = handler[g]
    BY <1>2, <1>5, GoToIs
  <2>6. TypeOK'
    BY <1>1, <2>4, <2>5 DEF TypeOK
  <2>7. Handled'
    <3>1. \A g \in Handlers \ {h} : handler[g].at = "commit" => handler[g].msg # m
      BY <1>5 DEF Handled
    <3>. QED
      BY <1>2, <2>3, <2>4, <2>5, <3>1 DEF Handled
  <2>8. Flows'
    <3>1. \A n \in Messages : job'[n].suppress = job[n].suppress \/ job'[n].suppress
      BY <2>3, <2>4
    <3>2. \A g \in Handlers : handler'[g].msg = handler[g].msg
      BY <1>2, <2>5
    <3>3. \A g \in Handlers : Undecided(g)' => Undecided(g)
      BY <1>3, <2>5 DEF Undecided
    <3>4. \A g \in Handlers : handler'[g].at = "flip" => handler'[g] = handler[g]
      BY <2>5
    <3>. QED
      BY <1>1, <3>1, <3>2, <3>3, <3>4 DEF Flows
  <2>9. Good(job[m], accepted[m], slots[m], faults, "free")
    BY <1>5, FreeIs DEF GoodAt
  <2>10. /\ slots[m] \in Nat /\ faults \in Nat /\ MaxAttempts \in Nat /\ MaxAttempts >= 1
    BY Ranges
  <2>11. Good(job'[m], accepted[m], slots[m], faults', "free")
    <3>1. /\ slots[m] <= faults
          /\ faults = 0 => accepted[m] \notin Replies /\ accepted[m] # "forward"
          /\ faults <= 1 /\ accepted[m] \in {"reply", "rcs"} => slots[m] >= 1
      BY <1>5, <2>9 DEF Good, Working, PayingAt
    <3>2. job'[m].state = "inserting" /\ job'[m].attempts = 0 /\ job'[m].result = "none"
      BY <2>3, <2>4
    <3>3. 0 < MaxAttempts + faults
      BY <2>10
    <3>. QED
      BY <1>1, <2>10, <3>1, <3>2, <3>3 DEF Good, Working, PayingAt
  <2>12. faults <= faults' /\ late \subseteq late' /\ job'[m].suppress
    BY <1>1, <2>3, <2>4, <2>10
  <2>13. Stamped'
    BY <1>1, <1>5, <2>1, <2>3, <2>4, <2>6, <2>12, StampedKeeps
  <2>. QED
    BY <1>1, <1>5, <2>3, <2>4, <2>6, <2>7, <2>8, <2>11, <2>12, <2>13, FreshKeeps
<1>. QED
  BY <1>2, <1>4, <1>5 DEF Persist

LEMMA PersistCommitKeeps ==
    ASSUME IInv, NEW h \in Handlers, PersistCommit(h) PROVE IInv'
<1>. USE DEF IInv
<1>1. /\ handler[h].at = "commit" /\ GoTo(h, "evaluate")
      /\ UNCHANGED <<mode, flow, owned, event, worker, accepted, slots, again, faults>>
  BY DEF PersistCommit
<1>2. PICK m \in Messages : m = handler[h].msg
  BY <1>1 DEF Handled
<1>3. job[m].state = "inserting"
  BY <1>1, <1>2 DEF Handled
<1>4. /\ job' = [job EXCEPT ![m].state = "pending"]
      /\ late' = IF Overtaken(m) THEN late \cup {m} ELSE late
  BY <1>2 DEF PersistCommit
<1>5. PICK x : x = [job[m] EXCEPT !.state = "pending"] /\ job' = [job EXCEPT ![m] = x]
  BY <1>4 DEF TypeOK
<1>6. /\ x \in Job /\ x.state = "pending" /\ x.stamp = job[m].stamp
      /\ x.suppress = job[m].suppress /\ x.attempts = job[m].attempts /\ x.result = job[m].result
  <2>1. job[m] \in Job
    BY DEF TypeOK
  <2>. QED
    BY <1>5, <2>1, Zenon DEF Job
<1>7. job' \in [Messages -> Job] /\ job'[m] = x /\ \A n \in Messages \ {m} : job'[n] = job[n]
  BY <1>5, <1>6, RowIs
<1>8. /\ handler' \in [Handlers -> Handler] /\ handler'[h].at = "evaluate"
      /\ handler'[h].msg = m /\ \A g \in Handlers \ {h} : handler'[g] = handler[g]
  BY <1>1, <1>2, GoToIs
<1>9. TypeOK'
  BY <1>1, <1>4, <1>7, <1>8 DEF TypeOK
<1>10. Handled'
  <2>1. \A g \in Handlers \ {h} : handler[g].at = "commit" => handler[g].msg # m
    BY <1>1, <1>2 DEF Handled
  <2>. QED
    BY <1>2, <1>7, <1>8, <2>1 DEF Handled
<1>11. Flows'
  <2>1. \A n \in Messages : job'[n].suppress = job[n].suppress
    BY <1>6, <1>7
  <2>2. \A g \in Handlers : handler'[g].msg = handler[g].msg
    BY <1>2, <1>8
  <2>3. \A g \in Handlers : Undecided(g)' => Undecided(g)
    BY <1>1, <1>8 DEF Undecided
  <2>4. \A g \in Handlers : handler'[g].at = "flip" => handler'[g] = handler[g]
    BY <1>8
  <2>. QED
    BY <1>1, <2>1, <2>2, <2>3, <2>4 DEF Flows
<1>12. Good(job'[m], accepted[m], slots[m], faults', "free")
  <2>1. Good(job[m], accepted[m], slots[m], faults, "free")
    BY <1>3, FreeIs DEF GoodAt
  <2>. QED
    BY <1>1, <1>3, <1>6, <1>7, <2>1 DEF Good, Working, PayingAt
<1>13. faults <= faults' /\ late \subseteq late' /\ job'[m].suppress
  BY <1>1, <1>3, <1>4, <1>6, <1>7, Ranges DEF Suppressed
<1>14. Stamped'
  BY <1>1, <1>3, <1>6, <1>7, <1>9, <1>13, StampedKeeps
<1>. QED
  BY <1>1, <1>3, <1>4, <1>6, <1>7, <1>9, <1>10, <1>11, <1>12, <1>13, <1>14, FreshKeeps

LEMMA FlipKeeps ==
    ASSUME IInv, NEW h \in Handlers, Flip(h) PROVE IInv'
<1>. USE DEF IInv
<1>1. /\ handler[h].at = "flip" /\ GoTo(h, "answer")
      /\ UNCHANGED <<mode, flow, owned, event, worker, accepted, slots, again, late, faults>>
  BY DEF Flip, history
<1>2. PICK m \in Messages : m = handler[h].msg
  BY <1>1 DEF Handled
<1>3. /\ handler' \in [Handlers -> Handler] /\ handler'[h].at = "answer"
      /\ handler'[h].msg = m /\ \A g \in Handlers \ {h} : handler'[g] = handler[g]
  BY <1>1, <1>2, GoToIs
<1>4. \/ UNCHANGED job
      \/ /\ ~handler[h].owns /\ job[m].state = "pending" /\ job' \in [Messages -> Job]
         /\ \A n \in Messages \ {m} : job'[n] = job[n]
         /\ job'[m].state = "pending" /\ job'[m].result = job[m].result
         /\ job'[m].stamp = job[m].stamp /\ ~job'[m].suppress
         /\ job'[m].attempts = job[m].attempts
  <2>1. CASE ~handler[h].owns /\ job[m].state = "pending"
             /\ job' = [job EXCEPT ![m].suppress = FALSE]
    <3>1. PICK x : x = [job[m] EXCEPT !.suppress = FALSE] /\ job' = [job EXCEPT ![m] = x]
      BY <2>1 DEF TypeOK
    <3>2. /\ x \in Job /\ x.state = job[m].state /\ x.result = job[m].result
          /\ x.stamp = job[m].stamp /\ ~x.suppress /\ x.attempts = job[m].attempts
      <4>1. job[m] \in Job
        BY DEF TypeOK
      <4>. QED
        BY <3>1, <4>1, Zenon DEF Job
    <3>. QED
      BY <2>1, <3>1, <3>2, RowIs
  <2>. QED
    BY <1>2, <2>1 DEF Flip
<1>5. TypeOK'
  BY <1>1, <1>3, <1>4 DEF TypeOK
<1>6. \A n \in Messages : job'[n].state = job[n].state /\ job'[n].stamp = job[n].stamp
  BY <1>4
<1>7. Handled'
  BY <1>1, <1>2, <1>3, <1>6 DEF Handled
<1>8. \A n \in Messages : job'[n].suppress = job[n].suppress \/ (n = m /\ ~handler[h].owns)
  BY <1>4
<1>9. \A g \in Handlers : handler'[g].msg = handler[g].msg /\ (Undecided(g)' => Undecided(g) /\ g # h)
  BY <1>2, <1>3 DEF Undecided
<1>10. Flows'
  <2>1. ~handler[h].owns => flow[m] # "always"
    BY <1>1, <1>2 DEF Flows
  <2>2. ~handler[h].owns /\ m \notin again => ~owned[m] /\ event[m] # "none"
                                               /\ \A g \in Handlers : handler[g].msg = m => g = h
    BY <1>1, <1>2 DEF Flows, Undecided
  <2>3. \A g \in Handlers : handler'[g].at = "flip" => g # h /\ handler'[g] = handler[g]
    BY <1>3
  <2>. QED
    BY <1>1, <1>8, <1>9, <2>1, <2>2, <2>3 DEF Flows
<1>11. CASE UNCHANGED job
  BY <1>1, <1>5, <1>7, <1>10, <1>11, NoRowKeeps
<1>12. CASE /\ job[m].state = "pending" /\ \A n \in Messages \ {m} : job'[n] = job[n]
            /\ job'[m].state = "pending" /\ job'[m].result = job[m].result
            /\ ~job'[m].suppress /\ job'[m].attempts = job[m].attempts
  <2>1. (\A w \in Workers : ~Holds(w, m)) /\ Good(job[m], accepted[m], slots[m], faults, "free")
    BY <1>12, FreeIs DEF GoodAt
  <2>2. Good(job'[m], accepted[m], slots[m], faults', "free")
    BY <1>1, <1>12, <2>1 DEF Good, Working, PayingAt
  <2>3. Shaped' /\ Local'
    BY <1>1, <1>5, <1>12, <2>1, <2>2, RowKeeps, Ranges
  <2>4. \A w \in Workers : worker[w].at \in Replying => Msg(w) \in Messages
    BY DEF Shaped, Replying, Working
  <2>5. Suppressed'
    BY <1>1, <1>12, <2>4 DEF Suppressed, Msg
  <2>6. Snapped'
    BY <1>1, <1>6 DEF Snapped
  <2>7. Stamped'
    <3>1. Rows' = Rows
      BY <1>6 DEF Rows
    <3>2. \A w \in Workers : worker[w].at \in Working => Msg(w) \in Messages
      BY DEF Shaped
    <3>. QED
      BY <1>1, <1>6, <3>1, <3>2 DEF Stamped, Msg
  <2>8. Ordered'
    BY <1>1, <1>6 DEF Ordered, Siblings, Active, Chosen
  <2>. QED
    BY <1>5, <1>7, <1>10, <2>3, <2>5, <2>6, <2>7, <2>8
<1>. QED
  BY <1>4, <1>11, <1>12

LEMMA HandlerDiesKeeps ==
    ASSUME IInv, NEW h \in Handlers, HandlerDies(h) PROVE IInv'
<1>. USE DEF IInv
<1>1. /\ handler[h].at # "idle" /\ Fault /\ Return(h)
      /\ UNCHANGED <<mode, flow, owned, event, worker, accepted, slots, again, late>>
  BY DEF HandlerDies, history
<1>2. PICK m \in Messages : m = handler[h].msg
  BY <1>1 DEF Handled
<1>3. /\ handler' \in [Handlers -> Handler] /\ handler'[h].at = "idle"
      /\ handler'[h].msg \notin Messages
      /\ \A g \in Handlers \ {h} : handler'[g] = handler[g]
  BY <1>1, ReturnIs
<1>4. faults' \in 0..MaxFaults /\ faults' = faults + 1 /\ faults \in Nat /\ faults <= faults'
  BY <1>1, FaultIs, Ranges
<1>5. \/ handler[h].at # "commit" /\ UNCHANGED job
      \/ handler[h].at = "commit" /\ job' = [job EXCEPT ![m] = NoJob]
  BY <1>2 DEF HandlerDies
<1>6. NoJob \in Job /\ NoJob.state = "none" /\ NoJob.stamp = 0 /\ NoJob.suppress = TRUE
      /\ NoJob.attempts = 0 /\ NoJob.result = "none"
  BY DEF NoJob, Job
<1>7. /\ job' \in [Messages -> Job] /\ \A n \in Messages \ {m} : job'[n] = job[n]
      /\ job'[m] = job[m] \/ (job'[m] = NoJob /\ handler[h].at = "commit")
  BY <1>5, <1>6 DEF TypeOK
<1>8. TypeOK'
  BY <1>1, <1>3, <1>4, <1>7 DEF TypeOK
<1>9. Handled'
  <2>1. \A g \in Handlers \ {h} : handler[g].at = "commit" /\ handler[h].at = "commit"
                                     => handler[g].msg # m
    BY <1>2 DEF Handled
  <2>. QED
    BY <1>2, <1>3, <1>7, <2>1 DEF Handled
<1>10. \A n \in Messages : job'[n].suppress = job[n].suppress \/ job'[n].suppress
  BY <1>6, <1>7
<1>11. Flows'
  <2>1. \A g \in Handlers \ {h} : Undecided(g)' <=> Undecided(g)
    BY <1>3 DEF Undecided
  <2>2. \A g \in Handlers, n \in Messages : handler'[g].msg = n => g # h /\ handler'[g] = handler[g]
    BY <1>3
  <2>. QED
    BY <1>1, <1>10, <2>1, <2>2 DEF Flows
<1>12. CASE handler[h].at = "commit" /\ job' = [job EXCEPT ![m] = NoJob]
  <2>1. job[m].state = "inserting" /\ job'[m] = NoJob
    BY <1>2, <1>12 DEF Handled, TypeOK
  <2>2. Good(job[m], accepted[m], slots[m], faults, "free")
    BY <2>1, FreeIs DEF GoodAt
  <2>3. Good(job'[m], accepted[m], slots[m], faults', "free")
    <3>1. /\ slots[m] \in Nat /\ faults \in Nat /\ MaxAttempts \in Nat /\ MaxAttempts >= 1
          /\ job'[m].state = "none" /\ job'[m].attempts = 0 /\ job'[m].result = "none"
      BY <1>6, <2>1, Ranges
    <3>2. /\ slots[m] <= faults
          /\ faults = 0 => accepted[m] \notin Replies
          /\ faults <= 1 /\ accepted[m] \in {"reply", "rcs"} => slots[m] >= 1
      BY <2>1, <2>2 DEF Good, Working, PayingAt
    <3>3. 0 < MaxAttempts + faults'
      BY <1>4, <3>1
    <3>. QED
      BY <1>4, <3>1, <3>2, <3>3 DEF Good, Working, PayingAt
  <2>4. Stamped'
    BY <1>1, <1>4, <1>6, <1>7, <1>8, <2>1, StampedKeeps
  <2>. QED
    BY <1>1, <1>4, <1>6, <1>7, <1>8, <1>9, <1>11, <2>1, <2>3, <2>4, FreshKeeps
<1>13. CASE UNCHANGED job
  <2>1. Shaped' /\ Local'
    BY <1>1, <1>4, <1>8, <1>13, RowKeeps
  <2>2. Suppressed' /\ Snapped'
    BY <1>1, <1>13 DEF Suppressed, Snapped, Msg
  <2>3. Stamped'
    <3>1. Rows' = Rows /\ Cardinality(Rows) \in Nat /\ \A n \in Messages : job[n].stamp \in Nat
      BY <1>13, RowsAre, Ranges DEF Rows
    <3>2. \A n \in Messages : job[n].stamp <= Cardinality(Rows) + faults'
      BY <1>4, <3>1 DEF Stamped
    <3>. QED
      BY <1>1, <1>13, <3>1, <3>2 DEF Stamped, Msg
  <2>4. Ordered'
    BY <1>1, <1>4, <1>13 DEF Ordered, Siblings, Active, Chosen
  <2>. QED
    BY <1>8, <1>9, <1>11, <2>1, <2>2, <2>3, <2>4
<1>. QED
  BY <1>5, <1>12, <1>13

-----------------------------------------------------------------------------
(* The invariant holds. *)

LEMMA InitHolds == ASSUME Init PROVE IInv
<1>1. NoJob \in Job /\ IdleWorker \in Worker /\ IdleHandler \in Handler
  BY DEF NoJob, IdleWorker, IdleHandler, Job, Worker, Handler
<1>2. /\ \A m \in Messages : /\ job[m] = NoJob /\ accepted[m] = "none" /\ slots[m] = 0
                             /\ event[m] = "none" /\ owned[m] = FALSE
      /\ \A w \in Workers : worker[w] = IdleWorker
      /\ \A h \in Handlers : handler[h] = IdleHandler
      /\ again = {} /\ late = {} /\ faults = 0
  BY DEF Init
<1>3. TypeOK
  BY <1>1, InboundAssumption DEF Init, TypeOK
<1>4. /\ \A w \in Workers : /\ Msg(w) \notin Messages /\ Taken(w) = {} /\ worker[w].batch = {}
                            /\ worker[w].at = "idle"
      /\ \A w \in Workers, m \in Messages : ~Holds(w, m)
  BY <1>2, InboundAssumption DEF IdleWorker, Msg, Taken, Holds
<1>5. Shaped
  BY <1>4 DEF Shaped, Working
<1>6. Local
  <2>1. ASSUME NEW m \in Messages PROVE GoodAt(m, "free")
    BY <1>2, InboundAssumption DEF GoodAt, Good, NoJob, Working, PayingAt
  <2>. QED
    BY <1>4, <2>1 DEF Local, Holds
<1>7. Suppressed
  BY <1>2, <1>4 DEF Suppressed, NoJob, Replying
<1>8. Snapped
  BY <1>4 DEF Snapped
<1>9. Stamped
  <2>1. Cardinality(Rows) \in Nat
    BY <1>3, RowsAre
  <2>. QED
    BY <1>2, <1>4, <2>1 DEF Stamped, NoJob, Working
<1>10. Ordered
  BY <1>2 DEF Ordered, Active, NoJob
<1>11. Handled
  BY <1>2, InboundAssumption DEF Handled, IdleHandler
<1>12. Flows
  BY <1>2, InboundAssumption DEF Flows, Undecided, NoJob, IdleHandler
<1>. QED
  BY <1>3, <1>5, <1>6, <1>7, <1>8, <1>9, <1>10, <1>11, <1>12 DEF IInv

LEMMA NextKeeps == ASSUME IInv, [Next]_vars PROVE IInv'
<1>1. CASE UNCHANGED vars
  <2>1. UNCHANGED <<mode, flow, owned, event, handler, job, worker, accepted, slots, again, late, faults>>
    BY <1>1 DEF vars, history
  <2>2. TypeOK' /\ Handled' /\ Flows'
    BY <2>1 DEF IInv, TypeOK, Handled, Flows, Undecided
  <2>. QED
    BY <2>1, <2>2, NoRowKeeps
<1>2. CASE \E to \in Modes : SetMode(to)
  BY <1>2, SetModeKeeps
<1>3. CASE \E m \in Messages : LeaseLapses(m) \/ Reclaim(m)
  BY <1>3, LeaseLapsesKeeps, ReclaimKeeps
<1>4. CASE \E h \in Handlers : HandlerDies(h) \/ HandlerStep(h)
  BY <1>4, HandlerDiesKeeps, HandlerGateKeeps, PersistKeeps, PersistCommitKeeps,
     EvaluateKeeps, FlipKeeps, AnswerKeeps DEF HandlerStep
<1>5. CASE \E h \in Handlers, m \in Messages : Begin(h, m)
  BY <1>5, BeginKeeps
<1>6. ASSUME NEW w \in Workers, WorkerStep(w) PROVE IInv'
  BY <1>6, StartKeeps, WorkingKeeps DEF WorkerStep, Aside
<1>7. ASSUME NEW w \in Workers, WorkerStops(w) PROVE IInv'
  BY <1>7, DeferKeeps, WorkerDiesKeeps DEF WorkerStops, Aside
<1>8. CASE \E w \in Workers : ClaimBegin(w) \/ ClaimCommit(w) \/ WorkerStep(w) \/ WorkerStops(w)
  BY <1>6, <1>7, <1>8, ClaimBeginKeeps, ClaimCommitKeeps
<1>. QED
  BY <1>1, <1>2, <1>3, <1>4, <1>5, <1>8 DEF Next

THEOREM IInvHolds == Spec => []IInv
BY InitHolds, NextKeeps, PTL DEF Spec

-----------------------------------------------------------------------------
(* What it says of the system. *)

\* Every row and every invocation has the fields and the ranges of its type:
\* releases never take a slot count of the month below zero.
THEOREM TypeCorrect == Spec => []TypeOK
<1>1. IInv => TypeOK
  BY DEF IInv
<1>. QED
  BY <1>1, IInvHolds, PTL

\* A message is somewhere, and there it is good.
LEMMA EachIsGood ==
    ASSUME IInv, NEW m \in Messages
    PROVE  \E at \in Working \cup {"batch", "free"} :
              /\ GoodAt(m, at)
              /\ at \in Working => \E w \in Workers : Msg(w) = m /\ worker[w].at = at
<1>1. CASE \A w \in Workers : ~Holds(w, m)
  BY <1>1 DEF IInv, Local, Working
<1>2. CASE \E w \in Workers : Msg(w) = m
  BY <1>2 DEF IInv, Local, Shaped
<1>3. CASE \E w \in Workers : m \in Taken(w)
  BY <1>3 DEF IInv, Local, Working
<1>. QED
  BY <1>1, <1>2, <1>3 DEF Holds

\* A job is not tried more often than MAX_ATTEMPTS, but for attempts that a dead
\* invocation or a lost write cut short: claim, hand-back and reclaim together.
THEOREM AttemptsAreBounded == Spec => []AttemptsBounded
<1>1. IInv => AttemptsBounded
  BY EachIsGood DEF AttemptsBounded, GoodAt, Good
<1>. QED
  BY <1>1, IInvHolds, PTL

\* The slots that are taken beyond the text that went out and the attempt under
\* way are at most the faults, at every step of reserve, send and release.
THEOREM SlotsComeBack == Spec => []SlotsAreReturned
<1>1. ASSUME IInv, NEW m \in Messages
      PROVE  slots[m] <= Cardinality(Paying(m)) + faults + (IF accepted[m] = "none" THEN 0 ELSE 1)
  <2>1. slots[m] \in Nat /\ faults \in Nat
    BY <1>1, Ranges DEF IInv
  <2>2. PICK at \in Working \cup {"batch", "free"} :
           /\ GoodAt(m, at)
           /\ at \in Working => \E w \in Workers : Msg(w) = m /\ worker[w].at = at
    BY <1>1, EachIsGood
  <2>3. \A u, w \in Workers : Msg(u) = m /\ Msg(w) = m => u = w
    BY <1>1 DEF IInv, Shaped, Holds
  <2>4. CASE at \in PayingAt
    <3>1. PICK w \in Workers : Msg(w) = m /\ worker[w].at = at
      BY <2>2, <2>4 DEF PayingAt, Working
    <3>2. Paying(m) = {w}
      BY <2>3, <2>4, <3>1 DEF Paying, PayingAt
    <3>3. Cardinality(Paying(m)) = 1
      BY <3>2, FS_Singleton
    <3>4. slots[m] <= 1 + faults
      BY <2>2, <2>4 DEF GoodAt, Good
    <3>. QED
      BY <2>1, <3>3, <3>4
  <2>5. CASE at \notin PayingAt
    <3>1. Cardinality(Paying(m)) \in Nat
      <4>1. CASE Paying(m) = {}
        BY <4>1, FS_EmptySet
      <4>2. CASE Paying(m) # {}
        <5>1. PICK w \in Workers : Paying(m) = {w}
          BY <2>3, <4>2 DEF Paying
        <5>2. Cardinality(Paying(m)) = 1
          BY <5>1, FS_Singleton
        <5>. QED
          BY <5>2
      <4>. QED
        BY <4>1, <4>2
    <3>2. slots[m] <= faults \/ (slots[m] <= faults + 1 /\ accepted[m] # "none")
      BY <2>1, <2>2, <2>5 DEF GoodAt, Good
    <3>. QED
      BY <2>1, <3>1, <3>2
  <2>. QED
    BY <2>4, <2>5
<1>2. IInv => SlotsAreReturned
  BY <1>1 DEF SlotsAreReturned
<1>. QED
  BY <1>2, IInvHolds, PTL

\* While at most one step has failed, the month's cap counts every reply that
\* Telnyx took as a plain text, or over RCS with its answer, and every one that
\* its job was closed with.  The RCS reply whose answer was lost is left out.
THEOREM EveryReplyCounted == Spec => []RepliesAreCounted
<1>1. IInv => RepliesAreCounted
  BY EachIsGood DEF RepliesAreCounted, GoodAt, Good
<1>. QED
  BY <1>1, IInvHolds, PTL

\* Without a fault the dashboard shows as sent only what Telnyx took.
THEOREM ShownWasSent == Spec => []ShownIsSent
<1>1. IInv => ShownIsSent
  BY EachIsGood DEF ShownIsSent, GoodAt, Good
<1>. QED
  BY <1>1, IInvHolds, PTL

\* The coworker stays silent on a text that a flow took, whichever of webhook and
\* worker is quicker, and through every fault.
THEOREM OwnedStaySilent == Spec => []OwnedIsSilent
<1>1. IInv => OwnedIsSilent
  BY DEF IInv, OwnedIsSilent, Flows, Suppressed
<1>. QED
  BY <1>1, IInvHolds, PTL

\* Two texts of a contact are not worked on at a time, for any number of claims
\* that overlap, unless an older insert committed late or two steps failed.
THEOREM OneAtATimePerContact == Spec => []OnePerContact
<1>1. ASSUME IInv, NEW m \in Messages, NEW n \in Siblings(m),
             job[m].state = "processing", job[n].state = "processing",
             m \notin late, n \notin late, faults <= 1
      PROVE  FALSE
  <2>1. n \in Messages /\ n # m /\ m \in Siblings(n)
    BY DEF Siblings
  <2>2. /\ job[m].stamp \in Nat /\ job[n].stamp \in Nat
        /\ job[m].stamp > 0 /\ job[m].stamp # job[n].stamp
    BY <1>1, <2>1, Ranges DEF IInv, Stamped
  <2>3. Chosen(m) /\ Chosen(n) /\ Active(m) /\ Active(n)
    BY <1>1 DEF Chosen, Active
  <2>4. CASE job[m].stamp < job[n].stamp
    BY <1>1, <2>1, <2>3, <2>4 DEF IInv, Ordered
  <2>5. CASE job[n].stamp < job[m].stamp
    BY <1>1, <2>1, <2>3, <2>5 DEF IInv, Ordered
  <2>. QED
    BY <2>2, <2>4, <2>5
<1>2. IInv => OnePerContact
  <2>1. IInv => faults \in Nat
    BY Ranges DEF IInv
  <2>. QED
    BY <1>1, <2>1 DEF OnePerContact
<1>. QED
  BY <1>2, IInvHolds, PTL

\* A reply leaves when every older text of its contact has been answered, closed
\* or given up, with the same exceptions.
THEOREM InOrder == Spec => RepliesInOrder
<1>1. ASSUME IInv, [Next]_vars, NEW m \in Messages, Answers(m),
             NEW n \in Siblings(m), Active(n), job[n].stamp < job[m].stamp,
             n \notin late, faults <= 1
      PROVE  accepted[n] # "none"
  <2>1. n \in Messages /\ m \in Siblings(n)
    BY DEF Siblings
  <2>2. PICK w \in Workers : SendRcs(w) \/ Send(w)
    <3>1. accepted' # accepted
      BY <1>1 DEF Answers
    <3>2. PICK w \in Workers : SendRcs(w) \/ Send(w) \/ ForwardSend(w)
      <4>1. \A h \in Handlers, k \in Messages :
               HandlerDies(h) \/ HandlerStep(h) \/ Begin(h, k) => accepted' = accepted
        BY DEF HandlerDies, HandlerStep, HandlerGate, Persist, PersistCommit, Evaluate, Flip,
               Answer, Begin
      <4>2. \A v \in Workers :
               ClaimBegin(v) \/ ClaimCommit(v) \/ WorkerStops(v) => accepted' = accepted
        BY DEF ClaimBegin, ClaimCommit, WorkerStops, Defer, WorkerDies, StaysQuiet
      <4>3. PICK v \in Workers : WorkerStep(v)
        BY <1>1, <3>1, <4>1, <4>2 DEF Next, vars, SetMode, LeaseLapses, Reclaim
      <4>4. SendRcs(v) \/ Send(v) \/ ForwardSend(v)
        BY <3>1, <4>3 DEF WorkerStep, Start, Gate, Compose, Reserve, Complete, Recover,
           Recomplete, ReleaseSlot, Failed, ForwardComplete, ForwardMeter, StaysQuiet
      <4>. QED
        BY <4>4
    <3>3. CASE ForwardSend(w)
      <4>1. PICK k \in Messages : k = Msg(w)
        BY <1>1, <3>3, MineIs DEF ForwardSend, Working
      <4>2. CASE AcceptAs(k, "forward")
        BY <1>1, <4>1, <4>2, AcceptIs DEF Answers, IInv
      <4>3. CASE UNCHANGED accepted
        BY <3>1, <4>3
      <4>. QED
        BY <3>3, <4>1, <4>2, <4>3 DEF ForwardSend
    <3>. QED
      BY <3>2, <3>3
  <2>3. worker[w].at \in {"rcs", "send"} /\ worker[w].at \in Working
    BY <2>2 DEF SendRcs, Send, Working
  <2>4. PICK k \in Messages : k = Msg(w)
    BY <1>1, <2>3, MineIs
  <2>5. k = m
    <3>1. ASSUME NEW text \in Replies, AcceptAs(k, text) PROVE k = m
      BY <1>1, <2>4, <3>1, AcceptIs DEF Answers, IInv
    <3>2. CASE UNCHANGED accepted
      BY <1>1, <3>2 DEF Answers
    <3>. QED
      BY <2>2, <2>4, <3>1, <3>2 DEF SendRcs, Send
  <2>6. job[m].state = "processing"
    BY <1>1, <2>3, <2>4, <2>5, MineIs DEF GoodAt, Good
  <2>7. Chosen(m)
    BY <2>6 DEF Chosen
  <2>. QED
    BY <1>1, <2>1, <2>7 DEF IInv, Ordered
<1>2. ASSUME IInv, [Next]_vars
      PROVE  [\A m \in Messages : Answers(m) =>
                 \A n \in Siblings(m) :
                    Active(n) /\ job[n].stamp < job[m].stamp =>
                       accepted[n] # "none" \/ n \in late \/ faults > 1]_vars
  <2>1. faults \in Nat
    BY <1>2, Ranges DEF IInv
  <2>. QED
    BY <1>1, <1>2, <2>1
<1>. QED
  BY <1>2, IInvHolds, PTL DEF Spec, RepliesInOrder

=============================================================================
