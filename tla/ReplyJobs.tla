------------------------------ MODULE ReplyJobs ------------------------------
(***************************************************************************)
(* One conversation and the queue of its reply jobs.  Three pipelines have *)
(* this shape: Messenger/Instagram/WhatsApp (messenger_jobs), the coworker *)
(* in a company's channels, Slack first (coworker_jobs), and the chats that*)
(* a tenant's own box answers (dashboard_chat_jobs, webchat_jobs).  They   *)
(* differ in who may claim, in what a commit is and in how they fail.      *)
(*                                                                         *)
(* A claim is two actions: what `not exists` and `order by` see is the     *)
(* snapshot of the statement, and only the locked row is looked at again.  *)
(***************************************************************************)
EXTENDS Integers, Sequences, FiniteSets

CONSTANTS
    Messages,     \* what the person writes
    Workers,      \* worker invocations that may run at a time
    Kinds,        \* the pipelines to explore
    Window,       \* rows of the transcript a turn is given: 20, or 12
    MaxAttempts,  \* 3 claims of a job
    MaxFaults     \* bound: dead workers, lost answers, failed writes

ASSUME JobsAssumption ==
    /\ Kinds \subseteq {"messenger", "coworker", "box"}
    /\ Window \in Nat \ {0} /\ MaxAttempts \in Nat \ {0} /\ MaxFaults \in Nat
    /\ IsFiniteSet(Messages) /\ "none" \notin Messages /\ "reply" \notin Messages

VARIABLES
    kind,     \* the pipeline
    thread,   \* the transcript: messages and replies, in the order of their ids
    job,      \* the rows of the queue, one for each message
    worker,   \* worker invocations
    sent,     \* replies delivered by each job
    covered,  \* messages that were in front of the coworker when it spoke
    passed,   \* messages it spoke after, or failed to, without having them before it
    doubt,    \* jobs whose worker was cut off, or could not write, after a reply
    faults    \* faults so far

vars == <<kind, thread, job, worker, sent, covered, passed, doubt, faults>>
delivered == <<sent, covered, passed, doubt>>

-----------------------------------------------------------------------------
Reply == "reply"
NoJob == [status |-> "none", attempts |-> 0, born |-> 0]
Idle == [at |-> "idle", job |-> "none", seen |-> {}, upto |-> {}, found |-> {}]
Settled == {"done", "superseded", "error", "no_input"}

Init ==
    /\ kind \in Kinds
    /\ thread = <<>>
    /\ job = [m \in Messages |-> NoJob]
    /\ worker = [w \in Workers |-> Idle]
    /\ sent = [m \in Messages |-> 0]
    /\ covered = {} /\ passed = {} /\ doubt = {}
    /\ faults = 0

Fault == faults < MaxFaults /\ faults' = faults + 1
NoFault == UNCHANGED faults

Written == {m \in Messages : \E i \in DOMAIN thread : thread[i] = m}
Recent == {m \in Messages : \E i \in DOMAIN thread : thread[i] = m /\ i + Window > Len(thread)}
Mine(w) == worker[w].job
Goto(w, at) == worker' = [worker EXCEPT ![w].at = at]
Return(w) == worker' = [worker EXCEPT ![w] = Idle]

-----------------------------------------------------------------------------
(* The webhook, or the dashboard's route. *)

\* The message is stored; a redelivery finds it there and is acknowledged.
Arrive(m) ==
    /\ m \notin Written /\ job[m].status = "none"
    /\ thread' = Append(thread, m)
    /\ UNCHANGED <<kind, job, worker, delivered, faults>>

Enqueue(m) ==
    /\ m \in Written /\ job[m].status = "none"
    /\ job' = [job EXCEPT ![m].status = "queued",
                          ![m].born = Cardinality({n \in Messages : job[n].born > 0}) + 1]
    /\ UNCHANGED <<kind, thread, worker, delivered, faults>>

\* The job is not stored.  Messenger takes its message back, so that it may be
\* delivered again; where the message stays, no delivery will queue it.
EnqueueFails(m) ==
    /\ m \in Written /\ job[m].status = "none"
    /\ Fault
    /\ \/ /\ kind = "messenger"
          /\ \E i \in DOMAIN thread :
                /\ thread[i] = m
                /\ thread' = SubSeq(thread, 1, i - 1) \o SubSeq(thread, i + 1, Len(thread))
          /\ UNCHANGED job
       \/ job' = [job EXCEPT ![m].status = "lost"] /\ UNCHANGED thread
    /\ UNCHANGED <<kind, worker, delivered>>

-----------------------------------------------------------------------------
(* The claim. *)

\* Mutant: attempts are not counted.
QueuedAnyway(m) == job[m].status = "queued"
Queued(m) == job[m].status = "queued" /\ (kind = "box" \/ job[m].attempts < MaxAttempts)
\* One turn of a conversation at a time, but for a box, which has one worker.
Free == IF kind = "box"
        THEN \A w \in Workers : worker[w].at = "idle"
        ELSE \A m \in Messages : job[m].status # "processing"

Look(w) ==
    /\ worker[w].at = "idle"
    /\ Free
    /\ \E m \in Messages : Queued(m)
    /\ worker' = [worker EXCEPT ![w] = [Idle EXCEPT !.at = "take",
                                                    !.found = {m \in Messages : Queued(m)}]]
    /\ UNCHANGED <<kind, thread, job, delivered, faults>>

\* The oldest of the rows found that still is queued.
Take(w) ==
    /\ worker[w].at = "take"
    /\ LET left == {m \in worker[w].found : Queued(m)}
       IN  \/ left = {} /\ Return(w) /\ UNCHANGED job
           \/ \E m \in left :
                 /\ \A n \in left : job[m].born <= job[n].born
                 /\ job' = [job EXCEPT ![m].status = "processing", ![m].attempts = @ + 1]
                 /\ worker' = [worker EXCEPT ![w] = [Idle EXCEPT !.at = "read", !.job = m]]
    /\ UNCHANGED <<kind, thread, delivered, faults>>

\* Mutant: a row is given back with its attempts spent, to where no claim is.
GivenBackSpent(m) == "queued"
GivenBack(m) == IF kind # "box" /\ job[m].attempts >= MaxAttempts THEN "error" ELSE "queued"

\* The claim is stale: ten minutes for invocations that live five.  The five
\* minutes of a box may pass under its worker's hands.
Reclaim(m) ==
    /\ job[m].status = "processing"
    /\ kind = "box" \/ \A w \in Workers : Mine(w) # m
    /\ job' = [job EXCEPT ![m].status = GivenBack(m)]
    /\ UNCHANGED <<kind, thread, worker, delivered, faults>>

-----------------------------------------------------------------------------
(* The turn. *)

\* What is before the coworker: the last rows of the transcript, or for a box
\* what was stored with the job.  The turn also notes how far the transcript
\* goes, whether it is given all of it or not.  A Messenger turn whose transcript
\* ends in a reply has nothing to answer; and a turn may be refused for good, by
\* the 24-hour window, the plan, a missing connection.
Read(w) ==
    /\ worker[w].at = "read"
    /\ \/ Goto(w, "fail")
       \/ /\ kind = "box" => job[Mine(w)].attempts <= MaxAttempts
          /\ IF kind = "messenger" /\ (thread = <<>> \/ thread[Len(thread)] = Reply)
             THEN Goto(w, "no_input")
             ELSE worker' = [worker EXCEPT ![w].at = "turn",
                                ![w].seen = IF kind = "box" THEN {Mine(w)} ELSE Recent,
                                ![w].upto = IF kind = "box" THEN {Mine(w)} ELSE Written]
    /\ UNCHANGED <<kind, thread, job, delivered, faults>>

LastTry(w) == job[Mine(w)].attempts >= MaxAttempts

\* The model answers, or fails for now or for good.  The coworker of a channel
\* gives notice when it fails for the last time, and over its budget it gives
\* notice without having looked at anything.
Turn(w) ==
    /\ worker[w].at = "turn"
    /\ \/ Goto(w, "send")
       \/ Goto(w, IF kind = "coworker" /\ LastTry(w) THEN "notice" ELSE "thrown")
       \/ Goto(w, "fail")
       \/ kind = "coworker" /\ worker' = [worker EXCEPT ![w].at = "notice", ![w].seen = {},
                                                            ![w].upto = {}]
    /\ UNCHANGED <<kind, thread, job, delivered, faults>>

\* The person is answered on what the turn was given, the rest is passed over.
Says(w) ==
    /\ sent' = [sent EXCEPT ![Mine(w)] = @ + 1]
    /\ covered' = covered \cup worker[w].seen
    /\ passed' = passed \cup (worker[w].upto \ worker[w].seen)

Delivers(w) ==
    /\ Says(w)
    /\ thread' = IF kind = "box" THEN Append(thread, Reply) ELSE thread

\* The reply is sent; for a box that is the row the browser is shown.
Send(w) ==
    /\ worker[w].at = "send"
    /\ \/ Delivers(w) /\ Goto(w, "commit") /\ UNCHANGED doubt /\ NoFault
       \/ /\ Goto(w, IF kind = "box" THEN "fail" ELSE "thrown")
          /\ UNCHANGED <<thread, delivered>> /\ NoFault
       \/ kind = "messenger" /\ Goto(w, "fail") /\ UNCHANGED <<thread, delivered>> /\ NoFault
       \/ /\ Delivers(w)
          /\ doubt' = doubt \cup {Mine(w)}
          /\ Goto(w, IF kind = "box" THEN "fail" ELSE "thrown")
          /\ Fault
    /\ UNCHANGED <<kind, job>>

\* A notice counts as given, posted or not.
Notice(w) ==
    /\ worker[w].at = "notice"
    /\ \/ Says(w)
       \/ passed' = passed \cup worker[w].upto /\ UNCHANGED <<sent, covered>>
    /\ Goto(w, "commit")
    /\ UNCHANGED <<kind, thread, job, doubt, faults>>

\* Mutant: every sibling is retired, whatever the reply was an answer to.
AllSiblings(w) == {m \in Messages : m # Mine(w)}
\* The messages up to the last one that was stored when the transcript was read.
Siblings(w) == worker[w].upto \ {Mine(w)}

\* complete: the reply is stored, the job done, its queued siblings that
\* the reply is taken to answer too.  A job that is done already is left.
Complete(w) ==
    IF job[Mine(w)].status \in {"done", "superseded"}
    THEN UNCHANGED <<job, thread>>
    ELSE /\ thread' = Append(thread, Reply)
         /\ job' = [m \in Messages |->
                      IF m = Mine(w) THEN [job[m] EXCEPT !.status = "done"]
                      ELSE IF m \in Siblings(w) /\ job[m].status = "queued"
                      THEN [job[m] EXCEPT !.status = "superseded"]
                      ELSE job[m]]

\* Mutant: a failed commit is another failure to try again.
TriedAgain == "thrown"
\* The reply is out: Messenger closes the job, a channel's worker crashed.
AfterLostCommit == IF kind = "messenger" THEN "fail" ELSE "thrown"

Commit(w) ==
    /\ worker[w].at = "commit" /\ kind # "box"
    /\ \/ Complete(w) /\ Return(w) /\ NoFault
       \/ (Complete(w) \/ UNCHANGED <<job, thread>>) /\ Goto(w, AfterLostCommit) /\ Fault
    /\ UNCHANGED <<kind, delivered>>

\* The box marks the job done; a failure is logged.
MarkDone(w) ==
    /\ worker[w].at = "commit" /\ kind = "box"
    /\ \/ job' = [job EXCEPT ![Mine(w)].status = "done"] /\ NoFault
       \/ UNCHANGED job /\ Fault
    /\ Return(w)
    /\ UNCHANGED <<kind, thread, delivered>>

-----------------------------------------------------------------------------
(* Failures. *)

\* Mutant: the claim is not looked at.
SetAnyway(w, status) == job' = [job EXCEPT ![Mine(w)].status = status]
\* Only Messenger looks whether the claim is still its own.
Set(w, status) ==
    IF kind = "messenger" /\ job[Mine(w)].status # "processing"
    THEN UNCHANGED job
    ELSE job' = [job EXCEPT ![Mine(w)].status = status]

\* The write may fail, which leaves the claim to go stale; a box that cannot
\* put its job back closes it.
Closing(w, at, status) ==
    /\ worker[w].at = at
    /\ \/ Set(w, status) /\ Return(w) /\ UNCHANGED doubt /\ NoFault
       \/ /\ UNCHANGED job /\ Fault
          /\ IF kind = "box" /\ at = "thrown"
             THEN Goto(w, "fail") /\ UNCHANGED doubt
             ELSE Return(w) /\ doubt' = doubt \cup {Mine(w)}
    /\ UNCHANGED <<kind, thread, sent, covered, passed>>

Fail(w) == Closing(w, "fail", "error")
NoInput(w) == Closing(w, "no_input", "no_input")
\* Back to the queue, unless the attempts are spent; a channel's job goes back
\* anyway, to where no claim finds it.
TryAgain(w) == Closing(w, "thrown", IF kind # "coworker" /\ LastTry(w) THEN "error" ELSE "queued")

Die(w) ==
    /\ worker[w].at # "idle"
    /\ Fault
    /\ doubt' = IF worker[w].at \in {"commit", "fail", "thrown"}
                THEN doubt \cup {Mine(w)} ELSE doubt
    /\ Return(w)
    /\ UNCHANGED <<kind, thread, job, sent, covered, passed>>

-----------------------------------------------------------------------------
Ask(m) == Arrive(m) \/ Enqueue(m) \/ EnqueueFails(m)

Work(w) == \/ Take(w) \/ Read(w) \/ Turn(w) \/ Send(w) \/ Notice(w) \/ Commit(w) \/ MarkDone(w)
           \/ Fail(w) \/ NoInput(w) \/ TryAgain(w)

Next == \/ \E m \in Messages : Ask(m) \/ Reclaim(m)
        \/ \E w \in Workers : Look(w) \/ Work(w) \/ Die(w)

Spec == Init /\ [][Next]_vars

\* Each minute a sweep reclaims and starts a worker, and a worker that is not
\* killed goes on.
Fairness == /\ \A m \in Messages : WF_vars(Reclaim(m))
            /\ \A w \in Workers : WF_vars(Look(w)) /\ WF_vars(Work(w))

FairSpec == Spec /\ Fairness

-----------------------------------------------------------------------------
(* Properties. *)

\* The transcript, the rows and the workers have their types, and no job is
\* claimed more often than allowed (a box counts one claim more, to close it,
\* and again when that fails).
TypeOK ==
    /\ kind \in Kinds
    /\ thread \in Seq(Messages \cup {Reply})
    /\ job \in [Messages -> [status : {"none", "lost", "queued", "processing"} \cup Settled,
                             attempts : Nat, born : 0..Cardinality(Messages)]]
    /\ \A m \in Messages :
          job[m].attempts <= IF kind = "box" THEN MaxAttempts + 1 + faults ELSE MaxAttempts
    /\ worker \in [Workers ->
          [at : {"idle", "take", "read", "turn", "send", "notice", "commit", "fail", "no_input", "thrown"},
           job : Messages \cup {"none"}, seen : SUBSET Messages,
           upto : SUBSET Messages, found : SUBSET Messages]]
    /\ sent \in [Messages -> Nat]
    /\ covered \subseteq Messages /\ passed \subseteq Messages /\ doubt \subseteq Messages
    /\ faults \in 0..MaxFaults

\* Unless a worker was cut off between the sending and its record, a Messenger
\* job sends one reply, a failed commit included.
SentOnce == kind = "messenger" => \A m \in Messages : sent[m] <= 1 \/ m \in doubt

\* A message that is stored while a turn runs is never retired with it, whoever
\* claims, retries and commits meanwhile.  A retired message was in front of the
\* coworker when it answered, or was passed over by a turn that began after it:
\* it was older than the window, or the notice it was retired with did not post.
SupersededIsNotLate ==
    \A m \in Messages : job[m].status = "superseded" => m \in covered \cup passed

\* A message that came too late for one reply gets its own: a turn finds nothing
\* to answer only where its message has been answered.
LateMessageIsAnswered == \A m \in Messages : job[m].status = "no_input" => m \in covered

\* Done is final: neither a late failure nor a reclaim undoes it.
DoneIsFinal ==
    [][\A m \in Messages : kind # "coworker" /\ job[m].status = "done"
                              => job'[m].status = "done"]_vars

\* No job stays in the queue or in a dead worker's hands.
JobsAreSettled ==
    \A m \in Messages : (kind # "coworker" /\ job[m].status = "queued") ~> job[m].status \in Settled
=============================================================================
