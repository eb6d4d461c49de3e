--------------------------- MODULE ReplyJobsProofs ---------------------------
(***************************************************************************)
(* Theorems about ReplyJobs, for each pipeline and every number of         *)
(* messages, workers, attempts and faults.                                 *)
(***************************************************************************)
EXTENDS ReplyJobs, FiniteSetTheorems, TLAPS

-----------------------------------------------------------------------------
(* The inductive invariant. *)

Attempted == {"queued", "processing"}

Jobs == [status : {"none", "lost", "queued", "processing"} \cup Settled,
         attempts : Nat, born : 0..Cardinality(Messages)]
Turns == [at : {"idle", "take", "read", "turn", "send", "notice", "commit", "fail",
                "no_input", "thrown"},
          job : Messages \cup {"none"}, seen : SUBSET Messages,
          upto : SUBSET Messages, found : SUBSET Messages]

Typed ==
    /\ kind \in Kinds
    /\ thread \in Seq(Messages \cup {Reply})
    /\ job \in [Messages -> Jobs]
    /\ worker \in [Workers -> Turns]
    /\ sent \in [Messages -> Nat]
    /\ covered \subseteq Messages /\ passed \subseteq Messages /\ doubt \subseteq Messages
    /\ faults \in 0..MaxFaults

\* A worker holds a job from its claim to the write that gives it away; a row
\* that was never queued has no number yet and no attempts.
Busy(w) == worker[w].at \notin {"idle", "take"}
Holders(m) == {w \in Workers : Mine(w) = m}
Held ==
    /\ \A w \in Workers : Busy(w) <=> Mine(w) \in Messages
    /\ \A m \in Messages :
          job[m].status \in {"none", "lost"} => job[m].born = 0 /\ job[m].attempts = 0

\* A box has one worker at a time; elsewhere a job has.  A job that is held is
\* in progress, unless its box was slow and it was given back under its hands,
\* or the answer to its commit was lost.
Alone ==
    /\ \A w1, w2 \in Workers :
          IF kind = "box"
          THEN worker[w1].at # "idle" /\ worker[w2].at # "idle" => w1 = w2
          ELSE Busy(w1) /\ Mine(w1) = Mine(w2) => w1 = w2
    /\ \A w \in Workers : Busy(w) =>
          \/ job[Mine(w)].status = "processing"
          \/ kind = "box" /\ job[Mine(w)].status = "queued"
          \/ /\ kind # "box" /\ job[Mine(w)].status = "done"
             /\ worker[w].at = AfterLostCommit

\* Attempts are bounded; a box's job that nobody holds but a claim may find has
\* room for one more.
Bounded ==
    \A m \in Messages :
       /\ job[m].attempts <= IF kind = "box" THEN MaxAttempts + 1 + faults ELSE MaxAttempts
       /\ kind = "box" /\ job[m].status \in Attempted /\ Holders(m) = {}
             => job[m].attempts <= MaxAttempts + faults

\* A Messenger job that may still be answered has sent nothing.
Unspoken(m) ==
    \/ job[m].status \in {"none", "lost", "queued"}
    \/ job[m].status = "processing" /\ Holders(m) = {}
    \/ \E w \in Holders(m) : worker[w].at \in {"read", "turn", "send", "thrown", "no_input"}
Spoken ==
    kind = "messenger" =>
       /\ \A m \in Messages \ doubt : sent[m] <= 1 /\ (Unspoken(m) => sent[m] = 0)
       /\ \A w \in Workers : worker[w].at # "notice"

\* What a reply that is about to be committed was an answer to.
Covering ==
    /\ \A w \in Workers : worker[w].at = "commit" => worker[w].upto \subseteq covered \cup passed
    /\ SupersededIsNotLate

IInv == Typed /\ Held /\ Alone /\ Bounded /\ Spoken /\ Covering

-----------------------------------------------------------------------------
(* Types. *)

LEMMA WrittenAreMessages == Written \subseteq Messages /\ Recent \subseteq Messages
BY DEF Written, Recent

\* Where a worker is after it went on, and after it ended.
LEMMA GotoIs ==
    ASSUME Typed, NEW w \in Workers,
           NEW at \in {"idle", "take", "read", "turn", "send", "notice", "commit", "fail",
                       "no_input", "thrown"},
           Goto(w, at)
    PROVE  /\ worker' \in [Workers -> Turns]
           /\ worker'[w].at = at /\ worker'[w].job = worker[w].job
           /\ worker'[w].seen = worker[w].seen /\ worker'[w].upto = worker[w].upto
           /\ \A u \in Workers \ {w} : worker'[u] = worker[u]
<1>1. [worker[w] EXCEPT !.at = at] \in Turns
  BY DEF Typed, Turns
<1>. QED
  BY <1>1 DEF Goto, Typed, Turns

LEMMA ReturnIs ==
    ASSUME Typed, NEW w \in Workers, Return(w)
    PROVE  /\ worker' \in [Workers -> Turns]
           /\ worker'[w].at = "idle" /\ worker'[w].job = "none"
           /\ \A u \in Workers \ {w} : worker'[u] = worker[u]
<1>1. Idle \in Turns
  BY DEF Idle, Turns
<1>. QED
  BY <1>1 DEF Return, Typed, Idle

\* A worker that read the conversation has it before it.
LEMMA TurnIs ==
    ASSUME Typed, NEW w \in Workers, NEW at \in {"turn", "notice"}, NEW seen \in SUBSET Messages,
           NEW upto \in SUBSET Messages,
           worker' = [worker EXCEPT ![w].at = at, ![w].seen = seen, ![w].upto = upto]
    PROVE  /\ worker' \in [Workers -> Turns]
           /\ worker'[w].at = at /\ worker'[w].job = worker[w].job
           /\ worker'[w].seen = seen /\ worker'[w].upto = upto
           /\ \A u \in Workers \ {w} : worker'[u] = worker[u]
<1>1. [worker[w] EXCEPT !.at = at, !.seen = seen, !.upto = upto] \in Turns
  BY DEF Typed, Turns
<1>. QED
  BY <1>1 DEF Typed, Turns

\* A row whose status is written.
LEMMA StatusIs ==
    ASSUME Typed, NEW m \in Messages,
           NEW status \in {"none", "lost", "queued", "processing"} \cup Settled,
           job' = [job EXCEPT ![m].status = status]
    PROVE  /\ job' \in [Messages -> Jobs]
           /\ job'[m].status = status /\ job'[m].attempts = job[m].attempts
           /\ job'[m].born = job[m].born
           /\ \A n \in Messages \ {m} : job'[n] = job[n]
<1>1. [job[m] EXCEPT !.status = status] \in Jobs
  BY DEF Typed, Jobs
<1>. QED
  BY <1>1 DEF Typed, Jobs

\* The reply that a commit records, and the rows that it closes.
LEMMA CompleteIs ==
    ASSUME Typed, NEW w \in Workers, Mine(w) \in Messages, Complete(w)
    PROVE  /\ job' \in [Messages -> Jobs] /\ thread' \in Seq(Messages \cup {Reply})
           /\ \/ /\ job[Mine(w)].status \in {"done", "superseded"}
                 /\ job' = job
              \/ /\ job'[Mine(w)].status = "done"
                 /\ \A m \in Messages \ {Mine(w)} :
                       \/ job'[m] = job[m]
                       \/ /\ m \in worker[w].upto /\ job[m].status = "queued"
                          /\ job'[m].status = "superseded"
           /\ \A m \in Messages : job'[m].attempts = job[m].attempts /\ job'[m].born = job[m].born
<1>1. CASE job[Mine(w)].status \in {"done", "superseded"}
  BY <1>1 DEF Complete, Typed
<1>2. CASE job[Mine(w)].status \notin {"done", "superseded"}
  <2>1. ASSUME NEW m \in Messages
        PROVE  /\ [job[m] EXCEPT !.status = "done"] \in Jobs
               /\ [job[m] EXCEPT !.status = "superseded"] \in Jobs
               /\ [job[m] EXCEPT !.status = "done"].attempts = job[m].attempts
               /\ [job[m] EXCEPT !.status = "superseded"].attempts = job[m].attempts
               /\ [job[m] EXCEPT !.status = "done"].born = job[m].born
               /\ [job[m] EXCEPT !.status = "superseded"].born = job[m].born
               /\ [job[m] EXCEPT !.status = "done"].status = "done"
               /\ [job[m] EXCEPT !.status = "superseded"].status = "superseded"
    BY DEF Typed, Jobs, Settled
  <2>2. thread' \in Seq(Messages \cup {Reply})
    <3>1. thread' = Append(thread, Reply)
      BY <1>2 DEF Complete
    <3>. QED
      BY <3>1 DEF Typed
  <2>3. job' = [m \in Messages |->
                  IF m = Mine(w) THEN [job[m] EXCEPT !.status = "done"]
                  ELSE IF m \in Siblings(w) /\ job[m].status = "queued"
                  THEN [job[m] EXCEPT !.status = "superseded"]
                  ELSE job[m]]
    BY <1>2 DEF Complete
  <2>4. job' \in [Messages -> Jobs]
    BY <2>1, <2>3 DEF Typed
  <2>. QED
    BY <2>1, <2>2, <2>3, <2>4 DEF Siblings
<1>. QED
  BY <1>1, <1>2

\* The transcript without the message at place i.
LEMMA TakenBack ==
    ASSUME NEW S, NEW t \in Seq(S), NEW i \in DOMAIN t
    PROVE  SubSeq(t, 1, i - 1) \o SubSeq(t, i + 1, Len(t)) \in Seq(S)
<1>1. Len(t) \in Nat /\ i \in 1..Len(t) /\ \A j \in 1..Len(t) : t[j] \in S
  OBVIOUS
<1>2. SubSeq(t, 1, i - 1) \in Seq(S)
  BY <1>1
<1>3. SubSeq(t, i + 1, Len(t)) \in Seq(S)
  BY <1>1
<1>. QED
  BY <1>2, <1>3

-----------------------------------------------------------------------------
(* What the steps do. *)

Others(w) == \A u \in Workers \ {w} : worker'[u] = worker[u]

\* A worker goes on with its job: it may speak, and then it commits, or its job
\* is in doubt.
Goes(w) ==
    /\ UNCHANGED <<kind, job>> /\ faults <= faults' /\ Others(w)
    /\ Mine(w) \in Messages /\ worker'[w].job = Mine(w)
    /\ worker[w].at \in {"read", "turn", "send", "notice"}
    /\ worker'[w].at \notin {"idle", "take"}
    /\ worker'[w].at = "notice" => kind = "coworker"
    /\ worker'[w].at = "commit" => worker'[w].upto \subseteq covered' \cup passed'
    /\ doubt \subseteq doubt' /\ covered \subseteq covered' /\ passed \subseteq passed'
    /\ \/ /\ sent' = sent
          /\ worker'[w].at = "commit" => worker[w].at = "notice"
       \/ /\ sent' = [sent EXCEPT ![Mine(w)] = @ + 1]
          /\ worker'[w].at = "commit" \/ Mine(w) \in doubt'

\* A worker lets its job go: by a fault, as it found it; or with its status
\* written, if the claim still is its own.
Ends(w) ==
    /\ UNCHANGED <<kind, sent, covered, passed>> /\ faults <= faults' /\ Others(w)
    /\ Mine(w) \in Messages /\ worker[w].at \notin {"idle", "take"}
    /\ worker'[w].at = "idle" /\ worker'[w].job = "none"
    /\ doubt \subseteq doubt'
    /\ job'[Mine(w)].attempts = job[Mine(w)].attempts
    /\ job'[Mine(w)].born = job[Mine(w)].born
    /\ \A n \in Messages \ {Mine(w)} : job'[n] = job[n]
    /\ \/ /\ job' = job /\ faults' = faults + 1
          /\ \/ kind = "box" \/ Mine(w) \in doubt'
             \/ worker[w].at \in {"read", "turn", "send", "notice", "no_input"}
       \/ job' = job /\ kind = "messenger" /\ job[Mine(w)].status # "processing"
       \/ /\ job'[Mine(w)].status \in {"done", "error", "no_input"}
          /\ kind = "messenger" => job[Mine(w)].status = "processing"
       \/ /\ job'[Mine(w)].status = "queued" /\ worker[w].at = "thrown"
          /\ kind = "box" => job[Mine(w)].attempts < MaxAttempts
          /\ kind = "messenger" => job[Mine(w)].status = "processing"

\* A commit: the reply is recorded; the worker ends, or its answer is lost.
Closes(w) ==
    /\ kind # "box"
    /\ UNCHANGED <<kind, sent, covered, passed, doubt>> /\ faults <= faults' /\ Others(w)
    /\ Mine(w) \in Messages /\ worker[w].at = "commit"
    /\ \/ worker'[w].at = "idle" /\ worker'[w].job = "none"
       \/ worker'[w].at = AfterLostCommit /\ worker'[w].job = Mine(w)
    /\ \/ job[Mine(w)].status \in {"done", "superseded"} /\ job' = job
       \/ /\ job'[Mine(w)].status = "done"
          /\ \A m \in Messages \ {Mine(w)} :
                \/ job'[m] = job[m]
                \/ /\ m \in worker[w].upto /\ job[m].status = "queued"
                   /\ job'[m].status = "superseded"
       \/ job' = job /\ worker'[w].at = AfterLostCommit
    /\ \A m \in Messages : job'[m].attempts = job[m].attempts /\ job'[m].born = job[m].born

LEMMA FaultIs == ASSUME Typed, Fault PROVE faults' \in 0..MaxFaults /\ faults' = faults + 1
BY JobsAssumption DEF Typed, Fault

LEMMA HeldMine ==
    ASSUME Held, NEW w \in Workers, worker[w].at \notin {"idle", "take"}
    PROVE  Mine(w) \in Messages
BY DEF Held, Busy

LEMMA ReadGoes ==
    ASSUME Typed, Held, NEW w \in Workers, Read(w) PROVE Typed' /\ Goes(w)
<1>1. Mine(w) \in Messages
  BY HeldMine DEF Read
<1>2. /\ UNCHANGED <<kind, thread, job, sent, covered, passed, doubt, faults>>
      /\ worker[w].at = "read"
  BY DEF Read, delivered
<1>3. CASE Goto(w, "fail") \/ Goto(w, "no_input")
  <2>1. PICK at \in {"fail", "no_input"} : Goto(w, at)
    BY <1>3
  <2>2. /\ worker' \in [Workers -> Turns] /\ worker'[w].at = at
        /\ worker'[w].job = worker[w].job /\ Others(w)
    BY <2>1, GotoIs DEF Others
  <2>. QED
    BY <1>1, <1>2, <2>2 DEF Typed, Goes, Mine
<1>4. CASE worker' = [worker EXCEPT ![w].at = "turn",
                             ![w].seen = IF kind = "box" THEN {Mine(w)} ELSE Recent,
                             ![w].upto = IF kind = "box" THEN {Mine(w)} ELSE Written]
  <2>1. /\ (IF kind = "box" THEN {Mine(w)} ELSE Recent) \in SUBSET Messages
        /\ (IF kind = "box" THEN {Mine(w)} ELSE Written) \in SUBSET Messages
    BY <1>1, WrittenAreMessages
  <2>2. /\ worker' \in [Workers -> Turns] /\ worker'[w].at = "turn"
        /\ worker'[w].job = worker[w].job /\ Others(w)
    BY <1>4, <2>1, TurnIs DEF Others
  <2>. QED
    BY <1>1, <1>2, <2>2 DEF Typed, Goes, Mine
<1>. QED
  BY <1>3, <1>4 DEF Read

LEMMA TurnGoes ==
    ASSUME Typed, Held, NEW w \in Workers, Turn(w) PROVE Typed' /\ Goes(w)
<1>1. Mine(w) \in Messages
  BY HeldMine DEF Turn
<1>2. /\ UNCHANGED <<kind, thread, job, sent, covered, passed, doubt, faults>>
      /\ worker[w].at = "turn"
  BY DEF Turn, delivered
<1>3. ASSUME NEW at \in {"send", "notice", "thrown", "fail"}, Goto(w, at),
             at = "notice" => kind = "coworker"
      PROVE  Typed' /\ Goes(w)
  <2>2. /\ worker' \in [Workers -> Turns] /\ worker'[w].at = at
        /\ worker'[w].job = worker[w].job /\ Others(w)
    BY <1>3, GotoIs DEF Others
  <2>. QED
    BY <1>1, <1>2, <1>3, <2>2 DEF Typed, Goes, Mine
<1>4. CASE kind = "coworker" /\ worker' = [worker EXCEPT ![w].at = "notice", ![w].seen = {},
                                                    ![w].upto = {}]
  <2>1. {} \in SUBSET Messages /\ "notice" \in {"turn", "notice"}
    OBVIOUS
  <2>2. /\ worker' \in [Workers -> Turns] /\ worker'[w].at = "notice"
        /\ worker'[w].job = worker[w].job /\ Others(w)
    BY <1>4, <2>1, TurnIs DEF Others
  <2>. QED
    BY <1>1, <1>2, <1>4, <2>2 DEF Typed, Goes, Mine
<1>. QED
  BY <1>3, <1>4 DEF Turn

LEMMA SendGoes ==
    ASSUME Typed, Held, NEW w \in Workers, Send(w) PROVE Typed' /\ Goes(w)
<1>1. Mine(w) \in Messages
  BY HeldMine DEF Send
<1>2. UNCHANGED <<kind, job>> /\ worker[w].at = "send"
  BY DEF Send
<1>3. PICK at \in {"commit", "fail", "thrown"} : Goto(w, at)
  BY DEF Send
<1>4. /\ worker' \in [Workers -> Turns] /\ worker'[w].at = at
      /\ worker'[w].job = worker[w].job /\ worker'[w].upto = worker[w].upto /\ Others(w)
  BY <1>3, GotoIs DEF Others
<1>5. worker[w].seen \subseteq Messages /\ worker[w].upto \subseteq Messages
  BY DEF Typed, Turns
<1>6. faults' \in 0..MaxFaults /\ faults <= faults'
  BY FaultIs DEF Send, Typed, NoFault
<1>7. ASSUME Delivers(w)
      PROVE  /\ sent' = [sent EXCEPT ![Mine(w)] = @ + 1] /\ sent' \in [Messages -> Nat]
             /\ covered \subseteq covered' /\ covered' \subseteq Messages
             /\ passed \subseteq passed' /\ passed' \subseteq Messages
             /\ worker[w].upto \subseteq covered' \cup passed'
             /\ thread' \in Seq(Messages \cup {Reply})
  <2>1. Append(thread, Reply) \in Seq(Messages \cup {Reply})
    BY DEF Typed
  <2>. QED
    BY <1>1, <1>5, <1>7, <2>1 DEF Delivers, Says, Typed
<1>8. CASE Delivers(w) /\ at = "commit" /\ UNCHANGED doubt
  BY <1>1, <1>2, <1>4, <1>6, <1>7, <1>8 DEF Typed, Goes, Mine
<1>9. CASE UNCHANGED <<thread, delivered>> /\ at # "commit"
  BY <1>1, <1>2, <1>4, <1>6, <1>9 DEF Typed, Goes, Mine, delivered
<1>10. CASE Delivers(w) /\ doubt' = doubt \cup {Mine(w)} /\ at # "commit"
  BY <1>1, <1>2, <1>4, <1>6, <1>7, <1>10 DEF Typed, Goes, Mine
<1>11. \A b : Goto(w, b) => b = at
  BY <1>3, <1>4 DEF Goto, Typed, Turns
<1>. QED
  BY <1>8, <1>9, <1>10, <1>11 DEF Send

LEMMA NoticeGoes ==
    ASSUME Typed, Held, NEW w \in Workers, Notice(w) PROVE Typed' /\ Goes(w)
<1>1. Mine(w) \in Messages
  BY HeldMine DEF Notice
<1>2. UNCHANGED <<kind, thread, job, doubt, faults>> /\ worker[w].at = "notice"
  BY DEF Notice
<1>3. /\ worker' \in [Workers -> Turns] /\ worker'[w].at = "commit"
      /\ worker'[w].job = worker[w].job /\ worker'[w].upto = worker[w].upto /\ Others(w)
  BY GotoIs DEF Notice, Others
<1>4. worker[w].seen \subseteq Messages /\ worker[w].upto \subseteq Messages
  BY DEF Typed, Turns
<1>5. /\ covered \subseteq covered' /\ covered' \subseteq Messages
      /\ passed \subseteq passed' /\ passed' \subseteq Messages
      /\ worker[w].upto \subseteq covered' \cup passed'
  <2>1. CASE Says(w)
    BY <1>4, <2>1 DEF Says, Typed
  <2>2. CASE passed' = passed \cup worker[w].upto /\ covered' = covered
    BY <1>4, <2>2 DEF Typed
  <2>. QED
    BY <2>1, <2>2 DEF Notice
<1>6. sent' \in [Messages -> Nat] /\ sent' \in {sent, [sent EXCEPT ![Mine(w)] = @ + 1]}
  <2>1. CASE sent' = sent
    BY <2>1 DEF Typed
  <2>2. CASE sent' = [sent EXCEPT ![Mine(w)] = @ + 1]
    BY <1>1, <2>2 DEF Typed
  <2>. QED
    BY <2>1, <2>2 DEF Notice, Says
<1>. QED
  BY <1>1, <1>2, <1>3, <1>5, <1>6 DEF Typed, Goes, Mine

LEMMA CommitCloses ==
    ASSUME Typed, Held, NEW w \in Workers, Commit(w) PROVE Typed' /\ Closes(w)
<1>1. Mine(w) \in Messages
  BY HeldMine DEF Commit
<1>2. UNCHANGED <<kind, sent, covered, passed, doubt>> /\ worker[w].at = "commit" /\ kind # "box"
  BY DEF Commit, delivered
<1>3. faults' \in 0..MaxFaults /\ faults <= faults'
  BY FaultIs DEF Commit, Typed, NoFault
<1>4. AfterLostCommit \in {"fail", "thrown"}
  BY DEF AfterLostCommit
<1>5. /\ worker' \in [Workers -> Turns] /\ Others(w)
      /\ \/ worker'[w].at = "idle" /\ worker'[w].job = "none"
         \/ worker'[w].at = AfterLostCommit /\ worker'[w].job = Mine(w)
  BY <1>4, GotoIs, ReturnIs DEF Commit, Others, Mine
<1>6. CASE Complete(w)
  BY <1>1, <1>2, <1>3, <1>5, <1>6, CompleteIs DEF Typed, Closes
<1>7. CASE UNCHANGED <<job, thread>> /\ Goto(w, AfterLostCommit)
  <2>1. worker'[w].at = AfterLostCommit
    BY <1>4, <1>7, GotoIs
  <2>. QED
    BY <1>1, <1>2, <1>3, <1>5, <1>7, <2>1 DEF Typed, Closes
<1>. QED
  BY <1>6, <1>7 DEF Commit

LEMMA MarkDoneEnds ==
    ASSUME Typed, Held, NEW w \in Workers, MarkDone(w) PROVE Typed' /\ Ends(w)
<1>1. Mine(w) \in Messages
  BY HeldMine DEF MarkDone
<1>2. /\ UNCHANGED <<kind, thread, sent, covered, passed, doubt>>
      /\ worker[w].at = "commit" /\ kind = "box"
  BY DEF MarkDone, delivered
<1>3. /\ worker' \in [Workers -> Turns] /\ Others(w)
      /\ worker'[w].at = "idle" /\ worker'[w].job = "none"
  BY ReturnIs DEF MarkDone, Others
<1>4. CASE job' = [job EXCEPT ![Mine(w)].status = "done"] /\ NoFault
  <2>1. /\ job' \in [Messages -> Jobs] /\ job'[Mine(w)].status = "done"
        /\ job'[Mine(w)].attempts = job[Mine(w)].attempts
        /\ job'[Mine(w)].born = job[Mine(w)].born
        /\ \A n \in Messages \ {Mine(w)} : job'[n] = job[n]
    BY <1>1, <1>4, StatusIs DEF Settled
  <2>. QED
    BY <1>1, <1>2, <1>3, <1>4, <2>1 DEF Typed, Ends, NoFault
<1>5. CASE UNCHANGED job /\ Fault
  <2>1. faults' \in 0..MaxFaults /\ faults' = faults + 1 /\ faults <= faults'
    BY <1>5, FaultIs DEF Typed
  <2>. QED
    BY <1>1, <1>2, <1>3, <1>5, <2>1 DEF Typed, Ends
<1>. QED
  BY <1>4, <1>5 DEF MarkDone

\* A box that cannot put its job back goes on to close it.
Refused(w) ==
    /\ kind = "box" /\ worker[w].at = "thrown" /\ worker'[w].at = "fail"
    /\ Mine(w) \in Messages /\ worker'[w].job = Mine(w) /\ Others(w)
    /\ UNCHANGED <<kind, job, sent, covered, passed, doubt>> /\ faults <= faults'

LEMMA ClosingEnds ==
    ASSUME Typed, Held, NEW w \in Workers, NEW at \in {"fail", "no_input", "thrown"},
           NEW status \in {"error", "no_input", "queued"},
           status = "queued" => /\ at = "thrown"
                                /\ kind = "box" => job[Mine(w)].attempts < MaxAttempts,
           Closing(w, at, status)
    PROVE  Typed' /\ (Ends(w) \/ Refused(w))
<1>1. Mine(w) \in Messages
  BY HeldMine DEF Closing
<1>2. UNCHANGED <<kind, thread, sent, covered, passed>> /\ worker[w].at = at
  BY DEF Closing
<1>3. CASE Set(w, status) /\ Return(w) /\ UNCHANGED doubt /\ NoFault
  <2>1. /\ worker' \in [Workers -> Turns] /\ Others(w)
        /\ worker'[w].at = "idle" /\ worker'[w].job = "none"
    BY <1>3, ReturnIs DEF Others
  <2>2. CASE kind = "messenger" /\ job[Mine(w)].status # "processing"
    BY <1>1, <1>2, <1>3, <2>1, <2>2 DEF Typed, Ends, Set, NoFault
  <2>3. CASE ~(kind = "messenger" /\ job[Mine(w)].status # "processing")
    <3>1. /\ job' \in [Messages -> Jobs] /\ job'[Mine(w)].status = status
          /\ job'[Mine(w)].attempts = job[Mine(w)].attempts
          /\ job'[Mine(w)].born = job[Mine(w)].born
          /\ \A n \in Messages \ {Mine(w)} : job'[n] = job[n]
      BY <1>1, <1>3, <2>3, StatusIs DEF Set, Settled
    <3>. QED
      BY <1>1, <1>2, <1>3, <2>1, <2>3, <3>1 DEF Typed, Ends, NoFault
  <2>. QED
    BY <2>2, <2>3
<1>4. CASE UNCHANGED job /\ Fault /\ Return(w) /\ doubt' = doubt \cup {Mine(w)}
  <2>1. /\ worker' \in [Workers -> Turns] /\ Others(w)
        /\ worker'[w].at = "idle" /\ worker'[w].job = "none"
    BY <1>4, ReturnIs DEF Others
  <2>2. faults' \in 0..MaxFaults /\ faults' = faults + 1 /\ faults <= faults'
    BY <1>4, FaultIs DEF Typed
  <2>. QED
    BY <1>1, <1>2, <1>4, <2>1, <2>2 DEF Typed, Ends
<1>5. CASE UNCHANGED <<job, doubt>> /\ Fault /\ kind = "box" /\ at = "thrown" /\ Goto(w, "fail")
  <2>1. /\ worker' \in [Workers -> Turns] /\ Others(w)
        /\ worker'[w].at = "fail" /\ worker'[w].job = worker[w].job
    BY <1>5, GotoIs DEF Others
  <2>2. faults' \in 0..MaxFaults /\ faults <= faults'
    BY <1>5, FaultIs DEF Typed
  <2>. QED
    BY <1>1, <1>2, <1>5, <2>1, <2>2 DEF Typed, Refused, Mine
<1>. QED
  BY <1>3, <1>4, <1>5 DEF Closing

LEMMA DieEnds ==
    ASSUME Typed, Held, NEW w \in Workers, Die(w)
    PROVE  /\ Typed'
           /\ \/ Ends(w)
              \/ /\ worker[w].at = "take" /\ worker'[w].at = "idle" /\ worker'[w].job = "none"
                 /\ Others(w) /\ UNCHANGED <<kind, job, sent, covered, passed, doubt>> /\ faults <= faults'
<1>1. /\ worker' \in [Workers -> Turns] /\ Others(w)
      /\ worker'[w].at = "idle" /\ worker'[w].job = "none"
  BY ReturnIs DEF Die, Others
<1>2. faults' \in 0..MaxFaults /\ faults' = faults + 1 /\ faults <= faults'
  BY FaultIs DEF Die, Typed
<1>3. UNCHANGED <<kind, thread, job, sent, covered, passed>> /\ worker[w].at # "idle"
  BY DEF Die
<1>4. CASE worker[w].at = "take"
  BY <1>1, <1>2, <1>3, <1>4 DEF Die, Typed
<1>5. CASE worker[w].at # "take"
  <2>1. Mine(w) \in Messages
    BY <1>3, <1>5, HeldMine
  <2>2. worker[w].at \in {"read", "turn", "send", "notice", "commit", "fail", "no_input", "thrown"}
    BY <1>3, <1>5 DEF Typed, Turns
  <2>. QED
    BY <1>1, <1>2, <1>3, <1>5, <2>1, <2>2 DEF Die, Typed, Ends
<1>. QED
  BY <1>4, <1>5

-----------------------------------------------------------------------------
(* The invariant is kept by a worker that goes on, *)

LEMMA GoesKeeps ==
    ASSUME IInv, Typed', NEW w \in Workers, Goes(w) PROVE IInv'
<1>. USE DEF IInv
<1>0. PICK m0 \in Messages : m0 = Mine(w)
  BY DEF Goes
<1>1. /\ UNCHANGED <<kind, job>> /\ faults <= faults' /\ Others(w)
      /\ m0 \in Messages /\ worker'[w].job = m0
      /\ worker[w].at \in {"read", "turn", "send", "notice"}
      /\ worker'[w].at \notin {"idle", "take"}
      /\ doubt \subseteq doubt' /\ covered \subseteq covered' /\ passed \subseteq passed'
  BY <1>0 DEF Goes
<1>2. \A u \in Workers : Mine(u)' = Mine(u) /\ Busy(u)' = Busy(u)
  BY <1>0, <1>1 DEF Mine, Busy, Others
<1>3. \A m : Holders(m)' = Holders(m)
  BY <1>2 DEF Holders
<1>4. Held'
  BY <1>1, <1>2 DEF Held
<1>5. worker[w].at # AfterLostCommit /\ worker[w].at # "idle"
  BY <1>1 DEF AfterLostCommit
<1>6. \A u \in Workers : worker'[u].at # "idle" => worker[u].at # "idle"
  BY <1>1, <1>5 DEF Others
<1>7. Alone'
  <2>1. ASSUME NEW w1 \in Workers, NEW w2 \in Workers
        PROVE  IF kind = "box"
               THEN worker'[w1].at # "idle" /\ worker'[w2].at # "idle" => w1 = w2
               ELSE Busy(w1)' /\ Mine(w1)' = Mine(w2)' => w1 = w2
    BY <1>2, <1>6 DEF Alone
  <2>2. ASSUME NEW u \in Workers, Busy(u)'
        PROVE  \/ job[Mine(u)].status = "processing"
               \/ kind = "box" /\ job[Mine(u)].status = "queued"
               \/ /\ kind # "box" /\ job[Mine(u)].status = "done"
                  /\ worker'[u].at = AfterLostCommit
    BY <1>1, <1>2, <1>5, <2>2 DEF Alone, Others
  <2>3. AfterLostCommit' = AfterLostCommit
    BY <1>1 DEF AfterLostCommit
  <2>. QED
    BY <1>1, <1>2, <2>1, <2>2, <2>3 DEF Alone
<1>8. Bounded'
  <2>1. \A m \in Messages : job[m].attempts \in Nat
    BY DEF Typed, Jobs
  <2>6. PICK f \in Nat : f = faults' /\ faults <= f
    BY <1>1 DEF Typed
  <2>2. faults \in Nat /\ MaxAttempts \in Nat /\ faults <= f
    BY <2>6, JobsAssumption DEF Typed
  <2>7. ASSUME NEW a \in Nat, NEW b \in Nat, NEW c \in Nat, NEW n \in Nat, b <= c
        PROVE  (n <= a + b => n <= a + c) /\ (n <= a + 1 + b => n <= a + 1 + c)
    BY ONLY <2>7
  <2>3. ASSUME NEW n, n \in Nat, n <= MaxAttempts + faults
        PROVE  n <= MaxAttempts + f
    BY <2>2, <2>3, <2>7, Zenon
  <2>4. ASSUME NEW n, n \in Nat, n <= MaxAttempts + 1 + faults
        PROVE  n <= MaxAttempts + 1 + f
    BY <2>2, <2>4, <2>7, Zenon
  <2>5. ASSUME NEW m \in Messages
        PROVE  /\ job[m].attempts <= IF kind = "box" THEN MaxAttempts + 1 + faults' ELSE MaxAttempts
               /\ kind = "box" /\ job[m].status \in Attempted /\ Holders(m) = {}
                     => job[m].attempts <= MaxAttempts + faults'
    BY <2>1, <2>3, <2>4, <2>6 DEF Bounded
  <2>. QED
    BY <1>1, <1>3, <2>5 DEF Bounded
<1>9. Spoken'
  <2>. SUFFICES ASSUME kind = "messenger" PROVE Spoken'
    BY <1>1 DEF Spoken
  <2>1. worker'[w].at # "notice" /\ worker[w].at # "notice"
    BY DEF Goes, Spoken
  <2>2. ASSUME NEW m \in Messages \ doubt', m # m0
        PROVE  sent'[m] <= 1 /\ (Unspoken(m)' => sent'[m] = 0)
    <3>1. sent'[m] = sent[m] /\ m \in Messages \ doubt
      BY <1>0, <1>1, <2>2 DEF Goes, Typed
    <3>2. w \notin Holders(m)
      BY <1>0, <2>2 DEF Holders
    <3>3. Unspoken(m)' => Unspoken(m)
      BY <1>1, <1>3, <3>2 DEF Unspoken, Others, Holders
    <3>. QED
      BY <3>1, <3>3 DEF Spoken
  <2>3. ASSUME m0 \notin doubt'
        PROVE  sent'[m0] <= 1 /\ (Unspoken(m0)' => sent'[m0] = 0)
    <3>1. m0 \in Messages \ doubt /\ w \in Holders(m0) /\ Busy(w)
      BY <1>0, <1>1, <2>3 DEF Holders, Busy
    <3>2. sent[m0] = 0
      BY <1>1, <2>1, <3>1 DEF Spoken, Unspoken
    <3>3. CASE sent' = sent
      BY <3>2, <3>3
    <3>4. CASE sent' = [sent EXCEPT ![m0] = @ + 1] /\ worker'[w].at = "commit"
      <4>1. sent'[m0] = 1
        BY <1>1, <3>2, <3>4 DEF Typed
      <4>2. Holders(m0) = {w}
        BY <1>0, <3>1 DEF Alone, Holders
      <4>3. job[m0].status = "processing"
        BY <1>0, <1>5, <3>1 DEF Alone
      <4>4. ~Unspoken(m0)'
        BY <1>1, <1>3, <3>4, <4>2, <4>3 DEF Unspoken
      <4>. QED
        BY <4>1, <4>4
    <3>. QED
      BY <1>0, <2>3, <3>3, <3>4 DEF Goes
  <2>4. \A u \in Workers : worker'[u].at # "notice"
    BY <1>1, <2>1 DEF Spoken, Others
  <2>. QED
    BY <1>1, <2>2, <2>3, <2>4 DEF Spoken
<1>10. Covering'
  BY <1>1 DEF Covering, Goes, Others, SupersededIsNotLate
<1>. QED
  BY <1>4, <1>7, <1>8, <1>9, <1>10

\* by one that ends,
LEMMA EndsKeeps ==
    ASSUME IInv, Typed', NEW w \in Workers, Ends(w) PROVE IInv'
<1>. USE DEF IInv
<1>0. PICK m0 \in Messages : m0 = Mine(w)
  BY DEF Ends
<1>1. /\ UNCHANGED <<kind, sent, covered, passed>> /\ faults <= faults' /\ Others(w)
      /\ m0 \in Messages /\ worker[w].at \notin {"idle", "take"}
      /\ worker'[w].at = "idle" /\ worker'[w].job = "none"
      /\ doubt \subseteq doubt'
      /\ job'[m0].attempts = job[m0].attempts /\ job'[m0].born = job[m0].born
      /\ \A n \in Messages \ {m0} : job'[n] = job[n]
  BY <1>0 DEF Ends
<1>2. \A u \in Workers \ {w} : Mine(u)' = Mine(u) /\ Busy(u)' = Busy(u)
  BY <1>1 DEF Mine, Busy, Others
<1>3. /\ Mine(w)' = "none" /\ ~Busy(w)' /\ Busy(w)
      /\ "none" \notin Messages
  BY <1>1, JobsAssumption DEF Mine, Busy
<1>4. \A m \in Messages : Holders(m)' = Holders(m) \ {w}
  BY <1>2, <1>3 DEF Holders
<1>5. /\ job' = job \/ job'[m0].status \in {"done", "error", "no_input", "queued"}
      /\ job[m0].status \in {"processing", "queued", "done"}
  BY <1>0, <1>3 DEF Ends, Alone
<1>6. Held'
  BY <1>1, <1>2, <1>3, <1>5 DEF Held
<1>7. Alone'
  <2>1. ASSUME NEW w1 \in Workers, NEW w2 \in Workers
        PROVE  IF kind = "box"
               THEN worker'[w1].at # "idle" /\ worker'[w2].at # "idle" => w1 = w2
               ELSE Busy(w1)' /\ Mine(w1)' = Mine(w2)' => w1 = w2
    <3>1. CASE kind = "box"
      BY <1>1, <3>1 DEF Alone, Others
    <3>2. CASE kind # "box"
      <4>1. ASSUME Busy(w1)', Mine(w1)' = Mine(w2)' PROVE w1 = w2
        <5>1. w1 # w /\ Mine(w1)' \in Messages
          BY <1>3, <1>6, <4>1 DEF Held
        <5>2. w2 # w
          BY <1>3, <4>1, <5>1
        <5>. QED
          BY <1>2, <3>2, <4>1, <5>1, <5>2 DEF Alone
      <4>. QED
        BY <3>2, <4>1
    <3>. QED
      BY <3>1, <3>2
  <2>2. ASSUME NEW u \in Workers, Busy(u)'
        PROVE  \/ job'[Mine(u)'].status = "processing"
               \/ kind = "box" /\ job'[Mine(u)'].status = "queued"
               \/ /\ kind # "box" /\ job'[Mine(u)'].status = "done"
                  /\ worker'[u].at = AfterLostCommit
    <3>1. u # w /\ Busy(u) /\ Mine(u)' = Mine(u) /\ Mine(u) \in Messages /\ worker'[u] = worker[u]
      BY <1>1, <1>2, <1>3, <2>2 DEF Held, Others
    <3>2. Mine(u) # m0
      BY <1>0, <1>1, <1>3, <3>1 DEF Alone, Busy
    <3>. QED
      BY <1>1, <3>1, <3>2 DEF Alone
  <2>3. AfterLostCommit' = AfterLostCommit
    BY <1>1 DEF AfterLostCommit
  <2>. QED
    BY <1>1, <2>1, <2>2, <2>3 DEF Alone
<1>8. Bounded'
  <2>1. /\ \A m \in Messages : job[m].attempts \in Nat /\ job'[m].attempts = job[m].attempts
        /\ faults \in Nat /\ faults' \in Nat
    <3>1. \A m \in Messages : job[m].attempts \in Nat
      BY DEF Typed, Jobs
    <3>2. faults \in Nat /\ faults' \in Nat
      BY JobsAssumption DEF Typed
    <3>. QED
      BY <1>1, <3>1, <3>2
  <2>2. ASSUME NEW m \in Messages
        PROVE  job[m].attempts <= IF kind = "box" THEN MaxAttempts + 1 + faults' ELSE MaxAttempts
    BY <1>1, <2>1, JobsAssumption DEF Bounded
  <2>3. ASSUME NEW m \in Messages, m # m0, kind = "box", job'[m].status \in Attempted,
               Holders(m)' = {}
        PROVE  job[m].attempts <= MaxAttempts + faults'
    <3>1. w \notin Holders(m) /\ Holders(m) = {}
      BY <1>0, <1>4, <2>3 DEF Holders
    <3>2. job[m].attempts <= MaxAttempts + faults
      BY <1>1, <2>3, <3>1 DEF Bounded
    <3>. QED
      BY <1>1, <2>1, <3>2, JobsAssumption
  <2>4. ASSUME kind = "box", job'[m0].status \in Attempted
        PROVE  job[m0].attempts <= MaxAttempts + faults'
    <3>1. \/ faults' = faults + 1
          \/ job[m0].attempts < MaxAttempts
      BY <1>0, <2>4 DEF Ends, Attempted
    <3>2. job[m0].attempts <= MaxAttempts + 1 + faults
      BY <1>1, <2>4 DEF Bounded
    <3>. QED
      BY <1>1, <2>1, <3>1, <3>2, JobsAssumption
  <2>. QED
    BY <1>1, <2>1, <2>2, <2>3, <2>4 DEF Bounded
<1>9. Spoken'
  <2>. SUFFICES ASSUME kind = "messenger" PROVE Spoken'
    BY <1>1 DEF Spoken
  <2>1. \A u \in Workers : worker'[u].at # "notice"
    BY <1>1 DEF Spoken, Others
  <2>2. ASSUME NEW m \in Messages \ doubt', m # m0
        PROVE  sent[m] <= 1 /\ (Unspoken(m)' => sent[m] = 0)
    <3>1. m \in Messages \ doubt
      BY <1>1, <2>2
    <3>2. w \notin Holders(m) /\ Holders(m)' = Holders(m)
      BY <1>0, <1>4, <2>2 DEF Holders
    <3>3. Unspoken(m)' => Unspoken(m)
      BY <1>1, <2>2, <3>2 DEF Unspoken, Others, Holders
    <3>. QED
      BY <3>1, <3>3 DEF Spoken
  <2>3. ASSUME m0 \notin doubt'
        PROVE  sent[m0] <= 1 /\ (Unspoken(m0)' => sent[m0] = 0)
    <3>1. m0 \in Messages \ doubt /\ w \in Holders(m0)
      BY <1>0, <1>1, <2>3 DEF Holders
    <3>2. Holders(m0) = {w} /\ Holders(m0)' = {}
      BY <1>0, <1>3, <1>4, <3>1 DEF Alone, Holders
    <3>3. worker[w].at # "notice"
      BY DEF Spoken
    <3>4. CASE job' = job /\ worker[w].at \in {"read", "turn", "send", "notice", "no_input"}
      BY <3>1, <3>3, <3>4 DEF Spoken, Unspoken
    <3>5. CASE job' = job /\ job[m0].status # "processing"
      <4>1. job[m0].status = "done"
        BY <1>0, <1>3, <3>5 DEF Alone
      <4>2. ~Unspoken(m0)'
        BY <3>2, <3>5, <4>1 DEF Unspoken
      <4>. QED
        BY <3>1, <4>2 DEF Spoken
    <3>6. CASE job'[m0].status \in {"done", "error", "no_input"}
      <4>1. ~Unspoken(m0)'
        BY <3>2, <3>6 DEF Unspoken
      <4>. QED
        BY <3>1, <4>1 DEF Spoken
    <3>7. CASE worker[w].at = "thrown"
      BY <3>1, <3>7 DEF Spoken, Unspoken
    <3>. QED
      BY <1>0, <2>3, <3>4, <3>5, <3>6, <3>7 DEF Ends
  <2>. QED
    BY <1>1, <2>1, <2>2, <2>3 DEF Spoken
<1>10. Covering'
  <2>1. \A m \in Messages : job'[m].status = "superseded" => job[m].status = "superseded"
    BY <1>1, <1>5
  <2>. QED
    BY <1>1, <2>1 DEF Covering, Others, SupersededIsNotLate
<1>. QED
  BY <1>6, <1>7, <1>8, <1>9, <1>10

\* by one that commits,
LEMMA ClosesKeeps ==
    ASSUME IInv, Typed', NEW w \in Workers, Closes(w) PROVE IInv'
<1>. USE DEF IInv
<1>0. PICK m0 \in Messages : m0 = Mine(w)
  BY DEF Closes
<1>1. /\ kind # "box" /\ UNCHANGED <<kind, sent, covered, passed, doubt>> /\ faults <= faults'
      /\ Others(w) /\ worker[w].at = "commit"
      /\ \/ worker'[w].at = "idle" /\ worker'[w].job = "none"
         \/ worker'[w].at = AfterLostCommit /\ worker'[w].job = m0
      /\ \A m \in Messages : job'[m].attempts = job[m].attempts /\ job'[m].born = job[m].born
  BY <1>0 DEF Closes
<1>2. AfterLostCommit \in {"fail", "thrown"} /\ AfterLostCommit' = AfterLostCommit
      /\ (kind = "messenger" => AfterLostCommit = "fail")
  BY <1>1 DEF AfterLostCommit
<1>3. job[m0].status = "processing" /\ Busy(w)
  BY <1>0, <1>1, <1>2 DEF Alone, Busy
<1>4. \A m \in Messages \ {m0} :
         \/ job'[m] = job[m]
         \/ /\ m \in worker[w].upto /\ job[m].status = "queued"
            /\ job'[m].status = "superseded"
  BY <1>0 DEF Closes
<1>5. \/ job'[m0].status = "done"
      \/ job'[m0].status = "processing" /\ worker'[w].at = AfterLostCommit
  BY <1>0, <1>3 DEF Closes
<1>6. \A u \in Workers \ {w} : Mine(u)' = Mine(u) /\ Busy(u)' = Busy(u)
  BY <1>1 DEF Mine, Busy, Others
<1>7. /\ \/ Mine(w)' = m0 /\ Busy(w)'
         \/ Mine(w)' = "none" /\ ~Busy(w)'
      /\ "none" \notin Messages
  BY <1>1, <1>2, JobsAssumption DEF Mine, Busy
<1>8. Held'
  <2>1. \A u \in Workers : (Busy(u) <=> Mine(u) \in Messages)'
    BY <1>0, <1>6, <1>7 DEF Held
  <2>2. ASSUME NEW m \in Messages, job'[m].status \in {"none", "lost"} 
        PROVE  job'[m].born = 0 /\ job'[m].attempts = 0
    BY <1>1, <1>4, <1>5, <2>2 DEF Held
  <2>. QED
    BY <2>1, <2>2 DEF Held
<1>9. Alone'
  <2>1. ASSUME NEW w1 \in Workers, NEW w2 \in Workers, Busy(w1)', Mine(w1)' = Mine(w2)'
        PROVE  w1 = w2
    <3>1. Mine(w1)' \in Messages
      BY <1>8, <2>1 DEF Held
    <3>2. Mine(w1)' = Mine(w1) /\ Busy(w1)
      BY <1>0, <1>3, <1>6, <1>7, <2>1, <3>1
    <3>3. Mine(w2)' = Mine(w2)
      BY <1>0, <1>6, <1>7, <2>1, <3>1
    <3>. QED
      BY <1>1, <2>1, <3>2, <3>3 DEF Alone
  <2>2. ASSUME NEW u \in Workers, Busy(u)'
        PROVE  \/ job'[Mine(u)'].status = "processing"
               \/ kind # "box" /\ job'[Mine(u)'].status = "done" /\ worker'[u].at = AfterLostCommit
    <3>1. CASE u = w
      BY <1>1, <1>5, <1>7, <2>2, <3>1 DEF Busy
    <3>2. CASE u # w
      <4>1. Busy(u) /\ Mine(u)' = Mine(u) /\ Mine(u) \in Messages /\ worker'[u] = worker[u]
        BY <1>1, <1>6, <2>2, <3>2 DEF Held, Others
      <4>2. Mine(u) # m0
        BY <1>0, <1>1, <1>3, <3>2, <4>1 DEF Alone
      <4>3. \/ job[Mine(u)].status = "processing"
            \/ job[Mine(u)].status = "done" /\ worker[u].at = AfterLostCommit
        BY <1>1, <4>1 DEF Alone
      <4>. QED
        BY <1>1, <1>4, <4>1, <4>2, <4>3
    <3>. QED
      BY <3>1, <3>2
  <2>. QED
    BY <1>1, <1>2, <2>1, <2>2 DEF Alone
<1>10. Bounded'
  BY <1>1 DEF Bounded
<1>11. Spoken'
  <2>. SUFFICES ASSUME kind = "messenger" PROVE Spoken'
    BY <1>1 DEF Spoken
  <2>1. \A u \in Workers : worker'[u].at # "notice"
    BY <1>1, <1>2 DEF Spoken, Others
  <2>2. ASSUME NEW m \in Messages \ doubt, Unspoken(m)' PROVE Unspoken(m)
    <3>1. CASE m = m0
      <4>1. ~(worker'[w].at \in {"read", "turn", "send", "thrown", "no_input"})
        BY <1>1, <1>2
      <4>2. \A u \in Workers \ {w} : u \notin Holders(m)'
        BY <1>0, <1>1, <1>3, <1>6, <3>1 DEF Alone, Holders
      <4>3. CASE job'[m].status = "done"
        BY <2>2, <4>1, <4>2, <4>3 DEF Unspoken, Holders
      <4>4. CASE job'[m].status = "processing" /\ worker'[w].at = AfterLostCommit
        <5>1. w \in Holders(m)'
          BY <1>1, <1>2, <3>1, <4>4 DEF Holders, Mine
        <5>. QED
          BY <2>2, <4>1, <4>2, <4>4, <5>1 DEF Unspoken, Holders
      <4>. QED
        BY <1>5, <3>1, <4>3, <4>4
    <3>2. CASE m # m0
      <4>1. w \notin Holders(m) /\ w \notin Holders(m)'
        BY <1>0, <1>7, <3>2 DEF Holders
      <4>2. Holders(m)' = Holders(m)
        BY <1>6, <4>1 DEF Holders
      <4>3. \A u \in Holders(m) : worker'[u] = worker[u]
        BY <1>1, <4>1 DEF Holders, Others
      <4>. QED
        BY <1>4, <2>2, <3>2, <4>2, <4>3 DEF Unspoken
    <3>. QED
      BY <3>1, <3>2
  <2>. QED
    BY <1>1, <2>1, <2>2 DEF Spoken
<1>12. Covering'
  <2>1. worker[w].upto \subseteq covered \cup passed
    BY <1>1 DEF Covering
  <2>2. ASSUME NEW m \in Messages, job'[m].status = "superseded" PROVE m \in covered \cup passed
    <3>1. m # m0
      BY <1>5, <2>2
    <3>. QED
      BY <1>4, <2>1, <2>2, <3>1 DEF Covering, SupersededIsNotLate
  <2>3. \A u \in Workers : worker'[u].at = "commit" => worker'[u].upto \subseteq covered \cup passed
    BY <1>1, <1>2 DEF Covering, Others
  <2>. QED
    BY <1>1, <2>2, <2>3 DEF Covering, SupersededIsNotLate
<1>. QED
  BY <1>8, <1>9, <1>10, <1>11, <1>12

\* and by one that goes on to close what it could not put back.
LEMMA RefusedKeeps ==
    ASSUME IInv, Typed', NEW w \in Workers, Refused(w) PROVE IInv'
<1>. USE DEF IInv
<1>1. /\ UNCHANGED <<kind, job, sent, covered, passed, doubt>> /\ faults <= faults' /\ Others(w)
      /\ kind = "box" /\ worker'[w].at = "fail" /\ worker[w].at = "thrown"
      /\ worker'[w].job = Mine(w)
  BY DEF Refused
<1>2. \A u \in Workers : Mine(u)' = Mine(u) /\ Busy(u)' = Busy(u)
  BY <1>1 DEF Mine, Busy, Others
<1>3. \A m : Holders(m)' = Holders(m)
  BY <1>2 DEF Holders
<1>4. Held'
  BY <1>1, <1>2 DEF Held
<1>5. Alone'
  <2>1. \A u \in Workers : worker'[u].at # "idle" => worker[u].at # "idle"
    BY <1>1 DEF Others
  <2>. QED
    BY <1>1, <1>2, <2>1 DEF Alone
<1>6. Bounded'
  <2>1. \A m \in Messages : job[m].attempts \in Nat
    BY DEF Typed, Jobs
  <2>. QED
    BY <1>1, <1>3, <2>1, JobsAssumption DEF Bounded, Typed
<1>7. Spoken' /\ Covering'
  BY <1>1 DEF Spoken, Covering, Others, SupersededIsNotLate
<1>. QED
  BY <1>4, <1>5, <1>6, <1>7

-----------------------------------------------------------------------------
(* The other steps. *)

\* The rows a worker finds are only noted down.
LEMMA LookKeeps ==
    ASSUME IInv, NEW w \in Workers, Look(w) PROVE IInv'
<1>. USE DEF IInv
<1>1. /\ UNCHANGED <<kind, thread, job, sent, covered, passed, doubt, faults>>
      /\ worker[w].at = "idle" /\ Free
      /\ worker' = [worker EXCEPT ![w] = [Idle EXCEPT !.at = "take",
                                                      !.found = {m \in Messages : Queued(m)}]]
  BY DEF Look, delivered
<1>2. [Idle EXCEPT !.at = "take", !.found = {m \in Messages : Queued(m)}] \in Turns
  BY DEF Idle, Turns
<1>3. /\ worker' \in [Workers -> Turns] /\ Others(w)
      /\ worker'[w].at = "take" /\ worker'[w].job = "none"
  BY <1>1, <1>2 DEF Typed, Others, Idle
<1>4. Typed'
  BY <1>1, <1>3 DEF Typed
<1>5. worker[w].job \notin Messages /\ "none" \notin Messages
  BY <1>1, JobsAssumption DEF Held, Busy, Mine
<1>6. /\ \A u \in Workers : Busy(u)' = Busy(u) /\ (Busy(u) => Mine(u)' = Mine(u) /\ u # w)
      /\ \A u \in Workers : Mine(u)' \in Messages => Busy(u)
  BY <1>1, <1>3, <1>5 DEF Busy, Mine, Others, Held
<1>7. \A m \in Messages : Holders(m)' = Holders(m)
  BY <1>3, <1>5 DEF Holders, Mine, Others
<1>8. Held'
  BY <1>1, <1>3, <1>5, <1>6 DEF Held, Busy
<1>9. Alone'
  <2>1. ASSUME NEW w1 \in Workers, NEW w2 \in Workers
        PROVE  IF kind = "box"
               THEN worker'[w1].at # "idle" /\ worker'[w2].at # "idle" => w1 = w2
               ELSE Busy(w1)' /\ Mine(w1)' = Mine(w2)' => w1 = w2
    <3>1. CASE kind = "box"
      BY <1>1, <1>3, <3>1 DEF Free, Others
    <3>2. CASE kind # "box"
      <4>1. ASSUME Busy(w1)', Mine(w1)' = Mine(w2)' PROVE w1 = w2
        <5>1. Busy(w1) /\ Mine(w1)' = Mine(w1) /\ Mine(w1) \in Messages
          BY <1>6, <4>1 DEF Held
        <5>2. Busy(w2) /\ Mine(w2)' = Mine(w2)
          BY <1>6, <4>1, <5>1
        <5>. QED
          BY <3>2, <4>1, <5>1, <5>2 DEF Alone
      <4>. QED
        BY <3>2, <4>1
    <3>. QED
      BY <3>1, <3>2
  <2>2. \A u \in Workers : Busy(u) => worker'[u] = worker[u]
    BY <1>3, <1>6 DEF Others
  <2>3. ASSUME NEW u \in Workers, Busy(u)'
        PROVE  \/ job'[Mine(u)'].status = "processing"
               \/ kind' = "box" /\ job'[Mine(u)'].status = "queued"
               \/ /\ kind' # "box" /\ job'[Mine(u)'].status = "done"
                  /\ worker'[u].at = AfterLostCommit'
    <3>1. Busy(u) /\ Mine(u)' = Mine(u) /\ worker'[u] = worker[u]
      BY <1>6, <2>2, <2>3
    <3>. QED
      BY <1>1, <3>1 DEF Alone, AfterLostCommit
  <2>4. \A u \in Workers : Busy(u)' =>
           \/ job'[Mine(u)'].status = "processing"
           \/ kind' = "box" /\ job'[Mine(u)'].status = "queued"
           \/ /\ kind' # "box" /\ job'[Mine(u)'].status = "done"
              /\ worker'[u].at = AfterLostCommit'
    BY <2>3
  <2>5. kind' = kind
    BY <1>1
  <2>. QED
    BY <2>1, <2>4, <2>5 DEF Alone
<1>10. Bounded'
  BY <1>1, <1>7 DEF Bounded
<1>11. Spoken'
  <2>1. \A m \in Messages : Unspoken(m)' => Unspoken(m)
    BY <1>1, <1>3, <1>7 DEF Unspoken, Others
  <2>2. \A u \in Workers : worker'[u].at = "notice" => worker[u].at = "notice"
    BY <1>3 DEF Others
  <2>. QED
    BY <1>1, <2>1, <2>2 DEF Spoken
<1>12. Covering'
  BY <1>1, <1>3 DEF Covering, Others, SupersededIsNotLate
<1>. QED
  BY <1>4, <1>8, <1>9, <1>10, <1>11, <1>12

\* Nothing was left to take, or the worker was cut off before it took it.
LEMMA DropsKeeps ==
    ASSUME IInv, Typed', NEW w \in Workers, worker[w].at = "take", Others(w),
           worker'[w].at = "idle", worker'[w].job = "none",
           UNCHANGED <<kind, job, sent, covered, passed, doubt>>, faults <= faults'
    PROVE  IInv'
<1>. USE DEF IInv
<1>1. worker[w].job \notin Messages /\ "none" \notin Messages
  BY JobsAssumption DEF Held, Busy, Mine
<1>2. /\ \A u \in Workers : Busy(u)' = Busy(u) /\ (Busy(u) => Mine(u)' = Mine(u) /\ u # w)
      /\ \A u \in Workers : Mine(u)' \in Messages => Busy(u)
  BY <1>1 DEF Busy, Mine, Others, Held
<1>3. \A m \in Messages : Holders(m)' = Holders(m)
  BY <1>1 DEF Holders, Mine, Others
<1>4. Held'
  BY <1>1, <1>2 DEF Held, Busy
<1>5. Alone'
  <2>1. ASSUME NEW w1 \in Workers, NEW w2 \in Workers
        PROVE  IF kind = "box"
               THEN worker'[w1].at # "idle" /\ worker'[w2].at # "idle" => w1 = w2
               ELSE Busy(w1)' /\ Mine(w1)' = Mine(w2)' => w1 = w2
    <3>1. CASE kind = "box"
      BY <3>1 DEF Alone, Others
    <3>2. CASE kind # "box"
      <4>1. ASSUME Busy(w1)', Mine(w1)' = Mine(w2)' PROVE w1 = w2
        <5>1. Busy(w1) /\ Mine(w1)' = Mine(w1) /\ Mine(w1) \in Messages
          BY <1>2, <4>1 DEF Held
        <5>2. Busy(w2) /\ Mine(w2)' = Mine(w2)
          BY <1>2, <4>1, <5>1
        <5>. QED
          BY <3>2, <4>1, <5>1, <5>2 DEF Alone
      <4>. QED
        BY <3>2, <4>1
    <3>. QED
      BY <3>1, <3>2
  <2>2. \A u \in Workers : Busy(u) => worker'[u] = worker[u]
    BY <1>2 DEF Others
  <2>. QED
    BY <1>2, <2>1, <2>2 DEF Alone, AfterLostCommit
<1>6. Bounded'
  <2>1. \A m \in Messages : job[m].attempts \in Nat
    BY DEF Typed, Jobs
  <2>. QED
    BY <1>3, <2>1, JobsAssumption DEF Bounded, Typed
<1>7. Spoken'
  <2>1. ASSUME NEW m \in Messages, Unspoken(m)' PROVE Unspoken(m)
    <3>1. w \notin Holders(m) /\ Holders(m)' = Holders(m)
      BY <1>1, <1>3 DEF Holders, Mine
    <3>2. \A u \in Holders(m) : worker'[u] = worker[u]
      BY <3>1 DEF Holders, Others
    <3>. QED
      BY <2>1, <3>1, <3>2 DEF Unspoken
  <2>2. \A u \in Workers : worker'[u].at = "notice" => worker[u].at = "notice"
    BY DEF Others
  <2>. QED
    BY <2>1, <2>2 DEF Spoken
<1>8. Covering'
  BY DEF Covering, Others, SupersededIsNotLate
<1>. QED
  BY <1>4, <1>5, <1>6, <1>7, <1>8

\* A claim takes a queued row that has attempts left.
LEMMA TakeKeeps ==
    ASSUME IInv, NEW w \in Workers, Take(w) PROVE IInv'
<1>. USE DEF IInv
<1>1. /\ UNCHANGED <<kind, thread, sent, covered, passed, doubt, faults>> /\ worker[w].at = "take"
  BY DEF Take, delivered
<1>2. CASE Return(w) /\ UNCHANGED job
  <2>1. /\ worker' \in [Workers -> Turns] /\ Others(w)
        /\ worker'[w].at = "idle" /\ worker'[w].job = "none"
    BY <1>2, ReturnIs DEF Others
  <2>2. Typed' /\ faults <= faults'
    BY <1>1, <1>2, <2>1, JobsAssumption DEF Typed
  <2>. QED
    BY <1>1, <1>2, <2>1, <2>2, DropsKeeps
<1>3. ASSUME NEW m0 \in Messages, Queued(m0),
             job' = [job EXCEPT ![m0].status = "processing", ![m0].attempts = @ + 1],
             worker' = [worker EXCEPT ![w] = [Idle EXCEPT !.at = "read", !.job = m0]]
      PROVE  IInv'
  <2>1. [Idle EXCEPT !.at = "read", !.job = m0] \in Turns
    BY DEF Idle, Turns
  <2>2. /\ worker' \in [Workers -> Turns] /\ Others(w)
        /\ worker'[w].at = "read" /\ worker'[w].job = m0
    BY <1>3, <2>1 DEF Typed, Others, Idle
  <2>3. [job[m0] EXCEPT !.status = "processing", !.attempts = @ + 1] \in Jobs
    <3>1. job[m0] \in Jobs
      BY DEF Typed
    <3>2. job[m0].attempts + 1 \in Nat
      BY <3>1 DEF Jobs
    <3>. QED
      BY <3>1, <3>2, Zenon DEF Jobs
  <2>4. /\ job' \in [Messages -> Jobs]
        /\ job'[m0].status = "processing" /\ job'[m0].attempts = job[m0].attempts + 1
        /\ \A m \in Messages \ {m0} : job'[m] = job[m]
    BY <1>3, <2>3 DEF Typed, Jobs
  <2>5. Typed'
    BY <1>1, <2>2, <2>4 DEF Typed
  <2>6. /\ job[m0].status = "queued"
        /\ kind # "box" => job[m0].attempts < MaxAttempts
        /\ job[m0].attempts \in Nat
    BY <1>3 DEF Queued, Typed, Jobs
  <2>7. worker[w].job \notin Messages /\ ~Busy(w)
    BY <1>1 DEF Held, Busy, Mine
  <2>8. \A u \in Workers \ {w} : Mine(u)' = Mine(u) /\ Busy(u)' = Busy(u)
    BY <2>2 DEF Mine, Busy, Others
  <2>9. Mine(w)' = m0 /\ Busy(w)'
    BY <2>2 DEF Mine, Busy
  <2>10. Holders(m0) = {}
    <3>1. ASSUME NEW u \in Workers, Mine(u) = m0 PROVE FALSE
      <4>1. Busy(u) /\ u # w
        BY <2>7, <3>1 DEF Held, Mine
      <4>2. CASE kind = "box"
        BY <1>1, <4>1, <4>2 DEF Alone, Busy
      <4>3. CASE kind # "box"
        BY <2>6, <3>1, <4>1, <4>3 DEF Alone
      <4>. QED
        BY <4>2, <4>3
    <3>. QED
      BY <3>1 DEF Holders
  <2>11. \A m \in Messages \ {m0} : Holders(m)' = Holders(m)
    BY <2>7, <2>8, <2>9 DEF Holders, Mine
  <2>12. Holders(m0)' = {w}
    BY <2>8, <2>9, <2>10 DEF Holders
  <2>13. Held'
    BY <2>4, <2>8, <2>9 DEF Held
  <2>14. Alone'
    <3>1. ASSUME NEW w1 \in Workers, NEW w2 \in Workers
          PROVE  IF kind = "box"
                 THEN worker'[w1].at # "idle" /\ worker'[w2].at # "idle" => w1 = w2
                 ELSE Busy(w1)' /\ Mine(w1)' = Mine(w2)' => w1 = w2
      <4>1. CASE kind = "box"
        BY <1>1, <2>2, <4>1 DEF Alone, Others
      <4>2. CASE kind # "box"
        <5>1. ASSUME Busy(w1)', Mine(w1)' = Mine(w2)' PROVE w1 = w2
          <6>1. CASE Mine(w1)' = m0
            <7>1. \A u \in Workers : Mine(u)' = m0 => u = w
              BY <2>8, <2>10 DEF Holders
            <7>. QED
              BY <5>1, <6>1, <7>1
          <6>2. CASE Mine(w1)' # m0
            BY <2>8, <2>9, <4>2, <5>1, <6>2 DEF Alone
          <6>. QED
            BY <6>1, <6>2
        <5>. QED
          BY <4>2, <5>1
      <4>. QED
        BY <4>1, <4>2
    <3>2. ASSUME NEW u \in Workers \ {w}, Busy(u)
          PROVE  Mine(u) \in Messages \ {m0} /\ worker'[u] = worker[u]
      BY <2>2, <2>10, <3>2 DEF Held, Holders, Others
    <3>. QED
      BY <1>1, <2>4, <2>8, <2>9, <3>1, <3>2 DEF Alone, AfterLostCommit
  <2>15. Bounded'
    <3>1. faults \in Nat /\ MaxAttempts \in Nat
      BY JobsAssumption DEF Typed
    <3>2. kind = "box" => job[m0].attempts <= MaxAttempts + faults
      BY <2>6, <2>10 DEF Bounded, Attempted
    <3>3. job'[m0].attempts <= IF kind = "box" THEN MaxAttempts + 1 + faults ELSE MaxAttempts
      BY <2>4, <2>6, <3>1, <3>2
    <3>. QED
      BY <1>1, <2>4, <2>11, <2>12, <3>3 DEF Bounded
  <2>16. Spoken'
    <3>. SUFFICES ASSUME kind = "messenger" PROVE Spoken'
      BY <1>1 DEF Spoken
    <3>1. \A u \in Workers : worker'[u].at # "notice"
      BY <2>2 DEF Spoken, Others
    <3>2. ASSUME NEW m \in Messages \ doubt, Unspoken(m)' PROVE Unspoken(m)
      <4>1. CASE m = m0
        BY <2>6, <4>1 DEF Unspoken
      <4>2. CASE m # m0
        <5>1. w \notin Holders(m)
          BY <2>7 DEF Holders, Mine
        <5>. QED
          BY <2>2, <2>4, <2>11, <3>2, <4>2, <5>1 DEF Unspoken, Others, Holders
      <4>. QED
        BY <4>1, <4>2
    <3>. QED
      BY <1>1, <3>1, <3>2 DEF Spoken
  <2>17. Covering'
    BY <1>1, <2>2, <2>4 DEF Covering, Others, SupersededIsNotLate
  <2>. QED
    BY <2>5, <2>13, <2>14, <2>15, <2>16, <2>17
<1>4. ASSUME ~(Return(w) /\ UNCHANGED job)
      PROVE  \E m0 \in Messages :
                /\ Queued(m0)
                /\ job' = [job EXCEPT ![m0].status = "processing", ![m0].attempts = @ + 1]
                /\ worker' = [worker EXCEPT ![w] = [Idle EXCEPT !.at = "read", !.job = m0]]
  <2>1. worker[w].found \subseteq Messages
    BY DEF Typed, Turns
  <2>. QED
    BY <1>4, <2>1 DEF Take
<1>. QED
  BY <1>2, <1>3, <1>4

\* A step that writes the transcript only.
LEMMA StaysKeeps ==
    ASSUME IInv, Typed', UNCHANGED <<kind, job, worker, sent, covered, passed, doubt>>, faults <= faults'
    PROVE  IInv'
<1>. USE DEF IInv
<1>1. \A m \in Messages : Holders(m)' = Holders(m)
  BY DEF Holders, Mine
<1>2. Held' /\ Alone'
  BY DEF Held, Alone, Busy, Mine, AfterLostCommit
<1>3. Bounded'
  <2>1. \A m \in Messages : job[m].attempts \in Nat
    BY DEF Typed, Jobs
  <2>. QED
    BY <1>1, <2>1, JobsAssumption DEF Bounded, Typed
<1>4. Spoken' /\ Covering'
  BY <1>1 DEF Spoken, Unspoken, Covering, SupersededIsNotLate
<1>. QED
  BY <1>2, <1>3, <1>4

\* A row that no worker holds gets a status: one that may still be answered only
\* if it could be before.
LEMMA RowKeeps ==
    ASSUME IInv, NEW m \in Messages, NEW status \in {"lost", "queued", "error"},
           UNCHANGED <<kind, worker, sent, covered, passed, doubt>>, faults <= faults', Typed',
           job'[m].status = status, job'[m].attempts = job[m].attempts,
           \A n \in Messages \ {m} : job'[n] = job[n],
           status = "lost" => job'[m].born = 0 /\ job[m].attempts = 0,
           kind # "box" => Unspoken(m) /\ Holders(m) = {},
           kind = "box" => \/ job[m].status = "processing" /\ status = "queued"
                           \/ Holders(m) = {} /\ job[m].attempts = 0
    PROVE  IInv'
<1>. USE DEF IInv
<1>1. \A n \in Messages : Holders(n)' = Holders(n)
  BY DEF Holders, Mine
<1>2. Held'
  BY DEF Held, Busy, Mine
<1>3. Alone'
  <2>1. ASSUME NEW w \in Workers, Busy(w)
        PROVE  \/ job'[Mine(w)].status = "processing"
               \/ kind = "box" /\ job'[Mine(w)].status = "queued"
               \/ /\ kind # "box" /\ job'[Mine(w)].status = "done"
                  /\ worker[w].at = AfterLostCommit
    <3>1. Mine(w) \in Messages
      BY <2>1 DEF Held
    <3>2. CASE Mine(w) = m
      BY <3>2 DEF Holders
    <3>3. CASE Mine(w) # m
      BY <2>1, <3>1, <3>3 DEF Alone
    <3>. QED
      BY <3>2, <3>3
  <2>. QED
    BY <2>1 DEF Alone, Busy, Mine, AfterLostCommit
<1>4. Bounded'
  <2>1. \A n \in Messages : job[n].attempts \in Nat /\ job'[n].attempts = job[n].attempts
    BY DEF Typed, Jobs
  <2>2. faults \in Nat /\ faults' \in Nat /\ MaxAttempts \in Nat
    BY JobsAssumption DEF Typed
  <2>3. ASSUME NEW n \in Messages
        PROVE  job[n].attempts <= IF kind = "box" THEN MaxAttempts + 1 + faults' ELSE MaxAttempts
    <3>1. job[n].attempts <= IF kind = "box" THEN MaxAttempts + 1 + faults ELSE MaxAttempts
      BY DEF Bounded
    <3>. QED
      BY <2>1, <2>2, <3>1
  <2>4. ASSUME NEW n \in Messages, kind = "box", job'[n].status \in Attempted, Holders(n) = {}
        PROVE  job[n].attempts <= MaxAttempts + faults'
    <3>1. CASE job[n].attempts = 0
      <4>1. PICK k \in Nat : k = faults'
        BY <2>2
      <4>2. 0 <= MaxAttempts + k
        BY <2>2
      <4>. QED
        BY <3>1, <4>1, <4>2
    <3>2. CASE job[n].status \in Attempted
      <4>1. job[n].attempts <= MaxAttempts + faults
        BY <2>4, <3>2 DEF Bounded
      <4>. QED
        BY <2>1, <2>2, <4>1
    <3>. QED
      BY <2>4, <3>1, <3>2 DEF Attempted
  <2>. QED
    BY <1>1, <2>1, <2>3, <2>4 DEF Bounded
<1>5. Spoken'
  <2>. SUFFICES ASSUME kind = "messenger" PROVE Spoken'
    BY DEF Spoken
  <2>1. \A n \in Messages : Unspoken(n)' => Unspoken(n)
    BY <1>1 DEF Unspoken
  <2>. QED
    BY <2>1 DEF Spoken
<1>6. Covering'
  BY DEF Covering, SupersededIsNotLate
<1>. QED
  BY <1>2, <1>3, <1>4, <1>5, <1>6

LEMMA NobodysRow ==
    ASSUME IInv, NEW m \in Messages, job[m].status \in {"none", "lost"}
    PROVE  Holders(m) = {} /\ Unspoken(m) /\ job[m].attempts = 0 /\ job[m].born = 0
<1>1. ASSUME NEW w \in Workers, Mine(w) = m PROVE FALSE
  BY <1>1 DEF IInv, Held, Alone
<1>. QED
  BY <1>1 DEF IInv, Held, Holders, Unspoken

LEMMA ArriveKeeps == ASSUME IInv, NEW m \in Messages, Arrive(m) PROVE IInv'
<1>1. /\ thread' = Append(thread, m)
      /\ UNCHANGED <<kind, job, worker, sent, covered, passed, doubt, faults>>
  BY DEF Arrive, delivered
<1>2. Append(thread, m) \in Seq(Messages \cup {Reply})
  BY DEF IInv, Typed
<1>3. Typed' /\ faults <= faults'
  BY <1>1, <1>2, JobsAssumption DEF IInv, Typed
<1>. QED
  BY <1>1, <1>3, StaysKeeps

LEMMA EnqueueKeeps == ASSUME IInv, NEW m \in Messages, Enqueue(m) PROVE IInv'
<1>1. PICK born : /\ born = Cardinality({n \in Messages : job[n].born > 0}) + 1
                  /\ job' = [job EXCEPT ![m].status = "queued", ![m].born = born]
  BY DEF Enqueue
<1>2. /\ UNCHANGED <<kind, thread, worker, sent, covered, passed, doubt, faults>>
      /\ job[m].status = "none"
  BY DEF Enqueue, delivered
<1>3. Holders(m) = {} /\ Unspoken(m) /\ job[m].attempts = 0 /\ job[m].born = 0
  BY <1>2, NobodysRow
<1>4. born \in 0..Cardinality(Messages)
  <2>1. {n \in Messages : job[n].born > 0} \subseteq Messages \ {m}
    BY <1>3
  <2>2. /\ IsFiniteSet(Messages \ {m}) /\ Cardinality(Messages) \in Nat
        /\ Cardinality(Messages \ {m}) = Cardinality(Messages) - 1
    BY JobsAssumption, FS_RemoveElement, FS_CardinalityType
  <2>3. /\ IsFiniteSet({n \in Messages : job[n].born > 0})
        /\ Cardinality({n \in Messages : job[n].born > 0}) <= Cardinality(Messages \ {m})
    BY <2>1, <2>2, FS_Subset
  <2>4. Cardinality({n \in Messages : job[n].born > 0}) \in Nat
    BY <2>3, FS_CardinalityType
  <2>. QED
    BY <1>1, <2>2, <2>3, <2>4
<1>5. [job[m] EXCEPT !.status = "queued", !.born = born] \in Jobs
  <2>1. job[m] \in Jobs
    BY DEF IInv, Typed
  <2>. QED
    BY <1>4, <2>1, Zenon DEF Jobs
<1>6. /\ job' \in [Messages -> Jobs]
      /\ job'[m].status = "queued" /\ job'[m].attempts = job[m].attempts
      /\ \A n \in Messages \ {m} : job'[n] = job[n]
  BY <1>1, <1>5 DEF IInv, Typed, Jobs
<1>7. Typed' /\ faults <= faults'
  BY <1>2, <1>6, JobsAssumption DEF IInv, Typed
<1>. QED
  BY <1>2, <1>3, <1>6, <1>7, RowKeeps

LEMMA EnqueueFailsKeeps == ASSUME IInv, NEW m \in Messages, EnqueueFails(m) PROVE IInv'
<1>1. /\ UNCHANGED <<kind, worker, sent, covered, passed, doubt>>
      /\ job[m].status = "none" /\ Fault
  BY DEF EnqueueFails, delivered
<1>2. faults' \in 0..MaxFaults /\ faults <= faults'
  BY <1>1, FaultIs DEF IInv, Typed
<1>3. ASSUME NEW i \in DOMAIN thread,
             thread' = SubSeq(thread, 1, i - 1) \o SubSeq(thread, i + 1, Len(thread)),
             UNCHANGED job
      PROVE  IInv'
  <2>1. thread \in Seq(Messages \cup {Reply})
    BY DEF IInv, Typed
  <2>2. thread' \in Seq(Messages \cup {Reply})
    BY <1>3, <2>1, TakenBack
  <2>3. Typed'
    BY <1>1, <1>2, <1>3, <2>2 DEF IInv, Typed
  <2>. QED
    BY <1>1, <1>2, <1>3, <2>3, StaysKeeps
<1>4. CASE job' = [job EXCEPT ![m].status = "lost"] /\ UNCHANGED thread
  <2>1. Holders(m) = {} /\ Unspoken(m) /\ job[m].attempts = 0 /\ job[m].born = 0
    BY <1>1, NobodysRow
  <2>2. /\ job' \in [Messages -> Jobs]
        /\ job'[m].status = "lost" /\ job'[m].attempts = job[m].attempts
        /\ job'[m].born = job[m].born
        /\ \A n \in Messages \ {m} : job'[n] = job[n]
    BY <1>4, StatusIs DEF IInv
  <2>3. Typed'
    BY <1>1, <1>2, <1>4, <2>2 DEF IInv, Typed
  <2>. QED
    BY <1>1, <1>2, <2>1, <2>2, <2>3, RowKeeps
<1>. QED
  BY <1>3, <1>4 DEF EnqueueFails

\* A stale claim is nobody's, but for a box.
LEMMA ReclaimKeeps == ASSUME IInv, NEW m \in Messages, Reclaim(m) PROVE IInv'
<1>1. /\ UNCHANGED <<kind, thread, worker, sent, covered, passed, doubt, faults>>
      /\ job[m].status = "processing"
      /\ job' = [job EXCEPT ![m].status = GivenBack(m)]
  BY DEF Reclaim, delivered
<1>2. GivenBack(m) \in {"queued", "error"} /\ (kind = "box" => GivenBack(m) = "queued")
  BY DEF GivenBack
<1>3. kind # "box" => Holders(m) = {} /\ Unspoken(m)
  BY <1>1 DEF Reclaim, Holders, Unspoken
<1>4. /\ job' \in [Messages -> Jobs]
      /\ job'[m].status = GivenBack(m) /\ job'[m].attempts = job[m].attempts
      /\ \A n \in Messages \ {m} : job'[n] = job[n]
  BY <1>1, <1>2, StatusIs DEF IInv, Settled
<1>5. Typed' /\ faults <= faults'
  BY <1>1, <1>4, JobsAssumption DEF IInv, Typed
<1>. QED
  BY <1>1, <1>2, <1>3, <1>4, <1>5, RowKeeps

-----------------------------------------------------------------------------
(* The invariant holds. *)

LEMMA InitHolds == ASSUME Init PROVE IInv
<1>1. NoJob \in Jobs
  <2>1. Cardinality(Messages) \in Nat
    BY JobsAssumption, FS_CardinalityType
  <2>. QED
    BY <2>1 DEF NoJob, Jobs, Settled
<1>2. Idle \in Turns
  BY DEF Idle, Turns
<1>3. Typed
  BY <1>1, <1>2, JobsAssumption DEF Init, Typed
<1>4. /\ \A m \in Messages : job[m] = NoJob /\ sent[m] = 0
      /\ \A w \in Workers : worker[w] = Idle
  BY DEF Init
<1>5. Held /\ Alone
  BY <1>4, JobsAssumption DEF Held, Alone, Busy, Mine, Idle, NoJob
<1>6. Bounded
  BY <1>4, JobsAssumption DEF Init, Bounded, NoJob, Attempted
<1>7. Spoken /\ Covering
  BY <1>4 DEF Spoken, Covering, SupersededIsNotLate, Idle, NoJob
<1>. QED
  BY <1>3, <1>5, <1>6, <1>7 DEF IInv

LEMMA WorkKeeps == ASSUME IInv, NEW w \in Workers, Work(w) PROVE IInv'
<1>. USE DEF IInv
<1>1. CASE Take(w)
  BY <1>1, TakeKeeps
<1>2. CASE Read(w)
  BY <1>2, ReadGoes, GoesKeeps
<1>3. CASE Turn(w)
  BY <1>3, TurnGoes, GoesKeeps
<1>4. CASE Send(w)
  BY <1>4, SendGoes, GoesKeeps
<1>5. CASE Notice(w)
  BY <1>5, NoticeGoes, GoesKeeps
<1>6. CASE Commit(w)
  BY <1>6, CommitCloses, ClosesKeeps
<1>7. CASE MarkDone(w)
  BY <1>7, MarkDoneEnds, EndsKeeps
<1>8. CASE Fail(w)
  <2>1. Typed' /\ (Ends(w) \/ Refused(w))
    BY <1>8, ClosingEnds DEF Fail
  <2>. QED
    BY <2>1, EndsKeeps, RefusedKeeps
<1>9. CASE NoInput(w)
  <2>1. Typed' /\ (Ends(w) \/ Refused(w))
    BY <1>9, ClosingEnds DEF NoInput
  <2>. QED
    BY <2>1, EndsKeeps, RefusedKeeps
<1>10. CASE TryAgain(w)
  <2>1. PICK status \in {"error", "queued"} :
           /\ status = (IF kind # "coworker" /\ LastTry(w) THEN "error" ELSE "queued")
           /\ Closing(w, "thrown", status)
    BY <1>10 DEF TryAgain
  <2>2. Mine(w) \in Messages
    BY <2>1, HeldMine DEF Closing
  <2>3. job[Mine(w)].attempts \in Nat /\ MaxAttempts \in Nat
    BY <2>2, JobsAssumption DEF Typed, Jobs
  <2>4. status = "queued" /\ kind = "box" => job[Mine(w)].attempts < MaxAttempts
    BY <2>1, <2>3 DEF LastTry
  <2>5. Typed' /\ (Ends(w) \/ Refused(w))
    BY <2>1, <2>4, ClosingEnds
  <2>. QED
    BY <2>5, EndsKeeps, RefusedKeeps
<1>. QED
  BY <1>1, <1>2, <1>3, <1>4, <1>5, <1>6, <1>7, <1>8, <1>9, <1>10 DEF Work

LEMMA NextKeeps == ASSUME IInv, [Next]_vars PROVE IInv'
<1>1. ASSUME NEW m \in Messages, Ask(m) \/ Reclaim(m) PROVE IInv'
  BY <1>1, ArriveKeeps, EnqueueKeeps, EnqueueFailsKeeps, ReclaimKeeps DEF Ask
<1>2. ASSUME NEW w \in Workers, Look(w) PROVE IInv'
  BY <1>2, LookKeeps
<1>3. ASSUME NEW w \in Workers, Work(w) PROVE IInv'
  BY <1>3, WorkKeeps
<1>4. ASSUME NEW w \in Workers, Die(w) PROVE IInv'
  BY <1>4, DieEnds, EndsKeeps, DropsKeeps DEF IInv
<1>5. CASE UNCHANGED vars
  <2>1. Typed' /\ faults <= faults'
    BY <1>5, JobsAssumption DEF vars, delivered, IInv, Typed
  <2>. QED
    BY <1>5, <2>1, StaysKeeps DEF vars, delivered
<1>. QED
  BY <1>1, <1>2, <1>3, <1>4, <1>5 DEF Next

\* The invariant that the theorems below rest on.
THEOREM IInvHolds == Spec => []IInv
<1>1. Init => IInv
  BY InitHolds
<1>2. IInv /\ [Next]_vars => IInv'
  BY NextKeeps
<1>. QED
  BY <1>1, <1>2, PTL DEF Spec

\* The transcript, the rows and the workers have their types, and no job is
\* claimed more often than allowed: with any number of workers, dead ones and
\* redelivered messages.
THEOREM TypeCorrect == Spec => []TypeOK
<1>1. IInv => TypeOK
  BY DEF IInv, Typed, Bounded, TypeOK, Jobs, Turns
<1>. QED
  BY <1>1, IInvHolds, PTL

\* A Messenger job sends one reply, unless its worker was cut off between the
\* sending and its record: claims are exclusive, and a job that spoke is never
\* given another turn.
THEOREM SpokenOnce == Spec => []SentOnce
<1>1. IInv => SentOnce
  BY DEF IInv, Spoken, SentOnce
<1>. QED
  BY <1>1, IInvHolds, PTL

\* A message that is stored while a turn runs is not retired with it: what a turn
\* retires was stored before the turn read the transcript, through retries, stale
\* claims and commits whose answer is lost.
THEOREM RetiredIsNotLate == Spec => []SupersededIsNotLate
<1>1. IInv => SupersededIsNotLate
  BY DEF IInv, Covering
<1>. QED
  BY <1>1, IInvHolds, PTL

-----------------------------------------------------------------------------
(* As long as the transcript fits the window. *)

\* A message that is taken back leaves a row less, and a fault more.
Fits == Len(thread) + faults <= Window

Shown ==
    kind = "messenger" /\ Fits =>
        passed = {} /\ \A w \in Workers : worker[w].upto \subseteq worker[w].seen

WInv == IInv /\ Shown

\* While the transcript fits the window, Messenger retires a message only with a
\* reply that had it before it.
RetiredWasAnswered ==
    kind = "messenger" /\ Fits =>
        \A m \in Messages : job[m].status = "superseded" => m \in covered

\* A transcript that fits is all that is read.
LEMMA RecentIsAll ==
    ASSUME Typed, Fits PROVE Recent = Written
<1>1. Len(thread) \in Nat /\ faults \in Nat /\ Window \in Nat /\ DOMAIN thread = 1..Len(thread)
  BY JobsAssumption DEF Typed
<1>2. Len(thread) <= Window
  BY ONLY <1>1, Fits DEF Fits
<1>3. \A i \in DOMAIN thread : i + Window > Len(thread)
  BY <1>1, <1>2
<1>. QED
  BY <1>3 DEF Recent, Written

\* What does not shorten the transcript, or shortens it by a fault.
LEMMA FitsBefore ==
    ASSUME Typed, Typed', Fits',
           \/ thread' = thread \/ thread' = Append(thread, Reply)
           \/ \E m \in Messages : thread' = Append(thread, m)
           \/ /\ faults' = faults + 1
              /\ \E i \in DOMAIN thread :
                    thread' = SubSeq(thread, 1, i - 1) \o SubSeq(thread, i + 1, Len(thread)),
           faults <= faults'
    PROVE  Fits
<1>1. /\ Len(thread) \in Nat /\ Len(thread') \in Nat /\ faults \in Nat /\ faults' \in Nat
      /\ Window \in Nat /\ thread \in Seq(Messages \cup {Reply})
  BY JobsAssumption DEF Typed
<1>2. CASE Len(thread) <= Len(thread')
  BY <1>1, <1>2 DEF Fits
<1>3. ASSUME NEW i \in DOMAIN thread,
             thread' = SubSeq(thread, 1, i - 1) \o SubSeq(thread, i + 1, Len(thread))
      PROVE  Len(thread') = Len(thread) - 1
  <2>1. i \in 1..Len(thread)
    BY <1>1
  <2>2. /\ SubSeq(thread, 1, i - 1) \in Seq(Messages \cup {Reply})
        /\ Len(SubSeq(thread, 1, i - 1)) = i - 1
    BY <1>1, <2>1
  <2>3. /\ SubSeq(thread, i + 1, Len(thread)) \in Seq(Messages \cup {Reply})
        /\ Len(SubSeq(thread, i + 1, Len(thread))) = Len(thread) - i
    BY <1>1, <2>1
  <2>4. PICK s \in Seq(Messages \cup {Reply}), t \in Seq(Messages \cup {Reply}) :
           /\ s = SubSeq(thread, 1, i - 1) /\ t = SubSeq(thread, i + 1, Len(thread))
           /\ Len(s) = i - 1 /\ Len(t) = Len(thread) - i
    BY <2>2, <2>3, Zenon
  <2>5. Len(s \o t) = Len(s) + Len(t)
    BY <2>4
  <2>6. Len(thread') = Len(s \o t)
    BY <1>3, <2>4, Zenon
  <2>7. PICK n \in Nat : n = Len(thread) /\ i \in 1..n /\ Len(t) = n - i
    BY <1>1, <2>1, <2>4
  <2>9. Len(s) = i - 1
    BY <2>4, Zenon
  <2>8. Len(s) + Len(t) = n - 1
    BY ONLY <2>7, <2>9
  <2>. QED
    BY <2>5, <2>6, <2>7, <2>8, Zenon
<1>4. CASE Len(thread') = Len(thread) - 1 /\ faults' = faults + 1
  BY <1>1, <1>4 DEF Fits
<1>. QED
  BY <1>1, <1>2, <1>3, <1>4

\* A step of a worker keeps what it was shown, unless it reads or returns.
LEMMA GotoShows ==
    ASSUME Typed, NEW w \in Workers, NEW at, Goto(w, at) \/ Return(w)
    PROVE  \A u \in Workers : worker[u].upto \subseteq worker[u].seen
                                 => worker'[u].upto \subseteq worker'[u].seen
<1>1. CASE Goto(w, at)
  BY <1>1 DEF Goto, Typed, Turns
<1>2. CASE Return(w)
  BY <1>2 DEF Return, Idle, Typed, Turns
<1>. QED
  BY <1>1, <1>2

LEMMA NextShown == WInv /\ [Next]_vars => Shown'
<1>. SUFFICES ASSUME WInv, [Next]_vars, kind' = "messenger", Fits'
              PROVE  passed' = {} /\ \A u \in Workers : worker'[u].upto \subseteq worker'[u].seen
  BY DEF Shown
<1>0. Typed /\ Typed' /\ faults \in Nat
  BY NextKeeps DEF WInv, IInv, Typed
<1>1. kind = "messenger"
  BY DEF Next, Ask, Arrive, Enqueue, EnqueueFails, Reclaim, Look, Work, Take, Read, Turn, Send,
         Notice, Commit, MarkDone, Fail, NoInput, TryAgain, Closing, Die, vars
<1>2. Fits
  <2>1. ASSUME NEW m \in Messages, EnqueueFails(m) PROVE Fits
    <3>1. faults' = faults + 1
      BY <2>1 DEF EnqueueFails, Fault
    <3>2. faults <= faults'
      BY <1>0, <3>1
    <3>3. CASE thread' = thread
      BY <1>0, <3>2, <3>3, FitsBefore
    <3>4. CASE \E i \in DOMAIN thread :
                  thread' = SubSeq(thread, 1, i - 1) \o SubSeq(thread, i + 1, Len(thread))
      BY <1>0, <3>1, <3>2, <3>4, FitsBefore
    <3>. QED
      BY <2>1, <3>3, <3>4, Zenon DEF EnqueueFails
  <2>2. ASSUME NEW w \in Workers, Commit(w) PROVE Fits
    BY <1>0, <2>2, FitsBefore DEF Commit, Complete, Fault, NoFault
  <2>3. ASSUME NEW w \in Workers, Send(w) PROVE Fits
    BY <1>0, <1>1, <2>3, FitsBefore DEF Send, Delivers, Fault, NoFault
  <2>4. ASSUME NEW m \in Messages, Arrive(m) PROVE Fits
    BY <1>0, <2>4, FitsBefore DEF Arrive
  <2>5. CASE \/ \E m \in Messages : Enqueue(m) \/ Reclaim(m)
             \/ \E w \in Workers : \/ Look(w) \/ Take(w) \/ Read(w) \/ Turn(w) \/ Notice(w)
                                   \/ MarkDone(w) \/ Fail(w) \/ NoInput(w) \/ TryAgain(w) \/ Die(w)
             \/ UNCHANGED vars
    <3>1. thread' = thread
      BY <2>5 DEF Enqueue, Reclaim, Look, Take, Read, Turn, Notice, MarkDone, Fail, NoInput,
                  TryAgain, Closing, Die, vars
    <3>2. faults' = faults \/ faults' = faults + 1
      BY <2>5 DEF Enqueue, Reclaim, Look, Take, Read, Turn, Notice, MarkDone, Fail, NoInput,
                  TryAgain, Closing, Die, vars, Fault, NoFault
    <3>. QED
      BY <1>0, <3>1, <3>2, FitsBefore
  <2>. QED
    BY <2>1, <2>2, <2>3, <2>4, <2>5 DEF Next, Ask, Work
<1>3. passed = {} /\ \A u \in Workers : worker[u].upto \subseteq worker[u].seen
  BY <1>1, <1>2 DEF WInv, Shown
<1>4. ASSUME NEW w \in Workers, Read(w)
      PROVE  passed' = {} /\ \A u \in Workers : worker'[u].upto \subseteq worker'[u].seen
  <2>1. passed' = {}
    BY <1>3, <1>4 DEF Read, delivered
  <2>2. CASE Goto(w, "fail") \/ Goto(w, "no_input")
    BY <1>0, <1>3, <2>1, <2>2, GotoShows
  <2>3. CASE worker' = [worker EXCEPT ![w].at = "turn", ![w].seen = Recent, ![w].upto = Written]
    BY <1>0, <1>2, <1>3, <2>1, <2>3, RecentIsAll DEF Typed, Turns
  <2>. QED
    BY <1>1, <1>4, <2>2, <2>3 DEF Read
<1>5. ASSUME NEW w \in Workers, Send(w)
      PROVE  passed' = {} /\ \A u \in Workers : worker'[u].upto \subseteq worker'[u].seen
  <2>1. passed' = {}
    BY <1>3, <1>5 DEF Send, Delivers, Says, delivered
  <2>2. \E at : Goto(w, at)
    BY <1>5 DEF Send
  <2>. QED
    BY <1>0, <1>3, <2>1, <2>2, GotoShows
<1>6. ASSUME NEW w \in Workers, Turn(w) \/ Commit(w) \/ MarkDone(w) \/ Fail(w) \/ NoInput(w)
                                \/ TryAgain(w) \/ Die(w)
      PROVE  passed' = {} /\ \A u \in Workers : worker'[u].upto \subseteq worker'[u].seen
  <2>1. passed' = {}
    BY <1>3, <1>6 DEF Turn, Commit, MarkDone, Fail, NoInput, TryAgain, Closing, Die, delivered
  <2>2. (\E at : Goto(w, at)) \/ Return(w)
    BY <1>1, <1>6 DEF Turn, Commit, MarkDone, Fail, NoInput, TryAgain, Closing, Die
  <2>. QED
    BY <1>0, <1>3, <2>1, <2>2, GotoShows
<1>7. ASSUME NEW w \in Workers, Look(w) \/ Take(w)
      PROVE  passed' = {} /\ \A u \in Workers : worker'[u].upto \subseteq worker'[u].seen
  <2>1. passed' = {}
    BY <1>3, <1>7 DEF Look, Take, delivered
  <2>2. CASE Look(w)
    BY <1>0, <1>3, <2>1, <2>2 DEF Look, Idle, Typed, Turns
  <2>3. CASE Take(w)
    <3>1. CASE Return(w)
      BY <1>0, <1>3, <2>1, <3>1, GotoShows
    <3>2. CASE \E m : worker' = [worker EXCEPT ![w] = [Idle EXCEPT !.at = "read", !.job = m]]
      BY <1>0, <1>3, <2>1, <3>2 DEF Idle, Typed, Turns
    <3>. QED
      BY <2>3, <3>1, <3>2 DEF Take
  <2>. QED
    BY <1>7, <2>2, <2>3
<1>8. ASSUME NEW w \in Workers PROVE ~Notice(w)
  BY <1>1 DEF Notice, WInv, IInv, Spoken
<1>9. CASE (\E m \in Messages : Ask(m) \/ Reclaim(m)) \/ UNCHANGED vars
  BY <1>3, <1>9 DEF Ask, Arrive, Enqueue, EnqueueFails, Reclaim, vars, delivered
<1>. QED
  BY <1>4, <1>5, <1>6, <1>7, <1>8, <1>9 DEF Next, Work

\* With a transcript that fits the window, a customer whose message is retired was
\* answered by a reply that had it before it, whatever workers race and fail.
THEOREM RetiredIsAnswered == Spec => []RetiredWasAnswered
<1>1. Init => WInv
  BY InitHolds DEF Init, Idle, WInv, Shown
<1>2. WInv /\ [Next]_vars => WInv'
  BY NextKeeps, NextShown DEF WInv
<1>3. WInv => RetiredWasAnswered
  BY DEF WInv, IInv, Covering, SupersededIsNotLate, Shown, RetiredWasAnswered
<1>. QED
  BY <1>1, <1>2, <1>3, PTL DEF Spec

-----------------------------------------------------------------------------
(* Done is final. *)

LEMMA DoneKept ==
    ASSUME IInv, [Next]_vars, NEW m \in Messages, kind # "coworker", job[m].status = "done"
    PROVE  job'[m].status = "done"
<1>1. ASSUME NEW w \in Workers, Ends(w) PROVE job'[m].status = "done"
  <2>1. CASE Mine(w) = m
    <3>1. kind = "messenger"
      BY <1>1, <2>1, JobsAssumption DEF Ends, IInv, Typed, Alone, Busy
    <3>. QED
      BY <1>1, <2>1, <3>1 DEF Ends
  <2>2. CASE Mine(w) # m
    BY <1>1, <2>2 DEF Ends
  <2>. QED
    BY <2>1, <2>2
<1>2. ASSUME NEW w \in Workers, Closes(w) PROVE job'[m].status = "done"
  BY <1>2 DEF Closes
<1>3. ASSUME NEW n \in Messages, Ask(n) \/ Reclaim(n) PROVE job'[m].status = "done"
  BY <1>3 DEF Ask, Arrive, Enqueue, EnqueueFails, Reclaim, IInv, Typed, Jobs
<1>4. ASSUME NEW w \in Workers, Look(w) PROVE job'[m].status = "done"
  BY <1>4 DEF Look
<1>5. ASSUME NEW w \in Workers, Work(w) PROVE job'[m].status = "done"
  <2>1. CASE Take(w)
    BY <2>1 DEF Take, Queued, IInv, Typed, Jobs
  <2>2. CASE Read(w) \/ Turn(w) \/ Send(w) \/ Notice(w)
    BY <2>2 DEF Read, Turn, Send, Notice
  <2>3. CASE Commit(w)
    BY <1>2, <2>3, CommitCloses DEF IInv
  <2>4. CASE MarkDone(w)
    BY <1>1, <2>4, MarkDoneEnds DEF IInv
  <2>5. CASE Fail(w) \/ NoInput(w) \/ TryAgain(w)
    <3>1. PICK at \in {"fail", "no_input", "thrown"}, status \in {"error", "no_input", "queued"} :
             Closing(w, at, status)
      BY <2>5 DEF Fail, NoInput, TryAgain
    <3>2. Mine(w) \in Messages /\ Busy(w)
      BY <3>1, HeldMine DEF Closing, IInv, Busy
    <3>3. Mine(w) = m => kind = "messenger"
      BY <3>2, JobsAssumption DEF IInv, Typed, Alone
    <3>. QED
      BY <3>1, <3>2, <3>3 DEF Closing, Set, IInv, Typed, Jobs
  <2>. QED
    BY <1>5, <2>1, <2>2, <2>3, <2>4, <2>5 DEF Work
<1>6. ASSUME NEW w \in Workers, Die(w) PROVE job'[m].status = "done"
  BY <1>6 DEF Die
<1>7. CASE UNCHANGED vars
  BY <1>7 DEF vars
<1>. QED
  BY <1>3, <1>4, <1>5, <1>6, <1>7 DEF Next

\* A job that is done stays done: neither a failure that is reported late nor a
\* reclaim undoes it.
THEOREM DoneStays == Spec => DoneIsFinal
<1>1. ASSUME IInv, [Next]_vars
      PROVE  \A m \in Messages : kind # "coworker" /\ job[m].status = "done"
                                    => job'[m].status = "done"
  BY <1>1, DoneKept
<1>. QED
  BY <1>1, IInvHolds, PTL DEF Spec, DoneIsFinal

=============================================================================
