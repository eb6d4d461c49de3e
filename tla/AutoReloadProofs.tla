-------------------------- MODULE AutoReloadProofs --------------------------
(***************************************************************************)
(* Theorems about AutoReload, for every number of sweeps, attempts, cards  *)
(* and windows, and every ceiling.                                         *)
(***************************************************************************)
EXTENDS AutoReload, FiniteSetTheorems, WellFoundedInduction, TLAPS

-----------------------------------------------------------------------------
(* The helpers. *)

\* The oldest of some attempts is one of them, and none of them is older.
LEMMA FirstIsOldest ==
    ASSUME NEW es, es \subseteq Events, es # {}
    PROVE  First(es) \in es /\ \A f \in es : First(es) <= f
<1>1. es \subseteq Nat
  BY ConstantsAssumption DEF Events
<1>. DEFINE Less == {p \in Nat \X Nat : p[1] < p[2]}
<1>2. IsWellFoundedOn(Less, Nat)
  BY NatLessThanWellFounded, Zenon DEF OpToRel
<1>. HIDE DEF Less
<1>3. PICK e \in es : \A f \in es : ~(<<f, e>> \in Less)
  BY <1>1, <1>2, WFMin
<1>4. ASSUME NEW f \in es PROVE e <= f
  <2>1. e \in Nat /\ f \in Nat
    BY <1>1
  <2>2. f < e => <<f, e>> \in Less
    BY <2>1, Zenon DEF Less
  <2>. QED
    BY <2>1, <2>2, <1>3
<1>. QED
  BY <1>4 DEF First

\* A refund keeps the columns of the rule, and takes one pack at most.
LEMMA RefundedType ==
    ASSUME NEW r \in RuleRow
    PROVE  /\ Refunded(r) \in RuleRow
           /\ Refunded(r).key = r.key
           /\ Refunded(r).spent \in Nat
           /\ Refunded(r).spent <= r.spent
           /\ r.spent <= Refunded(r).spent + 1
<1>1. Limit \in Nat /\ r.spent \in 0..Limit
  BY ConstantsAssumption DEF RuleRow
<1>2. (IF r.spent = 0 THEN 0 ELSE r.spent - 1) \in 0..Limit
  BY <1>1
<1>. QED
  BY <1>1, <1>2 DEF Refunded, RuleRow

-----------------------------------------------------------------------------
(* Types. *)

\* An invocation past its claim works on an attempt that exists.
WorksOnAnEvent ==
    \A s \in Sweeps : sweep[s].at \in {"charge", "grant", "settle"} => sweep[s].event \in Events

Typed == TypeOK /\ WorksOnAnEvent

\* The rows a business starts with.
LEMMA InitTyped == Init => Typed
<1>. USE ConstantsAssumption
<1>1. NoEvent \in EventRow /\ NoIntent \in Answer /\ Idle \in Work
  BY DEF NoEvent, EventRow, NoIntent, Answer, Outcomes, Idle, Work
<1>2. [enabled |-> TRUE, paused |-> "no", reason |-> "none", key |-> 1, spent |-> 0,
       failures |-> 0, flight |-> "none", cooling |-> FALSE] \in RuleRow
  BY DEF RuleRow
<1>3. [id |-> 1, revoked |-> FALSE] \in CardRow
  BY DEF CardRow
<1>4. ASSUME Init PROVE TypeOK
  <2>1. rule \in RuleRow /\ card \in CardRow
    BY <1>2, <1>3, <1>4 DEF Init
  <2>2. /\ event \in [Events -> EventRow]
        /\ sweep \in [Sweeps -> Work]
        /\ intent \in [Events -> Answer]
    BY <1>1, <1>4 DEF Init
  <2>3. /\ window \in 1..MaxWindow
        /\ strayed \in [1..MaxWindow -> Nat]
    BY <1>4 DEF Init
  <2>4. /\ used \in BOOLEAN /\ low \in BOOLEAN
        /\ gone \subseteq 1..NumCards /\ granted \subseteq Events /\ told \subseteq Events
    BY <1>4, Zenon DEF Init
  <2>5. edits \in Nat /\ faults \in Nat /\ edits + faults <= MaxTroubles
    <3>1. edits = 0 /\ faults = 0 /\ MaxTroubles \in Nat
      BY <1>4 DEF Init
    <3>. QED
      BY ONLY <3>1, SMT
  <2>6. disturbed \subseteq Events
    BY <1>4 DEF Init
  <2>. QED
    BY <2>1, <2>2, <2>3, <2>4, <2>5, <2>6 DEF TypeOK
<1>5. Init => WorksOnAnEvent
  BY DEF Init, WorksOnAnEvent, Idle
<1>. QED
  BY <1>4, <1>5 DEF Typed

\* A sweep that leaves, or moves on before its charge.
LEMMA LeaveTyped ==
    ASSUME Typed, NEW s \in Sweeps, Leave(s)
    PROVE  sweep' \in [Sweeps -> Work] /\ WorksOnAnEvent'
<1>1. Idle \in Work
  BY ConstantsAssumption DEF Idle, Work, Outcomes
<1>. QED
  BY <1>1 DEF Typed, TypeOK, WorksOnAnEvent, Leave, Idle

LEMMA GoToTyped ==
    ASSUME Typed, NEW s \in Sweeps, NEW at, GoTo(s, at),
           \/ at \in {"read", "claim"}
           \/ at = "settle" /\ sweep[s].at = "grant"
    PROVE  sweep' \in [Sweeps -> Work] /\ WorksOnAnEvent'
<1>1. [sweep[s] EXCEPT !.at = at] \in Work
  BY DEF Typed, TypeOK, Work
<1>2. \A t \in Sweeps : sweep'[t] = IF t = s THEN [sweep[s] EXCEPT !.at = at] ELSE sweep[t]
  BY DEF Typed, TypeOK, GoTo
<1>. QED
  BY <1>1, <1>2 DEF Typed, TypeOK, WorksOnAnEvent, Work, GoTo

\* A disable leaves rows of the rules and of the attempts, and a refund that
\* strays is noted for the window the counter counts.
LEMMA StrayedType ==
    ASSUME Typed, NEW es, Strayed(es)
    PROVE  strayed' \in [1..MaxWindow -> Nat]
BY DEF Typed, TypeOK, Strayed, RuleRow

LEMMA DisableAllType ==
    ASSUME Typed, NEW reason \in {"dispute", "card_detached"}, DisableAll(reason)
    PROVE  /\ rule' \in RuleRow
           /\ event' \in [Events -> EventRow]
           /\ strayed' \in [1..MaxWindow -> Nat]
           /\ disturbed' \subseteq Events
<1>1. rule \in RuleRow /\ event \in [Events -> EventRow]
  BY DEF Typed, TypeOK
<1>2. Refunded(rule) \in RuleRow
  BY <1>1, RefundedType
<1>3. ASSUME NEW r \in RuleRow
      PROVE  [Switched(r, reason) EXCEPT !.flight = "none"] \in RuleRow
  BY DEF RuleRow, Switched
<1>4. \A e \in Events : [event[e] EXCEPT !.status = "abandoned"] \in EventRow
  BY <1>1 DEF EventRow
<1>5. strayed' \in [1..MaxWindow -> Nat]
  BY StrayedType DEF DisableAll, Typed, TypeOK
<1>6. disturbed' \subseteq Events
  BY DEF DisableAll, Disturbed, Pending, Typed, TypeOK
<1>. QED
  BY <1>1, <1>2, <1>3, <1>4, <1>5, <1>6 DEF DisableAll

\* A sweep that reads the candidates takes the card with it.
LEMMA ListTyped == ASSUME Typed, NEW s \in Sweeps, List(s) PROVE Typed'
<1>1. [Idle EXCEPT !.at = "resume", !.card = card.id] \in Work
  <2>1. Idle \in Work /\ card.id \in 0..NumCards
    BY ConstantsAssumption DEF Typed, TypeOK, CardRow, Idle, Work, Outcomes
  <2>. QED
    BY <2>1 DEF Work
<1>2. sweep' \in [Sweeps -> Work] /\ WorksOnAnEvent'
  BY <1>1 DEF Typed, TypeOK, WorksOnAnEvent, List, Idle
<1>. QED
  BY <1>2 DEF Typed, TypeOK, List

\* What is taken up again is an attempt of the ledger.
LEMMA ResumeTyped == ASSUME Typed, NEW s \in Sweeps, Resume(s) PROVE Typed'
<1>. DEFINE stale == {e \in Pending : event[e].age # "fresh"}
            e == First(stale)
<1>1. stale # {} => e \in Events /\ e \in stale
  <2>1. stale \subseteq Events
    BY DEF Pending
  <2>. QED
    BY <2>1, FirstIsOldest
<1>. HIDE DEF stale, e
<1>2. CASE rule' = rule /\ event' = event /\ strayed' = strayed /\ GoTo(s, "read")
  <2>1. sweep' \in [Sweeps -> Work] /\ WorksOnAnEvent'
    BY <1>2, GoToTyped
  <2>. QED
    BY <1>2, <2>1 DEF Typed, TypeOK, Resume
<1>3. CASE /\ stale # {}
           /\ event' = [event EXCEPT ![e].status = "abandoned"]
           /\ rule' = Refunded([rule EXCEPT !.flight = "none"])
           /\ Strayed({e})
           /\ GoTo(s, "read")
  <2>1. sweep' \in [Sweeps -> Work] /\ WorksOnAnEvent'
    BY <1>3, GoToTyped
  <2>2. [rule EXCEPT !.flight = "none"] \in RuleRow
    BY DEF Typed, TypeOK, RuleRow
  <2>3. rule' \in RuleRow
    BY <1>3, <2>2, RefundedType
  <2>4. event' \in [Events -> EventRow]
    BY <1>1, <1>3 DEF Typed, TypeOK, EventRow
  <2>5. strayed' \in [1..MaxWindow -> Nat]
    BY <1>3, StrayedType
  <2>. QED
    BY <2>1, <2>3, <2>4, <2>5 DEF Typed, TypeOK, Resume
<1>4. ASSUME stale # {}, NEW skip, s \notin skip,
             rule' = [rule EXCEPT !.flight = "fresh"],
             sweep' = [t \in Sweeps |->
                          CASE t = s -> [sweep[s] EXCEPT !.at = "charge", !.event = e]
                            [] t \in skip -> [sweep[t] EXCEPT !.at = "read"]
                            [] OTHER -> sweep[t]],
             event' = event, strayed' = strayed
      PROVE  Typed'
  <2>1. rule' \in RuleRow
    BY <1>4 DEF Typed, TypeOK, RuleRow
  <2>2. e \in 0..NumEvents
    BY <1>1, <1>4 DEF Events
  <2>3. [sweep[s] EXCEPT !.at = "charge", !.event = e] \in Work
    BY <2>2 DEF Typed, TypeOK, Work
  <2>4. \A t \in Sweeps : [sweep[t] EXCEPT !.at = "read"] \in Work /\ sweep[t] \in Work
    BY DEF Typed, TypeOK, Work
  <2>5. \A t \in Sweeps : sweep'[t] \in Work
    BY <1>4, <2>3, <2>4
  <2>6. sweep' \in [Sweeps -> Work]
    BY <1>4, <2>5
  <2>7. ASSUME NEW t \in Sweeps, sweep'[t].at \in {"charge", "grant", "settle"}
        PROVE  sweep'[t].event \in Events
    <3>1. CASE t = s
      <4>1. sweep'[t] = [sweep[s] EXCEPT !.at = "charge", !.event = e]
        BY <1>4, <3>1
      <4>2. sweep'[t].event = e
        BY <4>1 DEF Typed, TypeOK, Work
      <4>. QED
        BY <1>1, <1>4, <4>2
    <3>2. CASE t # s /\ t \in skip
      <4>1. sweep'[t] = [sweep[t] EXCEPT !.at = "read"]
        BY <1>4, <3>2
      <4>2. sweep'[t].at = "read"
        BY <4>1 DEF Typed, TypeOK, Work
      <4>. QED
        BY <2>7, <4>2
    <3>3. CASE t # s /\ t \notin skip
      <4>1. sweep'[t] = sweep[t]
        BY <1>4, <3>3
      <4>. QED
        BY <2>7, <4>1 DEF Typed, WorksOnAnEvent
    <3>. QED
      BY <3>1, <3>2, <3>3
  <2>8. WorksOnAnEvent'
    BY <2>7 DEF WorksOnAnEvent
  <2>. QED
    BY <1>4, <2>1, <2>6, <2>8 DEF Typed, TypeOK, Resume
<1>. QED
  BY <1>2, <1>3, <1>4 DEF Resume, stale, e

LEMMA ReadTyped == ASSUME Typed, NEW s \in Sweeps, Read(s) PROVE Typed'
<1>1. sweep' \in [Sweeps -> Work] /\ WorksOnAnEvent'
  BY LeaveTyped, GoToTyped DEF Read
<1>. QED
  BY <1>1 DEF Typed, TypeOK, Read

\* The reserve is taken only under the ceiling, so the counter does not pass it.
LEMMA ClaimTyped == ASSUME Typed, NEW s \in Sweeps, Claim(s) PROVE Typed'
<1>. DEFINE r == Released
            spent == IF r.key = window THEN r.spent ELSE 0
            rolled == [r EXCEPT !.key = window, !.spent = spent]
            e == First(Unclaimed)
<1>. USE ConstantsAssumption
<1>1. rule \in RuleRow /\ window \in 1..MaxWindow
  BY DEF Typed, TypeOK
<1>2. r \in RuleRow
  <2>1. 0 \in 0..Limit
    OBVIOUS
  <2>2. [rule EXCEPT !.paused = "no", !.key = window, !.spent = 0] \in RuleRow
    BY <1>1, <2>1 DEF RuleRow
  <2>. QED
    BY <1>1, <2>2 DEF Released
<1>3. spent \in 0..Limit
  BY <1>2 DEF RuleRow
<1>4. rolled \in RuleRow /\ rolled.spent = spent
  BY <1>1, <1>2, <1>3 DEF RuleRow
<1>5. Unclaimed # {} => e \in Events
  <2>1. Unclaimed \subseteq Events
    BY DEF Unclaimed
  <2>. QED
    BY <2>1, FirstIsOldest
<1>. HIDE DEF r, spent, rolled, e
<1>6. CASE /\ rule' \in {r, [rolled EXCEPT !.paused = "limit"]}
           /\ Leave(s) /\ event' = event /\ used' = used
  <2>1. sweep' \in [Sweeps -> Work] /\ WorksOnAnEvent'
    BY <1>6, LeaveTyped
  <2>2. rule' \in RuleRow
    BY <1>2, <1>4, <1>6 DEF RuleRow
  <2>. QED
    BY <1>6, <2>1, <2>2 DEF Typed, TypeOK, Claim
<1>7. CASE /\ Unclaimed # {}
           /\ ~OverTheLimit(spent)
           /\ used' = TRUE
           /\ event' = [event EXCEPT ![e] = [status |-> "pending", window |-> window,
                                             age |-> "fresh"]]
           /\ rule' = [rolled EXCEPT !.spent = @ + 1, !.flight = "fresh", !.cooling = TRUE]
           /\ sweep' = [sweep EXCEPT ![s].at = "charge", ![s].event = e]
  <2>1. spent + 1 \in 0..Limit
    BY <1>3, <1>7 DEF OverTheLimit
  <2>2. rule' \in RuleRow
    BY <1>4, <1>7, <2>1 DEF RuleRow
  <2>3. [status |-> "pending", window |-> window, age |-> "fresh"] \in EventRow
    BY <1>1 DEF EventRow
  <2>4. event' \in [Events -> EventRow]
    BY <1>7, <2>3 DEF Typed, TypeOK
  <2>5. e \in Events /\ e \in 0..NumEvents
    BY <1>5, <1>7 DEF Events
  <2>6. /\ sweep' \in [Sweeps -> Work]
        /\ sweep'[s].event = e
        /\ \A t \in Sweeps \ {s} : sweep'[t] = sweep[t]
    <3>1. sweep \in [Sweeps -> Work] /\ sweep[s] \in Work
      BY DEF Typed, TypeOK
    <3>. DEFINE work == [sweep[s] EXCEPT !.at = "charge", !.event = e]
    <3>2. work \in Work /\ work.event = e
      BY <2>5, <3>1 DEF Work
    <3>3. sweep' = [sweep EXCEPT ![s] = work]
      BY <1>7, <3>1
    <3>. HIDE DEF work
    <3>. QED
      BY <3>1, <3>2, <3>3
  <2>7. WorksOnAnEvent'
    BY <2>5, <2>6 DEF Typed, WorksOnAnEvent
  <2>. QED
    BY <1>7, <2>2, <2>4, <2>6, <2>7 DEF Typed, TypeOK, Claim
<1>. QED
  BY <1>6, <1>7 DEF Claim, r, spent, rolled, e

\* Stripe answers with an outcome, and remembers it under the key.
LEMMA AnswerTyped ==
    ASSUME Typed, NEW s \in Sweeps, sweep[s].at = "charge",
           NEW result \in Answers(sweep[s].event, sweep[s].card)
    PROVE  /\ result \in Outcomes
           /\ Recorded(sweep[s].event, sweep[s].card, result) \in [Events -> Answer]
<1>1. sweep[s].event \in Events /\ sweep[s].card \in 0..NumCards
  BY DEF Typed, TypeOK, WorksOnAnEvent, Work
<1>2. intent \in [Events -> Answer]
  BY DEF Typed, TypeOK
<1>3. intent[sweep[s].event].result \in Outcomes
  BY <1>1, <1>2 DEF Answer
<1>4. result \in Outcomes
  BY <1>3 DEF Answers, Outcomes
<1>5. [result |-> result, card |-> sweep[s].card] \in Answer
  BY <1>1, <1>4 DEF Answer
<1>. QED
  BY <1>2, <1>4, <1>5 DEF Recorded

\* An invocation that goes on with the answer of its charge.
LEMMA AnsweredTyped ==
    ASSUME Typed, NEW s \in Sweeps, sweep[s].at = "charge",
           NEW at \in {"grant", "settle"}, NEW out \in Outcomes,
           sweep' = [sweep EXCEPT ![s].at = at, ![s].out = out]
    PROVE  sweep' \in [Sweeps -> Work] /\ WorksOnAnEvent'
<1>1. sweep \in [Sweeps -> Work] /\ sweep[s] \in Work
  BY DEF Typed, TypeOK
<1>. DEFINE work == [sweep[s] EXCEPT !.at = at, !.out = out]
<1>2. work \in Work /\ work.event = sweep[s].event
  BY <1>1 DEF Work
<1>3. sweep' = [sweep EXCEPT ![s] = work]
  BY <1>1
<1>. HIDE DEF work
<1>4. /\ sweep' \in [Sweeps -> Work]
      /\ sweep'[s].event = sweep[s].event
      /\ \A t \in Sweeps \ {s} : sweep'[t] = sweep[t]
  BY <1>1, <1>2, <1>3
<1>. QED
  BY <1>4 DEF Typed, WorksOnAnEvent

LEMMA ChargeTyped == ASSUME Typed, NEW s \in Sweeps, Charge(s) PROVE Typed'
<1>1. PICK result \in Answers(sweep[s].event, sweep[s].card) :
        /\ sweep[s].at = "charge"
        /\ intent' = Recorded(sweep[s].event, sweep[s].card, result)
        /\ sweep' = [sweep EXCEPT ![s].at = IF result = "paid" THEN "grant" ELSE "settle",
                                  ![s].out = result]
  BY DEF Charge
<1>2. result \in Outcomes /\ intent' \in [Events -> Answer]
  BY <1>1, AnswerTyped
<1>3. (IF result = "paid" THEN "grant" ELSE "settle") \in {"grant", "settle"}
  OBVIOUS
<1>4. sweep' \in [Sweeps -> Work] /\ WorksOnAnEvent'
  BY <1>1, <1>2, <1>3, AnsweredTyped
<1>. QED
  BY <1>2, <1>4 DEF Typed, TypeOK, Charge

\* A fault or an edit is counted within the bound.
LEMMA TroubleTyped ==
    ASSUME Typed
    PROVE  /\ Fault => faults' \in Nat /\ edits + faults' <= MaxTroubles
           /\ Edit => edits' \in Nat /\ edits' + faults <= MaxTroubles
BY ConstantsAssumption DEF Typed, TypeOK, Fault, Edit

LEMMA AnswerLostTyped == ASSUME Typed, NEW s \in Sweeps, AnswerLost(s) PROVE Typed'
<1>1. sweep[s].at = "charge" /\ sweep' = [sweep EXCEPT ![s].at = "settle", ![s].out = "soft"]
  BY DEF AnswerLost
<1>2. sweep' \in [Sweeps -> Work] /\ WorksOnAnEvent'
  BY <1>1, AnsweredTyped DEF Outcomes
<1>3. intent' \in [Events -> Answer]
  BY <1>1, AnswerTyped DEF AnswerLost, Typed, TypeOK
<1>4. faults' \in Nat /\ edits + faults' <= MaxTroubles
  BY TroubleTyped DEF AnswerLost
<1>5. disturbed' \subseteq Events
  BY DEF AnswerLost, Disturbed, Typed, TypeOK, WorksOnAnEvent
<1>. QED
  BY <1>2, <1>3, <1>4, <1>5 DEF Typed, TypeOK, AnswerLost

\* A grant is of an attempt of the ledger.
LEMMA GrantingTyped ==
    ASSUME Typed, NEW e \in Events,
           \/ Granting(e) /\ UNCHANGED faults
           \/ Fault /\ UNCHANGED <<granted, low>>
    PROVE  /\ granted' \subseteq Events /\ low' \in BOOLEAN
           /\ faults' \in Nat /\ edits + faults' <= MaxTroubles
<1>1. CASE Granting(e) /\ UNCHANGED faults
  BY <1>1, Zenon DEF Granting, Typed, TypeOK
<1>2. CASE Fault /\ UNCHANGED <<granted, low>>
  <2>1. faults' \in Nat /\ edits + faults' <= MaxTroubles
    BY <1>2, TroubleTyped
  <2>. QED
    BY <1>2, <2>1, Zenon DEF Typed, TypeOK
<1>. QED
  BY <1>1, <1>2

LEMMA GrantTyped == ASSUME Typed, NEW s \in Sweeps, Grant(s) PROVE Typed'
<1>1. sweep[s].event \in Events
  BY DEF Grant, Typed, WorksOnAnEvent
<1>2. /\ granted' \subseteq Events /\ low' \in BOOLEAN
      /\ faults' \in Nat /\ edits + faults' <= MaxTroubles
  BY <1>1, GrantingTyped DEF Grant
<1>3. sweep' \in [Sweeps -> Work] /\ WorksOnAnEvent'
  BY GoToTyped DEF Grant
<1>. QED
  BY <1>2, <1>3 DEF Typed, TypeOK, Grant

\* A refused charge leaves a row of the rules.
LEMMA FailedType ==
    ASSUME NEW r \in RuleRow, NEW out
    PROVE  /\ Failed(r, out) \in RuleRow
           /\ Failed(r, out).key = r.key
           /\ Failed(r, out).spent = r.spent
<1>1. r.failures + 1 \in Nat
  BY DEF RuleRow
<1>2. [r EXCEPT !.failures = @ + 1] \in RuleRow
  BY <1>1 DEF RuleRow
<1>3. [r EXCEPT !.paused = "auth"] \in RuleRow
  BY DEF RuleRow
<1>4. ASSUME NEW q \in RuleRow, NEW reason \in {"payment_failures", "no_payment_method"}
      PROVE  Switched(q, reason) \in RuleRow /\ Switched(q, reason).key = q.key
             /\ Switched(q, reason).spent = q.spent
  BY DEF Switched, RuleRow
<1>5. CASE out = "action"
  BY <1>3, <1>5 DEF Failed, RuleRow
<1>6. CASE out = "hard"
  BY <1>2, <1>4, <1>6 DEF Failed, RuleRow
<1>7. CASE out = "nocard"
  BY <1>4, <1>7 DEF Failed
<1>8. CASE out \notin {"action", "hard", "nocard"}
  BY <1>8 DEF Failed
<1>. QED
  BY <1>5, <1>6, <1>7, <1>8

\* What a settlement does to the rule: the stamp goes, and unless the charge
\* was paid the reserve does too.
LEMMA SettleRule ==
    ASSUME Typed, NEW s \in Sweeps, Settle(s), sweep[s].event \in Pending
    PROVE  /\ rule' \in RuleRow
           /\ rule'.key = rule.key
           /\ \/ sweep[s].out = "paid" /\ rule'.spent = rule.spent /\ strayed' = strayed
              \/ /\ sweep[s].out # "paid"
                 /\ rule'.spent = Refunded(rule).spent
                 /\ Strayed({sweep[s].event})
           /\ event' = [event EXCEPT ![sweep[s].event].status = StatusOf(sweep[s].out)]
<1>. DEFINE landed == [rule EXCEPT !.flight = "none"]
<1>1. rule \in RuleRow
  BY DEF Typed, TypeOK
<1>2. landed \in RuleRow /\ landed.key = rule.key /\ landed.spent = rule.spent
  BY <1>1 DEF RuleRow
<1>3. /\ Refunded(landed) \in RuleRow
      /\ Refunded(landed).key = rule.key
      /\ Refunded(landed).spent = Refunded(rule).spent
  <2>1. Refunded(landed) \in RuleRow /\ Refunded(landed).key = landed.key
    BY <1>2, RefundedType
  <2>2. \A r \in RuleRow : Refunded(r).spent = IF r.spent = 0 THEN 0 ELSE r.spent - 1
    BY DEF Refunded, RuleRow
  <2>3. Refunded(landed).spent = Refunded(rule).spent
    BY <1>1, <1>2, <2>2
  <2>. QED
    BY <1>2, <2>1, <2>3
<1>. HIDE DEF landed
<1>4. event' = [event EXCEPT ![sweep[s].event].status = StatusOf(sweep[s].out)]
  BY DEF Settle, Settles
<1>5. CASE sweep[s].out = "paid"
  <2>1. rule' = [landed EXCEPT !.failures = 0] /\ strayed' = strayed
    BY <1>5 DEF Settle, Settles, landed
  <2>2. rule' \in RuleRow /\ rule'.key = landed.key /\ rule'.spent = landed.spent
    BY <1>2, <2>1 DEF RuleRow
  <2>. QED
    BY <1>2, <1>4, <1>5, <2>1, <2>2
<1>6. CASE sweep[s].out # "paid"
  <2>1. rule' = Failed(Refunded(landed), sweep[s].out) /\ Strayed({sweep[s].event})
    BY <1>6 DEF Settle, Settles, landed
  <2>. QED
    BY <1>3, <1>4, <1>6, <2>1, FailedType
<1>. QED
  BY <1>5, <1>6

LEMMA SettleTyped == ASSUME Typed, NEW s \in Sweeps, Settle(s) PROVE Typed'
<1>1. sweep' \in [Sweeps -> Work] /\ WorksOnAnEvent'
  BY LeaveTyped DEF Settle
<1>2. CASE ~Settles(sweep[s].event)
  <2>1. UNCHANGED <<rule, event, strayed>>
    BY <1>2 DEF Settle
  <2>. QED
    BY <1>1, <2>1 DEF Typed, TypeOK, Settle
<1>3. CASE Settles(sweep[s].event)
  <2>1. sweep[s].event \in Pending
    BY <1>3 DEF Settles
  <2>2. rule' \in RuleRow
    BY <2>1, SettleRule
  <2>3. StatusOf(sweep[s].out) \in {"succeeded", "requires_action", "failed"}
    BY DEF StatusOf
  <2>4. event' = [event EXCEPT ![sweep[s].event].status = StatusOf(sweep[s].out)]
    BY <2>1, SettleRule
  <2>5. event' \in [Events -> EventRow]
    <3>1. event \in [Events -> EventRow]
      BY DEF Typed, TypeOK
    <3>2. [event[sweep[s].event] EXCEPT !.status = StatusOf(sweep[s].out)] \in EventRow
      <4>1. sweep[s].event \in Events
        BY <2>1 DEF Pending
      <4>. QED
        BY <2>3, <3>1, <4>1 DEF EventRow
    <3>. QED
      BY <2>4, <3>1, <3>2
  <2>6. strayed' \in [1..MaxWindow -> Nat]
    BY <2>1, SettleRule, StrayedType DEF Typed, TypeOK
  <2>. QED
    BY <1>1, <2>2, <2>5, <2>6 DEF Typed, TypeOK, Settle
<1>. QED
  BY <1>2, <1>3

LEMMA DieTyped == ASSUME Typed, NEW s \in Sweeps, Die(s) PROVE Typed'
<1>1. sweep' \in [Sweeps -> Work] /\ WorksOnAnEvent'
  BY LeaveTyped DEF Die
<1>2. faults' \in Nat /\ edits + faults' <= MaxTroubles
  BY TroubleTyped DEF Die
<1>3. disturbed' \subseteq Events
  BY DEF Die, Disturbed, Working, Typed, TypeOK, WorksOnAnEvent
<1>. QED
  BY <1>1, <1>2, <1>3 DEF Typed, TypeOK, Die

LEMMA BackstopTyped == ASSUME Typed, NEW e \in Events, Backstop(e) PROVE Typed'
<1>1. /\ granted' \subseteq Events /\ low' \in BOOLEAN
      /\ faults' \in Nat /\ edits + faults' <= MaxTroubles
  BY GrantingTyped DEF Backstop
<1>2. told' \subseteq Events
  BY DEF Backstop, Typed, TypeOK
<1>. QED
  BY <1>1, <1>2 DEF Typed, TypeOK, WorksOnAnEvent, Backstop

LEMMA DisputeTyped == ASSUME Typed, NEW e \in Events, Dispute(e) PROVE Typed'
<1>1. /\ rule' \in RuleRow
      /\ event' \in [Events -> EventRow]
      /\ strayed' \in [1..MaxWindow -> Nat]
      /\ disturbed' \subseteq Events
  BY DisableAllType DEF Dispute
<1>2. low' \in BOOLEAN
  BY Zenon DEF Dispute, Typed, TypeOK
<1>3. card' \in CardRow
  BY DEF Dispute, Typed, TypeOK, CardRow
<1>4. edits' \in Nat /\ edits' + faults <= MaxTroubles
  BY TroubleTyped DEF Dispute
<1>. QED
  BY <1>1, <1>2, <1>3, <1>4 DEF Typed, TypeOK, WorksOnAnEvent, Dispute

LEMMA DetachTyped == ASSUME Typed, NEW c \in 1..NumCards, Detach(c) PROVE Typed'
<1>1. /\ rule' \in RuleRow
      /\ event' \in [Events -> EventRow]
      /\ strayed' \in [1..MaxWindow -> Nat]
      /\ disturbed' \subseteq Events
      /\ card' \in CardRow
  <2>1. CASE card.id = c /\ ~card.revoked
    <3>1. DisableAll("card_detached") /\ card' = [card EXCEPT !.revoked = TRUE]
      BY <2>1 DEF Detach
    <3>. QED
      BY <3>1, DisableAllType DEF Typed, TypeOK, CardRow
  <2>2. CASE ~(card.id = c /\ ~card.revoked)
    BY <2>2 DEF Detach, Typed, TypeOK
  <2>. QED
    BY <2>1, <2>2
<1>2. gone' \subseteq 1..NumCards
  BY DEF Detach
<1>3. edits' \in Nat /\ edits' + faults <= MaxTroubles
  BY TroubleTyped DEF Detach
<1>. QED
  BY <1>1, <1>2, <1>3 DEF Typed, TypeOK, WorksOnAnEvent, Detach

\* Switching a rule on leaves its counter alone.
LEMMA EnabledType ==
    ASSUME NEW r \in RuleRow
    PROVE  Enabled(r) \in RuleRow /\ Enabled(r).key = r.key /\ Enabled(r).spent = r.spent
BY DEF Enabled, RuleRow

LEMMA SetupTyped == Typed /\ Setup => Typed'
<1>. SUFFICES ASSUME Typed, Setup PROVE Typed'
  OBVIOUS
<1>1. card' \in CardRow
  <2>1. card.id + 1 \in 1..NumCards
    BY ConstantsAssumption DEF Setup, Typed, TypeOK, CardRow
  <2>. QED
    BY <2>1 DEF Setup, CardRow
<1>2. rule' \in RuleRow
  BY EnabledType DEF Setup, Typed, TypeOK
<1>3. edits' \in Nat /\ edits' + faults <= MaxTroubles
  BY TroubleTyped DEF Setup
<1>. QED
  BY <1>1, <1>2, <1>3 DEF Typed, TypeOK, WorksOnAnEvent, Setup

LEMMA SaveTyped == ASSUME Typed, NEW on \in BOOLEAN, Save(on) PROVE Typed'
<1>1. rule' \in RuleRow
  <2>1. rule \in RuleRow
    BY DEF Typed, TypeOK
  <2>2. [rule EXCEPT !.enabled = FALSE, !.paused = "no"] \in RuleRow
    BY <2>1 DEF RuleRow
  <2>. QED
    BY <2>1, <2>2, EnabledType DEF Save
<1>2. edits' \in Nat /\ edits' + faults <= MaxTroubles
  BY TroubleTyped DEF Save
<1>. QED
  BY <1>1, <1>2 DEF Typed, TypeOK, WorksOnAnEvent, Save

\* The clock, and what the tenant uses up.
LEMMA ClockTyped == Typed /\ (Usage \/ Roll \/ Time) => Typed'
<1>. SUFFICES ASSUME Typed, Usage \/ Roll \/ Time PROVE Typed'
  OBVIOUS
<1>1. CASE Usage
  BY <1>1 DEF Usage, Typed, TypeOK, WorksOnAnEvent
<1>2. CASE Roll
  <2>1. window' \in 1..MaxWindow
    BY <1>2, ConstantsAssumption DEF Roll, Typed, TypeOK
  <2>. QED
    BY <1>2, <2>1 DEF Roll, Typed, TypeOK, WorksOnAnEvent
<1>3. CASE NextBucket
  BY <1>3 DEF NextBucket, Typed, TypeOK, WorksOnAnEvent
<1>4. CASE Cool
  <2>1. rule' \in RuleRow
    BY <1>4 DEF Cool, Typed, TypeOK, RuleRow
  <2>2. \A e \in Events : [event[e] EXCEPT !.age = "stale"] \in EventRow
    BY DEF Typed, TypeOK, EventRow
  <2>3. event' \in [Events -> EventRow]
    BY <1>4, <2>2 DEF Cool, Typed, TypeOK
  <2>. QED
    BY <1>4, <2>1, <2>3 DEF Cool, Typed, TypeOK, WorksOnAnEvent
<1>5. CASE StampAges
  <2>1. rule' \in RuleRow
    BY <1>5 DEF StampAges, Typed, TypeOK, RuleRow
  <2>. QED
    BY <1>5, <2>1 DEF StampAges, Typed, TypeOK, WorksOnAnEvent
<1>. QED
  BY <1>1, <1>2, <1>3, <1>4, <1>5 DEF Time

LEMMA ExpireTyped == ASSUME Typed, NEW e \in Events, Expire(e) PROVE Typed'
<1>1. event' \in [Events -> EventRow]
  BY DEF Expire, Typed, TypeOK, EventRow
<1>. QED
  BY <1>1 DEF Expire, Typed, TypeOK, WorksOnAnEvent

LEMMA NextTyped == Typed /\ [Next]_vars => Typed'
<1>. SUFFICES ASSUME Typed, [Next]_vars PROVE Typed'
  OBVIOUS
<1>1. ASSUME NEW s \in Sweeps, SweepStep(s) PROVE Typed'
  BY <1>1, ListTyped, ResumeTyped, ReadTyped, ClaimTyped, ChargeTyped, GrantTyped, SettleTyped
     DEF SweepStep
<1>2. ASSUME NEW s \in Sweeps, AnswerLost(s) \/ Die(s) PROVE Typed'
  BY <1>2, AnswerLostTyped, DieTyped
<1>3. ASSUME NEW e \in Events, Backstop(e) \/ Dispute(e) \/ Expire(e) PROVE Typed'
  BY <1>3, BackstopTyped, DisputeTyped, ExpireTyped
<1>4. ASSUME NEW c \in 1..NumCards, Detach(c) PROVE Typed'
  BY <1>4, DetachTyped
<1>5. CASE Setup
  BY <1>5, SetupTyped
<1>6. ASSUME NEW on \in BOOLEAN, Save(on) PROVE Typed'
  BY <1>6, SaveTyped
<1>7. CASE Usage \/ Roll \/ Time
  BY <1>7, ClockTyped
<1>8. CASE UNCHANGED vars
  BY <1>8 DEF vars, Typed, TypeOK, WorksOnAnEvent
<1>. QED
  BY <1>1, <1>2, <1>3, <1>4, <1>5, <1>6, <1>7, <1>8 DEF Next

\* The rows, the invocations and Stripe's answers keep their types, however many
\* sweeps overlap: the spend counter is never negative and never passes the
\* ceiling, whatever order claims, refunds and disables come in.
THEOREM TypeCorrect == Spec => []TypeOK
<1>1. Typed => TypeOK
  BY DEF Typed
<1>. QED
  BY <1>1, InitTyped, NextTyped, PTL DEF Spec

-----------------------------------------------------------------------------
(* The books of the ceiling. *)

Count(w) == Cardinality(Counted(w))

\* The attempts that are open or booked as paid are covered: by the counter, and
\* by the ceiling.
CounterBooked == Count(rule.key) <= rule.spent + strayed[rule.key]

CeilingBooked == \A w \in 1..MaxWindow : Count(w) <= Limit + strayed[w]

\* The counter's window has begun, every attempt was claimed in a window the
\* counter has counted, and both counts are covered.  Attempts are tied to
\* windows because a counter that rolls starts at zero: a window nobody has
\* claimed in must have nothing to count.
Books ==
    /\ rule.key <= window
    /\ \A e \in Events : event[e].status # "none" => event[e].window \in 1..rule.key
    /\ CounterBooked
    /\ CeilingBooked

IInv == Typed /\ Books

\* Fewer attempts count for less.
LEMMA FewerCounted ==
    ASSUME NEW S, NEW T, S \subseteq T, T \subseteq Events
    PROVE  Cardinality(S) \in Nat /\ Cardinality(T) \in Nat /\ Cardinality(S) <= Cardinality(T)
<1>1. IsFiniteSet(Events)
  BY FS_Interval, ConstantsAssumption DEF Events
<1>2. IsFiniteSet(T)
  BY <1>1, FS_Subset
<1>. QED
  BY <1>2, FS_Subset, FS_CardinalityType

LEMMA OneLessCounted ==
    ASSUME NEW T, T \subseteq Events, NEW e \in T, NEW S, S \subseteq T \ {e}
    PROVE  Cardinality(S) + 1 <= Cardinality(T)
<1>1. IsFiniteSet(T)
  <2>1. IsFiniteSet(Events)
    BY FS_Interval, ConstantsAssumption DEF Events
  <2>. QED
    BY <2>1, FS_Subset
<1>2. Cardinality(T \ {e}) = Cardinality(T) - 1
  BY <1>1, FS_RemoveElement
<1>3. Cardinality(T) \in Nat
  BY FewerCounted
<1>4. Cardinality(S) \in Nat /\ Cardinality(S) <= Cardinality(T \ {e})
  BY FewerCounted
<1>. QED
  BY <1>2, <1>3, <1>4

LEMMA OneMoreCounted ==
    ASSUME NEW S, S \subseteq Events, NEW e \in Events \ S
    PROVE  Cardinality(S \cup {e}) = Cardinality(S) + 1
<1>1. IsFiniteSet(Events)
  BY FS_Interval, ConstantsAssumption DEF Events
<1>2. IsFiniteSet(S)
  BY <1>1, FS_Subset
<1>. QED
  BY <1>2, FS_AddElement

LEMMA InitBooks == Init => Books
<1>. SUFFICES ASSUME Init PROVE Books
  OBVIOUS
<1>. USE ConstantsAssumption
<1>1. \A e \in Events : event[e].status = "none"
  BY DEF Init, NoEvent
<1>2. \A w : Count(w) = 0
  <2>1. ASSUME NEW w
        PROVE  {e \in Events : /\ event[e].window = w
                               /\ event[e].status \in {"pending", "succeeded"}} = {}
    BY <1>1
  <2>. QED
    BY <2>1, FS_EmptySet DEF Count, Counted
<1>3. rule.key = 1 /\ rule.spent = 0 /\ window = 1
  BY DEF Init
<1>4. \A w \in 1..MaxWindow : strayed[w] = 0
  BY DEF Init
<1>5. 1 \in 1..MaxWindow
  OBVIOUS
<1>6. CounterBooked
  BY <1>2, <1>3, <1>4, <1>5 DEF CounterBooked
<1>7. CeilingBooked
  BY <1>2, <1>4 DEF CeilingBooked
<1>. QED
  BY <1>1, <1>3, <1>6, <1>7 DEF Books

\* A step that leaves the counter alone, and of the attempts at most pays for one
\* that was open, keeps the books.
LEMMA BooksKept ==
    ASSUME IInv,
           \A e \in Events : /\ event'[e].window = event[e].window
                             /\ \/ event'[e].status = event[e].status
                                \/ event[e].status = "pending" /\ event'[e].status = "succeeded",
           rule'.key = rule.key, rule'.spent = rule.spent, strayed' = strayed,
           window' \in {window, window + 1}
    PROVE  Books'
<1>1. \A w : Count(w)' = Count(w)
  <2>1. ASSUME NEW w
        PROVE  {e \in Events : /\ event'[e].window = w
                               /\ event'[e].status \in {"pending", "succeeded"}}
               = {e \in Events : /\ event[e].window = w
                                 /\ event[e].status \in {"pending", "succeeded"}}
    OBVIOUS
  <2>. QED
    BY <2>1 DEF Count, Counted
<1>2. rule'.key <= window'
  BY DEF IInv, Books, Typed, TypeOK, RuleRow
<1>3. \A e \in Events : event'[e].status # "none" => event'[e].window \in 1..rule'.key
  BY DEF IInv, Books
<1>4. CounterBooked'
  BY <1>1 DEF IInv, Books, CounterBooked
<1>5. CeilingBooked'
  BY <1>1 DEF IInv, Books, CeilingBooked
<1>. QED
  BY <1>2, <1>3, <1>4, <1>5 DEF Books

\* A counter that rolls to the window of now starts at zero, and nothing was
\* claimed in that window before.
LEMMA BooksRolled ==
    ASSUME IInv, event' = event, strayed' = strayed, window' = window,
           rule'.key = window,
           rule'.spent = IF rule.key = window THEN rule.spent ELSE 0
    PROVE  Books'
<1>1. \A w : Count(w)' = Count(w)
  BY DEF Count, Counted
<1>2. rule.key \in 1..MaxWindow /\ window \in 1..MaxWindow /\ rule.key <= window
  BY DEF IInv, Books, Typed, TypeOK, RuleRow
<1>3. \A e \in Events : event'[e].status # "none" => event'[e].window \in 1..rule'.key
  BY <1>2 DEF IInv, Books
<1>4. CounterBooked'
  <2>1. CASE rule.key = window
    BY <1>1, <2>1 DEF IInv, Books, CounterBooked
  <2>2. CASE rule.key # window
    <3>1. {e \in Events : /\ event[e].window = window
                          /\ event[e].status \in {"pending", "succeeded"}} = {}
      BY <1>2, <2>2 DEF IInv, Books
    <3>2. Count(window) = 0
      BY <3>1, FS_EmptySet DEF Count, Counted
    <3>3. strayed[window] \in Nat
      BY <1>2 DEF IInv, Typed, TypeOK
    <3>. QED
      BY <1>1, <2>2, <3>2, <3>3 DEF CounterBooked
  <2>. QED
    BY <2>1, <2>2
<1>5. CeilingBooked'
  BY <1>1 DEF IInv, Books, CeilingBooked
<1>. QED
  BY <1>2, <1>3, <1>4, <1>5 DEF Books

\* One refund for the attempts that close without a charge: it takes one pack
\* from the counter, and either one of them counted for the counter's window or
\* the refund is noted as strayed.
LEMMA BooksRefunded ==
    ASSUME IInv, NEW es, es \subseteq Pending, es # {},
           \A e \in Events : event'[e].window = event[e].window,
           \A e \in Events \ es : event'[e].status = event[e].status,
           \A e \in es : event'[e].status \notin {"pending", "succeeded"},
           rule'.key = rule.key, rule'.spent = Refunded(rule).spent, Strayed(es),
           window' = window
    PROVE  Books'
<1>1. rule \in RuleRow /\ strayed \in [1..MaxWindow -> Nat] /\ rule.key \in 1..MaxWindow
  BY DEF IInv, Typed, TypeOK, RuleRow
<1>2. es \subseteq Events /\ \A e \in es : event[e].status = "pending"
  BY DEF Pending
<1>3. \A w : Counted(w)' \subseteq Counted(w)
  BY <1>2 DEF Counted
<1>4. \A w : Counted(w) \subseteq Events
  BY DEF Counted
<1>5. \A w : /\ Count(w) = Cardinality(Counted(w))
            /\ Count(w)' = Cardinality(Counted(w)')
  BY DEF Count, Counted
<1>6. \A w : Count(w) \in Nat /\ Count(w)' \in Nat /\ Count(w)' <= Count(w)
  BY <1>3, <1>4, <1>5, FewerCounted
<1>7. \A w \in 1..MaxWindow : strayed'[w] \in Nat /\ strayed[w] <= strayed'[w]
  BY <1>1 DEF Strayed
<1>8. rule'.spent \in Nat /\ rule.spent <= rule'.spent + 1 /\ rule.spent \in Nat
  BY <1>1, RefundedType DEF RuleRow
<1>9. CounterBooked'
  <2>. PICK k \in 1..MaxWindow : rule.key = k /\ rule'.key = k
    BY <1>1
  <2>0. Count(k) <= rule.spent + strayed[k]
    BY DEF IInv, Books, CounterBooked
  <2>1. CASE \E e \in es : event[e].window = k
    <3>1. PICK e \in es : event[e].window = k
      BY <2>1
    <3>2. e \in Counted(k) /\ e \notin Counted(k)'
      BY <1>2, <3>1 DEF Counted
    <3>3. Counted(k)' \subseteq Counted(k) \ {e}
      BY <1>3, <3>2
    <3>4. Cardinality(Counted(k)') + 1 <= Cardinality(Counted(k))
      BY <1>4, <3>2, <3>3, OneLessCounted
    <3>5. Count(k)' + 1 <= Count(k)
      BY <1>5, <3>4
    <3>6. PICK a \in Nat, b \in Nat, r \in Nat, q \in Nat, y \in Nat, z \in Nat :
             /\ a = Count(k) /\ b = Count(k)' /\ r = rule.spent /\ q = rule'.spent
             /\ y = strayed[k] /\ z = strayed'[k]
      BY <1>1, <1>6, <1>7, <1>8
    <3>7. b + 1 <= a /\ a <= r + y /\ r <= q + 1 /\ y <= z
      BY <1>7, <1>8, <2>0, <3>5, <3>6
    <3>8. b <= q + z
      BY <3>7
    <3>9. Count(k)' <= rule'.spent + strayed'[k]
      BY <3>6, <3>8
    <3>. QED
      BY <3>9 DEF CounterBooked
  <2>2. CASE ~ \E e \in es : event[e].window = k
    <3>1. strayed'[k] = strayed[k] + 1
      BY <1>1, <2>2 DEF Strayed
    <3>2. Count(k)' <= rule'.spent + strayed'[k]
      BY <1>1, <1>6, <1>8, <2>0, <3>1
    <3>. QED
      BY <3>2 DEF CounterBooked
  <2>. QED
    BY <2>1, <2>2
<1>10. CeilingBooked'
  <2>1. ASSUME NEW w \in 1..MaxWindow PROVE Count(w)' <= Limit + strayed'[w]
    <3>1. Count(w) <= Limit + strayed[w]
      BY DEF IInv, Books, CeilingBooked
    <3>. QED
      BY <1>1, <1>6, <1>7, <3>1, ConstantsAssumption
  <2>. QED
    BY <2>1 DEF CeilingBooked
<1>11. \A e \in Events : event'[e].status # "none" => event'[e].window \in 1..rule'.key
  BY <1>2 DEF IInv, Books
<1>. QED
  BY <1>9, <1>10, <1>11 DEF IInv, Books

\* A claim counts one more attempt for the window of now, and the counter, rolled
\* to it first, one more pack; the ceiling was checked between the two.
LEMMA BooksClaimed ==
    ASSUME IInv, NEW e \in Unclaimed, NEW spent,
           spent = IF rule.key = window THEN rule.spent ELSE 0,
           ~OverTheLimit(spent),
           event' = [event EXCEPT ![e] = [status |-> "pending", window |-> window,
                                          age |-> "fresh"]],
           rule'.key = window, rule'.spent = spent + 1,
           strayed' = strayed, window' = window
    PROVE  Books'
<1>1. /\ rule \in RuleRow /\ strayed \in [1..MaxWindow -> Nat]
      /\ rule.key \in 1..MaxWindow /\ window \in 1..MaxWindow /\ rule.key <= window
      /\ rule.spent \in Nat /\ Limit \in Nat
  BY ConstantsAssumption DEF IInv, Books, Typed, TypeOK, RuleRow
<1>2. spent \in Nat /\ spent + 1 <= Limit
  BY <1>1 DEF OverTheLimit
<1>3. e \in Events /\ event[e].status = "none"
  BY DEF Unclaimed
<1>4. /\ event'[e] = [status |-> "pending", window |-> window, age |-> "fresh"]
      /\ \A f \in Events \ {e} : event'[f] = event[f]
  BY <1>3 DEF IInv, Typed, TypeOK
<1>5. \A w : e \notin Counted(w) /\ Counted(w) \subseteq Events
  BY <1>3 DEF Counted
<1>6. /\ Counted(window)' = Counted(window) \cup {e}
      /\ \A w : w # window => Counted(w)' = Counted(w)
  BY <1>3, <1>4 DEF Counted
<1>7. \A w : /\ Count(w) = Cardinality(Counted(w))
            /\ Count(w)' = Cardinality(Counted(w)')
  BY DEF Count, Counted
<1>8. Count(window)' = Count(window) + 1
  BY <1>3, <1>5, <1>6, <1>7, OneMoreCounted
<1>9. Count(window) \in Nat
  BY <1>5, <1>7, FewerCounted
<1>10. Count(window) <= spent + strayed[window]
  <2>1. CASE rule.key = window
    BY <2>1 DEF IInv, Books, CounterBooked
  <2>2. CASE rule.key # window
    <3>1. Counted(window) = {}
      BY <1>1, <2>2 DEF IInv, Books, Counted
    <3>2. Count(window) = 0
      BY <1>7, <3>1, FS_EmptySet
    <3>. QED
      BY <1>1, <1>2, <3>2
  <2>. QED
    BY <2>1, <2>2
<1>11. strayed[window] \in Nat
  BY <1>1
<1>12. CounterBooked'
  BY <1>2, <1>8, <1>9, <1>10, <1>11 DEF CounterBooked
<1>13. CeilingBooked'
  <2>1. ASSUME NEW w \in 1..MaxWindow PROVE Count(w)' <= Limit + strayed[w]
    <3>1. CASE w = window
      BY <1>1, <1>2, <1>8, <1>9, <1>10, <1>11, <3>1
    <3>2. CASE w # window
      BY <1>6, <1>7, <3>2 DEF IInv, Books, CeilingBooked
    <3>. QED
      BY <3>1, <3>2
  <2>. QED
    BY <2>1 DEF CeilingBooked
<1>14. ASSUME NEW f \in Events, event'[f].status # "none"
       PROVE  event'[f].window \in 1..rule'.key
  <2>1. CASE f = e
    BY <1>1, <1>4, <2>1
  <2>2. CASE f # e
    BY <1>1, <1>4, <1>14, <2>2 DEF IInv, Books
  <2>. QED
    BY <2>1, <2>2
<1>. QED
  BY <1>1, <1>12, <1>13, <1>14 DEF Books

\* Taking up a stale attempt only stamps the rule; abandoning one refunds it.
LEMMA ResumeBooks == ASSUME IInv, NEW s \in Sweeps, Resume(s) PROVE Books'
<1>. DEFINE stale == {e \in Pending : event[e].age # "fresh"}
            e == First(stale)
<1>0. rule \in RuleRow
  BY DEF IInv, Typed, TypeOK
<1>1. stale # {} => e \in stale
  <2>1. stale \subseteq Events
    BY DEF Pending
  <2>. QED
    BY <2>1, FirstIsOldest
<1>2. stale # {} => e \in Pending
  BY <1>1
<1>. HIDE DEF stale, e
<1>3. window' = window
  BY DEF Resume
<1>4. CASE /\ stale # {}
           /\ event' = [event EXCEPT ![e].status = "abandoned"]
           /\ rule' = Refunded([rule EXCEPT !.flight = "none"])
           /\ Strayed({e})
  <2>1. /\ [rule EXCEPT !.flight = "none"] \in RuleRow
        /\ [rule EXCEPT !.flight = "none"].key = rule.key
        /\ [rule EXCEPT !.flight = "none"].spent = rule.spent
    BY <1>0 DEF RuleRow
  <2>2. rule'.key = rule.key /\ rule'.spent = Refunded(rule).spent
    BY <1>0, <1>4, <2>1, RefundedType DEF Refunded, RuleRow
  <2>3. \A f \in Events : /\ event'[f].window = event[f].window
                          /\ f # e => event'[f].status = event[f].status
    BY <1>4 DEF IInv, Typed, TypeOK, EventRow
  <2>4. event'[e].status = "abandoned"
    BY <1>2, <1>4 DEF Pending, IInv, Typed, TypeOK, EventRow
  <2>5. {e} \subseteq Pending /\ {e} # {}
    BY <1>2, <1>4
  <2>6. \A f \in {e} : event'[f].status \notin {"pending", "succeeded"}
    BY <2>4
  <2>7. \A f \in Events \ {e} : event'[f].status = event[f].status
    BY <2>3
  <2>8. \A f \in Events : event'[f].window = event[f].window
    BY <2>3
  <2>9. Strayed({e})
    BY <1>4
  <2>. QED
    BY <1>3, <2>2, <2>5, <2>6, <2>7, <2>8, <2>9, BooksRefunded
<1>5. CASE event' = event /\ strayed' = strayed
           /\ rule' \in {rule, [rule EXCEPT !.flight = "fresh"]}
  <2>1. rule'.key = rule.key /\ rule'.spent = rule.spent
    BY <1>0, <1>5 DEF RuleRow
  <2>. QED
    BY <1>3, <1>5, <2>1, BooksKept
<1>. QED
  BY <1>4, <1>5 DEF Resume, stale, e

\* A claim that loses its bucket, or finds the rule off, may still have rolled
\* the counter.
LEMMA ClaimBooks == ASSUME IInv, NEW s \in Sweeps, Claim(s) PROVE Books'
<1>. DEFINE r == Released
            spent == IF r.key = window THEN r.spent ELSE 0
            rolled == [r EXCEPT !.key = window, !.spent = spent]
            e == First(Unclaimed)
            now == IF rule.key = window THEN rule.spent ELSE 0
<1>1. rule \in RuleRow
  BY DEF IInv, Typed, TypeOK
<1>2. \/ r = rule
      \/ r.key = window /\ r.spent = 0 /\ rule.key # window
  BY <1>1 DEF Released, RuleRow
<1>3. \/ r.key = rule.key /\ r.spent = rule.spent
      \/ r.key = window /\ r.spent = now
  BY <1>2
<1>4. spent = now
  BY <1>2
<1>5. DOMAIN r = DOMAIN rule
  BY <1>1 DEF Released
<1>6. rolled.key = window /\ rolled.spent = now /\ DOMAIN rolled = DOMAIN rule
  BY <1>1, <1>4, <1>5 DEF RuleRow
<1>7. window' = window /\ strayed' = strayed
  BY DEF Claim
<1>8. Unclaimed # {} => e \in Unclaimed
  <2>1. Unclaimed \subseteq Events
    BY DEF Unclaimed
  <2>. QED
    BY <2>1, FirstIsOldest
<1>. HIDE DEF r, spent, rolled, e, now
<1>9. CASE rule' = r /\ event' = event
  <2>1. CASE rule'.key = rule.key /\ rule'.spent = rule.spent
    BY <1>7, <1>9, <2>1, BooksKept
  <2>2. CASE rule'.key = window /\ rule'.spent = now
    BY <1>7, <1>9, <2>2, BooksRolled DEF now
  <2>. QED
    BY <1>3, <1>9, <2>1, <2>2
<1>10. CASE rule' = [rolled EXCEPT !.paused = "limit"] /\ event' = event
  <2>1. rule'.key = window /\ rule'.spent = now
    BY <1>6, <1>10
  <2>. QED
    BY <1>7, <1>10, <2>1, BooksRolled DEF now
<1>11. CASE /\ Unclaimed # {}
            /\ ~OverTheLimit(spent)
            /\ event' = [event EXCEPT ![e] = [status |-> "pending", window |-> window,
                                              age |-> "fresh"]]
            /\ rule' = [rolled EXCEPT !.spent = @ + 1, !.flight = "fresh", !.cooling = TRUE]
  <2>1. rule'.key = window /\ rule'.spent = now + 1
    BY <1>1, <1>6, <1>11 DEF RuleRow
  <2>. QED
    BY <1>4, <1>7, <1>8, <1>11, <2>1, BooksClaimed DEF now
<1>. QED
  BY <1>9, <1>10, <1>11 DEF Claim, r, spent, rolled, e

LEMMA SettleBooks == ASSUME IInv, NEW s \in Sweeps, Settle(s) PROVE Books'
<1>0. Typed /\ rule \in RuleRow
  BY DEF IInv, Typed, TypeOK
<1>1. window' = window
  BY DEF Settle
<1>2. CASE ~Settles(sweep[s].event)
  <2>1. rule' = rule /\ event' = event /\ strayed' = strayed
    BY <1>2 DEF Settle
  <2>. QED
    BY <1>1, <2>1, BooksKept
<1>3. CASE Settles(sweep[s].event)
  <2>. DEFINE e == sweep[s].event
              status == StatusOf(sweep[s].out)
  <2>1. e \in Pending /\ e \in Events /\ event[e].status = "pending"
    BY <1>3 DEF Settles, Pending
  <2>2. event' = [event EXCEPT ![e].status = status]
    BY <1>0, <2>1, SettleRule
  <2>3. /\ event'[e].status = status
        /\ \A f \in Events \ {e} : event'[f].status = event[f].status
        /\ \A f \in Events : event'[f].window = event[f].window
    BY <1>0, <2>1, <2>2 DEF Typed, TypeOK, EventRow
  <2>4. rule'.key = rule.key
    BY <1>0, <2>1, SettleRule
  <2>. HIDE DEF e, status
  <2>5. CASE sweep[s].out = "paid"
    <3>1. rule'.spent = rule.spent /\ strayed' = strayed
      BY <1>0, <2>1, <2>5, SettleRule DEF e
    <3>2. status = "succeeded"
      BY <2>5 DEF status, StatusOf
    <3>. QED
      BY <1>1, <2>1, <2>3, <2>4, <3>1, <3>2, BooksKept
  <2>6. CASE sweep[s].out # "paid"
    <3>1. rule'.spent = Refunded(rule).spent /\ Strayed({e})
      BY <1>0, <2>1, <2>6, SettleRule DEF e
    <3>2. status \notin {"pending", "succeeded"}
      BY <2>6 DEF status, StatusOf
    <3>3. {e} \subseteq Pending /\ {e} # {}
      BY <2>1
    <3>4. \A f \in {e} : event'[f].status \notin {"pending", "succeeded"}
      BY <2>3, <3>2
    <3>5. /\ \A f \in Events \ {e} : event'[f].status = event[f].status
          /\ \A f \in Events : event'[f].window = event[f].window
      BY <2>3
    <3>. QED
      BY <1>1, <2>4, <3>1, <3>3, <3>4, <3>5, BooksRefunded
  <2>. QED
    BY <2>5, <2>6
<1>. QED
  BY <1>2, <1>3

\* A disable abandons every open attempt and refunds once, if there was any.
LEMMA DisableAllBooks ==
    ASSUME IInv, NEW reason, DisableAll(reason), window' = window
    PROVE  Books'
<1>0. rule \in RuleRow /\ event \in [Events -> EventRow]
  BY DEF IInv, Typed, TypeOK
<1>1. /\ rule'.key = rule.key
      /\ rule'.spent = IF Pending = {} THEN rule.spent ELSE Refunded(rule).spent
  <2>1. ASSUME NEW q \in RuleRow
        PROVE  /\ [Switched(q, reason) EXCEPT !.flight = "none"].key = q.key
               /\ [Switched(q, reason) EXCEPT !.flight = "none"].spent = q.spent
    BY DEF Switched, RuleRow
  <2>2. Refunded(rule) \in RuleRow /\ Refunded(rule).key = rule.key
    BY <1>0, RefundedType
  <2>. QED
    BY <1>0, <2>1, <2>2 DEF DisableAll
<1>2. \A e \in Events : event'[e] = IF e \in Pending
                                    THEN [event[e] EXCEPT !.status = "abandoned"]
                                    ELSE event[e]
  BY DEF DisableAll
<1>3. /\ \A e \in Events : event'[e].window = event[e].window
      /\ \A e \in Events \ Pending : event'[e].status = event[e].status
      /\ \A e \in Events \cap Pending : event'[e].status \notin {"pending", "succeeded"}
  BY <1>0, <1>2 DEF EventRow
<1>4. CASE Pending = {}
  <2>1. strayed' = strayed
    BY <1>4 DEF DisableAll
  <2>. QED
    BY <1>1, <1>3, <1>4, <2>1, BooksKept
<1>5. CASE Pending # {}
  <2>1. Strayed(Pending)
    BY <1>5 DEF DisableAll
  <2>2. \A e \in Pending : event'[e].status \notin {"pending", "succeeded"}
    BY <1>3 DEF Pending
  <2>3. rule'.key = rule.key /\ rule'.spent = Refunded(rule).spent
    BY <1>1, <1>5
  <2>. QED
    BY <1>3, <1>5, <2>1, <2>2, <2>3, BooksRefunded
<1>. QED
  BY <1>4, <1>5

\* What moves neither an attempt's status nor the counter.
LEMMA OtherBooks ==
    ASSUME IInv,
           \/ \E s \in Sweeps : List(s) \/ Read(s) \/ Charge(s) \/ AnswerLost(s) \/ Grant(s)
                                \/ Die(s)
           \/ \E e \in Events : Backstop(e) \/ Expire(e)
           \/ Setup
           \/ \E on \in BOOLEAN : Save(on)
           \/ Usage \/ Roll \/ Time
           \/ UNCHANGED vars
    PROVE  Books'
<1>0. rule \in RuleRow /\ event \in [Events -> EventRow] /\ window \in Nat
  BY DEF IInv, Typed, TypeOK
<1>1. strayed' = strayed /\ window' \in {window, window + 1}
  BY DEF List, Read, Charge, AnswerLost, Grant, Die, Backstop, Expire, Setup, Save, Usage,
         Roll, Time, NextBucket, Cool, StampAges, vars
<1>2. rule'.key = rule.key /\ rule'.spent = rule.spent
  <2>1. CASE rule' = rule
    BY <2>1
  <2>2. CASE Setup \/ \E on \in BOOLEAN : Save(on)
    BY <1>0, <2>2, EnabledType DEF Setup, Save, RuleRow
  <2>3. CASE Cool \/ StampAges
    BY <1>0, <2>3 DEF Cool, StampAges, RuleRow
  <2>. QED
    BY <2>1, <2>2, <2>3
       DEF List, Read, Charge, AnswerLost, Grant, Die, Backstop, Expire, Usage, Roll, Time,
           NextBucket, vars
<1>3. \A e \in Events : /\ event'[e].window = event[e].window
                        /\ event'[e].status = event[e].status
  <2>1. CASE event' = event
    BY <2>1
  <2>2. CASE Cool
    BY <1>0, <2>2 DEF Cool, EventRow
  <2>3. CASE \E e \in Events : Expire(e)
    BY <1>0, <2>3 DEF Expire, EventRow
  <2>. QED
    BY <2>1, <2>2, <2>3
       DEF List, Read, Charge, AnswerLost, Grant, Die, Backstop, Setup, Save, Usage, Roll, Time,
           NextBucket, StampAges, vars
<1>. QED
  BY <1>1, <1>2, <1>3, BooksKept

LEMMA NextBooks == IInv /\ [Next]_vars => Books'
<1>. SUFFICES ASSUME IInv, [Next]_vars PROVE Books'
  OBVIOUS
<1>1. ASSUME NEW s \in Sweeps, SweepStep(s) \/ AnswerLost(s) \/ Die(s) PROVE Books'
  BY <1>1, ResumeBooks, ClaimBooks, SettleBooks, OtherBooks DEF SweepStep
<1>2. ASSUME NEW e \in Events, Backstop(e) \/ Expire(e) PROVE Books'
  BY <1>2, OtherBooks
<1>3. ASSUME NEW e \in Events, Dispute(e) PROVE Books'
  BY <1>3, DisableAllBooks DEF Dispute
<1>4. ASSUME NEW c \in 1..NumCards, Detach(c) PROVE Books'
  <2>1. window' = window
    BY <1>4 DEF Detach
  <2>2. CASE DisableAll("card_detached")
    BY <2>1, <2>2, DisableAllBooks
  <2>3. CASE UNCHANGED <<rule, card, event, strayed, disturbed>>
    BY <2>1, <2>3, BooksKept
  <2>. QED
    BY <1>4, <2>2, <2>3 DEF Detach
<1>5. CASE \/ Setup \/ \E on \in BOOLEAN : Save(on)
           \/ Usage \/ Roll \/ Time
           \/ UNCHANGED vars
  BY <1>5, OtherBooks
<1>. QED
  BY <1>1, <1>2, <1>3, <1>4, <1>5 DEF Next

-----------------------------------------------------------------------------
(* What the books leave out. *)

WorksOn(s, e) == sweep[s].at \in Working /\ sweep[s].event = e

\* An open attempt that was not disturbed is fresh and in the hands of one sweep,
\* which knows Stripe's answer once there is one.
InHand(e) ==
    /\ event[e].age = "fresh"
    /\ \E s \in Sweeps : WorksOn(s, e)
    /\ \A s, t \in Sweeps : WorksOn(s, e) /\ WorksOn(t, e) => s = t
    /\ \A s \in Sweeps : WorksOn(s, e) =>
          /\ sweep[s].at = "charge" => intent[e].result = "none"
          /\ sweep[s].at # "charge" => intent[e].result = sweep[s].out

\* One that is closed is in nobody's hands, and is booked as paid if it was.
Closed(e) ==
    /\ \A s \in Sweeps : ~WorksOn(s, e)
    /\ intent[e].result = "paid" => event[e].status = "succeeded"
    /\ event[e].status = "none" => intent[e].result = "none"

Clean(e) == IF event[e].status = "pending" THEN InHand(e) ELSE Closed(e)

\* Only a disturbed attempt is booked as something else than Stripe made of it.
Booked == \A e \in Events : e \in disturbed \/ Clean(e)

BInv == IInv /\ Booked

\* What a step must leave alone for a clean attempt to stay clean.
LEMMA CleanKept ==
    ASSUME NEW e \in Events, Clean(e),
           event'[e] = event[e], intent'[e] = intent[e],
           \A t \in Sweeps : WorksOn(t, e) => sweep'[t] = sweep[t],
           \A t \in Sweeps : WorksOn(t, e)' => WorksOn(t, e)
    PROVE  Clean(e)'
<1>1. \A t \in Sweeps : WorksOn(t, e)' <=> WorksOn(t, e)
  BY DEF WorksOn
<1>2. CASE event[e].status = "pending"
  <2>1. InHand(e)
    BY <1>2 DEF Clean
  <2>2. InHand(e)'
    BY <1>1, <2>1 DEF InHand
  <2>. QED
    BY <1>2, <2>2 DEF Clean
<1>3. CASE event[e].status # "pending"
  <2>1. Closed(e)
    BY <1>3 DEF Clean
  <2>2. Closed(e)'
    BY <1>1, <2>1 DEF Closed
  <2>. QED
    BY <1>3, <2>2 DEF Clean
<1>. QED
  BY <1>2, <1>3

\* A clean attempt that some sweep works on is open, and in that sweep's hands.
LEMMA CleanWorked ==
    ASSUME NEW e \in Events, Clean(e), NEW s \in Sweeps, WorksOn(s, e)
    PROVE  event[e].status = "pending" /\ InHand(e)
BY DEF Clean, Closed

\* A sweep that is in the middle of an attempt is not idle.
LEMMA CleanWhenIdle ==
    ASSUME NEW e \in Events, Clean(e), AllIdle
    PROVE  event[e].status # "pending"
BY DEF Clean, InHand, WorksOn, Working, AllIdle

LEMMA InitBooked == Init => Booked
<1>. SUFFICES ASSUME Init, NEW e \in Events PROVE Clean(e)
  BY DEF Booked
<1>1. event[e].status = "none" /\ intent[e].result = "none"
  BY DEF Init, NoEvent, NoIntent
<1>2. \A s \in Sweeps : ~WorksOn(s, e)
  BY DEF Init, Idle, WorksOn, Working
<1>. QED
  BY <1>1, <1>2 DEF Clean, Closed

\* Steps of a sweep before its charge: a clean attempt is not stale, so that no
\* sweep takes it up again.
LEMMA ResumeBooked ==
    ASSUME BInv, NEW s \in Sweeps, Resume(s), NEW e \in Events, Clean(e)
    PROVE  Clean(e)'
<1>0. /\ sweep \in [Sweeps -> Work] /\ event \in [Events -> EventRow]
      /\ sweep[s].at = "resume" /\ intent' = intent
  BY DEF BInv, IInv, Typed, TypeOK, Resume
<1>1. PICK stale, o : /\ stale = {f \in Pending : event[f].age # "fresh"}
                      /\ o = First(stale)
  OBVIOUS
<1>2. stale # {} => o \in stale
  <2>1. stale \subseteq Events
    BY <1>1 DEF Pending
  <2>. QED
    BY <1>1, <2>1, FirstIsOldest
<1>3. e \notin stale
  BY <1>1 DEF Clean, InHand, Pending
<1>4. CASE stale = {}
  <2>1. event' = event /\ sweep' = [sweep EXCEPT ![s].at = "read"]
    BY <1>1, <1>4 DEF Resume, GoTo
  <2>2. \A t \in Sweeps : t # s => sweep'[t] = sweep[t]
    BY <1>0, <2>1
  <2>3. ~WorksOn(s, e) /\ ~WorksOn(s, e)'
    BY <1>0, <2>1 DEF WorksOn, Working, Work
  <2>. QED
    BY <1>0, <2>1, <2>2, <2>3, CleanKept DEF WorksOn
<1>5. CASE stale # {} /\ event[o].age = "expired"
  <2>1. event' = [event EXCEPT ![o].status = "abandoned"]
        /\ sweep' = [sweep EXCEPT ![s].at = "read"]
    BY <1>1, <1>5 DEF Resume, GoTo
  <2>2. \A t \in Sweeps : t # s => sweep'[t] = sweep[t]
    BY <1>0, <2>1
  <2>3. ~WorksOn(s, e) /\ ~WorksOn(s, e)'
    BY <1>0, <2>1 DEF WorksOn, Working, Work
  <2>4. event'[e] = event[e]
    BY <1>0, <1>2, <1>3, <1>5, <2>1
  <2>. QED
    BY <1>0, <2>2, <2>3, <2>4, CleanKept DEF WorksOn
<1>6. CASE stale # {} /\ event[o].age # "expired"
  <2>1. PICK skip \in SUBSET {t \in Sweeps \ {s} : sweep[t].at = "resume"} :
          /\ sweep' = [t \in Sweeps |->
                         CASE t = s -> [sweep[s] EXCEPT !.at = "charge", !.event = o]
                           [] t \in skip -> [sweep[t] EXCEPT !.at = "read"]
                           [] OTHER -> sweep[t]]
          /\ event' = event
    <3>1. /\ {f \in Pending : event[f].age # "fresh"} # {}
          /\ event[First({f \in Pending : event[f].age # "fresh"})].age # "expired"
      BY <1>1, <1>6
    <3>2. \E skip \in SUBSET (IF stale = {o} THEN {t \in Sweeps \ {s} : sweep[t].at = "resume"}
                                             ELSE {}) :
             sweep' = [t \in Sweeps |->
                         CASE t = s -> [sweep[s] EXCEPT !.at = "charge", !.event = o]
                           [] t \in skip -> [sweep[t] EXCEPT !.at = "read"]
                           [] OTHER -> sweep[t]]
      BY <1>1, <3>1, ZenonT(60) DEF Resume
    <3>3. event' = event
      BY <3>1, ZenonT(60) DEF Resume
    <3>. QED
      BY <3>2, <3>3
  <2>2. ~WorksOn(s, e)
    BY <1>0 DEF WorksOn, Working
  <2>3. o # e
    BY <1>2, <1>3, <1>6
  <2>4. sweep'[s].event = o
    BY <1>0, <2>1 DEF Work
  <2>5. ~WorksOn(s, e)'
    BY <2>3, <2>4 DEF WorksOn
  <2>6. ASSUME NEW t \in Sweeps, t # s
        PROVE  (sweep'[t] = sweep[t]) \/ (~WorksOn(t, e) /\ ~WorksOn(t, e)')
    <3>1. CASE t \in skip
      BY <1>0, <2>1, <2>6, <3>1 DEF WorksOn, Working, Work
    <3>2. CASE t \notin skip
      BY <2>1, <2>6, <3>2
    <3>. QED
      BY <3>1, <3>2
  <2>7. \A t \in Sweeps : WorksOn(t, e) => sweep'[t] = sweep[t]
    BY <2>2, <2>6
  <2>8. \A t \in Sweeps : WorksOn(t, e)' => WorksOn(t, e)
    BY <2>5, <2>6 DEF WorksOn
  <2>. QED
    BY <1>0, <2>1, <2>7, <2>8, CleanKept
<1>. QED
  BY <1>4, <1>5, <1>6

\* A claim opens an attempt that Stripe has not seen.
LEMMA ClaimBooked ==
    ASSUME BInv, NEW s \in Sweeps, Claim(s), NEW e \in Events, Clean(e)
    PROVE  Clean(e)'
<1>0. /\ sweep \in [Sweeps -> Work] /\ event \in [Events -> EventRow]
      /\ sweep[s].at = "claim" /\ intent' = intent
  BY DEF BInv, IInv, Typed, TypeOK, Claim
<1>1. ~WorksOn(s, e)
  BY <1>0 DEF WorksOn, Working
<1>2. CASE event' = event /\ Leave(s)
  <2>1. \A t \in Sweeps : t # s => sweep'[t] = sweep[t]
    BY <1>0, <1>2 DEF Leave
  <2>2. ~WorksOn(s, e)'
    BY <1>0, <1>2 DEF Leave, Idle, WorksOn, Working
  <2>. QED
    BY <1>0, <1>1, <1>2, <2>1, <2>2, CleanKept DEF WorksOn
<1>3. CASE ~(event' = event /\ Leave(s))
  <2>1. PICK o : o = First(Unclaimed)
    OBVIOUS
  <2>2. /\ Unclaimed # {}
        /\ event' = [event EXCEPT ![o] = [status |-> "pending", window |-> window,
                                          age |-> "fresh"]]
        /\ sweep' = [sweep EXCEPT ![s].at = "charge", ![s].event = o]
    BY <1>3, <2>1 DEF Claim
  <2>3. o \in Events /\ event[o].status = "none"
    BY <2>1, <2>2, FirstIsOldest DEF Unclaimed
  <2>4. /\ sweep'[s].at = "charge" /\ sweep'[s].event = o
        /\ \A t \in Sweeps : t # s => sweep'[t] = sweep[t]
    BY <1>0, <2>2 DEF Work
  <2>5. CASE e # o
    <3>1. event'[e] = event[e]
      BY <1>0, <2>2, <2>5
    <3>2. ~WorksOn(s, e)'
      BY <2>4, <2>5 DEF WorksOn
    <3>. QED
      BY <1>0, <1>1, <2>4, <3>1, <3>2, CleanKept DEF WorksOn
  <2>6. CASE e = o
    <3>1. Closed(e) /\ intent[e].result = "none"
      BY <2>3, <2>6 DEF Clean, Closed
    <3>2. event'[e].status = "pending" /\ event'[e].age = "fresh"
      BY <1>0, <2>2, <2>6
    <3>3. WorksOn(s, e)'
      BY <2>4, <2>6 DEF WorksOn, Working
    <3>4. \A t \in Sweeps : WorksOn(t, e)' => t = s
      BY <2>4, <3>1 DEF WorksOn, Closed
    <3>5. InHand(e)'
      BY <1>0, <2>4, <3>1, <3>2, <3>3, <3>4 DEF InHand
    <3>. QED
      BY <3>2, <3>5 DEF Clean
  <2>. QED
    BY <2>5, <2>6
<1>. QED
  BY <1>2, <1>3

\* The first charge of an attempt tells its sweep what Stripe recorded.
LEMMA ChargeBooked ==
    ASSUME BInv, NEW s \in Sweeps, Charge(s), NEW e \in Events, Clean(e)
    PROVE  Clean(e)'
<1>0. /\ sweep \in [Sweeps -> Work] /\ intent \in [Events -> Answer]
      /\ sweep[s].at = "charge" /\ event' = event
  BY DEF BInv, IInv, Typed, TypeOK, Charge
<1>1. PICK result \in Answers(sweep[s].event, sweep[s].card) :
        /\ intent' = Recorded(sweep[s].event, sweep[s].card, result)
        /\ sweep' = [sweep EXCEPT ![s].at = IF result = "paid" THEN "grant" ELSE "settle",
                                  ![s].out = result]
  BY DEF Charge
<1>2. /\ sweep'[s].at \in {"grant", "settle"} /\ sweep'[s].out = result
      /\ sweep'[s].event = sweep[s].event
      /\ \A t \in Sweeps : t # s => sweep'[t] = sweep[t]
  BY <1>0, <1>1 DEF Work
<1>3. CASE e # sweep[s].event
  <2>1. intent'[e] = intent[e]
    BY <1>0, <1>1, <1>3 DEF Recorded
  <2>2. ~WorksOn(s, e) /\ ~WorksOn(s, e)'
    BY <1>2, <1>3 DEF WorksOn
  <2>. QED
    BY <1>0, <1>2, <2>1, <2>2, CleanKept DEF WorksOn
<1>4. CASE e = sweep[s].event
  <2>1. WorksOn(s, e)
    BY <1>0, <1>4 DEF WorksOn, Working
  <2>2. event[e].status = "pending" /\ InHand(e)
    BY <2>1, CleanWorked
  <2>3. intent[e].result = "none"
    BY <1>0, <2>1, <2>2 DEF InHand
  <2>4. intent'[e].result = result
    BY <1>0, <1>1, <1>4, <2>3 DEF Recorded
  <2>5. WorksOn(s, e)'
    BY <1>2, <1>4 DEF WorksOn, Working
  <2>6. \A t \in Sweeps : WorksOn(t, e)' => t = s
    BY <1>2, <2>1, <2>2 DEF WorksOn, InHand
  <2>7. InHand(e)'
    BY <1>0, <1>2, <2>2, <2>4, <2>5, <2>6 DEF InHand
  <2>. QED
    BY <1>0, <2>2, <2>7 DEF Clean
<1>. QED
  BY <1>3, <1>4

LEMMA GrantBooked ==
    ASSUME BInv, NEW s \in Sweeps, Grant(s), NEW e \in Events, Clean(e)
    PROVE  Clean(e)'
<1>0. /\ sweep \in [Sweeps -> Work]
      /\ sweep[s].at = "grant" /\ event' = event /\ intent' = intent
      /\ sweep' = [sweep EXCEPT ![s].at = "settle"]
  BY DEF BInv, IInv, Typed, TypeOK, Grant, GoTo
<1>1. /\ sweep'[s].at = "settle" /\ sweep'[s].out = sweep[s].out
      /\ sweep'[s].event = sweep[s].event
      /\ \A t \in Sweeps : t # s => sweep'[t] = sweep[t]
  BY <1>0 DEF Work
<1>2. \A t \in Sweeps : WorksOn(t, e)' <=> WorksOn(t, e)
  BY <1>0, <1>1 DEF WorksOn, Working
<1>3. CASE event[e].status = "pending"
  <2>1. InHand(e)
    BY <1>3 DEF Clean
  <2>2. \A t \in Sweeps : WorksOn(t, e)' =>
            /\ sweep'[t].at = "charge" => intent[e].result = "none"
            /\ sweep'[t].at # "charge" => intent[e].result = sweep'[t].out
    BY <1>0, <1>1, <1>2, <2>1 DEF InHand
  <2>3. InHand(e)'
    BY <1>0, <1>2, <2>1, <2>2 DEF InHand
  <2>. QED
    BY <1>0, <1>3, <2>3 DEF Clean
<1>4. CASE event[e].status # "pending"
  BY <1>0, <1>2, <1>4 DEF Clean, Closed
<1>. QED
  BY <1>3, <1>4

\* The sweep that has an attempt in hand settles it as Stripe answered.
LEMMA SettleBooked ==
    ASSUME BInv, NEW s \in Sweeps, Settle(s), NEW e \in Events, Clean(e)
    PROVE  Clean(e)'
<1>0. /\ sweep \in [Sweeps -> Work] /\ event \in [Events -> EventRow]
      /\ sweep[s].at = "settle" /\ intent' = intent
      /\ sweep' = [sweep EXCEPT ![s] = Idle]
  BY DEF BInv, IInv, Typed, TypeOK, Settle, Leave
<1>1. /\ ~WorksOn(s, e)'
      /\ \A t \in Sweeps : t # s => sweep'[t] = sweep[t]
  BY <1>0 DEF WorksOn, Working, Idle
<1>2. CASE ~WorksOn(s, e)
  <2>1. e # sweep[s].event
    BY <1>0, <1>2 DEF WorksOn, Working
  <2>2. event'[e] = event[e]
    BY <1>0, <2>1 DEF Settle
  <2>. QED
    BY <1>0, <1>1, <1>2, <2>2, CleanKept DEF WorksOn
<1>3. CASE WorksOn(s, e)
  <2>1. event[e].status = "pending" /\ InHand(e) /\ sweep[s].event = e
    BY <1>3, CleanWorked DEF WorksOn
  <2>2. intent[e].result = sweep[s].out
    BY <1>0, <1>3, <2>1 DEF InHand
  <2>3. event'[e].status = StatusOf(sweep[s].out)
    <3>1. Settles(e)
      BY <2>1 DEF Settles, Pending
    <3>2. event' = [event EXCEPT ![e].status = StatusOf(sweep[s].out)]
      BY <2>1, <3>1 DEF Settle
    <3>. QED
      BY <1>0, <3>2
  <2>4. \A t \in Sweeps : ~WorksOn(t, e)'
    BY <1>1, <1>3, <2>1 DEF WorksOn, InHand
  <2>5. /\ event'[e].status \notin {"pending", "none"}
        /\ sweep[s].out = "paid" => event'[e].status = "succeeded"
    BY <2>3 DEF StatusOf
  <2>6. Closed(e)'
    BY <1>0, <2>2, <2>4, <2>5 DEF Closed
  <2>. QED
    BY <2>5, <2>6 DEF Clean
<1>. QED
  BY <1>2, <1>3

\* A lost answer, or the end of an invocation, disturbs its own attempt only.
LEMMA LostBooked ==
    ASSUME BInv, NEW s \in Sweeps, AnswerLost(s) \/ Die(s),
           NEW e \in Events \ disturbed', Clean(e)
    PROVE  Clean(e)'
<1>0. sweep \in [Sweeps -> Work] /\ intent \in [Events -> Answer] /\ event' = event
  BY DEF BInv, IInv, Typed, TypeOK, AnswerLost, Die
<1>1. ~WorksOn(s, e)
  BY DEF AnswerLost, Die, Disturbed, WorksOn
<1>2. \A t \in Sweeps : t # s => sweep'[t] = sweep[t]
  BY <1>0 DEF AnswerLost, Die, Leave
<1>3. intent'[e] = intent[e]
  <2>1. CASE AnswerLost(s)
    <3>1. e # sweep[s].event
      BY <2>1 DEF AnswerLost, Disturbed
    <3>. QED
      BY <1>0, <2>1, <3>1 DEF AnswerLost, Recorded
  <2>2. CASE Die(s)
    BY <2>2 DEF Die
  <2>. QED
    BY <2>1, <2>2
<1>4. ~WorksOn(s, e)'
  <2>1. CASE AnswerLost(s)
    <3>1. e # sweep[s].event /\ sweep'[s].event = sweep[s].event
      BY <1>0, <2>1 DEF AnswerLost, Disturbed, Work
    <3>. QED
      BY <3>1 DEF WorksOn
  <2>2. CASE Die(s)
    BY <1>0, <2>2 DEF Die, Leave, Idle, WorksOn, Working
  <2>. QED
    BY <2>1, <2>2
<1>. QED
  BY <1>0, <1>1, <1>2, <1>3, <1>4, CleanKept DEF WorksOn

LEMMA DisableAllBooked ==
    ASSUME NEW reason, DisableAll(reason), sweep' = sweep, intent' = intent,
           NEW e \in Events \ disturbed', Clean(e)
    PROVE  Clean(e)'
<1>1. e \notin Pending
  BY DEF DisableAll, Disturbed
<1>2. event'[e] = event[e]
  BY <1>1 DEF DisableAll
<1>. QED
  BY <1>2, CleanKept DEF WorksOn

LEMMA QuietBooked ==
    ASSUME event' = event, sweep' = sweep, intent' = intent, NEW e \in Events, Clean(e)
    PROVE  Clean(e)'
BY CleanKept DEF WorksOn

LEMMA NextBooked == BInv /\ [Next]_vars => Booked'
<1>. SUFFICES ASSUME BInv, [Next]_vars, NEW e \in Events, e \notin disturbed' PROVE Clean(e)'
  BY DEF Booked
<1>0. Clean(e)
  <2>1. disturbed \subseteq disturbed'
    <3>1. ASSUME NEW s \in Sweeps, SweepStep(s) \/ AnswerLost(s) \/ Die(s)
          PROVE  disturbed \subseteq disturbed'
      BY <3>1 DEF SweepStep, List, Resume, Read, Claim, Charge, Grant, Settle, AnswerLost, Die,
                  Disturbed
    <3>2. ASSUME NEW f \in Events, Backstop(f) \/ Dispute(f) \/ Expire(f)
          PROVE  disturbed \subseteq disturbed'
      BY <3>2 DEF Backstop, Dispute, DisableAll, Disturbed, Expire
    <3>3. ASSUME NEW c \in 1..NumCards, Detach(c) PROVE disturbed \subseteq disturbed'
      BY <3>3 DEF Detach, DisableAll, Disturbed
    <3>4. CASE \/ Setup \/ \E on \in BOOLEAN : Save(on)
               \/ Usage \/ Roll \/ Time \/ UNCHANGED vars
      BY <3>4 DEF Setup, Save, Usage, Roll, Time, NextBucket, Cool, StampAges, vars
    <3>. QED
      BY <3>1, <3>2, <3>3, <3>4 DEF Next
  <2>. QED
    BY <2>1 DEF BInv, Booked
<1>1. ASSUME NEW s \in Sweeps, List(s) \/ Read(s) PROVE Clean(e)'
  <2>1. /\ sweep \in [Sweeps -> Work] /\ event' = event /\ intent' = intent
        /\ sweep[s].at \in {"idle", "read"}
    BY <1>1 DEF List, Read, BInv, IInv, Typed, TypeOK
  <2>2. /\ \A t \in Sweeps : t # s => sweep'[t] = sweep[t]
        /\ sweep'[s].at \in {"resume", "claim", "idle"}
    <3>1. CASE List(s)
      BY <2>1, <3>1 DEF List, Idle
    <3>2. CASE Read(s) /\ GoTo(s, "claim")
      BY <2>1, <3>2 DEF GoTo, Work
    <3>3. CASE Leave(s)
      BY <2>1, <3>3 DEF Leave, Idle
    <3>. QED
      BY <1>1, <3>1, <3>2, <3>3 DEF Read
  <2>3. ~WorksOn(s, e) /\ ~WorksOn(s, e)'
    BY <2>1, <2>2 DEF WorksOn, Working
  <2>. QED
    BY <1>0, <2>1, <2>2, <2>3, CleanKept DEF WorksOn
<1>2. ASSUME NEW s \in Sweeps, Resume(s) \/ Claim(s) \/ Charge(s) \/ Grant(s) \/ Settle(s)
      PROVE  Clean(e)'
  BY <1>0, <1>2, ResumeBooked, ClaimBooked, ChargeBooked, GrantBooked, SettleBooked
<1>3. ASSUME NEW s \in Sweeps, AnswerLost(s) \/ Die(s) PROVE Clean(e)'
  BY <1>0, <1>3, LostBooked
<1>4. CASE (\E f \in Events : Dispute(f)) \/ \E c \in 1..NumCards : Detach(c)
  <2>1. sweep' = sweep /\ intent' = intent
    BY <1>4 DEF Dispute, Detach
  <2>2. (\E reason : DisableAll(reason)) \/ event' = event
    BY <1>4 DEF Dispute, Detach
  <2>. QED
    BY <1>0, <2>1, <2>2, DisableAllBooked, QuietBooked
<1>5. CASE Cool \/ \E f \in Events : Expire(f)
  <2>1. AllIdle /\ sweep' = sweep /\ intent' = intent
    BY <1>5 DEF Cool, Expire
  <2>2. e \notin Pending
    BY <1>0, <2>1, CleanWhenIdle DEF Pending
  <2>3. event'[e] = event[e]
    BY <1>5, <2>2 DEF Cool, Expire, BInv, IInv, Typed, TypeOK
  <2>. QED
    BY <1>0, <2>1, <2>3, CleanKept DEF WorksOn
<1>6. CASE \/ \E f \in Events : Backstop(f)
           \/ Setup \/ \E on \in BOOLEAN : Save(on)
           \/ Usage \/ Roll \/ NextBucket \/ StampAges \/ UNCHANGED vars
  <2>1. event' = event /\ sweep' = sweep /\ intent' = intent
    BY <1>6 DEF Backstop, Setup, Save, Usage, Roll, NextBucket, StampAges, vars
  <2>. QED
    BY <1>0, <2>1, QuietBooked
<1>. QED
  BY <1>1, <1>2, <1>3, <1>4, <1>5, <1>6 DEF Next, SweepStep, Time

\* The books, and what they leave out, hold in every reachable state.
THEOREM BInvHolds == Spec => []BInv
<1>1. Init => BInv
  BY InitTyped, InitBooks, InitBooked DEF BInv, IInv
<1>2. BInv /\ [Next]_vars => BInv'
  BY NextTyped, NextBooks, NextBooked DEF BInv, IInv
<1>. QED
  BY <1>1, <1>2, PTL DEF Spec

\* What Stripe took or may take in a window is booked, or it was written off.
LEMMA ChargedIsCovered ==
    ASSUME BInv, NEW w
    PROVE  /\ Cardinality(Charged(w)) \in Nat /\ Count(w) \in Nat
           /\ Cardinality(WrittenOff(w)) \in Nat
           /\ Cardinality(Charged(w)) <= Count(w) + Cardinality(WrittenOff(w))
<1>1. /\ Charged(w) \subseteq Events /\ Counted(w) \subseteq Events
      /\ WrittenOff(w) \subseteq Events
  BY DEF Charged, Counted, WrittenOff, BInv, IInv, Typed, TypeOK
<1>2. Charged(w) \subseteq Counted(w) \cup WrittenOff(w)
  <2>. SUFFICES ASSUME NEW e \in Charged(w) PROVE e \in Counted(w) \cup WrittenOff(w)
    OBVIOUS
  <2>1. e \in disturbed \/ Clean(e)
    BY <1>1 DEF BInv, Booked
  <2>2. CASE Clean(e)
    BY <2>2 DEF Charged, Counted, Clean, Closed
  <2>3. CASE e \in disturbed
    BY <2>3 DEF Charged, Counted, WrittenOff
  <2>. QED
    BY <2>1, <2>2, <2>3
<1>3. IsFiniteSet(Counted(w)) /\ IsFiniteSet(WrittenOff(w))
  <2>1. IsFiniteSet(Events)
    BY FS_Interval, ConstantsAssumption DEF Events
  <2>. QED
    BY <1>1, <2>1, FS_Subset
<1>4. /\ Cardinality(Counted(w)) \in Nat /\ Cardinality(WrittenOff(w)) \in Nat
      /\ Cardinality(Charged(w)) \in Nat
  BY <1>1, FewerCounted
<1>5. Cardinality(Counted(w) \cup WrittenOff(w)) <=
        Cardinality(Counted(w)) + Cardinality(WrittenOff(w))
  <2>1. /\ Cardinality(Counted(w) \cup WrittenOff(w)) =
             Cardinality(Counted(w)) + Cardinality(WrittenOff(w))
             - Cardinality(Counted(w) \cap WrittenOff(w))
        /\ Cardinality(Counted(w) \cap WrittenOff(w)) \in Nat
    <3>1. Counted(w) \cap WrittenOff(w) \subseteq Events
      BY <1>1
    <3>2. Cardinality(Counted(w) \cap WrittenOff(w)) \in Nat
      BY <3>1, FewerCounted
    <3>. QED
      BY <1>3, <3>2, FS_Union
  <2>. QED
    BY <1>4, <2>1
<1>6. /\ Cardinality(Charged(w)) <= Cardinality(Counted(w) \cup WrittenOff(w))
      /\ Cardinality(Counted(w) \cup WrittenOff(w)) \in Nat
  <2>1. Counted(w) \cup WrittenOff(w) \subseteq Events
    BY <1>1
  <2>. QED
    BY <1>2, <2>1, FewerCounted
<1>. QED
  BY <1>4, <1>5, <1>6 DEF Count

\* However claims, settlements, resumes, abandonments and disables of overlapping
\* sweeps interleave, the spend counter covers what Stripe took or may still take
\* for its window, but for refunds of older windows' attempts and for attempts
\* written off after a lost answer, a dead invocation or a switch-off.
THEOREM CounterCovers == Spec => []NeverUndercounted
<1>1. BInv => NeverUndercounted
  <2>. SUFFICES ASSUME BInv PROVE NeverUndercounted
    OBVIOUS
  <2>1. /\ Count(rule.key) <= rule.spent + strayed[rule.key]
        /\ rule.spent \in Nat /\ strayed[rule.key] \in Nat
    BY ConstantsAssumption
       DEF BInv, IInv, Books, CounterBooked, Typed, TypeOK, RuleRow
  <2>. QED
    BY <2>1, ChargedIsCovered DEF NeverUndercounted
<1>. QED
  BY <1>1, BInvHolds, PTL

\* Whatever the ceiling, Stripe charges no window past it, but for one charge more
\* for each such refund and for each attempt written off.
THEOREM CeilingSafe == Spec => []CeilingHolds
<1>1. BInv => CeilingHolds
  <2>. SUFFICES ASSUME BInv, NEW w \in 1..MaxWindow
                PROVE  Cardinality(Charged(w)) <=
                         Limit + strayed[w] + Cardinality(WrittenOff(w))
    BY DEF CeilingHolds
  <2>1. Count(w) <= Limit + strayed[w] /\ Limit \in Nat /\ strayed[w] \in Nat
    BY ConstantsAssumption DEF BInv, IInv, Books, CeilingBooked, Typed, TypeOK
  <2>. QED
    BY <2>1, ChargedIsCovered
<1>. QED
  BY <1>1, BInvHolds, PTL

-----------------------------------------------------------------------------
(* What is paid, granted and settled. *)

Paid(e) == intent[e].result = "paid"

\* Packs are granted for charges Stripe took, by a sweep or by the webhook; and
\* what the webhook was told of is granted, unless a write failed.
GrantsArePaid == \A e \in granted : Paid(e)

ToldIsGranted == told \subseteq granted \/ faults > 0

GInv ==
    /\ Typed
    /\ \A s \in Sweeps : sweep[s].at = "grant" => Paid(sweep[s].event)
    /\ GrantsArePaid
    /\ ToldIsGranted

\* Stripe's answer under a key is not taken back.
LEMMA AnswersStand ==
    ASSUME Typed, NEW s \in Sweeps, sweep[s].at = "charge",
           NEW result \in Answers(sweep[s].event, sweep[s].card),
           intent' = Recorded(sweep[s].event, sweep[s].card, result)
    PROVE  /\ \A e \in Events : Paid(e) => Paid(e)'
           /\ result = "paid" => intent'[sweep[s].event].result = "paid"
<1>1. sweep[s].event \in Events /\ intent \in [Events -> Answer]
  BY DEF Typed, TypeOK, WorksOnAnEvent
<1>2. CASE intent[sweep[s].event].result = "none"
  BY <1>1, <1>2 DEF Recorded, Paid
<1>3. CASE intent[sweep[s].event].result # "none"
  <2>1. intent' = intent
    BY <1>3 DEF Recorded
  <2>2. result = "paid" => intent[sweep[s].event].result = "paid"
    BY <1>3 DEF Answers
  <2>. QED
    BY <2>1, <2>2 DEF Paid
<1>. QED
  BY <1>2, <1>3

\* A step that leaves answers and grants alone, and sends no sweep to grant.
LEMMA GrantsKept ==
    ASSUME GInv,
           \A e \in Events : Paid(e) => Paid(e)',
           \A s \in Sweeps : sweep'[s].at = "grant" => sweep'[s] = sweep[s],
           granted' = granted, told' = told, faults' >= faults, faults' \in Nat
    PROVE  /\ \A s \in Sweeps : sweep'[s].at = "grant" => Paid(sweep[s].event)'
           /\ GrantsArePaid'
           /\ ToldIsGranted'
<1>1. granted \subseteq Events /\ faults \in Nat
  BY DEF GInv, Typed, TypeOK
<1>2. \A s \in Sweeps : sweep'[s].at = "grant" => Paid(sweep[s].event)'
  BY DEF GInv, Typed, WorksOnAnEvent, Paid
<1>3. GrantsArePaid'
  BY <1>1 DEF GInv, GrantsArePaid
<1>4. ToldIsGranted'
  BY <1>1 DEF GInv, ToldIsGranted
<1>. QED
  BY <1>2, <1>3, <1>4

\* The steps of a sweep before its charge and after its grant.
LEMMA SweepMoves ==
    ASSUME Typed, NEW s \in Sweeps,
           List(s) \/ Resume(s) \/ Read(s) \/ Claim(s) \/ Settle(s) \/ Die(s)
    PROVE  /\ \A t \in Sweeps : sweep'[t].at = "grant" => sweep'[t] = sweep[t]
           /\ intent' = intent /\ granted' = granted /\ told' = told
           /\ faults' \in {faults, faults + 1}
<1>1. sweep \in [Sweeps -> Work]
  BY DEF Typed, TypeOK
<1>2. intent' = intent /\ granted' = granted /\ told' = told /\ faults' \in {faults, faults + 1}
  BY DEF List, Resume, Read, Claim, Settle, Die, Fault
<1>3. ASSUME NEW t \in Sweeps, sweep'[t].at = "grant" PROVE sweep'[t] = sweep[t]
  <2>1. CASE List(s)
    BY <1>1, <1>3, <2>1 DEF List, Idle, Work
  <2>2. CASE Read(s) \/ Claim(s) \/ Settle(s) \/ Die(s)
    BY <1>1, <1>3, <2>2 DEF Read, Claim, Settle, Die, GoTo, Leave, Idle, Work
  <2>3. CASE Resume(s)
    <3>. DEFINE stale == {f \in Pending : event[f].age # "fresh"}
                e == First(stale)
    <3>1. CASE GoTo(s, "read")
      BY <1>1, <1>3, <3>1 DEF GoTo, Work
    <3>2. ASSUME NEW skip, s \notin skip,
                 sweep' = [u \in Sweeps |->
                              CASE u = s -> [sweep[s] EXCEPT !.at = "charge", !.event = e]
                                [] u \in skip -> [sweep[u] EXCEPT !.at = "read"]
                                [] OTHER -> sweep[u]]
          PROVE  sweep'[t] = sweep[t]
      <4>. HIDE DEF e
      <4>1. CASE t = s
        BY <1>1, <1>3, <3>2, <4>1 DEF Work
      <4>2. CASE t # s /\ t \in skip
        BY <1>1, <1>3, <3>2, <4>2 DEF Work
      <4>3. CASE t # s /\ t \notin skip
        BY <3>2, <4>3
      <4>. QED
        BY <4>1, <4>2, <4>3
    <3>. HIDE DEF stale, e
    <3>. QED
      BY <2>3, <3>1, <3>2 DEF Resume, stale, e
  <2>. QED
    BY <2>1, <2>2, <2>3
<1>. QED
  BY <1>2, <1>3

LEMMA NextGranted == GInv /\ [Next]_vars => GInv'
<1>. SUFFICES ASSUME GInv, [Next]_vars PROVE GInv'
  OBVIOUS
<1>0. Typed /\ Typed' /\ faults \in Nat /\ faults' \in Nat /\ sweep \in [Sweeps -> Work]
  BY NextTyped DEF GInv, Typed, TypeOK
<1>1. ASSUME NEW s \in Sweeps,
             List(s) \/ Resume(s) \/ Read(s) \/ Claim(s) \/ Settle(s) \/ Die(s)
      PROVE  GInv'
  <2>1. /\ \A t \in Sweeps : sweep'[t].at = "grant" => sweep'[t] = sweep[t]
        /\ intent' = intent /\ granted' = granted /\ told' = told
        /\ faults' \in {faults, faults + 1}
    BY <1>0, <1>1, SweepMoves
  <2>2. \A e \in Events : Paid(e) => Paid(e)'
    BY <2>1 DEF Paid
  <2>3. faults' >= faults
    BY <1>0, <2>1
  <2>. QED
    BY <1>0, <2>1, <2>2, <2>3, GrantsKept DEF GInv
<1>2. ASSUME NEW s \in Sweeps, Charge(s) PROVE GInv'
  <2>1. PICK result \in Answers(sweep[s].event, sweep[s].card) :
          /\ sweep[s].at = "charge"
          /\ intent' = Recorded(sweep[s].event, sweep[s].card, result)
          /\ sweep' = [sweep EXCEPT ![s].at = IF result = "paid" THEN "grant" ELSE "settle",
                                    ![s].out = result]
    BY <1>2 DEF Charge
  <2>2. /\ \A e \in Events : Paid(e) => Paid(e)'
        /\ result = "paid" => intent'[sweep[s].event].result = "paid"
    BY <1>0, <2>1, AnswersStand
  <2>3. /\ sweep'[s].at = "grant" => result = "paid"
        /\ sweep'[s].event = sweep[s].event
        /\ \A t \in Sweeps \ {s} : sweep'[t] = sweep[t]
    BY <1>0, <2>1 DEF Work
  <2>4. granted' = granted /\ told' = told /\ faults' = faults
    BY <1>2 DEF Charge
  <2>5. ASSUME NEW t \in Sweeps, sweep'[t].at = "grant" PROVE Paid(sweep[t].event)'
    <3>1. CASE t = s
      BY <2>2, <2>3, <2>5, <3>1 DEF Paid
    <3>2. CASE t # s
      <4>1. sweep'[t] = sweep[t]
        BY <2>3, <3>2
      <4>2. sweep[t].event \in Events /\ Paid(sweep[t].event)
        BY <1>0, <2>5, <4>1 DEF GInv, Typed, WorksOnAnEvent
      <4>. QED
        BY <2>2, <4>1, <4>2 DEF Paid
    <3>. QED
      BY <3>1, <3>2
  <2>6. GrantsArePaid' /\ ToldIsGranted'
    BY <1>0, <2>2, <2>4 DEF GInv, GrantsArePaid, ToldIsGranted, Typed, TypeOK
  <2>. QED
    BY <1>0, <2>5, <2>6 DEF GInv
<1>3. ASSUME NEW s \in Sweeps, AnswerLost(s) PROVE GInv'
  <2>1. sweep[s].at = "charge" /\ sweep' = [sweep EXCEPT ![s].at = "settle", ![s].out = "soft"]
    BY <1>3 DEF AnswerLost
  <2>2. \A e \in Events : Paid(e) => Paid(e)'
    <3>1. CASE intent' = intent
      BY <3>1 DEF Paid
    <3>2. ASSUME NEW result \in Answers(sweep[s].event, sweep[s].card),
                 intent' = Recorded(sweep[s].event, sweep[s].card, result)
          PROVE  \A e \in Events : Paid(e) => Paid(e)'
      BY <1>0, <2>1, <3>2, AnswersStand
    <3>. QED
      BY <1>3, <3>1, <3>2 DEF AnswerLost
  <2>3. \A t \in Sweeps : sweep'[t].at = "grant" => sweep'[t] = sweep[t]
    BY <1>0, <2>1 DEF Work
  <2>4. granted' = granted /\ told' = told /\ faults' >= faults
    BY <1>0, <1>3 DEF AnswerLost, Fault
  <2>. QED
    BY <1>0, <2>2, <2>3, <2>4, GrantsKept DEF GInv
<1>4. ASSUME NEW s \in Sweeps, Grant(s) PROVE GInv'
  <2>1. /\ sweep[s].at = "grant" /\ sweep' = [sweep EXCEPT ![s].at = "settle"]
        /\ intent' = intent /\ told' = told
    BY <1>4 DEF Grant, GoTo
  <2>2. \A t \in Sweeps : sweep'[t].at = "grant" => sweep'[t] = sweep[t]
    BY <1>0, <2>1 DEF Work
  <2>3. Paid(sweep[s].event)
    BY <2>1 DEF GInv
  <2>4. CASE granted' = granted \cup {sweep[s].event} /\ faults' = faults
    BY <1>0, <2>1, <2>2, <2>3, <2>4 DEF GInv, GrantsArePaid, ToldIsGranted, Paid
  <2>5. CASE Fault /\ granted' = granted
    <3>1. faults' >= faults
      BY <1>0, <2>5 DEF Fault
    <3>. QED
      BY <1>0, <2>1, <2>2, <2>5, <3>1, GrantsKept DEF GInv, Paid
  <2>. QED
    BY <1>4, <2>4, <2>5 DEF Grant, Granting
<1>5. ASSUME NEW e \in Events, Backstop(e) PROVE GInv'
  <2>1. /\ Paid(e) /\ told' = told \cup {e}
        /\ sweep' = sweep /\ intent' = intent
    BY <1>5 DEF Backstop, Due, Paid
  <2>2. CASE granted' = granted \cup {e} /\ faults' = faults
    BY <1>0, <2>1, <2>2 DEF GInv, GrantsArePaid, ToldIsGranted, Paid
  <2>3. CASE Fault /\ granted' = granted
    <3>1. faults' > 0
      BY <1>0, <2>3 DEF Fault
    <3>. QED
      BY <1>0, <2>1, <2>3, <3>1 DEF GInv, GrantsArePaid, ToldIsGranted, Paid
  <2>. QED
    BY <1>5, <2>2, <2>3 DEF Backstop, Granting
<1>6. CASE \/ \E e \in Events : Dispute(e) \/ Expire(e)
           \/ \E c \in 1..NumCards : Detach(c)
           \/ Setup \/ \E on \in BOOLEAN : Save(on)
           \/ Usage \/ Roll \/ Time
           \/ UNCHANGED vars
  <2>1. sweep' = sweep /\ intent' = intent /\ granted' = granted /\ told' = told
        /\ faults' = faults
    BY <1>6 DEF Dispute, Expire, Detach, Setup, Save, Usage, Roll, Time, NextBucket, Cool,
                StampAges, vars
  <2>. QED
    BY <1>0, <2>1 DEF GInv, GrantsArePaid, ToldIsGranted, Paid
<1>. QED
  BY <1>1, <1>2, <1>3, <1>4, <1>5, <1>6 DEF Next, SweepStep

\* No pack is granted for a charge Stripe did not take, whichever of the sweep, a
\* resumed sweep and the webhook grants it, with answers lost in between; and a
\* paid charge the webhook was told of is granted unless a write failed.
THEOREM GrantsSafe == Spec => [](GrantsArePaid /\ ToldIsGranted)
<1>1. Init => GInv
  BY InitTyped DEF Init, Idle, GInv, GrantsArePaid, ToldIsGranted
<1>2. GInv => GrantsArePaid /\ ToldIsGranted
  BY DEF GInv
<1>. QED
  BY <1>1, <1>2, NextGranted, PTL DEF Spec

\* An attempt that is settled or abandoned stays as it is.
SettledIsFinal ==
    [][\A e \in Events : event[e].status \notin {"none", "pending"} => event'[e] = event[e]]_vars

\* A late answer, a resumed sweep or a disable never reopens or rewrites an
\* attempt that was settled or abandoned.
THEOREM AttemptsStaySettled == Spec => SettledIsFinal
<1>1. ASSUME Typed, [Next]_vars
      PROVE  [\A e \in Events : event[e].status \notin {"none", "pending"} => event'[e] = event[e]]_vars
  <2>. SUFFICES ASSUME Next, NEW e \in Events, event[e].status \notin {"none", "pending"}
                PROVE  event'[e] = event[e]
    BY <1>1
  <2>0. e \notin Pending /\ e \notin Unclaimed
    BY DEF Pending, Unclaimed
  <2>1. ASSUME NEW s \in Sweeps, Resume(s) PROVE event'[e] = event[e]
    <3>1. {f \in Pending : event[f].age # "fresh"} # {}
            => First({f \in Pending : event[f].age # "fresh"}) \in Pending
      <4>1. {f \in Pending : event[f].age # "fresh"} \subseteq Events
        BY DEF Pending
      <4>. QED
        BY <4>1, FirstIsOldest
    <3>. QED
      BY <1>1, <2>0, <2>1, <3>1 DEF Resume, Typed, TypeOK
  <2>2. ASSUME NEW s \in Sweeps, Claim(s) PROVE event'[e] = event[e]
    <3>1. Unclaimed # {} => First(Unclaimed) \in Unclaimed
      BY FirstIsOldest DEF Unclaimed
    <3>. QED
      BY <1>1, <2>0, <2>2, <3>1 DEF Claim, Typed, TypeOK
  <2>3. ASSUME NEW s \in Sweeps, Settle(s) PROVE event'[e] = event[e]
    BY <1>1, <2>0, <2>3 DEF Settle, Settles, Typed, TypeOK
  <2>4. CASE (\E f \in Events : Dispute(f)) \/ \E c \in 1..NumCards : Detach(c)
    BY <2>0, <2>4 DEF Dispute, Detach, DisableAll
  <2>5. CASE Cool
    BY <2>0, <2>5 DEF Cool
  <2>6. ASSUME NEW f \in Events, Expire(f) PROVE event'[e] = event[e]
    BY <1>1, <2>0, <2>6 DEF Expire, Typed, TypeOK
  <2>7. ASSUME NEW s \in Sweeps,
               List(s) \/ Read(s) \/ Charge(s) \/ AnswerLost(s) \/ Grant(s) \/ Die(s)
        PROVE  event' = event
    BY <2>7 DEF List, Read, Charge, AnswerLost, Grant, Die
  <2>8. CASE \/ \E f \in Events : Backstop(f)
             \/ Setup \/ \E on \in BOOLEAN : Save(on)
             \/ Usage \/ Roll \/ NextBucket \/ StampAges
    BY <2>8 DEF Backstop, Setup, Save, Usage, Roll, NextBucket, StampAges
  <2>. QED
    BY <2>1, <2>2, <2>3, <2>4, <2>5, <2>6, <2>7, <2>8 DEF Next, SweepStep, Time
<1>. QED
  BY <1>1, InitTyped, NextTyped, PTL DEF Spec, SettledIsFinal

=============================================================================
