----------------------------- MODULE AutoReload -----------------------------
(***************************************************************************)
(* Usage-pack auto-reload of one business and one pack family: the sweep   *)
(* that finds a low balance, claims an attempt and its share of the spend  *)
(* ceiling, charges the stored card off-session, grants the pack and       *)
(* settles the attempt; Stripe, its idempotency keys and its webhooks; and *)
(* the tenant's own edits.                                                 *)
(*                                                                         *)
(* Every RPC is one transaction and one action.  A sweep reads the         *)
(* candidate list, and then works from what it read: two sweeps (the full  *)
(* scan and the flagged one) overlap freely, but an invocation is over     *)
(* long before a cooldown is.  A webhook handler or a save runs to its end *)
(* undisturbed.  Money is counted in packs.                                *)
(***************************************************************************)
EXTENDS Naturals, FiniteSets

CONSTANTS
    Sweeps,     \* invocations of the sweep route that may overlap
    NumEvents,  \* attempts that may be claimed (a bound)
    NumCards,   \* cards the tenant authorizes, in this order (a bound)
    MaxWindow,  \* billing windows that may pass (a bound)
    Limit,      \* packs the ceiling allows in a window
    Strikes,    \* AUTO_RELOAD_MAX_CONSECUTIVE_FAILURES
    Results,    \* what the bank says of a charge
    MaxTroubles \* tenant edits, disputes and faults together (a bound)

ASSUME ConstantsAssumption ==
    /\ NumEvents \in Nat /\ NumCards \in Nat \ {0} /\ MaxWindow \in Nat \ {0}
    /\ Limit \in Nat \ {0} /\ Strikes \in Nat \ {0}
    /\ Results \subseteq {"paid", "action", "hard", "soft", "nocard"}
    /\ MaxTroubles \in Nat

VARIABLES
    rule,       \* the row of usage_pack_auto_reload_rules
    card,       \* the row of usage_pack_auto_reload_cards
    event,      \* the rows of usage_pack_auto_reload_events, oldest first
    used,       \* the attempt key of the running cooldown bucket is taken
    window,     \* the billing window that now falls into
    low,        \* the balance is below the rule's threshold
    sweep,      \* what each invocation works on
    intent,     \* Stripe's answer under the idempotency key of each event
    gone,       \* cards detached at Stripe
    granted,    \* events whose pack was granted, under the key pi_<intent>
    told,       \* events whose payment_intent.succeeded was delivered
    edits,      \* saves, new cards, detached cards and disputes so far
    faults,     \* dead invocations, lost answers and failed writes so far
    strayed,    \* history: refunds a newer window's counter paid for
    disturbed   \* history: attempts that lost an answer or their invocation,
                \* or were open when auto-reload was switched off

vars == <<rule, card, event, used, window, low, sweep, intent, gone, granted, told,
          edits, faults, strayed, disturbed>>

Events == 1..NumEvents

NoEvent == [status |-> "none", window |-> 0, age |-> "fresh"]

NoIntent == [result |-> "none", card |-> 0]

Idle == [at |-> "idle", event |-> 0, card |-> 0, out |-> "none"]

Init ==
    /\ rule = [enabled |-> TRUE, paused |-> "no", reason |-> "none", key |-> 1, spent |-> 0,
               failures |-> 0, flight |-> "none", cooling |-> FALSE]
    /\ card = [id |-> 1, revoked |-> FALSE]
    /\ event = [e \in Events |-> NoEvent]
    /\ used = FALSE
    /\ window = 1
    /\ low = FALSE
    /\ sweep = [s \in Sweeps |-> Idle]
    /\ intent = [e \in Events |-> NoIntent]
    /\ gone = {} /\ granted = {} /\ told = {}
    /\ edits = 0 /\ faults = 0
    /\ strayed = [w \in 1..MaxWindow |-> 0]
    /\ disturbed = {}

Edit == edits + faults < MaxTroubles /\ edits' = edits + 1
Fault == edits + faults < MaxTroubles /\ faults' = faults + 1

First(es) == CHOOSE e \in es : \A f \in es : e <= f

Pending == {e \in Events : event[e].status = "pending"}

Unclaimed == {e \in Events : event[e].status = "none"}

AllIdle == \A s \in Sweeps : sweep[s].at = "idle"

GoTo(s, at) == sweep' = [sweep EXCEPT ![s].at = at]

Leave(s) == sweep' = [sweep EXCEPT ![s] = Idle]

Working == {"charge", "grant", "settle"}

Disturbed(es) == disturbed' = disturbed \cup es

RefundedBelowZero(r) == [r EXCEPT !.spent = @ - 1]

\* Give a reserved pack back to the counter, whatever window it now counts.
Refunded(r) == [r EXCEPT !.spent = IF @ = 0 THEN 0 ELSE @ - 1]

\* The refund was of no event of the window it is credited to.
Strayed(es) ==
    strayed' = IF \E e \in es : event[e].window = rule.key
               THEN strayed
               ELSE [strayed EXCEPT ![rule.key] = @ + 1]

-----------------------------------------------------------------------------
(* The sweep. *)

CandidateUnlessStamped ==
    /\ rule.enabled /\ rule.paused = "no" /\ ~rule.cooling
    /\ ~card.revoked
    /\ rule.flight = "none"
\* A rule the candidate queries return: armed, its card in force, its cooldown
\* over, and no fresh attempt in flight.
Candidate ==
    /\ rule.enabled /\ rule.paused = "no" /\ ~rule.cooling
    /\ ~card.revoked
    /\ rule.flight # "fresh"

\* A sweep reads the candidates, card included.  One that would find neither an
\* attempt to resume nor a low balance changes nothing, and is left out.
List(s) ==
    /\ sweep[s].at = "idle"
    /\ Candidate
    /\ low \/ Pending # {}
    /\ sweep' = [sweep EXCEPT ![s] = [Idle EXCEPT !.at = "resume", !.card = card.id]]
    /\ UNCHANGED <<rule, card, event, used, window, low, intent, gone, granted,
                   told, edits, faults, strayed, disturbed>>

\* usage_pack_auto_reload_resume_stale: the oldest pending attempt that is
\* stale is taken up again, or abandoned once its idempotency key has expired.
\* The row is locked meanwhile: a sweep that runs the same query just then skips
\* it, finds nothing to resume, and goes on to claim.
Resume(s) ==
    LET stale == {e \in Pending : event[e].age # "fresh"}
        e == First(stale)
        racing == {t \in Sweeps \ {s} : sweep[t].at = "resume"} IN
    /\ sweep[s].at = "resume"
    /\ \/ /\ stale = {}
          /\ GoTo(s, "read")
          /\ UNCHANGED <<rule, event, strayed>>
       \/ /\ stale # {} /\ event[e].age = "expired"
          /\ event' = [event EXCEPT ![e].status = "abandoned"]
          /\ rule' = Refunded([rule EXCEPT !.flight = "none"])
          /\ Strayed({e})
          /\ GoTo(s, "read")
       \/ /\ stale # {} /\ event[e].age = "stale"
          /\ rule' = [rule EXCEPT !.flight = "fresh"]
          /\ \E skip \in SUBSET (IF stale = {e} THEN racing ELSE {}) :
                sweep' = [t \in Sweeps |->
                             CASE t = s -> [sweep[s] EXCEPT !.at = "charge", !.event = e]
                               [] t \in skip -> [sweep[t] EXCEPT !.at = "read"]
                               [] OTHER -> sweep[t]]
          /\ UNCHANGED <<event, strayed>>
    /\ UNCHANGED <<card, used, window, low, intent, gone, granted, told, edits,
                   faults, disturbed>>

\* readRemainingUnits: only a balance below the threshold is topped up.
Read(s) ==
    /\ sweep[s].at = "read"
    /\ IF low /\ Unclaimed # {} THEN GoTo(s, "claim") ELSE Leave(s)
    /\ UNCHANGED <<rule, card, event, used, window, low, intent, gone, granted,
                   told, edits, faults, strayed, disturbed>>

\* A ceiling pause ends with its window, when a claim gets to look at it.
Released ==
    IF rule.paused = "limit" /\ rule.key # window
    THEN [rule EXCEPT !.paused = "no", !.key = window, !.spent = 0]
    ELSE rule

OverTheLimitByOne(spent) == spent > Limit
OverTheLimit(spent) == spent + 1 > Limit

\* usage_pack_auto_reload_claim: roll the window, check the ceiling, take the
\* bucket's attempt key, and reserve the money before it is charged.  The
\* cooldown and the in-flight stamp are not looked at again.
Claim(s) ==
    /\ sweep[s].at = "claim"
    /\ LET r == Released
           spent == IF r.key = window THEN r.spent ELSE 0
           rolled == [r EXCEPT !.key = window, !.spent = spent]
           e == First(Unclaimed) IN
       \/ /\ ~r.enabled \/ r.paused # "no" \/ Unclaimed = {}
          /\ rule' = r
          /\ Leave(s)
          /\ UNCHANGED <<event, used>>
       \/ /\ r.enabled /\ r.paused = "no" /\ Unclaimed # {}
          /\ OverTheLimit(spent)
          /\ rule' = [rolled EXCEPT !.paused = "limit"]
          /\ Leave(s)
          /\ UNCHANGED <<event, used>>
       \/ /\ r.enabled /\ r.paused = "no" /\ Unclaimed # {}
          /\ ~OverTheLimit(spent)
          /\ used
          /\ rule' = r
          /\ Leave(s)
          /\ UNCHANGED <<event, used>>
       \/ /\ r.enabled /\ r.paused = "no" /\ Unclaimed # {}
          /\ ~OverTheLimit(spent)
          /\ ~used
          /\ used' = TRUE
          /\ event' = [event EXCEPT ![e] = [status |-> "pending", window |-> window,
                                            age |-> "fresh"]]
          /\ rule' = [rolled EXCEPT !.spent = @ + 1, !.flight = "fresh", !.cooling = TRUE]
          /\ sweep' = [sweep EXCEPT ![s].at = "charge", ![s].event = e]
    /\ UNCHANGED <<card, window, low, intent, gone, granted, told, edits, faults,
                   strayed, disturbed>>

\* What Stripe answers: a used idempotency key replays its first answer, or is
\* refused when the card is another one than the first time.
Answers(e, c) ==
    IF intent[e].result = "none"
    THEN IF c \in gone THEN {"soft"} ELSE Results
    ELSE IF intent[e].card = c THEN {intent[e].result} ELSE {"soft"}

Recorded(e, c, result) ==
    IF intent[e].result = "none"
    THEN [intent EXCEPT ![e] = [result |-> result, card |-> c]]
    ELSE intent

\* createOffSessionPackCharge, and classifyChargeFailure on what it throws.
Charge(s) ==
    LET e == sweep[s].event
        c == sweep[s].card IN
    /\ sweep[s].at = "charge"
    /\ \E result \in Answers(e, c) :
          /\ intent' = Recorded(e, c, result)
          /\ sweep' = [sweep EXCEPT ![s].at = IF result = "paid" THEN "grant" ELSE "settle",
                                    ![s].out = result]
    /\ UNCHANGED <<rule, card, event, used, window, low, gone, granted, told,
                   edits, faults, strayed, disturbed>>

\* The call ends in a connection error, which is classified as a failure that
\* clears on its own, whether or not Stripe had taken the charge.
AnswerLost(s) ==
    LET e == sweep[s].event
        c == sweep[s].card IN
    /\ sweep[s].at = "charge"
    /\ Fault
    /\ \/ \E result \in Answers(e, c) : intent' = Recorded(e, c, result)
       \/ intent' = intent
    /\ sweep' = [sweep EXCEPT ![s].at = "settle", ![s].out = "soft"]
    /\ Disturbed({e})
    /\ UNCHANGED <<rule, card, event, used, window, low, gone, granted, told, edits,
                   strayed>>

\* The grant RPCs are idempotent on pi_<intent>; a grant lifts the balance
\* above the threshold.
Granting(e) ==
    /\ granted' = granted \cup {e}
    /\ low' = (low /\ e \in granted)

Grant(s) ==
    /\ sweep[s].at = "grant"
    /\ \/ Granting(sweep[s].event) /\ UNCHANGED faults
       \/ Fault /\ UNCHANGED <<granted, low>>
    /\ GoTo(s, "settle")
    /\ UNCHANGED <<rule, card, event, used, window, intent, gone, told, edits,
                   strayed, disturbed>>

Switched(r, reason) ==
    [r EXCEPT !.enabled = FALSE, !.paused = "off", !.reason = reason]

\* How a refused charge moves the rule: a bank challenge pauses it, and only
\* failures that do not clear on their own count toward switching it off.
Failed(r, out) ==
    CASE out = "action" -> [r EXCEPT !.paused = "auth"]
      [] out = "hard" -> IF r.failures + 1 >= Strikes
                         THEN Switched([r EXCEPT !.failures = @ + 1], "payment_failures")
                         ELSE [r EXCEPT !.failures = @ + 1]
      [] out = "nocard" -> Switched(r, "no_payment_method")
      [] OTHER -> r

SettlesAgain(e) == TRUE
\* An attempt is settled once.
Settles(e) == e \in Pending

StatusOf(out) ==
    CASE out = "paid" -> "succeeded"
      [] out = "action" -> "requires_action"
      [] OTHER -> "failed"

\* usage_pack_auto_reload_settle.
Settle(s) ==
    LET e == sweep[s].event
        out == sweep[s].out
        landed == [rule EXCEPT !.flight = "none"] IN
    /\ sweep[s].at = "settle"
    /\ \/ ~Settles(e) /\ UNCHANGED <<rule, event, strayed>>
       \/ /\ Settles(e)
          /\ event' = [event EXCEPT ![e].status = StatusOf(out)]
          /\ IF out = "paid"
             THEN rule' = [landed EXCEPT !.failures = 0] /\ UNCHANGED strayed
             ELSE rule' = Failed(Refunded(landed), out) /\ Strayed({e})
    /\ Leave(s)
    /\ UNCHANGED <<card, used, window, low, intent, gone, granted, told, edits,
                   faults, disturbed>>

\* The invocation dies, or one of its calls fails: processCandidate throws.
Die(s) ==
    /\ sweep[s].at # "idle"
    /\ Fault
    /\ Leave(s)
    /\ Disturbed(IF sweep[s].at \in Working THEN {sweep[s].event} ELSE {})
    /\ UNCHANGED <<rule, card, event, used, window, low, intent, gone, granted, told,
                   edits, strayed>>

SweepStep(s) ==
    List(s) \/ Resume(s) \/ Read(s) \/ Claim(s) \/ Charge(s) \/ Grant(s) \/ Settle(s)

-----------------------------------------------------------------------------
(* The webhooks. *)

DueUnsettled(e) == intent[e].result = "paid" /\ e \notin told /\ e \in Pending
\* Stripe delivers the success of a charge, whatever the sweep made of it.
Due(e) == intent[e].result = "paid" /\ e \notin told

\* payment_intent.succeeded: an error of the grant is logged and acknowledged.
Backstop(e) ==
    /\ Due(e)
    /\ told' = told \cup {e}
    /\ \/ Granting(e) /\ UNCHANGED faults
       \/ Fault /\ UNCHANGED <<granted, low>>
    /\ UNCHANGED <<rule, card, event, used, window, sweep, intent, gone, edits,
                   strayed, disturbed>>

\* usage_pack_auto_reload_disable_for_business: attempts in flight are given up
\* with one refund, and a rule that is on is switched off.
DisableAll(reason) ==
    LET refunded == IF Pending = {} THEN rule ELSE Refunded(rule) IN
    /\ event' = [e \in Events |-> IF e \in Pending
                                  THEN [event[e] EXCEPT !.status = "abandoned"]
                                  ELSE event[e]]
    /\ rule' = IF rule.enabled
               THEN [Switched(refunded, reason) EXCEPT !.flight = "none"]
               ELSE refunded
    /\ IF Pending = {} THEN UNCHANGED strayed ELSE Strayed(Pending)
    /\ Disturbed(Pending)

\* charge.dispute.created for a pack that was granted: the grant is clawed back,
\* auto-reload is disabled and the card revoked.
Dispute(e) ==
    /\ e \in granted
    /\ Edit
    /\ low' \in {low, TRUE}
    /\ DisableAll("dispute")
    /\ card' = [card EXCEPT !.revoked = TRUE]
    /\ UNCHANGED <<used, window, sweep, intent, gone, granted, told, faults>>

\* payment_method.detached, with what it reports: a card is gone at Stripe, and
\* if it is the one in force, the rules are disabled and it is revoked.
Detach(c) ==
    /\ gone = {} /\ c <= card.id
    /\ Edit
    /\ gone' = {c}
    /\ IF card.id = c /\ ~card.revoked
       THEN DisableAll("card_detached") /\ card' = [card EXCEPT !.revoked = TRUE]
       ELSE UNCHANGED <<rule, card, event, strayed, disturbed>>
    /\ UNCHANGED <<used, window, low, sweep, intent, granted, told, faults>>

Enabled(r) == [r EXCEPT !.enabled = TRUE, !.paused = "no", !.reason = "none", !.failures = 0]

\* applyAutoReloadSetupFromCheckout: store the card that was authorized, and
\* restore a rule that went off only because its card was detached.
Setup ==
    /\ card.id < NumCards
    /\ Edit
    /\ card' = [id |-> card.id + 1, revoked |-> FALSE]
    /\ rule' = IF rule.reason = "card_detached" THEN Enabled(rule) ELSE rule
    /\ UNCHANGED <<event, used, window, low, sweep, intent, gone, granted, told,
                   faults, strayed, disturbed>>

-----------------------------------------------------------------------------
(* The tenant and the clock. *)

\* The settings route and upsertAutoReloadRule: a save clears a pause, enabling
\* clears the rest, and is refused after a dispute.
Save(on) ==
    /\ on => rule.reason # "dispute"
    /\ Edit
    /\ rule' = IF on THEN Enabled(rule) ELSE [rule EXCEPT !.enabled = FALSE, !.paused = "no"]
    /\ UNCHANGED <<card, event, used, window, low, sweep, intent, gone, granted,
                   told, faults, strayed, disturbed>>

Usage ==
    /\ ~low
    /\ low' = TRUE
    /\ UNCHANGED <<rule, card, event, used, window, sweep, intent, gone, granted,
                   told, edits, faults, strayed, disturbed>>

Roll ==
    /\ window < MaxWindow
    /\ window' = window + 1
    /\ UNCHANGED <<rule, card, event, used, low, sweep, intent, gone, granted,
                   told, edits, faults, strayed, disturbed>>

\* floor(now / cooldown) goes up by one: the next attempt key is free.
NextBucket ==
    /\ used
    /\ used' = FALSE
    /\ UNCHANGED <<rule, card, event, window, low, sweep, intent, gone, granted,
                   told, edits, faults, strayed, disturbed>>

\* The cooldown since the last claim is over: a boundary of the buckets has
\* passed, every sweep of that time is over, and so are the 15 minutes after
\* which an attempt is stale (the cooldowns are 30 and 120 minutes).
Cool ==
    /\ rule.cooling /\ ~used /\ AllIdle
    /\ rule' = [rule EXCEPT !.cooling = FALSE, !.flight = IF @ = "fresh" THEN "stale" ELSE @]
    /\ event' = [e \in Events |-> IF e \in Pending /\ event[e].age = "fresh"
                                  THEN [event[e] EXCEPT !.age = "stale"]
                                  ELSE event[e]]
    /\ UNCHANGED <<card, used, window, low, sweep, intent, gone, granted, told,
                   edits, faults, strayed, disturbed>>

\* Fifteen minutes after an attempt was taken up again.
StampAges ==
    /\ rule.flight = "fresh" /\ ~rule.cooling
    /\ \A s \in Sweeps : sweep[s].at \notin Working
    /\ rule' = [rule EXCEPT !.flight = "stale"]
    /\ UNCHANGED <<card, event, used, window, low, sweep, intent, gone, granted,
                   told, edits, faults, strayed, disturbed>>

\* Twenty-four hours after an attempt was claimed.
Expire(e) ==
    /\ e \in Pending /\ event[e].age = "stale" /\ AllIdle
    /\ event' = [event EXCEPT ![e].age = "expired"]
    /\ UNCHANGED <<rule, card, used, window, low, sweep, intent, gone, granted,
                   told, edits, faults, strayed, disturbed>>

Time == NextBucket \/ Cool \/ StampAges

Next ==
    \/ \E s \in Sweeps : SweepStep(s) \/ AnswerLost(s) \/ Die(s)
    \/ \E e \in Events : Backstop(e) \/ Dispute(e) \/ Expire(e)
    \/ \E c \in 1..NumCards : Detach(c)
    \/ Setup
    \/ \E on \in BOOLEAN : Save(on)
    \/ Usage \/ Roll \/ Time

Spec == Init /\ [][Next]_vars

\* pg_cron keeps invoking the sweep, an invocation runs to its end unless it
\* dies, Stripe delivers payment_intent.succeeded, and time passes.
Fairness ==
    /\ \A s \in Sweeps : WF_vars(SweepStep(s))
    /\ WF_vars(\E e \in Events : Backstop(e))
    /\ WF_vars(Time)

FairSpec == Spec /\ Fairness

-----------------------------------------------------------------------------
(* Properties. *)

RuleRow ==
    [enabled: BOOLEAN, paused: {"no", "limit", "auth", "off"},
     reason: {"none", "payment_failures", "no_payment_method", "card_detached", "dispute"},
     key: 1..MaxWindow, spent: 0..Limit, failures: Nat,
     flight: {"none", "fresh", "stale"}, cooling: BOOLEAN]

CardRow == [id: 1..NumCards, revoked: BOOLEAN]

EventRow ==
    [status: {"none", "pending", "succeeded", "failed", "requires_action", "abandoned"},
     window: 0..MaxWindow, age: {"fresh", "stale", "expired"}]

Outcomes == Results \cup {"none", "soft"}

Work ==
    [at: {"idle", "resume", "read", "claim", "charge", "grant", "settle"},
     event: 0..NumEvents, card: 0..NumCards, out: Outcomes]

Answer == [result: Outcomes, card: 0..NumCards]

\* The rows, the invocations and Stripe's answers have their types: the spend
\* counter stays between zero and the ceiling.  The strikes have no upper bound:
\* a charge that was under way when the rule went off still counts its own.
TypeOK ==
    /\ rule \in RuleRow
    /\ card \in CardRow
    /\ event \in [Events -> EventRow]
    /\ used \in BOOLEAN /\ low \in BOOLEAN
    /\ window \in 1..MaxWindow
    /\ sweep \in [Sweeps -> Work]
    /\ intent \in [Events -> Answer]
    /\ gone \subseteq 1..NumCards /\ granted \subseteq Events /\ told \subseteq Events
    /\ edits \in Nat /\ faults \in Nat /\ edits + faults <= MaxTroubles
    /\ strayed \in [1..MaxWindow -> Nat]
    /\ disturbed \subseteq Events

\* Attempts of a window that are open or booked as paid.
Counted(w) ==
    {e \in Events : event[e].window = w /\ event[e].status \in {"pending", "succeeded"}}

\* Attempts claimed in a window that are open, or whose money Stripe took:
\* Stripe's answer decides, not what the attempt was settled as.
Charged(w) ==
    {e \in Events : /\ event[e].window = w
                    /\ event[e].status = "pending" \/ intent[e].result = "paid"}

\* Attempts of a window whose money Stripe took and whose pack was given back to
\* the counter all the same, after a lost answer, a dead invocation or a
\* switch-off while they were open.
WrittenOff(w) ==
    {e \in disturbed : /\ event[e].window = w
                       /\ event[e].status \notin {"pending", "succeeded"}
                       /\ intent[e].result = "paid"}

\* Two things alone make the spend counter fall short of the charges of its
\* window that are open or were taken: a late refund of an older window's
\* attempt, and an attempt that was written off, for which it takes a lost
\* answer, a dead invocation or a switch-off.  No order of claims, replayed
\* charges, other cards, settlements, resumes and expiries does it otherwise.
NeverUndercounted ==
    Cardinality(Charged(rule.key)) <=
        rule.spent + strayed[rule.key] + Cardinality(WrittenOff(rule.key))

\* The ceiling of a window is not kept against lost answers: each attempt that
\* was written off, and each late refund, allows one charge more.  Stripe takes
\* no other charge beyond it.
CeilingHolds ==
    \A w \in 1..MaxWindow :
        Cardinality(Charged(w)) <= Limit + strayed[w] + Cardinality(WrittenOff(w))

Owed == {e \in Events : intent[e].result = "paid"} \ granted

\* Charging and silently not granting is the worst outcome this feature can
\* produce: unless two faults meet, whatever was paid for is granted.
PaidIsGranted == Owed # {} ~> Owed = {} \/ faults > 1

Armed == rule.enabled /\ rule.paused = "no" /\ ~card.revoked

\* A crashed run ages out rather than wedging the rule: open attempts are
\* settled while their rule stays armed.
PendingIsClosed == Pending # {} ~> Pending = {} \/ ~Armed

\* The claim's comment says that a ceiling pause is released when the window
\* has rolled.
CeilingPauseEnds ==
    rule.paused = "limit" /\ rule.key # window ~> rule.paused # "limit"
=============================================================================
