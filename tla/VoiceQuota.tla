----------------------------- MODULE VoiceQuota -----------------------------
(***************************************************************************)
(* The voice minutes of one business: the Postgres functions that reserve  *)
(* minutes for a call, follow the call, settle it, and repair the books    *)
(* (supabase/migrations, functions voice_...).                             *)
(*                                                                         *)
(* Every function is one READ COMMITTED transaction.  A transaction whose  *)
(* reads and writes are all under row locks it keeps until it commits is   *)
(* one action.  voice_reserve_for_call and voice_reconcile_period_usage_row*)
(* read rows they do not lock, each statement with a snapshot of its own:  *)
(* they are one action per statement.  A sweep is one action per row: the  *)
(* rows it changed stay locked until it commits, and which rows are stale  *)
(* enough is left open, so a sweep that stops after any row is included.   *)
(***************************************************************************)
EXTENDS Integers, FiniteSets, Functions

CONSTANTS
    Calls,          \* calls of the business (call_control_id)
    Legs,           \* forwarded or transferred legs a human answered
    NumGrants,      \* purchased packs, numbered in the order they expire
    Periods,        \* billing periods
    Cap,            \* seconds the plan includes in a period
    MinGrant,       \* p_min_grant_seconds
    MaxGrant,       \* p_max_grant_seconds
    MaxConcurrent,  \* p_max_concurrent
    Minute,         \* seconds of a billing minute
    ShortWeight,    \* allowance weight ceiling of a one-minute call
    LongWeight,     \* allowance weight ceiling of a longer call
    PackSeconds,    \* sizes a pack is sold in
    Durations,      \* wall-clock durations a call or a leg can have
    CarrierReports, \* durations the carrier can report for a call
    Weights         \* zone weights a carrier record can carry

Grants == 1..NumGrants

ASSUME GrantLimitsAssumption ==
    /\ MinGrant \in Nat \ {0}
    /\ MaxGrant \in Nat
    /\ MinGrant <= MaxGrant
    /\ MaxConcurrent \in Nat \ {0}

ASSUME BooksAssumption ==
    /\ IsFiniteSet(Calls)
    /\ IsFiniteSet(Legs)
    /\ NumGrants \in Nat
    /\ Cap \in Nat
    /\ Minute \in Nat \ {0}
    /\ ShortWeight \in Nat \ {0}
    /\ LongWeight \in Nat \ {0}
    /\ PackSeconds \subseteq Nat \ {0}
    /\ Durations \subseteq Nat
    /\ CarrierReports \subseteq Nat
    /\ Weights \subseteq Nat \ {0}

VARIABLES
    reservation,  \* voice_reservations, one row per call
    settlement,   \* voice_settlements, one row per call
    session,      \* voice_active_sessions: "none", "open" or "ended"
    usage,        \* voice_billing_period_usage, one row per period
    grant,        \* voice_bonus_grants
    meter,        \* voice_forwarded_call_meter
    clock,        \* the packs that have expired: those numbered up to clock
    reserving,    \* the reserve that holds business_voice_quota_lock
    reconciling   \* the reconcile that holds a usage row

vars == <<reservation, settlement, session, usage, grant, meter, clock,
          reserving, reconciling>>

-----------------------------------------------------------------------------
(* Helpers with the names SQL gives them. *)

least(a, b) == IF a < b THEN a ELSE b
greatest(a, b) == IF a > b THEN a ELSE b

Total(f, S) == SumFunctionOnSet(f, S)

\* coalesce(sum(...), 0)::int over the rows in S.
Sum(f, S) == IF Total(f, S) \in Int THEN Total(f, S) ELSE 0

\* (ceil(s / 60.0))::int * 60
RoundUp(s) == ((s + Minute - 1) \div Minute) * Minute

\* What is left to take after each turn of a loop over the packs: n before
\* the first, and never more than before.
Countdown(n) == {left \in [0..NumGrants -> 0..n] :
                    left[0] = n /\ \A g \in Grants : left[g] <= left[g - 1]}

Taken(left, g) == left[g - 1] - left[g]

NoCall == "no call"
NoPeriod == "no period"
ASSUME NoPeriodAssumption == NoPeriod \notin Periods

NotReported == -1

InFlightStates == {"pending_answer", "active"}
InFlight == {c \in Calls : reservation[c].state \in InFlightStates}

Held(p) == {c \in InFlight : reservation[c].period = p}
HeldIncluded(p) == Sum([c \in Calls |-> reservation[c].included], Held(p))
HeldBonus == Sum([c \in Calls |-> reservation[c].bonus], InFlight)
HeldOn(g) == Sum([c \in Calls |-> reservation[c].allocation[g]], InFlight)

\* voided_at is null and expires_at > now()
Live(g) == grant[g].state = "live" /\ g > clock
Pool == Sum([g \in Grants |-> grant[g].remaining], {g \in Grants : Live(g)})

\* Mutant: the reconcile does not lock the row it repairs.
UsageAlwaysFree(p) == TRUE
\* A row lock on p's usage row is free: no reconcile holds it.
UsageFree(p) == reconciling.period # p

\* update voice_billing_period_usage ... : touches nothing when there is no row
Committed(p, n) ==
    IF usage[p].row THEN [usage EXCEPT ![p].committed = @ + n] ELSE usage

Effective(raw, billable) ==
    least(raw, IF billable > Minute THEN LongWeight ELSE ShortWeight)

\* What a finalized call takes out of its period: the included share of what
\* was billed, and the allowance weight's surcharge.
IncludedShare(c) == least(settlement[c].billable, reservation[c].included)
Surcharge(c) == greatest(settlement[c].weighted - settlement[c].billable, 0)

Finalized(p) == {c \in Calls : /\ settlement[c].state = "final"
                               /\ reservation[c].period = p}

\* The two ledgers voice_reconcile_period_usage_row adds up.
Ledger(p) ==
    Sum([c \in Calls |-> IncludedShare(c) + Surcharge(c)], Finalized(p))
      + Sum([l \in Legs |-> meter[l].seconds], {l \in Legs : meter[l].period = p})

-----------------------------------------------------------------------------
NoReservation ==
    [state |-> "none", period |-> NoPeriod, included |-> 0, bonus |-> 0,
     allocation |-> [g \in Grants |-> 0], answered |-> FALSE, attached |-> FALSE]

NoSettlement ==
    [state |-> "none", telnyx |-> FALSE, bridge |-> FALSE,
     carrier |-> NotReported, weight |-> 1, billable |-> 0, weighted |-> 0]

NoReserve ==
    [at |-> "idle", call |-> NoCall, period |-> NoPeriod, committed |-> 0,
     held |-> 0, included |-> 0, pool |-> 0, bonus |-> 0]

NoReconcile == [at |-> "idle", period |-> NoPeriod, expected |-> 0]

Init ==
    /\ reservation = [c \in Calls |-> NoReservation]
    /\ settlement = [c \in Calls |-> NoSettlement]
    /\ session = [c \in Calls |-> "none"]
    /\ usage = [p \in Periods |-> [row |-> FALSE, committed |-> 0]]
    /\ grant = [g \in Grants |-> [state |-> "none", purchased |-> 0,
                                  remaining |-> 0, clawed |-> 0]]
    /\ meter = [l \in Legs |-> [period |-> NoPeriod, seconds |-> 0]]
    /\ clock = 0
    /\ reserving = NoReserve
    /\ reconciling = NoReconcile

-----------------------------------------------------------------------------
(* voice_reserve_for_call.  The quota lock is held from the first statement *)
(* to the last, so one reserve runs at a time; settlement does not take it. *)

\* The lock, the duplicate check, the committed seconds (and the period's row
\* if it is missing).  A call that has a row already is answered from it, or
\* fails on its unique key and rolls back: neither changes anything here.
ReserveBegin(c, p) ==
    /\ reserving.at = "idle"
    /\ reservation[c].state = "none"
    /\ usage' = [usage EXCEPT ![p].row = TRUE]
    /\ reserving' = [reserving EXCEPT !.at = "held", !.call = c, !.period = p,
                                      !.committed = usage[p].committed]
    /\ UNCHANGED <<reservation, settlement, session, grant, meter, clock, reconciling>>

\* The included seconds that calls in flight hold in the period.
ReserveReadHeld ==
    /\ reserving.at = "held"
    /\ reserving' = [reserving EXCEPT !.at = "count",
                                      !.held = HeldIncluded(reserving.period)]
    /\ UNCHANGED <<reservation, settlement, session, usage, grant, meter, clock, reconciling>>

\* Mutant: one call too many.
NoRoomOffByOne == Cardinality(InFlight) > MaxConcurrent
NoRoom == Cardinality(InFlight) >= MaxConcurrent

Remaining == Cap - reserving.committed - reserving.held

\* Mutant: as long as anything is left, a full grant is.
FromIncludedUncut == IF Remaining > 0 THEN MaxGrant ELSE 0
FromIncluded == least(MaxGrant, greatest(0, Remaining))

\* The calls in flight, of any period; the included share if there is room.
ReserveCount ==
    /\ reserving.at = "count"
    /\ reserving' = IF NoRoom
                    THEN NoReserve
                    ELSE [reserving EXCEPT !.at = "pool", !.included = FromIncluded]
    /\ UNCHANGED <<reservation, settlement, session, usage, grant, meter, clock, reconciling>>

\* The seconds left in live packs.
ReserveReadPool ==
    /\ reserving.at = "pool"
    /\ reserving' = [reserving EXCEPT !.at = "bonus", !.pool = Pool]
    /\ UNCHANGED <<reservation, settlement, session, usage, grant, meter, clock, reconciling>>

\* The pack seconds calls in flight hold; refused when too little is left.
ReserveReadBonus ==
    /\ reserving.at = "bonus"
    /\ LET pool == greatest(0, reserving.pool - HeldBonus)
           bonus == least(MaxGrant - reserving.included, pool)
       IN  reserving' = IF reserving.included + bonus < MinGrant
                        THEN NoReserve
                        ELSE [reserving EXCEPT !.at = "insert", !.bonus = bonus]
    /\ UNCHANGED <<reservation, settlement, session, usage, grant, meter, clock, reconciling>>

\* Mutant: what other calls allocated on the pack is forgotten.
AllocatesFromAll(left) ==
    \A g \in Grants :
        left[g] = left[g - 1] -
            (IF Live(g) THEN least(left[g - 1], grant[g].remaining) ELSE 0)

\* Pack by pack, in the order they expire, what no other call in flight has
\* allocated.  The loop locks the packs it reads.
Allocates(left) ==
    \A g \in Grants :
        left[g] = left[g - 1] -
            (IF Live(g)
             THEN least(left[g - 1], greatest(0, grant[g].remaining - HeldOn(g)))
             ELSE 0)

\* The row is inserted, unless the packs no longer cover the bonus share.
ReserveInsert ==
    /\ reserving.at = "insert"
    /\ \E left \in Countdown(reserving.bonus) :
        /\ Allocates(left)
        /\ reservation' =
             IF left[NumGrants] > 0
             THEN reservation
             ELSE [reservation EXCEPT ![reserving.call] =
                     [state |-> "pending_answer", period |-> reserving.period,
                      included |-> reserving.included, bonus |-> reserving.bonus,
                      allocation |-> [g \in Grants |-> Taken(left, g)],
                      answered |-> FALSE, attached |-> FALSE]]
    /\ reserving' = NoReserve
    /\ UNCHANGED <<settlement, session, usage, grant, meter, clock, reconciling>>

-----------------------------------------------------------------------------
(* The call between reserve and settlement. *)

\* voice_mark_answer_issued
MarkAnswerIssued(c) ==
    /\ reservation[c].state = "pending_answer"
    /\ ~reservation[c].answered
    /\ reservation' = [reservation EXCEPT ![c].state = "active", ![c].answered = TRUE]
    /\ UNCHANGED <<settlement, session, usage, grant, meter, clock, reserving, reconciling>>

\* The bridge's upsert of the media session, ahead of its attach.
OpenSession(c) ==
    /\ reservation[c].state # "none"
    /\ session[c] = "none"
    /\ session' = [session EXCEPT ![c] = "open"]
    /\ UNCHANGED <<reservation, settlement, usage, grant, meter, clock, reserving, reconciling>>

\* voice_bridge_attach_ws
AttachWs(c) ==
    /\ reservation[c].state \in InFlightStates
    /\ reservation' = [reservation EXCEPT ![c].state = "active", ![c].answered = TRUE,
                                          ![c].attached = TRUE]
    /\ UNCHANGED <<settlement, session, usage, grant, meter, clock, reserving, reconciling>>

\* The bridge's direct write when that function cannot be reached: it looks
\* at no state.
AttachWsDirectly(c) ==
    /\ reservation[c].state # "none"
    /\ reservation' = [reservation EXCEPT ![c].attached = TRUE]
    /\ UNCHANGED <<settlement, session, usage, grant, meter, clock, reserving, reconciling>>

\* The bridge stamps the end of the session when the media socket closes.
EndSession(c) ==
    /\ session[c] = "open"
    /\ session' = [session EXCEPT ![c] = "ended"]
    /\ UNCHANGED <<reservation, settlement, usage, grant, meter, clock, reserving, reconciling>>

Release(c) ==
    /\ session[c] # "open"
    /\ reservation' = [reservation EXCEPT ![c].state = "released"]
    /\ UNCHANGED <<settlement, session, usage, grant, meter, clock, reserving, reconciling>>

\* voice_release_reservation_on_answer_fail
ReleaseOnAnswerFail(c) ==
    /\ reservation[c].state = "pending_answer"
    /\ ~reservation[c].attached
    /\ Release(c)

\* voice_sweep_stale_reservations: never answered, then answered but no socket
SweepStaleReservation(c) ==
    /\ \/ reservation[c].state = "pending_answer" /\ ~reservation[c].answered
       \/ /\ reservation[c].state \in InFlightStates
          /\ reservation[c].answered
          /\ ~reservation[c].attached
    /\ Release(c)

-----------------------------------------------------------------------------
(* voice_try_finalize_settlement(c, oneSided), run on the settlement row s  *)
(* that the calling transaction has just written.  It locks the settlement, *)
(* the reservation, the packs and the usage row until it commits.           *)

\* The seconds to bill: wall-clock minutes, capped by the hold and by the
\* carrier's own duration when it reported one.
Billable(r, s, elapsed) ==
    LET wall == least(RoundUp(elapsed), r.included + r.bonus)
    IN  IF s.carrier = NotReported THEN wall ELSE least(wall, RoundUp(s.carrier))

\* consume_voice_bonus_from_allocations: what the call's own packs still have
FromAllocations(c, left) ==
    \A g \in Grants :
        left[g] = left[g - 1] -
            (IF Live(g)
             THEN least(least(left[g - 1], reservation[c].allocation[g]), grant[g].remaining)
             ELSE 0)

\* Mutant: the fallback starts from the packs as they were before own.
FromAnyPackTwice(own, left) ==
    \A g \in Grants :
        left[g] = left[g - 1] -
            (IF Live(g) THEN least(left[g - 1], grant[g].remaining) ELSE 0)

\* consume_voice_bonus_seconds, after own: the shortfall from any live pack
FromAnyPack(own, left) ==
    \A g \in Grants :
        left[g] = left[g - 1] -
            (IF Live(g)
             THEN least(left[g - 1], grant[g].remaining - Taken(own, g))
             ELSE 0)

\* Mutant: the call is billed for seconds no pack could give.
NothingUnpaid(rest) == 0
\* The part of the bonus share no pack could give.
Unpaid(rest) == rest[NumGrants]

NeverAnswered(c) ==
    /\ reservation[c].state = "released"
    /\ ~reservation[c].attached
    /\ ~reservation[c].answered

BothSignals(s) == s.telnyx /\ s.bridge

\* Already finalized, no reservation, a returned hold, or a signal missing:
\* the function returns and only the caller's write of s stays.
Refuse(c, s, oneSided) ==
    /\ \/ s.state = "final"
       \/ reservation[c].state = "none"
       \/ reservation[c].state = "released" /\ ~NeverAnswered(c)
       \/ /\ reservation[c].state # "released"
          /\ ~oneSided
          /\ ~BothSignals(s)
    /\ settlement' = [settlement EXCEPT ![c] = s]
    /\ UNCHANGED <<reservation, usage, grant>>

\* The hold went back before anyone answered: nothing to bill.
CloseNeverAnswered(c, s) ==
    /\ s.state # "final"
    /\ NeverAnswered(c)
    /\ settlement' = [settlement EXCEPT ![c] =
                        [s EXCEPT !.state = "final", !.billable = 0, !.weighted = 0]]
    /\ UNCHANGED <<reservation, usage, grant>>

\* Mutant: a hold that was given back is billed all the same.
ChargeableAfterRelease(c, s, oneSided) ==
    /\ s.state # "final"
    /\ reservation[c].state # "none"
    /\ oneSided \/ BothSignals(s)

Chargeable(c, s, oneSided) ==
    /\ s.state # "final"
    /\ reservation[c].state \notin {"none", "released"}
    /\ oneSided \/ BothSignals(s)

MarkSettled(c) ==
    reservation' = IF c \in InFlight
                   THEN [reservation EXCEPT ![c].state = "settled"]
                   ELSE reservation

\* The transcript has no turns: no service was rendered, nothing is billed.
SettleAtZero(c, s) ==
    /\ settlement' = [settlement EXCEPT ![c] =
                        [s EXCEPT !.state = "final", !.billable = 0, !.weighted = 0]]
    /\ MarkSettled(c)
    /\ UNCHANGED <<usage, grant>>

\* Included seconds first, then the packs; what the packs cannot cover is not
\* billed.  The weight's surcharge goes to the included pool.
SettleBilled(c, s, elapsed) ==
    LET r == reservation[c]
        measured == Billable(r, s, elapsed)
        included == least(measured, r.included)
        bonus == least(measured - included, r.bonus)
    IN  /\ UsageFree(r.period)
        /\ \E own \in Countdown(bonus) :
            /\ FromAllocations(c, own)
            /\ \E rest \in Countdown(own[NumGrants]) :
                /\ FromAnyPack(own, rest)
                /\ LET billable == measured - Unpaid(rest)
                       weight == Effective(s.weight, billable)
                       weighted == billable * weight
                   IN  /\ usage' = Committed(r.period,
                                       included + greatest(weighted - billable, 0))
                       /\ settlement' = [settlement EXCEPT ![c] =
                              [s EXCEPT !.state = "final", !.billable = billable,
                                        !.weighted = weighted, !.weight = weight]]
                /\ grant' = [g \in Grants |->
                       [grant[g] EXCEPT !.remaining = @ - Taken(own, g) - Taken(rest, g)]]
        /\ MarkSettled(c)

TryFinalize(c, s, oneSided) ==
    \/ Refuse(c, s, oneSided)
    \/ CloseNeverAnswered(c, s)
    \/ Chargeable(c, s, oneSided) /\ SettleAtZero(c, s)
    \/ /\ Chargeable(c, s, oneSided)
       /\ \E elapsed \in Durations : SettleBilled(c, s, elapsed)

-----------------------------------------------------------------------------
(* Who calls it. *)

Opened(s) == IF s.state = "none" THEN "open" ELSE s.state

WithBridgeEnd(c) ==
    [settlement[c] EXCEPT !.state = Opened(settlement[c]), !.bridge = TRUE]

\* telnyx-voice-call-end: the hangup is upserted over whatever the row holds,
\* with the weight raw and the least duration reported.  The handler read the
\* row before: a duration another handler wrote since is not seen.
TelnyxHangup(c, duration, lrn) ==
    /\ reservation[c].answered \/ reservation[c].attached
    /\ \E seen \in {settlement[c].carrier, NotReported} :
        settlement' = [settlement EXCEPT
            ![c].state = Opened(settlement[c]),
            ![c].telnyx = TRUE,
            ![c].carrier = IF duration = NotReported THEN @
                           ELSE IF seen = NotReported THEN duration
                           ELSE least(seen, duration),
            ![c].weight = IF lrn \in Weights THEN lrn ELSE @]
    /\ UNCHANGED <<reservation, session, usage, grant, meter, clock, reserving, reconciling>>

\* ... and then, in a transaction of its own, it tries to finalize.
FinalizeAfterHangup(c) ==
    /\ settlement[c].state # "none"
    /\ TryFinalize(c, settlement[c], FALSE)
    /\ UNCHANGED <<session, meter, clock, reserving, reconciling>>

\* voice_record_bridge_media_end
RecordBridgeMediaEnd(c) ==
    /\ c \in InFlight \/ session[c] # "none"
    /\ TryFinalize(c, WithBridgeEnd(c), FALSE)
    /\ UNCHANGED <<session, meter, clock, reserving, reconciling>>

\* voice_sweep_stale_settlements: one signal has waited long enough
SweepStaleSettlement(c) ==
    /\ settlement[c].state = "open"
    /\ TryFinalize(c, settlement[c], TRUE)
    /\ UNCHANGED <<session, meter, clock, reserving, reconciling>>

\* voice_sweep_zombie_active_sessions: the bridge went silent
SweepZombieSession(c) ==
    /\ session[c] = "open"
    /\ TryFinalize(c, WithBridgeEnd(c), TRUE)
    /\ session' = [session EXCEPT ![c] = "none"]
    /\ UNCHANGED <<meter, clock, reserving, reconciling>>

\* ... and its backstop: a day later the row goes whatever became of the call
DropSilentSession(c) ==
    /\ session[c] = "open"
    /\ session' = [session EXCEPT ![c] = "none"]
    /\ UNCHANGED <<reservation, settlement, usage, grant, meter, clock, reserving, reconciling>>

\* voice_reap_ended_active_sessions: settled, or ended a day ago
ReapSession(c) ==
    /\ session[c] = "ended"
    /\ session' = [session EXCEPT ![c] = "none"]
    /\ UNCHANGED <<reservation, settlement, usage, grant, meter, clock, reserving, reconciling>>

-----------------------------------------------------------------------------
(* Corrections, packs and forwarded legs. *)

\* voice_apply_settlement_lrn: a later carrier record brings the weight.
ApplySettlementLrn(c, raw) ==
    LET s == settlement[c]
        weight == Effective(raw, s.billable)
        weighted == s.billable * weight
        p == reservation[c].period
    IN  /\ \/ /\ s.state = "open"
              /\ settlement' = [settlement EXCEPT ![c].weight = raw]
              /\ UNCHANGED usage
           \/ /\ s.state = "final"
              /\ settlement' = [settlement EXCEPT ![c].weight = weight,
                                                  ![c].weighted = weighted]
              /\ \/ weighted = s.weighted /\ UNCHANGED usage
                 \/ /\ weighted # s.weighted
                    /\ UsageFree(p)
                    /\ usage' = Committed(p, weighted - s.weighted)
        /\ UNCHANGED <<reservation, session, grant, meter, clock, reserving, reconciling>>

\* voice_meter_forwarded_call: counted once per leg, never refused
MeterForwardedCall(l, p, seconds) ==
    /\ meter[l].period = NoPeriod
    /\ seconds = 0 \/ UsageFree(p)
    /\ meter' = [meter EXCEPT ![l] = [period |-> p, seconds |-> RoundUp(seconds)]]
    /\ usage' = IF seconds = 0 THEN usage
                ELSE [usage EXCEPT ![p] = [row |-> TRUE,
                                           committed |-> @.committed + RoundUp(seconds)]]
    /\ UNCHANGED <<reservation, settlement, session, grant, clock, reserving, reconciling>>

\* apply_voice_bonus_grant_from_checkout
BuyPack(g, seconds) ==
    /\ grant[g].state = "none"
    /\ g > clock
    /\ grant' = [grant EXCEPT ![g] = [state |-> "live", purchased |-> seconds,
                                      remaining |-> seconds, clawed |-> 0]]
    /\ UNCHANGED <<reservation, settlement, session, usage, meter, clock, reserving, reconciling>>

\* void_voice_bonus_grant_by_checkout_session: a refund takes back seconds,
\* and voids the pack when nothing would be left of it.
VoidPack(g, seconds) ==
    /\ grant[g].state = "live"
    /\ LET claw == least(seconds, grant[g].remaining)
       IN  grant' = [grant EXCEPT
                       ![g].state = IF seconds >= grant[g].remaining THEN "voided" ELSE @,
                       ![g].remaining = @ - claw,
                       ![g].clawed = @ + claw]
    /\ UNCHANGED <<reservation, settlement, session, usage, meter, clock, reserving, reconciling>>

\* A pack reaches expires_at.
ExpirePack ==
    /\ clock < NumGrants
    /\ clock' = clock + 1
    /\ UNCHANGED <<reservation, settlement, session, usage, grant, meter, reserving, reconciling>>

\* voice_reconcile_period_usage_row: lock the usage row, then add up the
\* ledgers, then write.
ReconcileLock(p) ==
    /\ reconciling.at = "idle"
    /\ usage[p].row
    /\ reconciling' = [at |-> "sum", period |-> p, expected |-> 0]
    /\ UNCHANGED <<reservation, settlement, session, usage, grant, meter, clock, reserving>>

ReconcileSum ==
    /\ reconciling.at = "sum"
    /\ reconciling' = [reconciling EXCEPT !.at = "write",
                                          !.expected = Ledger(reconciling.period)]
    /\ UNCHANGED <<reservation, settlement, session, usage, grant, meter, clock, reserving>>

ReconcileWrite ==
    /\ reconciling.at = "write"
    /\ usage' = [usage EXCEPT ![reconciling.period].committed = reconciling.expected]
    /\ reconciling' = NoReconcile
    /\ UNCHANGED <<reservation, settlement, session, grant, meter, clock, reserving>>

-----------------------------------------------------------------------------
Reserve ==
    \/ \E c \in Calls, p \in Periods : ReserveBegin(c, p)
    \/ ReserveReadHeld
    \/ ReserveCount
    \/ ReserveReadPool
    \/ ReserveReadBonus
    \/ ReserveInsert

Reconcile ==
    \/ \E p \in Periods : ReconcileLock(p)
    \/ ReconcileSum
    \/ ReconcileWrite

CallStep(c) ==
    \/ MarkAnswerIssued(c)
    \/ OpenSession(c)
    \/ AttachWs(c)
    \/ AttachWsDirectly(c)
    \/ EndSession(c)
    \/ ReleaseOnAnswerFail(c)
    \/ SweepStaleReservation(c)
    \/ \E d \in CarrierReports \cup {NotReported}, w \in Weights \cup {0} : TelnyxHangup(c, d, w)
    \/ FinalizeAfterHangup(c)
    \/ RecordBridgeMediaEnd(c)
    \/ SweepStaleSettlement(c)
    \/ SweepZombieSession(c)
    \/ DropSilentSession(c)
    \/ ReapSession(c)
    \/ \E w \in Weights : ApplySettlementLrn(c, w)

PackStep(g) ==
    \/ \E n \in PackSeconds : BuyPack(g, n)
    \/ \E n \in 1..grant[g].purchased : VoidPack(g, n)

Next ==
    \/ Reserve
    \/ \E c \in Calls : CallStep(c)
    \/ Reconcile
    \/ \E l \in Legs, p \in Periods, n \in Durations : MeterForwardedCall(l, p, n)
    \/ \E g \in Grants : PackStep(g)
    \/ ExpirePack

Spec == Init /\ [][Next]_vars

-----------------------------------------------------------------------------
(* Properties. *)

Reservation ==
    [state: {"none", "pending_answer", "active", "released", "settled"},
     period: Periods \cup {NoPeriod}, included: 0..MaxGrant, bonus: 0..MaxGrant,
     allocation: [Grants -> Nat], answered: BOOLEAN, attached: BOOLEAN]

Settlement ==
    [state: {"none", "open", "final"}, telnyx: BOOLEAN, bridge: BOOLEAN,
     carrier: Nat \cup {NotReported}, weight: Nat \ {0}, billable: Nat, weighted: Nat]

Reserving ==
    [at: {"idle", "held", "count", "pool", "bonus", "insert"},
     call: Calls \cup {NoCall}, period: Periods \cup {NoPeriod}, committed: Int,
     held: Int, included: 0..MaxGrant, pool: Int, bonus: 0..MaxGrant]

\* Every row has the columns and the ranges its table declares.
TypeOK ==
    /\ reservation \in [Calls -> Reservation]
    /\ settlement \in [Calls -> Settlement]
    /\ session \in [Calls -> {"none", "open", "ended"}]
    /\ usage \in [Periods -> [row: BOOLEAN, committed: Int]]
    /\ grant \in [Grants -> [state: {"none", "live", "voided"}, purchased: Nat,
                             remaining: Nat, clawed: Nat]]
    /\ meter \in [Legs -> [period: Periods \cup {NoPeriod}, seconds: Nat]]
    /\ clock \in 0..NumGrants
    /\ reserving \in Reserving
    /\ reconciling \in [at: {"idle", "sum", "write"}, period: Periods \cup {NoPeriod},
                        expected: Int]

\* The counter the reserve gate reads is what the settlements and the forwarded
\* legs of the period add up to, after any interleaving of settlements, weight
\* corrections, forwarded legs and repairs (voice_reconcile_period_usage_row).
IncludedLedgerAgrees == \A p \in Periods : usage[p].committed = Ledger(p)

\* The pack seconds that are gone and were not refunded are the pack seconds
\* calls were billed: no settlement debits a pack twice, or bills a second it
\* could not debit (consume_voice_bonus_from_allocations and its fallback).
BonusLedgerAgrees ==
    Sum([g \in Grants |-> grant[g].purchased - grant[g].remaining - grant[g].clawed], Grants)
      = Sum([c \in Calls |-> settlement[c].billable - IncludedShare(c)],
            {c \in Calls : settlement[c].state = "final"})

\* As long as no pack was refunded or expired, what calls in flight allocated
\* on a pack is still in it when they settle: reserve does not promise the
\* same seconds twice, and one call's settlement does not eat another's.
HoldsAreInThePacks ==
    (clock = 0 /\ \A g \in Grants : grant[g].state # "voided" /\ grant[g].clawed = 0)
        => \A g \in Grants : HeldOn(g) <= grant[g].remaining

\* A call is settled exactly when its settlement is final, and a hold that was
\* given back is billed nothing: release and settlement never both happen.
SettledOrReturned ==
    \A c \in Calls :
        /\ reservation[c].state = "settled" => settlement[c].state = "final"
        /\ settlement[c].state = "final" => reservation[c].state \in {"settled", "released"}
        /\ reservation[c].state = "released" =>
               settlement[c].billable = 0 /\ settlement[c].weighted = 0

\* The included pool is never promised or billed beyond the plan's cap by AI
\* calls alone (forwarded legs and weight surcharges may exceed it by design).
IncludedWithinCap ==
    \A p \in Periods :
        Sum([c \in Calls |-> IncludedShare(c)], Finalized(p)) + HeldIncluded(p) <= Cap

\* IncludedWithinCap fails (a call that settles between two readings of a
\* reserve is in neither), but no further than this: beyond the plan, the calls
\* of a period are billed and promised at most the largest grant of every call
\* that can be in flight at once, however often reserves and settlements race.
OversoldAtMostOneRound ==
    \A p \in Periods :
        Sum([c \in Calls |-> IncludedShare(c)], Finalized(p)) + HeldIncluded(p)
            <= Cap + MaxConcurrent * MaxGrant

HoldOf(c) ==
    CASE reservation[c].state = "none" -> "free"
      [] reservation[c].state \in InFlightStates -> "held"
      [] reservation[c].state = "released" -> "returned"
      [] OTHER -> "charged"

Hold == INSTANCE VoiceHold WITH
    hold <- [c \in Calls |-> HoldOf(c)],
    amount <- [c \in Calls |-> reservation[c].included + reservation[c].bonus],
    charge <- [c \in Calls |-> settlement[c].billable]

\* The functions keep the promise of VoiceHold: one hold per call, ended once,
\* charged at most what it held and never again, MaxConcurrent at a time.
ImplementsVoiceHold == Hold!Spec
=============================================================================
