-------------------------- MODULE VoiceQuotaProofs --------------------------
(***************************************************************************)
(* Theorems about VoiceQuota, for every number of calls, packs and periods *)
(* and every limit the assumptions allow.                                  *)
(***************************************************************************)
EXTENDS VoiceQuota, FiniteSetTheorems, TLAPS

-----------------------------------------------------------------------------
(* The helpers. *)

\* A sum of seconds is an integer whatever is summed.
LEMMA SumIsInt == ASSUME NEW f, NEW S PROVE Sum(f, S) \in Int
BY DEF Sum

\* Rounding up to the billing minute gives a number of seconds.
LEMMA RoundUpIsNat == ASSUME NEW s \in Nat PROVE RoundUp(s) \in Nat
<1>. DEFINE q == (s + Minute - 1) \div Minute
<1>1. Minute \in Nat \ {0}
  BY BooksAssumption
<1>2. s + Minute - 1 \in Nat
  BY <1>1
<1>3. q \in Nat
  BY <1>1, <1>2
<1>4. \A a, b \in Nat : a * b \in Nat
  OBVIOUS
<1>. QED
  BY <1>1, <1>3, <1>4 DEF RoundUp

\* A loop over the packs takes a number of seconds from each.
LEMMA CountdownTakes ==
    ASSUME NEW n \in Nat, NEW left \in Countdown(n)
    PROVE  /\ left \in [0..NumGrants -> 0..n]
           /\ left[NumGrants] \in 0..n
           /\ \A g \in Grants : left[g - 1] \in 0..n /\ left[g] \in 0..left[g - 1]
           /\ \A g \in Grants : Taken(left, g) \in Nat
<1>1. NumGrants \in Nat
  BY BooksAssumption
<1>2. left \in [0..NumGrants -> 0..n] /\ \A g \in Grants : left[g] <= left[g - 1]
  BY DEF Countdown
<1>3. \A g \in Grants : g \in 0..NumGrants /\ g - 1 \in 0..NumGrants
  BY <1>1 DEF Grants
<1>4. NumGrants \in 0..NumGrants
  BY <1>1
<1>5. \A g \in Grants : left[g - 1] \in 0..n /\ left[g] \in 0..left[g - 1]
  BY <1>2, <1>3
<1>. QED
  BY <1>2, <1>4, <1>5 DEF Taken

\* The weight that applies is a weight.
LEMMA EffectiveIsWeight ==
    ASSUME NEW raw \in Nat \ {0}, NEW billable \in Nat
    PROVE  Effective(raw, billable) \in Nat \ {0}
BY BooksAssumption DEF Effective, least

\* A call is measured at no more than it holds.
LEMMA BillableIsHeld ==
    ASSUME NEW r \in Reservation, NEW s \in Settlement, NEW elapsed \in Nat
    PROVE  Billable(r, s, elapsed) \in 0..(r.included + r.bonus)
<1>1. MaxGrant \in Nat
  BY GrantLimitsAssumption
<1>2. r.included \in Nat /\ r.bonus \in Nat
  BY <1>1 DEF Reservation
<1>3. RoundUp(elapsed) \in Nat
  BY RoundUpIsNat
<1>4. CASE s.carrier = NotReported
  BY <1>2, <1>3, <1>4 DEF Billable, least
<1>5. CASE s.carrier # NotReported
  <2>1. s.carrier \in Nat
    BY <1>5 DEF Settlement
  <2>2. RoundUp(s.carrier) \in Nat
    BY <2>1, RoundUpIsNat
  <2>. QED
    BY <1>2, <1>3, <1>5, <2>2 DEF Billable, least
<1>. QED
  BY <1>4, <1>5

-----------------------------------------------------------------------------
(* Types. *)

\* The empty tables have the columns and ranges they declare.
LEMMA InitTypeOK == Init => TypeOK
BY GrantLimitsAssumption, BooksAssumption
   DEF Init, TypeOK, Reservation, Settlement, Reserving, NoReservation, NoSettlement,
       NoReserve, NoReconcile, NotReported

\* A change of a period's counter by whole seconds.
LEMMA CommittedType ==
    ASSUME TypeOK, NEW p, NEW n \in Int
    PROVE  Committed(p, n) \in [Periods -> [row: BOOLEAN, committed: Int]]
<1>1. usage \in [Periods -> [row: BOOLEAN, committed: Int]]
  BY DEF TypeOK
<1>2. ASSUME p \in Periods
      PROVE  [usage[p] EXCEPT !.committed = @ + n] \in [row: BOOLEAN, committed: Int]
  BY <1>1, <1>2
<1>. QED
  BY <1>1, <1>2 DEF Committed

\* Every statement of voice_reserve_for_call keeps the types; what it takes from
\* each pack is a number of seconds and its grant is at most p_max_grant_seconds.
LEMMA ReserveTypeOK == TypeOK /\ Reserve => TypeOK'
<1>. SUFFICES ASSUME TypeOK, Reserve PROVE TypeOK'
  OBVIOUS
<1>. USE GrantLimitsAssumption
<1>1. ASSUME NEW c \in Calls, NEW p \in Periods, ReserveBegin(c, p) PROVE TypeOK'
  <2>1. reserving \in Reserving /\ usage[p].committed \in Int
    BY DEF TypeOK
  <2>2. reserving' \in Reserving
    BY <1>1, <2>1 DEF ReserveBegin, Reserving
  <2>3. usage' \in [Periods -> [row: BOOLEAN, committed: Int]]
    <3>1. usage \in [Periods -> [row: BOOLEAN, committed: Int]]
      BY DEF TypeOK
    <3>2. [usage[p] EXCEPT !.row = TRUE] \in [row: BOOLEAN, committed: Int]
      BY <3>1
    <3>. QED
      BY <1>1, <3>1, <3>2 DEF ReserveBegin
  <2>. QED
    BY <1>1, <2>2, <2>3 DEF TypeOK, ReserveBegin
<1>2. CASE ReserveReadHeld
  <2>1. HeldIncluded(reserving.period) \in Int
    BY SumIsInt DEF HeldIncluded
  <2>. QED
    BY <1>2, <2>1 DEF TypeOK, ReserveReadHeld, Reserving
<1>3. CASE ReserveCount
  <2>0. MaxGrant \in Nat /\ 0 \in 0..MaxGrant
    BY GrantLimitsAssumption
  <2>1. Remaining \in Int
    BY BooksAssumption DEF Remaining, TypeOK, Reserving
  <2>2. FromIncluded \in 0..MaxGrant
    BY <2>0, <2>1 DEF FromIncluded, least, greatest
  <2>3. NoReserve \in Reserving
    BY <2>0 DEF NoReserve, Reserving
  <2>4. ASSUME NEW n \in 0..MaxGrant
        PROVE  [reserving EXCEPT !.at = "pool", !.included = n] \in Reserving
    BY DEF TypeOK, Reserving
  <2>5. reserving' \in Reserving
    BY <1>3, <2>2, <2>3, <2>4 DEF ReserveCount
  <2>. QED
    BY <1>3, <2>5 DEF TypeOK, ReserveCount
<1>4. CASE ReserveReadPool
  <2>1. Pool \in Int
    BY SumIsInt DEF Pool
  <2>. QED
    BY <1>4, <2>1 DEF TypeOK, ReserveReadPool, Reserving
<1>5. CASE ReserveReadBonus
  <2>. DEFINE bonus == least(MaxGrant - reserving.included,
                             greatest(0, reserving.pool - HeldBonus))
  <2>0. MaxGrant \in Nat /\ 0 \in 0..MaxGrant
    BY GrantLimitsAssumption
  <2>1. HeldBonus \in Int
    BY SumIsInt DEF HeldBonus
  <2>2. bonus \in 0..MaxGrant
    BY <2>0, <2>1 DEF least, greatest, TypeOK, Reserving
  <2>3. reserving' = IF reserving.included + bonus < MinGrant
                     THEN NoReserve
                     ELSE [reserving EXCEPT !.at = "insert", !.bonus = bonus]
    BY <1>5 DEF ReserveReadBonus
  <2>. HIDE DEF bonus
  <2>4. NoReserve \in Reserving
    BY <2>0 DEF NoReserve, Reserving
  <2>5. [reserving EXCEPT !.at = "insert", !.bonus = bonus] \in Reserving
    BY <2>2 DEF TypeOK, Reserving
  <2>6. reserving' \in Reserving
    BY <2>3, <2>4, <2>5
  <2>. QED
    BY <1>5, <2>6 DEF TypeOK, ReserveReadBonus
<1>6. CASE ReserveInsert
  <2>1. reserving.bonus \in Nat
    BY GrantLimitsAssumption DEF TypeOK, Reserving
  <2>2. PICK left \in Countdown(reserving.bonus) :
          reservation' =
             IF left[NumGrants] > 0
             THEN reservation
             ELSE [reservation EXCEPT ![reserving.call] =
                     [state |-> "pending_answer", period |-> reserving.period,
                      included |-> reserving.included, bonus |-> reserving.bonus,
                      allocation |-> [g \in Grants |-> Taken(left, g)],
                      answered |-> FALSE, attached |-> FALSE]]
    BY <1>6 DEF ReserveInsert
  <2>3. [g \in Grants |-> Taken(left, g)] \in [Grants -> Nat]
    BY <2>1, CountdownTakes
  <2>4. reservation' \in [Calls -> Reservation]
    BY <2>2, <2>3 DEF TypeOK, Reserving, Reservation
  <2>5. reserving' \in Reserving
    BY <1>6 DEF ReserveInsert, NoReserve, Reserving
  <2>. QED
    BY <1>6, <2>4, <2>5 DEF TypeOK, ReserveInsert
<1>. QED
  BY <1>1, <1>2, <1>3, <1>4, <1>5, <1>6 DEF Reserve

\* The two loops of a settlement leave no pack below zero.
LEMMA PacksStayNonNegative ==
    ASSUME TypeOK, NEW c \in Calls, NEW n \in Nat,
           NEW own \in Countdown(n), FromAllocations(c, own),
           NEW rest \in Countdown(own[NumGrants]), FromAnyPack(own, rest),
           NEW g \in Grants
    PROVE  grant[g].remaining - Taken(own, g) - Taken(rest, g) \in Nat
<1>1. own[NumGrants] \in Nat
  BY CountdownTakes
<1>2. own[g - 1] \in Nat /\ own[g] \in Nat /\ Taken(own, g) \in Nat
  BY CountdownTakes
<1>3. rest[g - 1] \in Nat /\ rest[g] \in Nat /\ Taken(rest, g) \in Nat
  BY <1>1, CountdownTakes
<1>4. grant[g].remaining \in Nat /\ reservation[c].allocation[g] \in Nat
  BY DEF TypeOK, Reservation
<1>5. Taken(own, g) <= grant[g].remaining
  BY <1>2, <1>4 DEF FromAllocations, Taken, least
<1>6. Taken(rest, g) <= grant[g].remaining - Taken(own, g)
  BY <1>2, <1>3, <1>4, <1>5 DEF FromAnyPack, Taken, least
<1>. QED
  BY <1>2, <1>3, <1>4, <1>5, <1>6

\* A final row of the call's settlement, charged at most the hold.
BilledRow(c, s) ==
    \E billable \in 0..(reservation[c].included + reservation[c].bonus),
       weighted \in Nat, weight \in Nat \ {0} :
          settlement' = [settlement EXCEPT ![c] =
             [s EXCEPT !.state = "final", !.billable = billable,
                       !.weighted = weighted, !.weight = weight]]

\* What a billed settlement writes: the call is charged at most its hold, and
\* the books keep their types.
LEMMA SettleBilledWrites ==
    ASSUME TypeOK, NEW c \in Calls, NEW s \in Settlement, NEW elapsed \in Nat,
           SettleBilled(c, s, elapsed)
    PROVE  /\ BilledRow(c, s)
           /\ usage' \in [Periods -> [row: BOOLEAN, committed: Int]]
           /\ grant' \in [Grants -> [state: {"none", "live", "voided"}, purchased: Nat,
                                     remaining: Nat, clawed: Nat]]
           /\ MarkSettled(c)
<1>. DEFINE r == reservation[c]
            measured == Billable(r, s, elapsed)
            included == least(measured, r.included)
            bonus == least(measured - included, r.bonus)
<1>1. r \in Reservation /\ r.included \in Nat /\ r.bonus \in Nat
  BY GrantLimitsAssumption DEF TypeOK, Reservation
<1>2. measured \in 0..(r.included + r.bonus)
  BY <1>1, BillableIsHeld
<1>3. included \in Nat /\ bonus \in Nat /\ included + bonus = measured
  BY <1>1, <1>2 DEF least
<1>4. PICK own \in Countdown(bonus) :
        /\ FromAllocations(c, own)
        /\ \E rest \in Countdown(own[NumGrants]) :
            /\ FromAnyPack(own, rest)
            /\ LET billable == measured - Unpaid(rest)
                   weight == Effective(s.weight, billable)
                   weighted == billable * weight
               IN  /\ usage' = Committed(r.period,
                                   included + greatest(weighted - billable, 0))
                   /\ settlement' = [settlement EXCEPT ![c] =
                          [s EXCEPT !.state = "final", !.billable = billable,
                                    !.weighted = weighted, !.weight = weight]]
            /\ grant' = [g \in Grants |->
                   [grant[g] EXCEPT !.remaining = @ - Taken(own, g) - Taken(rest, g)]]
  BY DEF SettleBilled
<1>5. PICK rest \in Countdown(own[NumGrants]) :
        /\ FromAnyPack(own, rest)
        /\ LET billable == measured - Unpaid(rest)
               weight == Effective(s.weight, billable)
               weighted == billable * weight
           IN  /\ usage' = Committed(r.period,
                               included + greatest(weighted - billable, 0))
               /\ settlement' = [settlement EXCEPT ![c] =
                      [s EXCEPT !.state = "final", !.billable = billable,
                                !.weighted = weighted, !.weight = weight]]
        /\ grant' = [g \in Grants |->
               [grant[g] EXCEPT !.remaining = @ - Taken(own, g) - Taken(rest, g)]]
  BY <1>4
<1>. HIDE DEF measured, included, bonus
<1>. DEFINE billable == measured - Unpaid(rest)
            weight == Effective(s.weight, billable)
            weighted == billable * weight
<1>6. own[NumGrants] \in 0..bonus
  BY <1>3, CountdownTakes
<1>7. Unpaid(rest) \in 0..bonus
  <2>1. own[NumGrants] \in Nat
    BY <1>3, <1>6
  <2>2. rest[NumGrants] \in 0..own[NumGrants]
    BY <2>1, CountdownTakes
  <2>. QED
    BY <1>3, <1>6, <2>1, <2>2 DEF Unpaid
<1>8. billable \in 0..(r.included + r.bonus) /\ billable \in Nat
  BY <1>1, <1>2, <1>3, <1>7
<1>9. weight \in Nat \ {0}
  BY <1>8, EffectiveIsWeight DEF Settlement
<1>10. weighted \in Nat
  <2>1. \A a, b \in Nat : a * b \in Nat
    OBVIOUS
  <2>. QED
    BY <1>8, <1>9, <2>1
<1>11. usage' = Committed(r.period, included + greatest(weighted - billable, 0))
  BY <1>5
<1>12. settlement' = [settlement EXCEPT ![c] =
                        [s EXCEPT !.state = "final", !.billable = billable,
                                  !.weighted = weighted, !.weight = weight]]
  BY <1>5
<1>. HIDE DEF billable, weight, weighted
<1>13. usage' \in [Periods -> [row: BOOLEAN, committed: Int]]
  <2>1. included + greatest(weighted - billable, 0) \in Int
    BY <1>3, <1>8, <1>10 DEF greatest
  <2>. QED
    BY <1>11, <2>1, CommittedType
<1>14. grant' \in [Grants -> [state: {"none", "live", "voided"}, purchased: Nat,
                              remaining: Nat, clawed: Nat]]
  <2>1. \A g \in Grants : grant[g].remaining - Taken(own, g) - Taken(rest, g) \in Nat
    BY <1>3, <1>4, <1>5, PacksStayNonNegative
  <2>2. grant \in [Grants -> [state: {"none", "live", "voided"}, purchased: Nat,
                              remaining: Nat, clawed: Nat]]
    BY DEF TypeOK
  <2>. QED
    BY <1>5, <2>1, <2>2
<1>15. MarkSettled(c)
  BY DEF SettleBilled
<1>16. BilledRow(c, s)
  BY <1>8, <1>9, <1>10, <1>12 DEF BilledRow
<1>. QED
  BY <1>13, <1>14, <1>15, <1>16

\* The settlement row a billed settlement leaves: final, charged at most the hold.
LEMMA SettleBilledRow ==
    ASSUME TypeOK, NEW c \in Calls, NEW s \in Settlement, NEW elapsed \in Durations,
           SettleBilled(c, s, elapsed)
    PROVE  \E t \in Settlement :
              /\ t.state = "final"
              /\ t.billable \in 0..(reservation[c].included + reservation[c].bonus)
              /\ settlement' = [settlement EXCEPT ![c] = t]
<1>1. elapsed \in Nat
  BY BooksAssumption
<1>2. BilledRow(c, s)
  BY <1>1, SettleBilledWrites
<1>3. PICK billable \in 0..(reservation[c].included + reservation[c].bonus),
           weighted \in Nat, weight \in Nat \ {0} :
             settlement' = [settlement EXCEPT ![c] =
                [s EXCEPT !.state = "final", !.billable = billable,
                          !.weighted = weighted, !.weight = weight]]
  BY <1>2 DEF BilledRow
<1>. DEFINE t == [s EXCEPT !.state = "final", !.billable = billable,
                           !.weighted = weighted, !.weight = weight]
<1>4. billable \in Nat
  BY GrantLimitsAssumption DEF TypeOK, Reservation
<1>5. t \in Settlement /\ t.state = "final" /\ t.billable = billable
  BY <1>4 DEF Settlement
<1>6. settlement' = [settlement EXCEPT ![c] = t]
  BY <1>3
<1>. HIDE DEF t
<1>. QED
  BY <1>5, <1>6

\* A call moves to another state, or is answered or attached, and its row
\* keeps its columns.
LEMMA ReservationUpdates ==
    ASSUME TypeOK, NEW c \in Calls,
           NEW x \in {"none", "pending_answer", "active", "released", "settled"}
    PROVE  /\ [reservation EXCEPT ![c].state = x] \in [Calls -> Reservation]
           /\ [reservation EXCEPT ![c].attached = TRUE] \in [Calls -> Reservation]
           /\ [reservation EXCEPT ![c].state = x, ![c].answered = TRUE]
                \in [Calls -> Reservation]
           /\ [reservation EXCEPT ![c].state = x, ![c].answered = TRUE,
                                  ![c].attached = TRUE] \in [Calls -> Reservation]
<1>. DEFINE r == reservation[c]
<1>1. reservation \in [Calls -> Reservation] /\ r \in Reservation
  BY DEF TypeOK
<1>2. [r EXCEPT !.state = x] \in Reservation
  BY <1>1 DEF Reservation
<1>3. [r EXCEPT !.attached = TRUE] \in Reservation
  BY <1>1 DEF Reservation
<1>4. [r EXCEPT !.state = x, !.answered = TRUE] \in Reservation
  BY <1>1 DEF Reservation
<1>5. [r EXCEPT !.state = x, !.answered = TRUE, !.attached = TRUE] \in Reservation
  BY <1>1 DEF Reservation
<1>6. [reservation EXCEPT ![c] = [r EXCEPT !.state = x]] \in [Calls -> Reservation]
  BY <1>1, <1>2
<1>7. [reservation EXCEPT ![c] = [r EXCEPT !.attached = TRUE]] \in [Calls -> Reservation]
  BY <1>1, <1>3
<1>8. [reservation EXCEPT ![c] = [r EXCEPT !.state = x, !.answered = TRUE]]
        \in [Calls -> Reservation]
  BY <1>1, <1>4
<1>9. [reservation EXCEPT ![c] = [r EXCEPT !.state = x, !.answered = TRUE,
                                           !.attached = TRUE]] \in [Calls -> Reservation]
  BY <1>1, <1>5
<1>. QED
  BY <1>1, <1>6, <1>7, <1>8, <1>9

\* The rows voice_try_finalize_settlement may write keep their types.
LEMMA TryFinalizeTypes ==
    ASSUME TypeOK, NEW c \in Calls, NEW s \in Settlement, NEW oneSided,
           TryFinalize(c, s, oneSided)
    PROVE  /\ reservation' \in [Calls -> Reservation]
           /\ settlement' \in [Calls -> Settlement]
           /\ usage' \in [Periods -> [row: BOOLEAN, committed: Int]]
           /\ grant' \in [Grants -> [state: {"none", "live", "voided"}, purchased: Nat,
                                     remaining: Nat, clawed: Nat]]
<1>1. ASSUME MarkSettled(c) PROVE reservation' \in [Calls -> Reservation]
  BY <1>1, ReservationUpdates DEF MarkSettled, TypeOK
<1>2. [s EXCEPT !.state = "final", !.billable = 0, !.weighted = 0] \in Settlement
  BY DEF Settlement
<1>3. CASE Refuse(c, s, oneSided)
  BY <1>3 DEF Refuse, TypeOK
<1>4. CASE CloseNeverAnswered(c, s)
  BY <1>2, <1>4 DEF CloseNeverAnswered, TypeOK
<1>5. CASE SettleAtZero(c, s)
  BY <1>1, <1>2, <1>5 DEF SettleAtZero, TypeOK
<1>6. ASSUME NEW elapsed \in Durations, SettleBilled(c, s, elapsed)
      PROVE  /\ reservation' \in [Calls -> Reservation]
             /\ settlement' \in [Calls -> Settlement]
             /\ usage' \in [Periods -> [row: BOOLEAN, committed: Int]]
             /\ grant' \in [Grants -> [state: {"none", "live", "voided"}, purchased: Nat,
                                       remaining: Nat, clawed: Nat]]
  <2>1. elapsed \in Nat
    BY BooksAssumption
  <2>2. settlement' \in [Calls -> Settlement]
    BY <1>6, SettleBilledRow DEF TypeOK
  <2>. QED
    BY <1>1, <1>6, <2>1, <2>2, SettleBilledWrites
<1>. QED
  BY <1>3, <1>4, <1>5, <1>6 DEF TryFinalize

\* The settlement row a bridge end writes before it tries to finalize.
LEMMA WithBridgeEndType ==
    ASSUME TypeOK, NEW c \in Calls PROVE WithBridgeEnd(c) \in Settlement
<1>1. settlement[c] \in Settlement
  BY DEF TypeOK
<1>2. Opened(settlement[c]) \in {"open", "final"}
  BY <1>1 DEF Opened, Settlement
<1>. QED
  BY <1>1, <1>2 DEF WithBridgeEnd, Settlement

\* Every function that works on one call writes rows of their tables' types.
LEMMA CallStepTypeOK ==
    ASSUME TypeOK, NEW c \in Calls, CallStep(c) PROVE TypeOK'
<1>1. CASE MarkAnswerIssued(c)
  BY <1>1, ReservationUpdates DEF TypeOK, MarkAnswerIssued
<1>2. CASE OpenSession(c)
  BY <1>2 DEF TypeOK, OpenSession
<1>3. CASE AttachWs(c)
  BY <1>3, ReservationUpdates DEF TypeOK, AttachWs
<1>4. CASE AttachWsDirectly(c)
  BY <1>4, ReservationUpdates DEF TypeOK, AttachWsDirectly
<1>5. CASE EndSession(c)
  BY <1>5 DEF TypeOK, EndSession
<1>6. CASE Release(c)
  BY <1>6, ReservationUpdates DEF TypeOK, Release
<1>7. ASSUME NEW d \in CarrierReports \cup {NotReported}, NEW w \in Weights \cup {0},
             TelnyxHangup(c, d, w)
      PROVE  TypeOK'
  <2>1. d \in Nat \cup {NotReported} /\ (w \in Weights => w \in Nat \ {0})
    BY BooksAssumption
  <2>2. settlement[c] \in Settlement /\ settlement \in [Calls -> Settlement]
    BY DEF TypeOK
  <2>. DEFINE Row(x) == [settlement[c] EXCEPT
                !.state = Opened(settlement[c]), !.telnyx = TRUE, !.carrier = x,
                !.weight = IF w \in Weights THEN w ELSE @]
  <2>3. \A x \in Nat \cup {NotReported} : Row(x) \in Settlement
    BY <2>1, <2>2 DEF Opened, Settlement
  <2>4. PICK x \in Nat \cup {NotReported} : settlement' = [settlement EXCEPT ![c] = Row(x)]
    <3>1. PICK seen \in {settlement[c].carrier, NotReported} :
            settlement' = [settlement EXCEPT
                ![c].state = Opened(settlement[c]),
                ![c].telnyx = TRUE,
                ![c].carrier = IF d = NotReported THEN @
                               ELSE IF seen = NotReported THEN d
                               ELSE least(seen, d),
                ![c].weight = IF w \in Weights THEN w ELSE @]
      BY <1>7 DEF TelnyxHangup
    <3>. DEFINE x == IF d = NotReported THEN settlement[c].carrier
                     ELSE IF seen = NotReported THEN d
                     ELSE least(seen, d)
    <3>2. x \in Nat \cup {NotReported}
      BY <2>1, <2>2, <3>1 DEF least, Settlement, NotReported
    <3>3. settlement' = [settlement EXCEPT ![c] = Row(x)]
      BY <2>2, <3>1
    <3>. QED
      BY <3>2, <3>3
  <2>5. settlement' \in [Calls -> Settlement]
    BY <2>2, <2>3, <2>4
  <2>. QED
    BY <1>7, <2>5 DEF TypeOK, TelnyxHangup
<1>8. ASSUME NEW s \in Settlement, NEW oneSided, TryFinalize(c, s, oneSided),
             session' \in [Calls -> {"none", "open", "ended"}],
             UNCHANGED <<meter, clock, reserving, reconciling>>
      PROVE  TypeOK'
  BY <1>8, TryFinalizeTypes DEF TypeOK
<1>9. settlement[c] \in Settlement /\ session \in [Calls -> {"none", "open", "ended"}]
  BY DEF TypeOK
<1>10. CASE FinalizeAfterHangup(c)
  BY <1>8, <1>9, <1>10 DEF FinalizeAfterHangup
<1>11. CASE RecordBridgeMediaEnd(c)
  BY <1>8, <1>9, <1>11, WithBridgeEndType DEF RecordBridgeMediaEnd
<1>12. CASE SweepStaleSettlement(c)
  BY <1>8, <1>9, <1>12 DEF SweepStaleSettlement
<1>13. CASE SweepZombieSession(c)
  <2>1. session' \in [Calls -> {"none", "open", "ended"}]
    BY <1>9, <1>13 DEF SweepZombieSession
  <2>. QED
    BY <1>8, <1>13, <2>1, WithBridgeEndType DEF SweepZombieSession
<1>14. CASE DropSilentSession(c)
  BY <1>14 DEF TypeOK, DropSilentSession
<1>15. CASE ReapSession(c)
  BY <1>15 DEF TypeOK, ReapSession
<1>16. ASSUME NEW w \in Weights, ApplySettlementLrn(c, w) PROVE TypeOK'
  <2>1. w \in Nat \ {0}
    BY BooksAssumption
  <2>2. settlement \in [Calls -> Settlement] /\ settlement[c].billable \in Nat
        /\ settlement[c].weighted \in Nat
    BY DEF TypeOK, Settlement
  <2>. DEFINE weight == Effective(w, settlement[c].billable)
              weighted == settlement[c].billable * weight
  <2>3. weight \in Nat \ {0}
    BY <2>1, <2>2, EffectiveIsWeight
  <2>4. weighted \in Nat
    <3>1. \A a, b \in Nat : a * b \in Nat
      OBVIOUS
    <3>. QED
      BY <2>2, <2>3, <3>1
  <2>5. \/ settlement' = [settlement EXCEPT ![c].weight = w]
        \/ settlement' = [settlement EXCEPT ![c].weight = weight, ![c].weighted = weighted]
    BY <1>16 DEF ApplySettlementLrn
  <2>6. usage' = usage \/ usage' = Committed(reservation[c].period,
                                             weighted - settlement[c].weighted)
    BY <1>16 DEF ApplySettlementLrn
  <2>. HIDE DEF weight, weighted
  <2>7. settlement' \in [Calls -> Settlement]
    BY <2>1, <2>2, <2>3, <2>4, <2>5 DEF Settlement
  <2>8. usage' \in [Periods -> [row: BOOLEAN, committed: Int]]
    <3>1. weighted - settlement[c].weighted \in Int
      BY <2>2, <2>4
    <3>. QED
      BY <2>6, <3>1, CommittedType DEF TypeOK
  <2>. QED
    BY <1>16, <2>7, <2>8 DEF TypeOK, ApplySettlementLrn
<1>. QED
  BY <1>1, <1>2, <1>3, <1>4, <1>5, <1>6, <1>7, <1>10, <1>11, <1>12, <1>13, <1>14,
     <1>15, <1>16 DEF CallStep, ReleaseOnAnswerFail, SweepStaleReservation

\* The three steps of voice_reconcile_period_usage_row keep every type.
LEMMA ReconcileTypeOK == TypeOK /\ Reconcile => TypeOK'
<1>. SUFFICES ASSUME TypeOK, Reconcile PROVE TypeOK'
  OBVIOUS
<1>1. ASSUME NEW p \in Periods, ReconcileLock(p) PROVE TypeOK'
  BY <1>1 DEF TypeOK, ReconcileLock
<1>2. CASE ReconcileSum
  <2>1. Ledger(reconciling.period) \in Int
    BY SumIsInt DEF Ledger
  <2>. QED
    BY <1>2, <2>1 DEF TypeOK, ReconcileSum
<1>3. CASE ReconcileWrite
  <2>1. ASSUME NEW p \in Periods, NEW n \in Int
        PROVE  [usage[p] EXCEPT !.committed = n] \in [row: BOOLEAN, committed: Int]
    BY DEF TypeOK
  <2>2. usage' \in [Periods -> [row: BOOLEAN, committed: Int]]
    BY <1>3, <2>1 DEF TypeOK, ReconcileWrite
  <2>3. NoReconcile \in [at: {"idle", "sum", "write"}, period: Periods \cup {NoPeriod},
                         expected: Int]
    BY DEF NoReconcile
  <2>. QED
    BY <1>3, <2>2, <2>3 DEF TypeOK, ReconcileWrite
<1>. QED
  BY <1>1, <1>2, <1>3 DEF Reconcile

\* voice_meter_forwarded_call writes a leg and a counter of their types.
LEMMA MeterTypeOK ==
    ASSUME TypeOK, NEW l \in Legs, NEW p \in Periods, NEW n \in Durations,
           MeterForwardedCall(l, p, n)
    PROVE  TypeOK'
<1>1. n \in Nat /\ RoundUp(n) \in Nat
  BY BooksAssumption, RoundUpIsNat
<1>2. usage \in [Periods -> [row: BOOLEAN, committed: Int]]
      /\ meter \in [Legs -> [period: Periods \cup {NoPeriod}, seconds: Nat]]
  BY DEF TypeOK
<1>3. [row |-> TRUE, committed |-> usage[p].committed + RoundUp(n)]
        \in [row: BOOLEAN, committed: Int]
  BY <1>1, <1>2
<1>4. usage' \in [Periods -> [row: BOOLEAN, committed: Int]]
  BY <1>2, <1>3, n = 0 \/ n # 0 DEF MeterForwardedCall
<1>5. meter' \in [Legs -> [period: Periods \cup {NoPeriod}, seconds: Nat]]
  BY <1>1, <1>2 DEF MeterForwardedCall
<1>. QED
  BY <1>4, <1>5 DEF TypeOK, MeterForwardedCall

\* Buying and refunding a pack leave no pack below zero.
LEMMA PackStepTypeOK ==
    ASSUME TypeOK, NEW g \in Grants, PackStep(g) PROVE TypeOK'
<1>. DEFINE Grant == [state: {"none", "live", "voided"}, purchased: Nat,
                      remaining: Nat, clawed: Nat]
<1>1. grant \in [Grants -> Grant] /\ grant[g] \in Grant
  BY DEF TypeOK
<1>2. ASSUME NEW n \in PackSeconds, BuyPack(g, n) PROVE TypeOK'
  <2>1. n \in Nat
    BY BooksAssumption
  <2>2. grant' \in [Grants -> Grant]
    BY <1>1, <1>2, <2>1 DEF BuyPack
  <2>. QED
    BY <1>2, <2>2 DEF TypeOK, BuyPack
<1>3. ASSUME NEW n \in 1..grant[g].purchased, VoidPack(g, n) PROVE TypeOK'
  <2>. DEFINE claw == least(n, grant[g].remaining)
              row == [grant[g] EXCEPT
                        !.state = IF n >= grant[g].remaining THEN "voided" ELSE @,
                        !.remaining = @ - claw,
                        !.clawed = @ + claw]
  <2>1. n \in Nat
    BY <1>1
  <2>2. grant[g].remaining - claw \in Nat /\ grant[g].clawed + claw \in Nat
    BY <1>1, <2>1 DEF least
  <2>3. grant' = [grant EXCEPT ![g] = row]
    BY <1>1, <1>3 DEF VoidPack
  <2>. HIDE DEF claw
  <2>4. row \in Grant
    BY <1>1, <2>2
  <2>5. grant' \in [Grants -> Grant]
    BY <1>1, <2>3, <2>4
  <2>. QED
    BY <1>3, <2>5 DEF TypeOK, VoidPack
<1>. QED
  BY <1>2, <1>3 DEF PackStep

\* Every step keeps the columns and the ranges of every row.
LEMMA NextTypeOK == TypeOK /\ [Next]_vars => TypeOK'
<1>. SUFFICES ASSUME TypeOK, [Next]_vars PROVE TypeOK'
  OBVIOUS
<1>1. CASE ExpirePack
  BY <1>1, BooksAssumption DEF TypeOK, ExpirePack
<1>2. CASE UNCHANGED vars
  BY <1>2 DEF TypeOK, vars
<1>. QED
  BY <1>1, <1>2, ReserveTypeOK, CallStepTypeOK, ReconcileTypeOK, MeterTypeOK,
     PackStepTypeOK DEF Next

\* Every row keeps the columns and the ranges its table declares, for every
\* number of calls, packs and periods: no pack is ever debited below zero and
\* no grant exceeds p_max_grant_seconds.
THEOREM TypeCorrect == Spec => []TypeOK
BY InitTypeOK, NextTypeOK, PTL DEF Spec

-----------------------------------------------------------------------------
(* The invariant that settlement and release never both happen.             *)

\* A call's reservation and its settlement tell one story: the settlement is
\* final once the hold has ended by settling, or was closed after a release;
\* until it is final nothing is billed; and never more than was held.
Matched(c) ==
    /\ settlement[c].state = "final" => reservation[c].state \in {"settled", "released"}
    /\ settlement[c].state # "final" =>
           settlement[c].billable = 0 /\ settlement[c].weighted = 0
    /\ reservation[c].state = "settled" => settlement[c].state = "final"
    /\ reservation[c].state = "released" =>
           settlement[c].billable = 0 /\ settlement[c].weighted = 0
    /\ settlement[c].billable <= reservation[c].included + reservation[c].bonus

\* What the running reserve has made sure of so far.
ReserveChecked ==
    /\ reserving.at # "idle" =>
           /\ reserving.call \in Calls
           /\ reservation[reserving.call].state = "none"
    /\ reserving.at \in {"pool", "bonus", "insert"} =>
           Cardinality(InFlight) < MaxConcurrent
    /\ reserving.at = "insert" =>
           reserving.included + reserving.bonus \in MinGrant..MaxGrant

IInv == /\ TypeOK
        /\ \A c \in Calls : Matched(c)
        /\ ReserveChecked

\* What one step on a call's row may do: leave its hold and its bill alone,
\* give the hold back, or charge at most the hold.
KeepsHold(c) == /\ HoldOf(c)' = HoldOf(c)
                /\ settlement'[c].billable = settlement[c].billable
ReturnsHold(c) == /\ HoldOf(c) = "held"
                  /\ HoldOf(c)' = "returned"
                  /\ settlement'[c].billable = settlement[c].billable
ChargesHold(c) == /\ HoldOf(c) = "held"
                  /\ HoldOf(c)' = "charged"
                  /\ settlement'[c].billable \in
                         0..(reservation[c].included + reservation[c].bonus)

SameSize(c) == /\ reservation'[c].included = reservation[c].included
               /\ reservation'[c].bonus = reservation[c].bonus

OthersUntouched(c) == \A d \in Calls \ {c} : /\ reservation'[d] = reservation[d]
                                             /\ settlement'[d] = settlement[d]

HoldStep(c) == /\ OthersUntouched(c)
               /\ SameSize(c)
               /\ Matched(c)'
               /\ KeepsHold(c) \/ ReturnsHold(c) \/ ChargesHold(c)

\* The five states of a reservation, as the four of a hold.
LEMMA HoldOfStates ==
    ASSUME TypeOK, NEW c \in Calls
    PROVE  /\ HoldOf(c) = "free" <=> reservation[c].state = "none"
           /\ HoldOf(c) = "held" <=> reservation[c].state \in InFlightStates
           /\ HoldOf(c) = "returned" <=> reservation[c].state = "released"
           /\ HoldOf(c) = "charged" <=> reservation[c].state = "settled"
           /\ HoldOf(c) \in {"free", "held", "returned", "charged"}
BY DEF TypeOK, Reservation, HoldOf, InFlightStates

\* voice_try_finalize_settlement ends the hold at most once and charges at
\* most what was held; a hold that was given back is charged nothing.
LEMMA TryFinalizeHold ==
    ASSUME IInv, TypeOK', NEW c \in Calls, NEW s \in Settlement, NEW oneSided,
           s.state = "final" <=> settlement[c].state = "final",
           s.billable = settlement[c].billable,
           s.weighted = settlement[c].weighted,
           TryFinalize(c, s, oneSided)
    PROVE  HoldStep(c)
<1>1. /\ reservation \in [Calls -> Reservation] /\ reservation[c] \in Reservation
      /\ settlement \in [Calls -> Settlement]
      /\ Matched(c)
  BY DEF IInv, TypeOK
<1>2. reservation[c].included \in Nat /\ reservation[c].bonus \in Nat
  BY <1>1, GrantLimitsAssumption DEF Reservation
<1>3. CASE Refuse(c, s, oneSided)
  <2>1. reservation' = reservation /\ settlement' = [settlement EXCEPT ![c] = s]
    BY <1>3 DEF Refuse
  <2>2. settlement'[c] = s
    BY <1>1, <2>1
  <2>3. Matched(c)'
    BY <1>1, <2>1, <2>2 DEF Matched
  <2>4. KeepsHold(c)
    BY <2>1, <2>2 DEF KeepsHold, HoldOf
  <2>. QED
    BY <1>1, <2>1, <2>3, <2>4 DEF HoldStep, OthersUntouched, SameSize
<1>4. CASE CloseNeverAnswered(c, s)
  <2>1. /\ reservation' = reservation
        /\ settlement' = [settlement EXCEPT ![c] =
                 [s EXCEPT !.state = "final", !.billable = 0, !.weighted = 0]]
        /\ reservation[c].state = "released"
    BY <1>4 DEF CloseNeverAnswered, NeverAnswered
  <2>2. settlement'[c].state = "final" /\ settlement'[c].billable = 0
        /\ settlement'[c].weighted = 0
    BY <1>1, <2>1 DEF Settlement
  <2>3. Matched(c)'
    BY <1>2, <2>1, <2>2 DEF Matched
  <2>4. settlement[c].billable = 0
    BY <1>1, <2>1 DEF Matched
  <2>5. KeepsHold(c)
    BY <2>1, <2>2, <2>4 DEF KeepsHold, HoldOf
  <2>. QED
    BY <1>1, <2>1, <2>3, <2>5 DEF HoldStep, OthersUntouched, SameSize
<1>5. ASSUME Chargeable(c, s, oneSided), MarkSettled(c),
             NEW t \in Settlement, t.state = "final",
             t.billable \in 0..(reservation[c].included + reservation[c].bonus),
             settlement' = [settlement EXCEPT ![c] = t]
      PROVE  HoldStep(c)
  <2>1. reservation[c].state \in InFlightStates
    BY <1>1, <1>5 DEF Chargeable, Matched, Reservation, InFlightStates
  <2>2. reservation' = [reservation EXCEPT ![c].state = "settled"]
    BY <1>5, <2>1 DEF MarkSettled, InFlight
  <2>3. reservation'[c].state = "settled" /\ SameSize(c)
    BY <1>1, <2>2 DEF Reservation, SameSize
  <2>4. settlement'[c] = t
    BY <1>1, <1>5
  <2>5. Matched(c)'
    BY <1>2, <1>5, <2>3, <2>4 DEF Matched, SameSize
  <2>6. HoldOf(c) = "held" /\ HoldOf(c)' = "charged"
    BY <2>1, <2>3 DEF HoldOf, InFlightStates
  <2>7. ChargesHold(c)
    BY <1>5, <2>4, <2>6 DEF ChargesHold
  <2>. QED
    BY <1>1, <1>5, <2>2, <2>3, <2>5, <2>7 DEF HoldStep, OthersUntouched, SameSize
<1>6. CASE Chargeable(c, s, oneSided) /\ SettleAtZero(c, s)
  <2>. DEFINE t == [s EXCEPT !.state = "final", !.billable = 0, !.weighted = 0]
  <2>1. t \in Settlement /\ t.state = "final" /\ t.billable = 0
    BY DEF Settlement
  <2>2. t.billable \in 0..(reservation[c].included + reservation[c].bonus)
    BY <1>2, <2>1
  <2>3. MarkSettled(c) /\ settlement' = [settlement EXCEPT ![c] = t]
    BY <1>6 DEF SettleAtZero
  <2>. HIDE DEF t
  <2>. QED
    BY <1>5, <1>6, <2>1, <2>2, <2>3
<1>7. ASSUME Chargeable(c, s, oneSided), NEW elapsed \in Durations,
             SettleBilled(c, s, elapsed)
      PROVE  HoldStep(c)
  <2>1. PICK t \in Settlement :
              /\ t.state = "final"
              /\ t.billable \in 0..(reservation[c].included + reservation[c].bonus)
              /\ settlement' = [settlement EXCEPT ![c] = t]
    BY <1>7, SettleBilledRow DEF IInv
  <2>2. elapsed \in Nat
    BY BooksAssumption
  <2>3. MarkSettled(c)
    BY <1>7, <2>2, SettleBilledWrites DEF IInv
  <2>. QED
    BY <1>5, <1>7, <2>1, <2>3
<1>. QED
  BY <1>3, <1>4, <1>6, <1>7 DEF TryFinalize

\* A step on a call that writes no settlement and moves its reservation between
\* the states in flight, or releases it, is a step of a hold.
LEMMA ReservationOnlyHold ==
    ASSUME IInv, NEW c \in Calls, OthersUntouched(c), SameSize(c),
           settlement' = settlement,
           \/ reservation'[c].state = reservation[c].state
           \/ /\ reservation[c].state \in InFlightStates
              /\ reservation'[c].state \in InFlightStates \cup {"released"}
    PROVE  HoldStep(c)
<1>1. Matched(c)
  BY DEF IInv
<1>2. Matched(c)'
  BY <1>1 DEF Matched, InFlightStates, SameSize
<1>3. KeepsHold(c) \/ ReturnsHold(c)
  BY DEF KeepsHold, ReturnsHold, HoldOf, InFlightStates
<1>. QED
  BY <1>2, <1>3 DEF HoldStep

\* A step on a call that leaves its reservation and what it is billed alone.
LEMMA SettlementOnlyHold ==
    ASSUME IInv, NEW c \in Calls, OthersUntouched(c),
           settlement'[c].state = "final" <=> settlement[c].state = "final",
           settlement'[c].billable = settlement[c].billable,
           \/ settlement'[c].weighted = settlement[c].weighted
           \/ /\ settlement[c].state = "final"
              /\ settlement[c].billable = 0 => settlement'[c].weighted = 0,
           reservation' = reservation
    PROVE  HoldStep(c)
<1>1. Matched(c)
  BY DEF IInv
<1>2. Matched(c)'
  BY <1>1 DEF Matched
<1>3. KeepsHold(c)
  BY DEF KeepsHold, HoldOf
<1>. QED
  BY <1>2, <1>3 DEF HoldStep, SameSize

\* Every function that works on one call steps its hold as VoiceHold allows.
LEMMA CallStepHold ==
    ASSUME IInv, NEW c \in Calls, CallStep(c) PROVE HoldStep(c)
<1>0. /\ TypeOK /\ TypeOK'
      /\ reservation \in [Calls -> Reservation] /\ reservation[c] \in Reservation
      /\ settlement \in [Calls -> Settlement] /\ settlement[c] \in Settlement
  BY CallStepTypeOK DEF IInv, TypeOK
<1>1. CASE UNCHANGED <<reservation, settlement>>
  <2>1. OthersUntouched(c) /\ SameSize(c)
    BY <1>1 DEF OthersUntouched, SameSize
  <2>. QED
    BY <1>1, <2>1, ReservationOnlyHold
<1>2. CASE MarkAnswerIssued(c)
  <2>1. OthersUntouched(c) /\ SameSize(c) /\ settlement' = settlement
    BY <1>0, <1>2 DEF MarkAnswerIssued, OthersUntouched, SameSize, Reservation
  <2>2. reservation[c].state \in InFlightStates /\ reservation'[c].state \in InFlightStates
    BY <1>0, <1>2 DEF MarkAnswerIssued, InFlightStates, Reservation
  <2>. QED
    BY <2>1, <2>2, ReservationOnlyHold
<1>3. CASE AttachWs(c)
  <2>1. OthersUntouched(c) /\ SameSize(c) /\ settlement' = settlement
    BY <1>0, <1>3 DEF AttachWs, OthersUntouched, SameSize, Reservation
  <2>2. reservation[c].state \in InFlightStates /\ reservation'[c].state \in InFlightStates
    BY <1>0, <1>3 DEF AttachWs, InFlightStates, Reservation
  <2>. QED
    BY <2>1, <2>2, ReservationOnlyHold
<1>4. CASE AttachWsDirectly(c)
  <2>1. OthersUntouched(c) /\ SameSize(c) /\ settlement' = settlement
    BY <1>0, <1>4 DEF AttachWsDirectly, OthersUntouched, SameSize, Reservation
  <2>2. reservation'[c].state = reservation[c].state
    BY <1>0, <1>4 DEF AttachWsDirectly, InFlightStates, Reservation
  <2>. QED
    BY <2>1, <2>2, ReservationOnlyHold
<1>5. ASSUME Release(c), reservation[c].state \in InFlightStates PROVE HoldStep(c)
  <2>1. OthersUntouched(c) /\ SameSize(c) /\ settlement' = settlement
    BY <1>0, <1>5 DEF Release, OthersUntouched, SameSize, Reservation
  <2>2. reservation'[c].state = "released"
    BY <1>0, <1>5 DEF Release, Reservation
  <2>. QED
    BY <1>5, <2>1, <2>2, ReservationOnlyHold
<1>6. CASE ReleaseOnAnswerFail(c)
  BY <1>5, <1>6 DEF ReleaseOnAnswerFail, InFlightStates
<1>7. CASE SweepStaleReservation(c)
  BY <1>5, <1>7 DEF SweepStaleReservation, InFlightStates
<1>8. ASSUME NEW d \in CarrierReports \cup {NotReported}, NEW w \in Weights \cup {0},
             TelnyxHangup(c, d, w)
      PROVE  HoldStep(c)
  <2>1. OthersUntouched(c) /\ reservation' = reservation
    BY <1>0, <1>8 DEF TelnyxHangup, OthersUntouched
  <2>2. /\ settlement'[c].state = Opened(settlement[c])
        /\ settlement'[c].billable = settlement[c].billable
        /\ settlement'[c].weighted = settlement[c].weighted
    BY <1>0, <1>8 DEF TelnyxHangup, Settlement
  <2>3. settlement'[c].state = "final" <=> settlement[c].state = "final"
    BY <2>2 DEF Opened
  <2>. QED
    BY <2>1, <2>2, <2>3, SettlementOnlyHold
<1>9. /\ WithBridgeEnd(c) \in Settlement
      /\ WithBridgeEnd(c).state = "final" <=> settlement[c].state = "final"
      /\ WithBridgeEnd(c).billable = settlement[c].billable
      /\ WithBridgeEnd(c).weighted = settlement[c].weighted
  BY <1>0, WithBridgeEndType DEF WithBridgeEnd, Opened, Settlement
<1>10. CASE FinalizeAfterHangup(c)
  BY <1>0, <1>10, TryFinalizeHold DEF FinalizeAfterHangup
<1>11. CASE RecordBridgeMediaEnd(c)
  BY <1>0, <1>9, <1>11, TryFinalizeHold DEF RecordBridgeMediaEnd
<1>12. CASE SweepStaleSettlement(c)
  BY <1>0, <1>12, TryFinalizeHold DEF SweepStaleSettlement
<1>13. CASE SweepZombieSession(c)
  BY <1>0, <1>9, <1>13, TryFinalizeHold DEF SweepZombieSession
<1>14. ASSUME NEW w \in Weights, ApplySettlementLrn(c, w) PROVE HoldStep(c)
  <2>1. settlement[c].billable \in Nat
    BY <1>0 DEF Settlement
  <2>. DEFINE weight == Effective(w, settlement[c].billable)
              weighted == settlement[c].billable * weight
  <2>2. weight \in Nat
    BY <2>1, BooksAssumption, EffectiveIsWeight
  <2>3. settlement[c].billable = 0 => weighted = 0
    <3>1. \A n \in Nat : 0 * n = 0
      OBVIOUS
    <3>. QED
      BY <2>2, <3>1
  <2>4. /\ reservation' = reservation
        /\ \/ settlement' = [settlement EXCEPT ![c].weight = w]
           \/ /\ settlement[c].state = "final"
              /\ settlement' = [settlement EXCEPT ![c].weight = weight,
                                                  ![c].weighted = weighted]
    BY <1>14 DEF ApplySettlementLrn
  <2>. HIDE DEF weighted, weight
  <2>5. OthersUntouched(c)
    BY <1>0, <2>4 DEF OthersUntouched
  <2>6. /\ settlement'[c].state = settlement[c].state
        /\ settlement'[c].billable = settlement[c].billable
        /\ \/ settlement'[c].weighted = settlement[c].weighted
           \/ settlement[c].state = "final" /\ settlement'[c].weighted = weighted
    BY <1>0, <2>4 DEF Settlement
  <2>. QED
    BY <2>3, <2>4, <2>5, <2>6, SettlementOnlyHold
<1>15. CASE \/ OpenSession(c) \/ EndSession(c) \/ DropSilentSession(c) \/ ReapSession(c)
  BY <1>1, <1>15 DEF OpenSession, EndSession, DropSilentSession, ReapSession
<1>. QED
  BY <1>2, <1>3, <1>4, <1>6, <1>7, <1>8, <1>10, <1>11, <1>12, <1>13, <1>14, <1>15
     DEF CallStep

\* ... and leaves the running reserve alone.
LEMMA CallStepReserving ==
    ASSUME NEW c \in Calls, CallStep(c) PROVE UNCHANGED reserving
BY DEF CallStep, MarkAnswerIssued, OpenSession, AttachWs, AttachWsDirectly, EndSession,
       ReleaseOnAnswerFail, SweepStaleReservation, Release, TelnyxHangup,
       FinalizeAfterHangup, RecordBridgeMediaEnd, SweepStaleSettlement,
       SweepZombieSession, DropSilentSession, ReapSession, ApplySettlementLrn

\* The inductive invariant holds of the empty tables.
LEMMA InitIInv == Init => IInv
<1>. SUFFICES ASSUME Init PROVE IInv
  OBVIOUS
<1>1. TypeOK
  BY InitTypeOK
<1>2. \A c \in Calls : Matched(c)
  BY DEF Init, Matched, NoReservation, NoSettlement
<1>3. ReserveChecked
  BY DEF Init, ReserveChecked, NoReserve
<1>. QED
  BY <1>1, <1>2, <1>3 DEF IInv

\* Fewer calls in flight are no more calls in flight.
LEMMA InFlightShrinks ==
    ASSUME NEW S, S \subseteq Calls, NEW T, T \subseteq S
    PROVE  Cardinality(T) \in Nat /\ Cardinality(S) \in Nat
           /\ Cardinality(T) <= Cardinality(S)
<1>1. IsFiniteSet(S)
  BY BooksAssumption, FS_Subset
<1>2. IsFiniteSet(T) /\ Cardinality(T) <= Cardinality(S)
  BY <1>1, FS_Subset
<1>. QED
  BY <1>1, <1>2, FS_CardinalityType

\* A step that touches neither the calls' rows nor the running reserve.
LEMMA BystanderIInv ==
    ASSUME IInv, TypeOK', UNCHANGED <<reservation, settlement, reserving>>
    PROVE  IInv'
<1>1. \A c \in Calls : Matched(c)'
  BY DEF IInv, Matched
<1>2. ReserveChecked'
  BY DEF IInv, ReserveChecked, InFlight
<1>. QED
  BY <1>1, <1>2 DEF IInv

\* Every function that works on one call keeps the inductive invariant.
LEMMA CallStepIInv ==
    ASSUME IInv, NEW c \in Calls, CallStep(c) PROVE IInv'
<1>1. TypeOK /\ TypeOK' /\ HoldStep(c) /\ reserving' = reserving
  BY CallStepTypeOK, CallStepHold, CallStepReserving DEF IInv
<1>2. \A d \in Calls : Matched(d)'
  <2>1. ASSUME NEW d \in Calls \ {c} PROVE Matched(d)'
    <3>1. reservation'[d] = reservation[d] /\ settlement'[d] = settlement[d]
      BY <1>1 DEF HoldStep, OthersUntouched
    <3>2. Matched(d)
      BY DEF IInv
    <3>. QED
      BY <3>1, <3>2 DEF Matched
  <2>. QED
    BY <1>1, <2>1 DEF HoldStep
<1>3. \/ HoldOf(c)' = HoldOf(c)
      \/ HoldOf(c) = "held" /\ HoldOf(c)' \in {"returned", "charged"}
  BY <1>1 DEF HoldStep, KeepsHold, ReturnsHold, ChargesHold
<1>4. /\ HoldOf(c) = "free" <=> reservation[c].state = "none"
      /\ HoldOf(c) = "held" <=> reservation[c].state \in InFlightStates
  BY <1>1, HoldOfStates
<1>5. /\ HoldOf(c)' = "free" <=> reservation'[c].state = "none"
      /\ HoldOf(c)' = "held" <=> reservation'[c].state \in InFlightStates
  BY <1>1 DEF TypeOK, Reservation, HoldOf, InFlightStates
<1>6. InFlight' \subseteq InFlight
  BY <1>1, <1>3, <1>4, <1>5 DEF HoldStep, OthersUntouched, InFlight
<1>7. \A d \in Calls : reservation[d].state = "none" => reservation'[d].state = "none"
  BY <1>1, <1>3, <1>4, <1>5 DEF HoldStep, OthersUntouched
<1>8. Cardinality(InFlight') \in Nat /\ Cardinality(InFlight) \in Nat
      /\ Cardinality(InFlight') <= Cardinality(InFlight)
  <2>1. InFlight \subseteq Calls
    BY DEF InFlight
  <2>. QED
    BY <1>6, <2>1, InFlightShrinks
<1>9. ReserveChecked'
  <2>1. ReserveChecked
    BY DEF IInv
  <2>2. MaxConcurrent \in Nat
    BY GrantLimitsAssumption
  <2>3. reserving.at \in {"pool", "bonus", "insert"} =>
            Cardinality(InFlight') < MaxConcurrent
    BY <1>8, <2>1, <2>2 DEF ReserveChecked
  <2>. QED
    BY <1>1, <1>7, <2>1, <2>3 DEF ReserveChecked
<1>. QED
  BY <1>1, <1>2, <1>9 DEF IInv

\* A reserve inserts its row on a call that had none, with room for one more.
LEMMA ReserveInsertRow ==
    ASSUME IInv, ReserveInsert
    PROVE  \/ reservation' = reservation
           \/ \E c \in Calls, r \in Reservation :
                 /\ reservation[c].state = "none"
                 /\ r.state = "pending_answer"
                 /\ r.included + r.bonus \in MinGrant..MaxGrant
                 /\ reservation' = [reservation EXCEPT ![c] = r]
<1>1. /\ reserving.call \in Calls
      /\ reservation[reserving.call].state = "none"
      /\ reserving.included + reserving.bonus \in MinGrant..MaxGrant
  BY DEF IInv, ReserveChecked, ReserveInsert
<1>2. reserving \in Reserving /\ reserving.bonus \in Nat
  BY GrantLimitsAssumption DEF IInv, TypeOK, Reserving
<1>3. PICK left \in Countdown(reserving.bonus) :
        reservation' =
           IF left[NumGrants] > 0
           THEN reservation
           ELSE [reservation EXCEPT ![reserving.call] =
                   [state |-> "pending_answer", period |-> reserving.period,
                    included |-> reserving.included, bonus |-> reserving.bonus,
                    allocation |-> [g \in Grants |-> Taken(left, g)],
                    answered |-> FALSE, attached |-> FALSE]]
  BY DEF ReserveInsert
<1>4. [g \in Grants |-> Taken(left, g)] \in [Grants -> Nat]
  BY <1>2, CountdownTakes
<1>. DEFINE r == [state |-> "pending_answer", period |-> reserving.period,
                  included |-> reserving.included, bonus |-> reserving.bonus,
                  allocation |-> [g \in Grants |-> Taken(left, g)],
                  answered |-> FALSE, attached |-> FALSE]
<1>5. r \in Reservation
  BY <1>2, <1>4 DEF Reservation, Reserving
<1>6. r.state = "pending_answer" /\ r.included + r.bonus \in MinGrant..MaxGrant
  BY <1>1
<1>7. reservation' = reservation
      \/ reservation' = [reservation EXCEPT ![reserving.call] = r]
  BY <1>3
<1>. HIDE DEF r
<1>. QED
  BY <1>1, <1>5, <1>6, <1>7

\* Every statement of voice_reserve_for_call keeps the inductive invariant: the
\* room it saw is still there when it inserts, as only it adds a call in flight.
LEMMA ReserveIInv == ASSUME IInv, Reserve PROVE IInv'
<1>1. TypeOK /\ TypeOK' /\ ReserveChecked /\ \A c \in Calls : Matched(c)
  BY ReserveTypeOK DEF IInv
<1>2. SUFFICES /\ \A c \in Calls : Matched(c)'
               /\ ReserveChecked'
  BY <1>1 DEF IInv
<1>3. ASSUME NEW c \in Calls, NEW p \in Periods, ReserveBegin(c, p)
      PROVE  (\A d \in Calls : Matched(d)') /\ ReserveChecked'
  <2>1. reserving'.at = "held" /\ reserving'.call = c
    BY <1>1, <1>3 DEF ReserveBegin, TypeOK, Reserving
  <2>. QED
    BY <1>1, <1>3, <2>1 DEF ReserveBegin, Matched, ReserveChecked
<1>4. CASE ReserveReadHeld
  <2>1. reserving'.at = "count" /\ reserving'.call = reserving.call
    BY <1>1, <1>4 DEF ReserveReadHeld, TypeOK, Reserving
  <2>. QED
    BY <1>1, <1>4, <2>1 DEF ReserveReadHeld, Matched, ReserveChecked
<1>5. CASE ReserveCount
  <2>1. \/ reserving'.at = "idle"
        \/ /\ ~NoRoom
           /\ reserving'.at = "pool"
           /\ reserving'.call = reserving.call
    BY <1>1, <1>5 DEF ReserveCount, TypeOK, Reserving, NoReserve
  <2>2. Cardinality(InFlight) \in Nat
    BY InFlightShrinks DEF InFlight
  <2>3. ~NoRoom => Cardinality(InFlight) < MaxConcurrent
    BY <2>2, GrantLimitsAssumption DEF NoRoom
  <2>4. InFlight' = InFlight
    BY <1>5 DEF ReserveCount, InFlight
  <2>. QED
    BY <1>1, <1>5, <2>1, <2>3, <2>4 DEF ReserveCount, Matched, ReserveChecked
<1>6. CASE ReserveReadPool
  <2>1. reserving'.at = "bonus" /\ reserving'.call = reserving.call
    BY <1>1, <1>6 DEF ReserveReadPool, TypeOK, Reserving
  <2>2. InFlight' = InFlight
    BY <1>6 DEF ReserveReadPool, InFlight
  <2>. QED
    BY <1>1, <1>6, <2>1, <2>2 DEF ReserveReadPool, Matched, ReserveChecked
<1>7. CASE ReserveReadBonus
  <2>. DEFINE bonus == least(MaxGrant - reserving.included,
                             greatest(0, reserving.pool - HeldBonus))
  <2>1. InFlight' = InFlight
    BY <1>7 DEF ReserveReadBonus, InFlight
  <2>2. /\ reserving' = IF reserving.included + bonus < MinGrant
                        THEN NoReserve
                        ELSE [reserving EXCEPT !.at = "insert", !.bonus = bonus]
        /\ UNCHANGED <<reservation, settlement>>
        /\ reserving.at = "bonus"
    BY <1>7 DEF ReserveReadBonus
  <2>3. bonus \in 0..(MaxGrant - reserving.included) /\ reserving.included \in 0..MaxGrant
    <3>1. HeldBonus \in Int
      BY SumIsInt DEF HeldBonus
    <3>. QED
      BY <1>1, <3>1, GrantLimitsAssumption DEF least, greatest, TypeOK, Reserving
  <2>. HIDE DEF bonus
  <2>4. \/ reserving'.at = "idle"
        \/ /\ reserving'.at = "insert"
           /\ reserving'.call = reserving.call
           /\ reserving'.included = reserving.included
           /\ reserving'.bonus = bonus
           /\ ~(reserving.included + bonus < MinGrant)
    BY <1>1, <2>2 DEF TypeOK, Reserving, NoReserve
  <2>5. reserving'.at = "insert" =>
            reserving'.included + reserving'.bonus \in MinGrant..MaxGrant
    BY <2>3, <2>4, GrantLimitsAssumption
  <2>. QED
    BY <1>1, <2>1, <2>2, <2>4, <2>5 DEF Matched, ReserveChecked
<1>8. CASE ReserveInsert
  <2>1. reserving'.at = "idle" /\ settlement' = settlement
    BY <1>8 DEF ReserveInsert, NoReserve
  <2>2. ReserveChecked'
    BY <2>1 DEF ReserveChecked
  <2>3. CASE reservation' = reservation
    BY <1>1, <2>1, <2>2, <2>3 DEF Matched
  <2>4. ASSUME NEW c \in Calls, NEW r \in Reservation,
               reservation[c].state = "none", r.state = "pending_answer",
               r.included + r.bonus \in MinGrant..MaxGrant,
               reservation' = [reservation EXCEPT ![c] = r]
        PROVE  \A d \in Calls : Matched(d)'
    <3>1. reservation \in [Calls -> Reservation]
      BY <1>1 DEF TypeOK
    <3>2. r.included + r.bonus >= 0
      BY <2>4, GrantLimitsAssumption
    <3>3. Matched(c)'
      BY <1>1, <2>1, <2>4, <3>1, <3>2 DEF Matched
    <3>4. \A d \in Calls \ {c} : Matched(d)'
      BY <1>1, <2>1, <2>4, <3>1 DEF Matched
    <3>. QED
      BY <3>3, <3>4
  <2>. QED
    BY <1>8, <2>2, <2>3, <2>4, ReserveInsertRow
<1>. QED
  BY <1>3, <1>4, <1>5, <1>6, <1>7, <1>8 DEF Reserve

\* IInv is inductive.
LEMMA NextIInv == IInv /\ [Next]_vars => IInv'
<1>. SUFFICES ASSUME IInv, [Next]_vars PROVE IInv'
  OBVIOUS
<1>1. TypeOK'
  BY NextTypeOK DEF IInv
<1>2. CASE Reconcile
  BY <1>1, <1>2, BystanderIInv DEF Reconcile, ReconcileLock, ReconcileSum, ReconcileWrite
<1>3. CASE \E l \in Legs, p \in Periods, n \in Durations : MeterForwardedCall(l, p, n)
  BY <1>1, <1>3, BystanderIInv DEF MeterForwardedCall
<1>4. CASE \E g \in Grants : PackStep(g)
  BY <1>1, <1>4, BystanderIInv DEF PackStep, BuyPack, VoidPack
<1>5. CASE ExpirePack
  BY <1>1, <1>5, BystanderIInv DEF ExpirePack
<1>6. CASE UNCHANGED vars
  BY <1>1, <1>6, BystanderIInv DEF vars
<1>. QED
  BY <1>2, <1>3, <1>4, <1>5, <1>6, ReserveIInv, CallStepIInv DEF Next

\* In every reachable state each call's reservation and settlement match (settled
\* with final, returned with nothing billed, at most the hold charged), and a
\* reserve past its count holds room for one more call.
THEOREM IInvHolds == Spec => []IInv
BY InitIInv, NextIInv, PTL DEF Spec

\* For any number of calls, a settlement is final exactly when its call's hold
\* has ended by settling (or was closed after a release), and a hold that was
\* given back is billed nothing: settling a call twice, or settling one whose
\* minutes went back to the pool, cannot happen in any interleaving of the
\* hangup handler, the bridge and the sweeps.
THEOREM SettlementSafe == Spec => []SettledOrReturned
<1>1. IInv => SettledOrReturned
  BY DEF IInv, Matched, SettledOrReturned
<1>. QED
  BY <1>1, IInvHolds, PTL

-----------------------------------------------------------------------------
(* VoiceQuota implements VoiceHold.                                         *)

\* Empty tables are calls that hold nothing.
LEMMA InitHold == Init => Hold!Init
<1>. SUFFICES ASSUME Init PROVE Hold!Init
  OBVIOUS
<1>1. \A c \in Calls : /\ HoldOf(c) = "free"
                       /\ reservation[c].included + reservation[c].bonus = 0
                       /\ settlement[c].billable = 0
  <2>. SUFFICES ASSUME NEW c \in Calls
                PROVE  /\ HoldOf(c) = "free"
                       /\ reservation[c].included + reservation[c].bonus = 0
                       /\ settlement[c].billable = 0
    OBVIOUS
  <2>1. reservation[c] = NoReservation /\ settlement[c] = NoSettlement
    BY DEF Init
  <2>2. /\ NoReservation.state = "none" /\ NoReservation.included = 0
        /\ NoReservation.bonus = 0
        /\ NoSettlement.billable = 0
    BY DEF NoReservation, NoSettlement
  <2>3. HoldOf(c) = "free"
    BY <2>1, <2>2 DEF HoldOf, InFlightStates
  <2>. QED
    BY <2>1, <2>2, <2>3
<1>. QED
  BY <1>1 DEF Hold!Init

\* A step that touches no call's reservation or settlement stutters.
LEMMA BystanderHold ==
    ASSUME UNCHANGED <<reservation, settlement>> PROVE UNCHANGED Hold!holdVars
<1>1. /\ [c \in Calls |-> HoldOf(c)]' = [c \in Calls |-> HoldOf(c)]
      /\ [c \in Calls |-> reservation[c].included + reservation[c].bonus]'
           = [c \in Calls |-> reservation[c].included + reservation[c].bonus]
      /\ [c \in Calls |-> settlement[c].billable]' = [c \in Calls |-> settlement[c].billable]
  BY DEF HoldOf
<1>. QED
  BY <1>1 DEF Hold!holdVars

\* A step of one call's hold is a step of VoiceHold, or stutters.
LEMMA HoldStepRefines ==
    ASSUME IInv, NEW c \in Calls, HoldStep(c) PROVE [Hold!Next]_(Hold!holdVars)
<1>. DEFINE hold == [d \in Calls |-> HoldOf(d)]
            amount == [d \in Calls |-> reservation[d].included + reservation[d].bonus]
            charge == [d \in Calls |-> settlement[d].billable]
<1>1. \A d \in Calls \ {c} : HoldOf(d)' = HoldOf(d)
                             /\ settlement'[d].billable = settlement[d].billable
  BY DEF HoldStep, OthersUntouched, HoldOf
<1>2. amount' = amount
  BY DEF HoldStep, OthersUntouched, SameSize
<1>3. ASSUME settlement'[c].billable = settlement[c].billable PROVE charge' = charge
  BY <1>1, <1>3
<1>4. CASE KeepsHold(c)
  <2>1. hold' = hold /\ charge' = charge
    BY <1>1, <1>3, <1>4 DEF KeepsHold
  <2>. QED
    BY <1>2, <2>1 DEF Hold!holdVars
<1>5. CASE ReturnsHold(c)
  <2>1. hold[c] = "held" /\ hold' = [hold EXCEPT ![c] = "returned"]
    BY <1>1, <1>5 DEF ReturnsHold
  <2>2. charge' = charge
    BY <1>3, <1>5 DEF ReturnsHold
  <2>3. Hold!GiveBack(c)
    BY <1>2, <2>1, <2>2 DEF Hold!GiveBack
  <2>. QED
    BY <2>3 DEF Hold!Next
<1>6. CASE ChargesHold(c)
  <2>1. hold[c] = "held" /\ hold' = [hold EXCEPT ![c] = "charged"]
    BY <1>1, <1>6 DEF ChargesHold
  <2>2. PICK n \in 0..amount[c] : settlement'[c].billable = n
    BY <1>6 DEF ChargesHold
  <2>3. charge' = [charge EXCEPT ![c] = n]
    BY <1>1, <2>2
  <2>4. Hold!Charge(c, n)
    BY <1>2, <2>1, <2>3 DEF Hold!Charge
  <2>. QED
    BY <2>4 DEF Hold!Next
<1>. QED
  BY <1>4, <1>5, <1>6 DEF HoldStep

\* The insert at the end of a reserve takes a hold, with room for one more.
LEMMA ReserveInsertRefines ==
    ASSUME IInv, ReserveInsert PROVE [Hold!Next]_(Hold!holdVars)
<1>. DEFINE hold == [d \in Calls |-> HoldOf(d)]
            amount == [d \in Calls |-> reservation[d].included + reservation[d].bonus]
            charge == [d \in Calls |-> settlement[d].billable]
<1>1. settlement' = settlement /\ TypeOK /\ reservation \in [Calls -> Reservation]
  BY DEF ReserveInsert, IInv, TypeOK
<1>2. CASE reservation' = reservation
  BY <1>1, <1>2, BystanderHold
<1>3. ASSUME NEW c \in Calls, NEW r \in Reservation,
             reservation[c].state = "none", r.state = "pending_answer",
             r.included + r.bonus \in MinGrant..MaxGrant,
             reservation' = [reservation EXCEPT ![c] = r]
      PROVE  Hold!Next
  <2>1. reservation'[c] = r /\ \A d \in Calls \ {c} : reservation'[d] = reservation[d]
    BY <1>1, <1>3
  <2>2. HoldOf(c) = "free" /\ HoldOf(c)' = "held"
    BY <1>3, <2>1 DEF HoldOf, InFlightStates
  <2>3. \A d \in Calls \ {c} : HoldOf(d)' = HoldOf(d)
    BY <2>1 DEF HoldOf
  <2>4. hold[c] = "free" /\ hold' = [hold EXCEPT ![c] = "held"]
    BY <2>2, <2>3
  <2>5. amount' = [amount EXCEPT ![c] = r.included + r.bonus]
    BY <2>1
  <2>6. charge' = charge
    BY <1>1
  <2>7. Hold!Held = InFlight
    BY <1>1, HoldOfStates DEF Hold!Held, InFlight
  <2>8. Hold!Cardinality(Hold!Held) < MaxConcurrent
    BY <2>7 DEF IInv, ReserveChecked, ReserveInsert, Cardinality, Hold!Cardinality
  <2>9. Hold!Take(c, r.included + r.bonus)
    BY <2>4, <2>5, <2>6, <2>8 DEF Hold!Take
  <2>. QED
    BY <1>3, <2>9 DEF Hold!Next
<1>. QED
  BY <1>2, <1>3, ReserveInsertRow

\* Every step of VoiceQuota is a step of VoiceHold or stutters.
LEMMA NextRefines == IInv /\ [Next]_vars => [Hold!Next]_(Hold!holdVars)
<1>. SUFFICES ASSUME IInv, [Next]_vars PROVE [Hold!Next]_(Hold!holdVars)
  OBVIOUS
<1>1. CASE UNCHANGED <<reservation, settlement>>
  BY <1>1, BystanderHold
<1>2. CASE Reserve
  BY <1>1, <1>2, ReserveInsertRefines
     DEF Reserve, ReserveBegin, ReserveReadHeld, ReserveCount, ReserveReadPool,
         ReserveReadBonus
<1>3. CASE \E c \in Calls : CallStep(c)
  BY <1>3, CallStepHold, HoldStepRefines
<1>. QED
  BY <1>1, <1>2, <1>3
     DEF Next, Reconcile, ReconcileLock, ReconcileSum, ReconcileWrite,
         MeterForwardedCall, PackStep, BuyPack, VoidPack, ExpirePack, vars

\* The database functions implement VoiceHold for every number of calls, packs
\* and periods: a call takes at most one hold, between MinGrant and MaxGrant,
\* never the (MaxConcurrent + 1)st; the hold ends once, returned in full or
\* charged at most what it held, and the charge is final.
THEOREM Implementation == Spec => ImplementsVoiceHold
<1>1. Spec => Hold!Spec
  BY InitHold, IInvHolds, NextRefines, PTL DEF Spec, Hold!Spec
<1>. QED
  BY <1>1 DEF ImplementsVoiceHold

-----------------------------------------------------------------------------
(* The limit on calls in flight.                                            *)

WithinLimit == Cardinality(InFlight) <= MaxConcurrent

\* Only the insert of a reserve adds a call in flight, and it has room for one.
LEMMA NextWithinLimit == IInv /\ WithinLimit /\ [Next]_vars => WithinLimit'
<1>. SUFFICES ASSUME IInv, WithinLimit, [Next]_vars PROVE WithinLimit'
  OBVIOUS
<1>0. /\ TypeOK /\ reservation \in [Calls -> Reservation]
      /\ InFlight \subseteq Calls /\ MaxConcurrent \in Nat
  BY GrantLimitsAssumption DEF IInv, TypeOK, InFlight
<1>1. ASSUME InFlight' \subseteq InFlight PROVE WithinLimit'
  <2>1. /\ Cardinality(InFlight') <= Cardinality(InFlight)
        /\ Cardinality(InFlight') \in Nat /\ Cardinality(InFlight) \in Nat
    BY <1>0, <1>1, InFlightShrinks
  <2>. QED
    BY <1>0, <2>1 DEF WithinLimit
<1>2. CASE reservation' = reservation
  BY <1>1, <1>2 DEF InFlight
<1>3. CASE ReserveInsert
  <2>1. ASSUME NEW c \in Calls, NEW r, reservation[c].state = "none",
               reservation' = [reservation EXCEPT ![c] = r]
        PROVE  WithinLimit'
    <3>1. \A d \in Calls \ {c} : reservation'[d] = reservation[d]
      BY <1>0, <2>1
    <3>2. InFlight' \subseteq InFlight \cup {c} /\ c \notin InFlight
      BY <2>1, <3>1 DEF InFlight, InFlightStates
    <3>3. Cardinality(InFlight) < MaxConcurrent
      BY <1>3 DEF IInv, ReserveChecked, ReserveInsert
    <3>4. IsFiniteSet(InFlight)
      BY <1>0, BooksAssumption, FS_Subset
    <3>5. /\ Cardinality(InFlight \cup {c}) = Cardinality(InFlight) + 1
          /\ Cardinality(InFlight) \in Nat
      BY <3>2, <3>4, FS_AddElement, FS_CardinalityType
    <3>6. /\ Cardinality(InFlight') <= Cardinality(InFlight \cup {c})
          /\ Cardinality(InFlight') \in Nat
      <4>1. InFlight \cup {c} \subseteq Calls
        BY <1>0
      <4>. QED
        BY <3>2, <4>1, InFlightShrinks
    <3>. QED
      BY <1>0, <3>3, <3>5, <3>6 DEF WithinLimit
  <2>. QED
    BY <1>2, <1>3, <2>1, ReserveInsertRow
<1>4. ASSUME NEW c \in Calls, CallStep(c) PROVE WithinLimit'
  <2>1. HoldStep(c) /\ TypeOK'
    BY <1>4, CallStepHold, CallStepIInv DEF IInv
  <2>2. HoldOf(c)' = "held" => HoldOf(c) = "held"
    BY <2>1 DEF HoldStep, KeepsHold, ReturnsHold, ChargesHold
  <2>3. reservation'[c].state \in InFlightStates => reservation[c].state \in InFlightStates
    <3>1. reservation'[c].state \in InFlightStates => HoldOf(c)' = "held"
      BY DEF HoldOf, InFlightStates
    <3>. QED
      BY <1>0, <2>2, <3>1, HoldOfStates
  <2>4. \A d \in Calls \ {c} : reservation'[d] = reservation[d]
    BY <2>1 DEF HoldStep, OthersUntouched
  <2>. QED
    BY <1>1, <2>3, <2>4 DEF InFlight
<1>5. CASE Reserve
  <2>1. ASSUME NEW c \in Calls, NEW p \in Periods, ReserveBegin(c, p)
        PROVE  reservation' = reservation
    BY <2>1 DEF ReserveBegin
  <2>2. CASE ReserveReadHeld \/ ReserveReadPool
    BY <1>2, <2>2 DEF ReserveReadHeld, ReserveReadPool
  <2>3. CASE ReserveCount
    BY <1>2, <2>3 DEF ReserveCount
  <2>4. ReserveReadBonus => reservation' = reservation
    BY DEF ReserveReadBonus
  <2>. QED
    BY <1>2, <1>3, <1>5, <2>1, <2>2, <2>3, <2>4 DEF Reserve
<1>6. CASE Reconcile
  BY <1>2, <1>6 DEF Reconcile, ReconcileLock, ReconcileSum, ReconcileWrite
<1>7. CASE \E l \in Legs, p \in Periods, n \in Durations : MeterForwardedCall(l, p, n)
  BY <1>2, <1>7 DEF MeterForwardedCall
<1>8. CASE \E g \in Grants : PackStep(g)
  <2>1. ASSUME NEW g, NEW n, BuyPack(g, n) \/ VoidPack(g, n)
        PROVE  reservation' = reservation
    BY <2>1 DEF BuyPack, VoidPack
  <2>. QED
    BY <1>2, <1>8, <2>1 DEF PackStep
<1>9. CASE ExpirePack \/ UNCHANGED vars
  BY <1>2, <1>9 DEF ExpirePack, vars
<1>. QED
  BY <1>4, <1>5, <1>6, <1>7, <1>8, <1>9 DEF Next

\* At no time are more than p_max_concurrent calls of a business in flight, though
\* voice_reserve_for_call counts them some statements before it inserts its row:
\* the quota lock keeps other reserves out, and everybody else only ends calls.
THEOREM LimitHolds == Spec => []WithinLimit
<1>1. Init => WithinLimit
  <2>. SUFFICES ASSUME Init PROVE WithinLimit
    OBVIOUS
  <2>1. InFlight = {}
    BY DEF Init, InFlight, InFlightStates, NoReservation
  <2>. QED
    BY <2>1, FS_EmptySet, GrantLimitsAssumption DEF WithinLimit
<1>. QED
  BY <1>1, IInvHolds, NextWithinLimit, PTL DEF Spec

=============================================================================
