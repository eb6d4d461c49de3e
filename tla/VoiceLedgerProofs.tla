-------------------------- MODULE VoiceLedgerProofs --------------------------
(***************************************************************************)
(* The three ledgers of VoiceQuota hold, for every number of calls, packs, *)
(* legs and periods: the counter of a period is what its settlements and   *)
(* legs add up to, the seconds gone from the packs are the seconds billed  *)
(* to them, and what calls in flight allocated is still in the packs.      *)
(***************************************************************************)
EXTENDS VoiceQuotaProofs, SumTheorems

-----------------------------------------------------------------------------
(* The invariant that keeps the three ledgers.  Each ledger is a sum over   *)
(* all rows: a row that does not count adds zero.                           *)

\* What is gone from a pack without a refund, and what a call took from packs.
Gone(g) == grant[g].purchased - grant[g].remaining - grant[g].clawed
Debit(c) == settlement[c].billable - IncludedShare(c)

GoneTotal == Total([g \in Grants |-> Gone(g)], Grants)
DebitTotal == Total([c \in Calls |-> Debit(c)], Calls)

\* What a call in flight holds on a pack, and all a call has allocated.
Earmark(g, c) == IF c \in InFlight THEN reservation[c].allocation[g] ELSE 0
EarmarkTotal(g) == Total([c \in Calls |-> Earmark(g, c)], Calls)
AllocationTotal(c) == Total(reservation[c].allocation, Grants)

\* What a call and what a forwarded leg count for in a period.
Counted(p, c) == IF c \in Finalized(p) THEN IncludedShare(c) + Surcharge(c) ELSE 0
Metered(p, l) == IF meter[l].period = p THEN meter[l].seconds ELSE 0
CountedTotal(p) == Total([c \in Calls |-> Counted(p, c)], Calls)
MeteredTotal(p) == Total([l \in Legs |-> Metered(p, l)], Legs)

\* A pack that was never sold has nothing in it.
UnsoldIsEmpty ==
    \A g \in Grants : grant[g].state = "none" =>
        grant[g].purchased = 0 /\ grant[g].remaining = 0 /\ grant[g].clawed = 0

BonusBooks == GoneTotal = DebitTotal

\* What a call holds in bonus seconds it has allocated, to the second.
AllocatedInFull == \A c \in Calls : reservation[c].bonus = AllocationTotal(c)

\* No pack was refunded, not in part either, and none has expired.
Undisturbed == clock = 0 /\ \A g \in Grants : grant[g].state # "voided" /\ grant[g].clawed = 0

PackBooks == Undisturbed => \A g \in Grants : EarmarkTotal(g) <= grant[g].remaining

\* Every reservation, and the reserve under way, is in a period that has a row.
RowsExist ==
    /\ \A c \in Calls : reservation[c].state # "none" =>
           reservation[c].period \in Periods /\ usage[reservation[c].period].row
    /\ reserving.at # "idle" =>
           reserving.period \in Periods /\ usage[reserving.period].row

\* A final call's weight is at least one.
WeightedUp == \A c \in Calls :
    settlement[c].state = "final" => settlement[c].weighted >= settlement[c].billable

PeriodBooks == \A p \in Periods : usage[p].committed = CountedTotal(p) + MeteredTotal(p)

\* What a repair has added up stays true until it writes it: the row is locked.
RepairBooks ==
    /\ reconciling.at = "idle" => reconciling.period = NoPeriod
    /\ reconciling.at # "idle" => reconciling.period \in Periods
    /\ reconciling.at = "write" =>
           reconciling.expected =
               CountedTotal(reconciling.period) + MeteredTotal(reconciling.period)

LedgerInv ==
    /\ IInv
    /\ UnsoldIsEmpty
    /\ BonusBooks
    /\ AllocatedInFull
    /\ PackBooks
    /\ RowsExist
    /\ WeightedUp
    /\ PeriodBooks
    /\ RepairBooks

-----------------------------------------------------------------------------
(* What the sums are over. *)

RowsTyped ==
    /\ \A c \in Calls :
           /\ IncludedShare(c) \in Nat /\ Surcharge(c) \in Nat /\ Debit(c) \in Int
           /\ reservation[c].allocation \in [Grants -> Nat]
           /\ \A g \in Grants : Earmark(g, c) \in Nat
           /\ \A p \in Periods : Counted(p, c) \in Nat
    /\ \A g \in Grants : Gone(g) \in Int
    /\ \A l \in Legs, p \in Periods : Metered(p, l) \in Nat

\* What every row adds to a ledger is a number of seconds.
LEMMA RowTypes == TypeOK => RowsTyped
<1>. SUFFICES ASSUME TypeOK PROVE RowsTyped
  OBVIOUS
<1>1. ASSUME NEW c \in Calls
      PROVE  /\ IncludedShare(c) \in Nat /\ Surcharge(c) \in Nat /\ Debit(c) \in Int
             /\ reservation[c].allocation \in [Grants -> Nat]
  <2>1. reservation[c].included \in Nat /\ reservation[c].allocation \in [Grants -> Nat]
    BY GrantLimitsAssumption DEF TypeOK, Reservation
  <2>2. settlement[c].billable \in Nat /\ settlement[c].weighted \in Nat
    BY DEF TypeOK, Settlement
  <2>. QED
    BY <2>1, <2>2 DEF IncludedShare, Surcharge, Debit, least, greatest
<1>2. ASSUME NEW c \in Calls, NEW g \in Grants PROVE Earmark(g, c) \in Nat
  BY <1>1 DEF Earmark
<1>3. ASSUME NEW c \in Calls, NEW p \in Periods PROVE Counted(p, c) \in Nat
  BY <1>1 DEF Counted
<1>4. ASSUME NEW g \in Grants PROVE Gone(g) \in Int
  <2>1. grant[g].purchased \in Nat /\ grant[g].remaining \in Nat /\ grant[g].clawed \in Nat
    BY DEF TypeOK
  <2>. QED
    BY <2>1 DEF Gone
<1>5. ASSUME NEW l \in Legs, NEW p \in Periods PROVE Metered(p, l) \in Nat
  <2>1. meter[l].seconds \in Nat
    BY DEF TypeOK
  <2>. QED
    BY <2>1 DEF Metered
<1>. QED
  BY <1>1, <1>2, <1>3, <1>4, <1>5 DEF RowsTyped

LEMMA RowTypesNext == TypeOK' => RowsTyped'
BY RowTypes, PTL

LEMMA GrantsAre == NumGrants \in Nat /\ Grants = 1..NumGrants /\ IsFiniteSet(Grants)
BY BooksAssumption, FS_Interval DEF Grants

\* A sum of integers over finitely many rows needs no coalesce.
LEMMA SumIsTotal ==
    ASSUME NEW S, IsFiniteSet(S), NEW f, \A x \in S : f[x] \in Int
    PROVE  Sum(f, S) = Total(f, S)
BY SumType DEF Sum, Total

\* The ledgers of a period, as sums over all calls and all legs.
LEMMA LedgerIs ==
    ASSUME TypeOK, NEW p \in Periods
    PROVE  Ledger(p) = CountedTotal(p) + MeteredTotal(p)
<1>1. RowsTyped /\ IsFiniteSet(Calls) /\ IsFiniteSet(Legs)
  BY RowTypes, BooksAssumption
<1>. DEFINE f == [c \in Calls |-> IncludedShare(c) + Surcharge(c)]
            m == [l \in Legs |-> meter[l].seconds]
            L == {l \in Legs : meter[l].period = p}
<1>2. Sum(f, Finalized(p)) = CountedTotal(p)
  <2>1. Finalized(p) \in SUBSET Calls
    BY DEF Finalized
  <2>2. IsFiniteSet(Finalized(p))
    BY <1>1, <2>1, FS_Subset
  <2>3. \A c \in Calls : f[c] \in Int
    BY <1>1 DEF RowsTyped
  <2>4. \A c \in Calls : Counted(p, c) = IF c \in Finalized(p) THEN f[c] ELSE 0
    BY DEF Counted
  <2>. HIDE DEF f
  <2>5. Sum(f, Finalized(p)) = Total(f, Finalized(p))
    BY <2>1, <2>2, <2>3, SumIsTotal
  <2>6. Total(f, Finalized(p)) = CountedTotal(p)
    BY <1>1, <2>1, <2>3, <2>4, SumWithin DEF CountedTotal, Total
  <2>. QED
    BY <2>5, <2>6
<1>3. Sum(m, L) = MeteredTotal(p)
  <2>1. L \in SUBSET Legs /\ IsFiniteSet(L)
    BY <1>1, FS_Subset
  <2>2. \A l \in Legs : m[l] \in Int
    BY DEF TypeOK
  <2>3. \A l \in Legs : Metered(p, l) = IF l \in L THEN m[l] ELSE 0
    BY DEF Metered
  <2>. HIDE DEF m, L
  <2>4. Sum(m, L) = Total(m, L)
    BY <2>1, <2>2, SumIsTotal
  <2>5. Total(m, L) = MeteredTotal(p)
    BY <1>1, <2>1, <2>2, <2>3, SumWithin DEF MeteredTotal, Total
  <2>. QED
    BY <2>4, <2>5
<1>. QED
  BY <1>2, <1>3 DEF Ledger

\* What calls in flight hold on a pack, as a sum over all calls.
LEMMA HeldOnIs ==
    ASSUME TypeOK, NEW g \in Grants PROVE HeldOn(g) = EarmarkTotal(g)
<1>1. RowsTyped /\ IsFiniteSet(Calls)
  BY RowTypes, BooksAssumption
<1>. DEFINE f == [c \in Calls |-> reservation[c].allocation[g]]
<1>2. InFlight \in SUBSET Calls
  BY DEF InFlight
<1>3. IsFiniteSet(InFlight)
  BY <1>1, <1>2, FS_Subset
<1>4. \A c \in Calls : f[c] \in Int
  BY <1>1 DEF RowsTyped
<1>5. \A c \in Calls : Earmark(g, c) = IF c \in InFlight THEN f[c] ELSE 0
  BY DEF Earmark
<1>6. HeldOn(g) = Sum(f, InFlight)
  BY DEF HeldOn
<1>. HIDE DEF f
<1>7. Sum(f, InFlight) = Total(f, InFlight)
  BY <1>2, <1>3, <1>4, SumIsTotal
<1>8. Total(f, InFlight) = EarmarkTotal(g)
  BY <1>1, <1>2, <1>4, <1>5, SumWithin DEF EarmarkTotal, Total
<1>. QED
  BY <1>6, <1>7, <1>8

\* The seconds gone from the packs and the seconds billed to them.
LEMMA BonusLedgerIs ==
    ASSUME IInv, BonusBooks PROVE BonusLedgerAgrees
<1>1. RowsTyped /\ IsFiniteSet(Calls) /\ IsFiniteSet(Grants)
  BY RowTypes, BooksAssumption, GrantsAre DEF IInv
<1>. DEFINE f == [c \in Calls |-> settlement[c].billable - IncludedShare(c)]
            F == {c \in Calls : settlement[c].state = "final"}
            h == [g \in Grants |-> Gone(g)]
<1>2. F \in SUBSET Calls
  OBVIOUS
<1>3. IsFiniteSet(F)
  BY <1>1, <1>2, FS_Subset
<1>4. \A c \in Calls : f[c] = Debit(c) /\ f[c] \in Int
  BY <1>1 DEF RowsTyped, Debit
<1>5. \A c \in Calls : c \notin F => Debit(c) = 0
  <2>1. ASSUME NEW c \in Calls, c \notin F PROVE Debit(c) = 0
    <3>1. settlement[c].billable = 0
      BY <2>1 DEF IInv, Matched
    <3>2. reservation[c].included \in Nat
      BY GrantLimitsAssumption DEF IInv, TypeOK, Reservation
    <3>. QED
      BY <3>1, <3>2 DEF Debit, IncludedShare, least
  <2>. QED
    BY <2>1
<1>6. \A g \in Grants : h[g] \in Int
  BY <1>1 DEF RowsTyped
<1>7. BonusLedgerAgrees = (Sum(h, Grants) = Sum(f, F))
  BY DEF BonusLedgerAgrees, Gone
<1>8. GoneTotal = Total(h, Grants)
  BY DEF GoneTotal
<1>. HIDE DEF f, F, h
<1>9. Sum(h, Grants) = Total(h, Grants)
  BY <1>1, <1>6, SumIsTotal
<1>10. Sum(f, F) = Total(f, F)
  BY <1>2, <1>3, <1>4, SumIsTotal
<1>11. Total(f, F) = DebitTotal
  BY <1>1, <1>2, <1>4, <1>5, SumWithin DEF DebitTotal, Total
<1>. QED
  BY <1>7, <1>8, <1>9, <1>10, <1>11 DEF BonusBooks

-----------------------------------------------------------------------------
(* How one row changes a ledger. *)

\* A step on one call's rows moves each total by what that call's part moves.
LEMMA CallTotals ==
    ASSUME TypeOK, TypeOK', NEW c \in Calls, OthersUntouched(c)
    PROVE  /\ DebitTotal \in Int /\ DebitTotal' = DebitTotal + Debit(c)' - Debit(c)
           /\ \A p \in Periods : CountedTotal(p) \in Int
                  /\ CountedTotal(p)' = CountedTotal(p) + Counted(p, c)' - Counted(p, c)
           /\ \A g \in Grants : EarmarkTotal(g) \in Int
                  /\ EarmarkTotal(g)' = EarmarkTotal(g) + Earmark(g, c)' - Earmark(g, c)
<1>1. RowsTyped /\ RowsTyped' /\ IsFiniteSet(Calls)
  BY RowTypes, RowTypesNext, BooksAssumption
<1>2. ASSUME NEW d \in Calls, d # c
      PROVE  reservation'[d] = reservation[d] /\ settlement'[d] = settlement[d]
  BY <1>2 DEF OthersUntouched
<1>3. DebitTotal \in Int /\ DebitTotal' = DebitTotal + Debit(c)' - Debit(c)
  <2>. DEFINE f == [d \in Calls |-> Debit(d)]
              h == [d \in Calls |-> Debit(d)']
  <2>1. \A d \in Calls : f[d] \in Int /\ h[d] \in Int /\ (d # c => h[d] = f[d])
    BY <1>1, <1>2 DEF RowsTyped, Debit, IncludedShare
  <2>2. f[c] = Debit(c) /\ h[c] = Debit(c)' /\ DebitTotal = Total(f, Calls)
        /\ DebitTotal' = Total(h, Calls)
    BY DEF DebitTotal, Total
  <2>. HIDE DEF f, h
  <2>3. Total(f, Calls) \in Int /\ Total(h, Calls) = Total(f, Calls) + h[c] - f[c]
    BY <1>1, <2>1, SumOne, SumType DEF Total
  <2>. QED
    BY <2>2, <2>3
<1>4. ASSUME NEW p \in Periods
      PROVE  CountedTotal(p) \in Int
             /\ CountedTotal(p)' = CountedTotal(p) + Counted(p, c)' - Counted(p, c)
  <2>. DEFINE f == [d \in Calls |-> Counted(p, d)]
              h == [d \in Calls |-> Counted(p, d)']
  <2>1. \A d \in Calls : f[d] \in Int /\ h[d] \in Int /\ (d # c => h[d] = f[d])
    BY <1>1, <1>2 DEF RowsTyped, Counted, Finalized, IncludedShare, Surcharge
  <2>2. f[c] = Counted(p, c) /\ h[c] = Counted(p, c)' /\ CountedTotal(p) = Total(f, Calls)
        /\ CountedTotal(p)' = Total(h, Calls)
    BY DEF CountedTotal, Total
  <2>. HIDE DEF f, h
  <2>3. Total(f, Calls) \in Int /\ Total(h, Calls) = Total(f, Calls) + h[c] - f[c]
    BY <1>1, <2>1, SumOne, SumType DEF Total
  <2>. QED
    BY <2>2, <2>3
<1>5. ASSUME NEW g \in Grants
      PROVE  EarmarkTotal(g) \in Int
             /\ EarmarkTotal(g)' = EarmarkTotal(g) + Earmark(g, c)' - Earmark(g, c)
  <2>. DEFINE f == [d \in Calls |-> Earmark(g, d)]
              h == [d \in Calls |-> Earmark(g, d)']
  <2>1. \A d \in Calls : f[d] \in Int /\ h[d] \in Int /\ (d # c => h[d] = f[d])
    BY <1>1, <1>2 DEF RowsTyped, Earmark, InFlight
  <2>2. f[c] = Earmark(g, c) /\ h[c] = Earmark(g, c)' /\ EarmarkTotal(g) = Total(f, Calls)
        /\ EarmarkTotal(g)' = Total(h, Calls)
    BY DEF EarmarkTotal, Total
  <2>. HIDE DEF f, h
  <2>3. Total(f, Calls) \in Int /\ Total(h, Calls) = Total(f, Calls) + h[c] - f[c]
    BY <1>1, <2>1, SumOne, SumType DEF Total
  <2>. QED
    BY <2>2, <2>3
<1>. QED
  BY <1>3, <1>4, <1>5

\* A step on no call's rows moves none of them.
LEMMA SameCalls ==
    ASSUME UNCHANGED <<reservation, settlement>>
    PROVE  /\ DebitTotal' = DebitTotal
           /\ \A p : CountedTotal(p)' = CountedTotal(p)
           /\ \A g : EarmarkTotal(g)' = EarmarkTotal(g)
           /\ \A c : AllocationTotal(c)' = AllocationTotal(c)
<1>1. \A p, c : Counted(p, c)' = Counted(p, c)
  BY DEF Counted, Finalized, IncludedShare, Surcharge
<1>2. \A g, c : Earmark(g, c)' = Earmark(g, c)
  BY DEF Earmark, InFlight
<1>3. \A c : Debit(c)' = Debit(c)
  BY DEF Debit, IncludedShare
<1>. QED
  BY <1>1, <1>2, <1>3 DEF DebitTotal, CountedTotal, EarmarkTotal, AllocationTotal, Total

\* What a loop over the packs takes adds up to what it had to take less what
\* it leaves, and what is left never rises.
LEMMA CountdownSums ==
    ASSUME NEW n \in Nat, NEW left \in Countdown(n)
    PROVE  /\ left[0] = n
           /\ Total([g \in Grants |-> Taken(left, g)], Grants) = n - left[NumGrants]
           /\ \A g \in Grants : left[NumGrants] <= left[g]
<1>. DEFINE a == [i \in 0..NumGrants |-> left[i]]
            f == [g \in Grants |-> Taken(left, g)]
            Bad == {s \in SUBSET (0..NumGrants) :
                      \E k \in 0..NumGrants : s = k..NumGrants /\ ~(left[NumGrants] <= left[k])}
<1>1. NumGrants \in Nat /\ Grants = 1..NumGrants /\ IsFiniteSet(0..NumGrants)
  BY GrantsAre, FS_Interval
<1>2. /\ left[0] = n
      /\ \A i \in 0..NumGrants : left[i] \in Nat
      /\ \A g \in Grants : left[g] <= left[g - 1]
  BY DEF Countdown
<1>3. Total(f, Grants) = n - left[NumGrants]
  <2>1. \A i \in 0..NumGrants : left[i] \in Int
    BY <1>2
  <2>2. \A i \in 1..NumGrants : f[i] = left[i - 1] - left[i]
    BY <1>1 DEF Taken
  <2>. HIDE DEF f
  <2>3. Total(f, 1..NumGrants) = left[0] - left[NumGrants]
    BY <1>1, <2>1, <2>2, SumTelescopes DEF Total
  <2>. QED
    BY <1>1, <1>2, <2>3
<1>4. Bad = {}
  <2>. SUFFICES ASSUME Bad # {} PROVE FALSE
    OBVIOUS
  <2>0. Bad \in SUBSET SUBSET (0..NumGrants)
    OBVIOUS
  <2>. HIDE DEF Bad
  <2>1. PICK s \in Bad : \A u \in SUBSET s : u # s => u \notin Bad
    BY <1>1, <2>0, Minimal
  <2>. USE DEF Bad
  <2>2. PICK k \in 0..NumGrants : s = k..NumGrants /\ ~(left[NumGrants] <= left[k])
    BY <2>1
  <2>3. k # NumGrants
    BY <1>1, <1>2, <2>2
  <2>4. k + 1 \in Grants /\ k + 1 \in 0..NumGrants /\ (k + 1) - 1 = k
    BY <1>1, <2>3
  <2>5. (k + 1)..NumGrants \in SUBSET s /\ (k + 1)..NumGrants # s
        /\ (k + 1)..NumGrants \in SUBSET (0..NumGrants)
    BY <1>1, <2>2
  <2>6. (k + 1)..NumGrants \notin Bad
    BY <2>1, <2>5
  <2>7. left[NumGrants] <= left[k + 1]
    BY <2>4, <2>5, <2>6
  <2>8. left[k + 1] <= left[k]
    BY <1>2, <2>4
  <2>9. left[NumGrants] \in Nat /\ left[k] \in Nat /\ left[k + 1] \in Nat
    BY <1>1, <1>2, <2>4
  <2>. QED
    BY <2>2, <2>7, <2>8, <2>9
<1>5. ASSUME NEW g \in Grants PROVE left[NumGrants] <= left[g]
  <2>1. g \in 0..NumGrants /\ g..NumGrants \in SUBSET (0..NumGrants)
    BY <1>1
  <2>. QED
    BY <1>4, <2>1
<1>. QED
  BY <1>2, <1>3, <1>5

-----------------------------------------------------------------------------
(* What a function that works on one call does to the books. *)

\* The bill stays as it is, and so do the packs and the counters.
Quiet(c) ==
    /\ UNCHANGED <<usage, grant>>
    /\ settlement'[c].billable = settlement[c].billable
    /\ settlement'[c].weighted = settlement[c].weighted

\* The weight of a final call is corrected, and its period's counter with it.
Corrected(c) ==
    /\ UNCHANGED grant
    /\ settlement[c].state = "final"
    /\ settlement'[c].state = "final"
    /\ settlement'[c].billable = settlement[c].billable
    /\ settlement'[c].weighted >= settlement'[c].billable
    /\ UsageFree(reservation[c].period)
    /\ usage' = Committed(reservation[c].period,
                          settlement'[c].weighted - settlement[c].weighted)

\* Every pack loses what the two loops of a settlement took from it.
DebitsPacks(own, rest) ==
    grant' = [g \in Grants |->
        [grant[g] EXCEPT !.remaining = @ - Taken(own, g) - Taken(rest, g)]]

\* A call in flight is billed: n seconds were due from the packs, and what the
\* two loops could not take is not billed.
Billed(c) ==
    /\ c \in InFlight /\ settlement[c].state # "final"
    /\ settlement'[c].state = "final"
    /\ settlement'[c].weighted >= settlement'[c].billable
    /\ UsageFree(reservation[c].period)
    /\ usage' = Committed(reservation[c].period, IncludedShare(c)' + Surcharge(c)')
    /\ \E n \in 0..reservation[c].bonus : \E own \in Countdown(n) :
          /\ FromAllocations(c, own)
          /\ \E rest \in Countdown(own[NumGrants]) :
                /\ FromAnyPack(own, rest)
                /\ DebitsPacks(own, rest)
                /\ Debit(c)' = n - rest[NumGrants]

SameTerms(c) == /\ SameSize(c)
                /\ reservation'[c].period = reservation[c].period
                /\ reservation'[c].allocation = reservation[c].allocation

\* Weighing a bill by a weight of at least one does not shrink it.
LEMMA TimesWeight ==
    ASSUME NEW a \in Nat, NEW b \in Nat \ {0} PROVE a * b \in Nat /\ a * b >= a
<1>1. PICK d \in Nat : b = d + 1
  BY b - 1 \in Nat
<1>2. a * b = a * d + a /\ a * d \in Nat
  BY <1>1
<1>. QED
  BY <1>2

\* A settlement that bills debits the packs for what it bills beyond the
\* included share, to the second.
LEMMA SettleBilledEffects ==
    ASSUME IInv, NEW c \in Calls, NEW s \in Settlement, NEW elapsed \in Nat,
           c \in InFlight, settlement[c].state # "final",
           SettleBilled(c, s, elapsed), SameSize(c)
    PROVE  Billed(c)
<1>. DEFINE r == reservation[c]
            measured == Billable(r, s, elapsed)
            included == least(measured, r.included)
            bonus == least(measured - included, r.bonus)
<1>0. TypeOK
  BY DEF IInv
<1>1. r \in Reservation /\ r.included \in Nat /\ r.bonus \in Nat
  BY <1>0, GrantLimitsAssumption DEF TypeOK, Reservation
<1>2. measured \in 0..(r.included + r.bonus)
  BY <1>1, BillableIsHeld
<1>3. included \in Nat /\ bonus \in 0..r.bonus /\ included + bonus = measured
      /\ included <= r.included /\ (bonus # 0 => included = r.included)
  BY <1>1, <1>2 DEF least
<1>4. UsageFree(r.period)
  BY DEF SettleBilled
<1>5. PICK own \in Countdown(bonus) :
        /\ FromAllocations(c, own)
        /\ \E rest \in Countdown(own[NumGrants]) :
            /\ FromAnyPack(own, rest)
            /\ LET billable == measured - Unpaid(rest)
                   weight == Effective(s.weight, billable)
                   weighted == billable * weight
               IN  /\ usage' = Committed(r.period,
                                   included + greatest(weighted - billable, 0))
                   /\ settlement' = [settlement EXCEPT ![c] =
                          [s EXCEPT !.state = "final", !.billable = billable,
                                    !.weighted = weighted, !.weight = weight]]
            /\ grant' = [g \in Grants |->
                   [grant[g] EXCEPT !.remaining = @ - Taken(own, g) - Taken(rest, g)]]
  BY DEF SettleBilled
<1>6. PICK rest \in Countdown(own[NumGrants]) :
        /\ FromAnyPack(own, rest)
        /\ LET billable == measured - Unpaid(rest)
               weight == Effective(s.weight, billable)
               weighted == billable * weight
           IN  /\ usage' = Committed(r.period,
                               included + greatest(weighted - billable, 0))
               /\ settlement' = [settlement EXCEPT ![c] =
                      [s EXCEPT !.state = "final", !.billable = billable,
                                !.weighted = weighted, !.weight = weight]]
        /\ grant' = [g \in Grants |->
               [grant[g] EXCEPT !.remaining = @ - Taken(own, g) - Taken(rest, g)]]
  BY <1>5
<1>. HIDE DEF measured, included, bonus
<1>. DEFINE billable == measured - Unpaid(rest)
            weight == Effective(s.weight, billable)
            weighted == billable * weight
<1>7. own[NumGrants] \in 0..bonus /\ bonus \in Nat
  BY <1>1, <1>3, CountdownTakes
<1>8. rest[NumGrants] \in 0..own[NumGrants]
  BY <1>7, CountdownTakes
<1>9. billable \in Nat /\ billable = measured - rest[NumGrants]
      /\ billable \in included..measured
  BY <1>1, <1>2, <1>3, <1>7, <1>8 DEF Unpaid
<1>10. weight \in Nat \ {0}
  BY <1>9, EffectiveIsWeight DEF Settlement
<1>11. weighted \in Nat /\ weighted >= billable
  BY <1>9, <1>10, TimesWeight
<1>12. usage' = Committed(r.period, included + greatest(weighted - billable, 0))
  BY <1>6
<1>13. settlement' = [settlement EXCEPT ![c] =
                        [s EXCEPT !.state = "final", !.billable = billable,
                                  !.weighted = weighted, !.weight = weight]]
  BY <1>6
<1>. HIDE DEF billable, weight, weighted
<1>14. /\ settlement'[c].state = "final" /\ settlement'[c].billable = billable
       /\ settlement'[c].weighted = weighted
  BY <1>0, <1>13 DEF TypeOK, Settlement
<1>15. reservation'[c].included = r.included
  BY DEF SameSize
<1>16. IncludedShare(c)' = included
  <2>1. IncludedShare(c)' = least(billable, r.included)
    BY <1>14, <1>15 DEF IncludedShare
  <2>2. CASE bonus = 0
    BY <1>1, <1>3, <1>7, <1>8, <1>9, <2>1, <2>2 DEF least
  <2>3. CASE bonus # 0
    BY <1>1, <1>3, <1>9, <2>1, <2>3 DEF least
  <2>. QED
    BY <2>2, <2>3
<1>17. Surcharge(c)' = greatest(weighted - billable, 0)
  BY <1>14 DEF Surcharge
<1>18. Debit(c)' = bonus - rest[NumGrants]
  <2>1. Debit(c)' = billable - included
    BY <1>14, <1>16 DEF Debit
  <2>. QED
    BY <1>1, <1>2, <1>3, <1>7, <1>8, <1>9, <2>1
<1>19. \E n \in 0..reservation[c].bonus : \E o \in Countdown(n) :
          /\ FromAllocations(c, o)
          /\ \E t \in Countdown(o[NumGrants]) :
                /\ FromAnyPack(o, t)
                /\ DebitsPacks(o, t)
                /\ Debit(c)' = n - t[NumGrants]
  BY <1>3, <1>5, <1>6, <1>18 DEF DebitsPacks
<1>20. usage' = Committed(r.period, IncludedShare(c)' + Surcharge(c)')
  BY <1>12, <1>16, <1>17
<1>. QED
  BY <1>4, <1>11, <1>14, <1>19, <1>20 DEF Billed

\* voice_try_finalize_settlement bills a call in flight, or touches no books.
LEMMA TryFinalizeEffects ==
    ASSUME IInv, NEW c \in Calls, NEW s \in Settlement, NEW oneSided, SameSize(c),
           s.state = "final" <=> settlement[c].state = "final",
           s.billable = settlement[c].billable,
           s.weighted = settlement[c].weighted,
           TryFinalize(c, s, oneSided)
    PROVE  /\ Quiet(c) \/ Billed(c)
           /\ reservation' = reservation \/ reservation' = [reservation EXCEPT ![c].state = "settled"]
<1>1. /\ settlement \in [Calls -> Settlement] /\ Matched(c) /\ reservation[c] \in Reservation
  BY DEF IInv, TypeOK
<1>2. CASE Refuse(c, s, oneSided)
  BY <1>1, <1>2 DEF Refuse, Quiet
<1>3. ASSUME s.state # "final", UNCHANGED <<usage, grant>>,
             settlement' = [settlement EXCEPT ![c] =
                        [s EXCEPT !.state = "final", !.billable = 0, !.weighted = 0]]
      PROVE  Quiet(c)
  <2>1. settlement[c].billable = 0 /\ settlement[c].weighted = 0
    BY <1>1, <1>3 DEF Matched
  <2>2. settlement'[c].billable = 0 /\ settlement'[c].weighted = 0
    BY <1>1, <1>3 DEF Settlement
  <2>. QED
    BY <1>3, <2>1, <2>2 DEF Quiet
<1>4. CASE CloseNeverAnswered(c, s)
  BY <1>3, <1>4 DEF CloseNeverAnswered
<1>5. CASE Chargeable(c, s, oneSided) /\ SettleAtZero(c, s)
  BY <1>3, <1>5 DEF Chargeable, SettleAtZero, MarkSettled
<1>6. ASSUME Chargeable(c, s, oneSided), NEW elapsed \in Durations,
             SettleBilled(c, s, elapsed)
      PROVE  Billed(c)
  <2>1. elapsed \in Nat
    BY BooksAssumption
  <2>2. c \in InFlight
    BY <1>1, <1>6 DEF Chargeable, Matched, Reservation, InFlight, InFlightStates
  <2>3. settlement[c].state # "final"
    BY <1>6 DEF Chargeable
  <2>. QED
    BY <1>6, <2>1, <2>2, <2>3, SettleBilledEffects
<1>7. ASSUME NEW elapsed \in Durations, SettleBilled(c, s, elapsed)
      PROVE  MarkSettled(c)
  BY <1>7 DEF SettleBilled
<1>. QED
  BY <1>2, <1>4, <1>5, <1>6, <1>7
     DEF TryFinalize, Refuse, CloseNeverAnswered, SettleAtZero, MarkSettled

\* Every function that works on one call leaves the terms of its reservation
\* and everything but the books alone, and bills, corrects or touches no books.
LEMMA CallStepEffects ==
    ASSUME IInv, NEW c \in Calls, CallStep(c)
    PROVE  /\ SameTerms(c)
           /\ UNCHANGED <<meter, clock, reserving, reconciling>>
           /\ Quiet(c) \/ Corrected(c) \/ Billed(c)
<1>0. /\ HoldStep(c) /\ SameSize(c)
      /\ reservation \in [Calls -> Reservation] /\ reservation[c] \in Reservation
      /\ settlement \in [Calls -> Settlement] /\ settlement[c] \in Settlement
  BY CallStepHold DEF IInv, TypeOK, HoldStep
<1>1. ASSUME reservation' = reservation PROVE SameTerms(c)
  BY <1>1 DEF SameTerms, SameSize
<1>2. ASSUME settlement' = settlement, UNCHANGED <<usage, grant>> PROVE Quiet(c)
  BY <1>2 DEF Quiet
<1>3. ASSUME NEW r \in Reservation, reservation' = [reservation EXCEPT ![c] = r],
             r.period = reservation[c].period, r.allocation = reservation[c].allocation
      PROVE  SameTerms(c)
  BY <1>0, <1>3 DEF SameTerms
<1>4. CASE \/ OpenSession(c) \/ EndSession(c) \/ DropSilentSession(c) \/ ReapSession(c)
  BY <1>1, <1>2, <1>4 DEF OpenSession, EndSession, DropSilentSession, ReapSession
<1>5. CASE MarkAnswerIssued(c)
  <2>1. SameTerms(c)
    BY <1>0, <1>5 DEF MarkAnswerIssued, SameTerms, Reservation
  <2>. QED
    BY <1>2, <1>5, <2>1 DEF MarkAnswerIssued
<1>6. CASE AttachWs(c)
  <2>1. SameTerms(c)
    BY <1>0, <1>6 DEF AttachWs, SameTerms, Reservation
  <2>. QED
    BY <1>2, <1>6, <2>1 DEF AttachWs
<1>7. CASE AttachWsDirectly(c)
  <2>1. SameTerms(c)
    BY <1>0, <1>7 DEF AttachWsDirectly, SameTerms, Reservation
  <2>. QED
    BY <1>2, <1>7, <2>1 DEF AttachWsDirectly
<1>8. CASE Release(c)
  <2>1. SameTerms(c)
    BY <1>0, <1>8 DEF Release, SameTerms, Reservation
  <2>. QED
    BY <1>2, <1>8, <2>1 DEF Release
<1>9. ASSUME NEW d \in CarrierReports \cup {NotReported}, NEW w \in Weights \cup {0},
             TelnyxHangup(c, d, w)
      PROVE  /\ SameTerms(c) /\ Quiet(c)
             /\ UNCHANGED <<meter, clock, reserving, reconciling>>
  <2>1. /\ settlement'[c].billable = settlement[c].billable
        /\ settlement'[c].weighted = settlement[c].weighted
    BY <1>0, <1>9 DEF TelnyxHangup, Settlement
  <2>. QED
    BY <1>1, <1>9, <2>1 DEF TelnyxHangup, Quiet
<1>10. ASSUME NEW s \in Settlement, NEW oneSided,
              s.state = "final" <=> settlement[c].state = "final",
              s.billable = settlement[c].billable,
              s.weighted = settlement[c].weighted,
              TryFinalize(c, s, oneSided)
       PROVE  SameTerms(c) /\ (Quiet(c) \/ Billed(c))
  <2>1. /\ Quiet(c) \/ Billed(c)
        /\ reservation' = reservation \/ reservation' = [reservation EXCEPT ![c].state = "settled"]
    BY <1>0, <1>10, TryFinalizeEffects
  <2>2. SameTerms(c)
    BY <1>0, <2>1 DEF SameTerms, Reservation
  <2>. QED
    BY <2>1, <2>2
<1>11. /\ WithBridgeEnd(c) \in Settlement
       /\ WithBridgeEnd(c).state = "final" <=> settlement[c].state = "final"
       /\ WithBridgeEnd(c).billable = settlement[c].billable
       /\ WithBridgeEnd(c).weighted = settlement[c].weighted
  BY <1>0, WithBridgeEndType DEF IInv, WithBridgeEnd, Opened, Settlement
<1>12. CASE FinalizeAfterHangup(c)
  BY <1>0, <1>10, <1>12 DEF FinalizeAfterHangup
<1>13. CASE RecordBridgeMediaEnd(c)
  BY <1>10, <1>11, <1>13 DEF RecordBridgeMediaEnd
<1>14. CASE SweepStaleSettlement(c)
  BY <1>0, <1>10, <1>14 DEF SweepStaleSettlement
<1>15. CASE SweepZombieSession(c)
  BY <1>10, <1>11, <1>15 DEF SweepZombieSession
<1>16. ASSUME NEW w \in Weights, ApplySettlementLrn(c, w)
       PROVE  /\ SameTerms(c) /\ (Quiet(c) \/ Corrected(c))
              /\ UNCHANGED <<meter, clock, reserving, reconciling>>
  <2>. DEFINE weight == Effective(w, settlement[c].billable)
              weighted == settlement[c].billable * weight
              p == reservation[c].period
  <2>1. settlement[c].billable \in Nat
    BY <1>0 DEF Settlement
  <2>2. weight \in Nat \ {0}
    BY <2>1, BooksAssumption, EffectiveIsWeight
  <2>3. weighted >= settlement[c].billable
    BY <2>1, <2>2, TimesWeight
  <2>4. /\ UNCHANGED <<reservation, grant, meter, clock, reserving, reconciling>>
        /\ \/ /\ settlement' = [settlement EXCEPT ![c].weight = w]
              /\ UNCHANGED usage
           \/ /\ settlement[c].state = "final"
              /\ settlement' = [settlement EXCEPT ![c].weight = weight,
                                                  ![c].weighted = weighted]
              /\ \/ weighted = settlement[c].weighted /\ UNCHANGED usage
                 \/ /\ UsageFree(p)
                    /\ usage' = Committed(p, weighted - settlement[c].weighted)
    BY <1>16 DEF ApplySettlementLrn
  <2>. HIDE DEF weight, weighted
  <2>5. CASE /\ settlement' = [settlement EXCEPT ![c].weight = w]
             /\ UNCHANGED usage
    <3>1. /\ settlement'[c].billable = settlement[c].billable
          /\ settlement'[c].weighted = settlement[c].weighted
      BY <1>0, <2>5 DEF Settlement
    <3>. QED
      BY <1>1, <2>4, <2>5, <3>1 DEF Quiet
  <2>6. CASE /\ settlement[c].state = "final"
             /\ settlement' = [settlement EXCEPT ![c].weight = weight,
                                                 ![c].weighted = weighted]
    <3>1. /\ settlement'[c].billable = settlement[c].billable
          /\ settlement'[c].weighted = weighted
          /\ settlement'[c].state = "final"
      BY <1>0, <2>6 DEF Settlement
    <3>2. CASE weighted = settlement[c].weighted /\ UNCHANGED usage
      BY <1>1, <2>4, <3>1, <3>2 DEF Quiet
    <3>3. CASE /\ UsageFree(p)
               /\ usage' = Committed(p, weighted - settlement[c].weighted)
      BY <1>1, <2>3, <2>4, <2>6, <3>1, <3>3 DEF Corrected
    <3>4. CASE settlement' = [settlement EXCEPT ![c].weight = w] /\ UNCHANGED usage
      BY <2>5, <3>4
    <3>. QED
      BY <2>4, <3>2, <3>3, <3>4
  <2>. QED
    BY <2>4, <2>5, <2>6
<1>. QED
  BY <1>4, <1>5, <1>6, <1>7, <1>8, <1>9, <1>12, <1>13, <1>14, <1>15, <1>16
     DEF CallStep, OpenSession, EndSession, DropSilentSession, ReapSession, MarkAnswerIssued,
         AttachWs, AttachWsDirectly, ReleaseOnAnswerFail, SweepStaleReservation, Release,
         FinalizeAfterHangup, RecordBridgeMediaEnd, SweepStaleSettlement, SweepZombieSession

-----------------------------------------------------------------------------
(* The packs. *)

GrantRow == [state: {"none", "live", "voided"}, purchased: Nat, remaining: Nat, clawed: Nat]

\* Every pack changes by what the two loops of a settlement take from it.
LEMMA DebitedRows ==
    ASSUME TypeOK, NEW own, NEW rest,
           DebitsPacks(own, rest),
           NEW g \in Grants
    PROVE  /\ grant[g] \in GrantRow
           /\ grant'[g].state = grant[g].state
           /\ grant'[g].purchased = grant[g].purchased
           /\ grant'[g].clawed = grant[g].clawed
           /\ grant'[g].remaining = grant[g].remaining - Taken(own, g) - Taken(rest, g)
BY DEF TypeOK, GrantRow, DebitsPacks

\* What the two loops take adds up to what was due less what they leave.
LEMMA DebitedTotal ==
    ASSUME TypeOK, NEW n \in Nat, NEW own \in Countdown(n),
           NEW rest \in Countdown(own[NumGrants]),
           DebitsPacks(own, rest)
    PROVE  GoneTotal \in Int /\ GoneTotal' = GoneTotal + (n - rest[NumGrants])
<1>. DEFINE f == [g \in Grants |-> Gone(g)]
            h == [g \in Grants |-> Gone(g)']
            o == [g \in Grants |-> Taken(own, g)]
            t == [g \in Grants |-> Taken(rest, g)]
            u == [g \in Grants |-> Taken(own, g) + Taken(rest, g)]
<1>1. /\ IsFiniteSet(Grants)
      /\ own[NumGrants] \in Nat /\ rest[NumGrants] \in Nat
      /\ \A g \in Grants : Taken(own, g) \in Nat /\ Taken(rest, g) \in Nat
  <2>1. own[NumGrants] \in Nat /\ \A g \in Grants : Taken(own, g) \in Nat
    BY CountdownTakes
  <2>2. rest[NumGrants] \in Nat /\ \A g \in Grants : Taken(rest, g) \in Nat
    BY <2>1, CountdownTakes
  <2>. QED
    BY <2>1, <2>2, GrantsAre
<1>2. Total(o, Grants) = n - own[NumGrants]
  BY CountdownSums
<1>3. Total(t, Grants) = own[NumGrants] - rest[NumGrants]
  BY <1>1, CountdownSums
<1>4. \A g \in Grants : o[g] \in Int /\ t[g] \in Int /\ u[g] \in Int /\ u[g] = o[g] + t[g]
  BY <1>1
<1>5. ASSUME NEW g \in Grants PROVE f[g] \in Int /\ h[g] = f[g] + u[g]
  <2>1. /\ grant[g].purchased \in Nat /\ grant[g].remaining \in Nat /\ grant[g].clawed \in Nat
        /\ Taken(own, g) \in Nat /\ Taken(rest, g) \in Nat
    BY <1>1, DebitedRows DEF GrantRow
  <2>2. Gone(g)' = grant[g].purchased
                     - (grant[g].remaining - Taken(own, g) - Taken(rest, g)) - grant[g].clawed
    <3>1. /\ grant'[g].purchased = grant[g].purchased
          /\ grant'[g].clawed = grant[g].clawed
          /\ grant'[g].remaining = grant[g].remaining - Taken(own, g) - Taken(rest, g)
      BY DebitedRows
    <3>. QED
      BY <3>1 DEF Gone
  <2>. QED
    BY <2>1, <2>2 DEF Gone
<1>6. GoneTotal = Total(f, Grants) /\ GoneTotal' = Total(h, Grants)
  BY DEF GoneTotal, Total
<1>. HIDE DEF f, h, o, t, u
<1>7. Total(u, Grants) = Total(o, Grants) + Total(t, Grants)
  BY <1>1, <1>4, SumPlus DEF Total
<1>8. Total(h, Grants) = Total(f, Grants) + Total(u, Grants) /\ Total(f, Grants) \in Int
  BY <1>1, <1>4, <1>5, SumPlus, SumType DEF Total
<1>. QED
  BY <1>1, <1>2, <1>3, <1>6, <1>7, <1>8

\* A settlement takes nothing from a pack that was never sold.
LEMMA UnsoldIsSpared ==
    ASSUME TypeOK, NEW c \in Calls, NEW n \in Nat,
           NEW own \in Countdown(n), FromAllocations(c, own),
           NEW rest \in Countdown(own[NumGrants]), FromAnyPack(own, rest),
           NEW g \in Grants, grant[g].state # "live"
    PROVE  Taken(own, g) = 0 /\ Taken(rest, g) = 0
<1>1. own[NumGrants] \in Nat /\ own[g - 1] \in Nat /\ own[g] \in Nat
  BY CountdownTakes
<1>2. rest[g - 1] \in Nat /\ rest[g] \in Nat
  BY <1>1, CountdownTakes
<1>3. own[g] = own[g - 1] - 0 /\ rest[g] = rest[g - 1] - 0
  BY DEF FromAllocations, FromAnyPack, Live
<1>. QED
  BY <1>1, <1>2, <1>3 DEF Taken

\* The seconds gone from the packs stay the seconds billed to them.
LEMMA CallStepBonusBooks ==
    ASSUME LedgerInv, NEW c \in Calls, CallStep(c)
    PROVE  BonusBooks' /\ UnsoldIsEmpty'
<1>1. /\ TypeOK /\ TypeOK' /\ OthersUntouched(c) /\ SameTerms(c)
      /\ Quiet(c) \/ Corrected(c) \/ Billed(c)
  BY CallStepTypeOK, CallStepHold, CallStepEffects DEF LedgerInv, IInv, HoldStep
<1>2. DebitTotal \in Int /\ DebitTotal' = DebitTotal + Debit(c)' - Debit(c) /\ Debit(c) \in Int
  BY <1>1, CallTotals, RowTypes DEF RowsTyped
<1>3. CASE Quiet(c) \/ Corrected(c)
  <2>1. Debit(c)' = Debit(c) /\ grant' = grant
    BY <1>1, <1>3 DEF Quiet, Corrected, SameTerms, SameSize, Debit, IncludedShare
  <2>2. GoneTotal' = GoneTotal
    BY <2>1 DEF GoneTotal, Gone, Total
  <2>3. UnsoldIsEmpty'
    BY <2>1 DEF LedgerInv, UnsoldIsEmpty
  <2>. QED
    BY <1>2, <2>1, <2>2, <2>3 DEF LedgerInv, BonusBooks
<1>4. CASE Billed(c)
  <2>1. PICK n \in 0..reservation[c].bonus : \E own \in Countdown(n) :
          /\ FromAllocations(c, own)
          /\ \E rest \in Countdown(own[NumGrants]) :
                /\ FromAnyPack(own, rest)
                /\ DebitsPacks(own, rest)
                /\ Debit(c)' = n - rest[NumGrants]
    BY <1>4 DEF Billed
  <2>2. PICK own \in Countdown(n) :
          /\ FromAllocations(c, own)
          /\ \E rest \in Countdown(own[NumGrants]) :
                /\ FromAnyPack(own, rest)
                /\ DebitsPacks(own, rest)
                /\ Debit(c)' = n - rest[NumGrants]
    BY <2>1
  <2>3. PICK rest \in Countdown(own[NumGrants]) :
                /\ FromAnyPack(own, rest)
                /\ DebitsPacks(own, rest)
                /\ Debit(c)' = n - rest[NumGrants]
    BY <2>2
  <2>4. n \in Nat
    BY <1>1, GrantLimitsAssumption DEF TypeOK, Reservation
  <2>5. GoneTotal \in Int /\ GoneTotal' = GoneTotal + (n - rest[NumGrants])
    BY <1>1, <2>3, <2>4, DebitedTotal
  <2>6. Debit(c) = 0
    <3>1. settlement[c].billable = 0
      BY <1>4 DEF Billed, LedgerInv, IInv, Matched
    <3>2. reservation[c].included \in Nat
      BY <1>1, GrantLimitsAssumption DEF TypeOK, Reservation
    <3>. QED
      BY <3>1, <3>2 DEF Debit, IncludedShare, least
  <2>7. n - rest[NumGrants] \in Int
    BY <2>4, CountdownTakes
  <2>8. BonusBooks'
    BY <1>2, <2>3, <2>5, <2>6, <2>7 DEF LedgerInv, BonusBooks
  <2>9. ASSUME NEW g \in Grants, grant'[g].state = "none"
        PROVE  grant'[g].purchased = 0 /\ grant'[g].remaining = 0 /\ grant'[g].clawed = 0
    <3>1. /\ grant'[g].state = grant[g].state
          /\ grant'[g].purchased = grant[g].purchased
          /\ grant'[g].clawed = grant[g].clawed
          /\ grant'[g].remaining = grant[g].remaining - Taken(own, g) - Taken(rest, g)
      BY <1>1, <2>3, DebitedRows
    <3>2. Taken(own, g) = 0 /\ Taken(rest, g) = 0
      BY <1>1, <2>2, <2>3, <2>4, <2>9, <3>1, UnsoldIsSpared
    <3>. QED
      BY <2>9, <3>1, <3>2 DEF LedgerInv, UnsoldIsEmpty
  <2>. QED
    BY <2>8, <2>9 DEF UnsoldIsEmpty
<1>. QED
  BY <1>1, <1>3, <1>4

-----------------------------------------------------------------------------
(* What calls in flight hold on the packs. *)

\* While no pack was disturbed, a call can take from its own packs all that it
\* allocated on them: the fallback to other packs has nothing left to take.
LEMMA OwnCoversAll ==
    ASSUME LedgerInv, Undisturbed, NEW c \in Calls, c \in InFlight,
           NEW n \in 0..reservation[c].bonus,
           NEW own \in Countdown(n), FromAllocations(c, own)
    PROVE  /\ own[NumGrants] = 0
           /\ \A g \in Grants : Taken(own, g) <= reservation[c].allocation[g]
<1>1. /\ TypeOK /\ reservation[c].bonus \in Nat /\ n \in Nat
      /\ reservation[c].allocation \in [Grants -> Nat]
      /\ \A g \in Grants : grant[g].remaining \in Nat
  BY GrantLimitsAssumption DEF LedgerInv, IInv, TypeOK, Reservation
<1>2. ASSUME NEW g \in Grants
      PROVE  /\ reservation[c].allocation[g] <= grant[g].remaining
             /\ ~Live(g) => reservation[c].allocation[g] = 0
  <2>. DEFINE f == [d \in Calls |-> IF d = c THEN Earmark(g, c) ELSE 0]
              h == [d \in Calls |-> Earmark(g, d)]
              z == [d \in Calls |-> 0]
  <2>1. RowsTyped /\ IsFiniteSet(Calls)
    BY <1>1, RowTypes, BooksAssumption
  <2>2. \A d \in Calls : f[d] \in Int /\ h[d] \in Int /\ f[d] <= h[d] /\ z[d] = 0
                         /\ (d # c => f[d] = z[d])
    BY <2>1 DEF RowsTyped
  <2>3. f[c] = reservation[c].allocation[g] /\ EarmarkTotal(g) = Total(h, Calls)
    BY DEF Earmark, EarmarkTotal
  <2>. HIDE DEF f, h, z
  <2>4. Total(f, Calls) <= Total(h, Calls)
    BY <2>1, <2>2, SumMonotone DEF Total
  <2>5. Total(z, Calls) = 0
    BY <2>1, <2>2, SumZero DEF Total
  <2>6. Total(f, Calls) = Total(z, Calls) + f[c] - z[c]
    <3>1. \A d \in Calls : z[d] \in Int /\ f[d] \in Int /\ (d # c => f[d] = z[d])
      BY <2>2
    <3>. QED
      BY <2>1, <3>1, SumOne DEF Total
  <2>7. reservation[c].allocation[g] <= EarmarkTotal(g)
    <3>1. f[c] \in Int /\ z[c] = 0
      BY <2>2
    <3>. QED
      BY <2>3, <2>4, <2>5, <2>6, <3>1
  <2>8. EarmarkTotal(g) \in Int
    BY <2>1, <2>2, <2>3, SumType DEF Total
  <2>9. EarmarkTotal(g) <= grant[g].remaining
    BY DEF LedgerInv, PackBooks
  <2>10. reservation[c].allocation[g] <= grant[g].remaining
    BY <1>1, <2>7, <2>8, <2>9
  <2>11. ~Live(g) => grant[g].state = "none"
    BY <1>1, GrantsAre DEF Live, Undisturbed, TypeOK
  <2>12. ~Live(g) => grant[g].remaining = 0
    BY <2>11 DEF LedgerInv, UnsoldIsEmpty
  <2>. QED
    BY <1>1, <2>10, <2>12
<1>3. ASSUME NEW g \in Grants
      PROVE  /\ own[g - 1] \in Nat /\ own[g] \in Nat
             /\ own[g] = own[g - 1] - least(own[g - 1], reservation[c].allocation[g])
  <2>1. own[g - 1] \in Nat /\ own[g] \in Nat
    BY <1>1, CountdownTakes
  <2>2. own[g] = own[g - 1] -
            (IF Live(g)
             THEN least(least(own[g - 1], reservation[c].allocation[g]), grant[g].remaining)
             ELSE 0)
    BY DEF FromAllocations
  <2>3. reservation[c].allocation[g] \in Nat /\ grant[g].remaining \in Nat
    BY <1>1
  <2>. QED
    BY <1>2, <2>1, <2>2, <2>3 DEF least
<1>4. ASSUME NEW g \in Grants PROVE Taken(own, g) <= reservation[c].allocation[g]
  <2>1. reservation[c].allocation[g] \in Nat
    BY <1>1
  <2>. QED
    BY <1>3, <2>1 DEF Taken, least
<1>5. own[NumGrants] \in 0..n
  BY <1>1, CountdownTakes
<1>6. ASSUME own[NumGrants] # 0 PROVE FALSE
  <2>. DEFINE t == [g \in Grants |-> Taken(own, g)]
  <2>1. ASSUME NEW g \in Grants PROVE t[g] = reservation[c].allocation[g] /\ t[g] \in Int
    <3>1. own[NumGrants] <= own[g]
      BY <1>1, CountdownSums
    <3>2. reservation[c].allocation[g] \in Nat
      BY <1>1
    <3>. QED
      BY <1>1, <1>3, <1>5, <1>6, <3>1, <3>2 DEF Taken, least
  <2>2. Total(t, Grants) = n - own[NumGrants]
    BY <1>1, CountdownSums
  <2>. HIDE DEF t
  <2>3. Total(t, Grants) = Total(reservation[c].allocation, Grants)
    BY <2>1, GrantsAre, SumSame DEF Total
  <2>4. reservation[c].bonus = Total(reservation[c].allocation, Grants)
    BY DEF LedgerInv, AllocatedInFull, AllocationTotal
  <2>. QED
    BY <1>1, <1>5, <1>6, <2>2, <2>3, <2>4
<1>. QED
  BY <1>4, <1>6

\* What calls in flight hold stays in the packs when one of them is settled,
\* released, or only moved between its states.
LEMMA CallStepPackBooks ==
    ASSUME LedgerInv, NEW c \in Calls, CallStep(c)
    PROVE  PackBooks' /\ AllocatedInFull'
<1>1. /\ TypeOK /\ TypeOK' /\ OthersUntouched(c) /\ SameTerms(c) /\ HoldStep(c)
      /\ Quiet(c) \/ Corrected(c) \/ Billed(c)
      /\ clock' = clock
  BY CallStepTypeOK, CallStepHold, CallStepEffects DEF LedgerInv, IInv, HoldStep
<1>2. AllocatedInFull'
  <2>1. ASSUME NEW d \in Calls
        PROVE  reservation'[d].bonus = reservation[d].bonus
               /\ reservation'[d].allocation = reservation[d].allocation
    BY <1>1 DEF OthersUntouched, SameTerms, SameSize
  <2>. QED
    BY <2>1 DEF LedgerInv, AllocatedInFull, AllocationTotal
<1>3. \A g \in Grants :
          /\ EarmarkTotal(g) \in Int
          /\ EarmarkTotal(g)' = EarmarkTotal(g) + Earmark(g, c)' - Earmark(g, c)
  BY <1>1, CallTotals
<1>4. RowsTyped /\ RowsTyped'
  BY <1>1, RowTypes, RowTypesNext
<1>5. c \in InFlight' => c \in InFlight
  <2>1. /\ HoldOf(c) = "held" <=> reservation[c].state \in InFlightStates
        /\ HoldOf(c)' = "held" <=> reservation'[c].state \in InFlightStates
    BY <1>1 DEF TypeOK, Reservation, HoldOf, InFlightStates
  <2>. QED
    BY <1>1, <2>1 DEF HoldStep, KeepsHold, ReturnsHold, ChargesHold, InFlight
<1>6. CASE Quiet(c) \/ Corrected(c)
  <2>1. grant' = grant
    BY <1>6 DEF Quiet, Corrected
  <2>2. Undisturbed' => Undisturbed
    BY <1>1, <2>1 DEF Undisturbed
  <2>3. ASSUME Undisturbed, NEW g \in Grants PROVE EarmarkTotal(g)' <= grant'[g].remaining
    <3>1. Earmark(g, c)' <= Earmark(g, c) /\ Earmark(g, c)' \in Nat /\ Earmark(g, c) \in Nat
      BY <1>1, <1>4, <1>5 DEF Earmark, SameTerms, RowsTyped
    <3>2. EarmarkTotal(g) <= grant[g].remaining /\ grant[g].remaining \in Nat
      BY <1>1, <2>3 DEF LedgerInv, PackBooks, TypeOK
    <3>. QED
      BY <1>3, <2>1, <3>1, <3>2
  <2>. QED
    BY <1>2, <2>2, <2>3 DEF PackBooks
<1>7. CASE Billed(c)
  <2>1. PICK n \in 0..reservation[c].bonus : \E own \in Countdown(n) :
          /\ FromAllocations(c, own)
          /\ \E rest \in Countdown(own[NumGrants]) :
                FromAnyPack(own, rest) /\ DebitsPacks(own, rest)
    BY <1>7 DEF Billed
  <2>2. PICK own \in Countdown(n) :
          /\ FromAllocations(c, own)
          /\ \E rest \in Countdown(own[NumGrants]) :
                FromAnyPack(own, rest) /\ DebitsPacks(own, rest)
    BY <2>1
  <2>3. PICK rest \in Countdown(own[NumGrants]) :
                FromAnyPack(own, rest) /\ DebitsPacks(own, rest)
    BY <2>2
  <2>4. n \in Nat
    BY <1>1, GrantLimitsAssumption DEF TypeOK, Reservation
  <2>5. \A g \in Grants : /\ grant'[g].state = grant[g].state
                          /\ grant'[g].clawed = grant[g].clawed
                          /\ grant[g].remaining \in Nat
                          /\ grant'[g].remaining =
                                grant[g].remaining - Taken(own, g) - Taken(rest, g)
    BY <1>1, <2>3, DebitedRows DEF GrantRow
  <2>6. Undisturbed' => Undisturbed
    BY <1>1, <2>5 DEF Undisturbed
  <2>7. c \in InFlight /\ c \notin InFlight'
    <3>1. reservation'[c].state \notin InFlightStates
      BY <1>1, <1>7 DEF Billed, HoldStep, Matched, InFlightStates
    <3>. QED
      BY <1>7, <3>1 DEF Billed, InFlight
  <2>8. ASSUME Undisturbed, NEW g \in Grants PROVE EarmarkTotal(g)' <= grant'[g].remaining
    <3>1. own[NumGrants] = 0 /\ Taken(own, g) <= reservation[c].allocation[g]
      BY <2>2, <2>7, <2>8, OwnCoversAll
    <3>2. rest[g - 1] = 0 /\ rest[g] = 0
      <4>1. rest \in Countdown(0)
        BY <2>3, <3>1
      <4>2. rest[g - 1] \in 0..0 /\ rest[g] \in 0..rest[g - 1]
        BY <4>1, CountdownTakes
      <4>. QED
        BY <4>2
    <3>3. Taken(rest, g) = 0
      BY <3>2 DEF Taken
    <3>4. Earmark(g, c) = reservation[c].allocation[g] /\ Earmark(g, c)' = 0
      BY <2>7 DEF Earmark
    <3>5. Taken(own, g) \in Nat /\ reservation[c].allocation[g] \in Nat
      BY <1>4, <2>4, CountdownTakes DEF RowsTyped
    <3>6. EarmarkTotal(g) <= grant[g].remaining
      BY <2>8 DEF LedgerInv, PackBooks
    <3>. QED
      BY <1>3, <2>5, <3>1, <3>3, <3>4, <3>5, <3>6
  <2>. QED
    BY <1>2, <2>6, <2>8 DEF PackBooks
<1>. QED
  BY <1>1, <1>6, <1>7

-----------------------------------------------------------------------------
(* The periods. *)

\* When the counter of every period moves by what one call's part moves, and
\* moves only where no repair holds the row, the counters stay what the ledgers
\* add up to, and so does what a repair has added up.
LEMMA BooksFollow ==
    ASSUME LedgerInv, TypeOK', NEW c \in Calls, OthersUntouched(c),
           UNCHANGED <<meter, reconciling>>,
           \A p \in Periods :
              /\ usage'[p].committed = usage[p].committed + Counted(p, c)' - Counted(p, c)
              /\ Counted(p, c)' # Counted(p, c) => UsageFree(p)
    PROVE  PeriodBooks' /\ RepairBooks'
<1>1. TypeOK /\ RowsTyped /\ RowsTyped' /\ IsFiniteSet(Legs)
  BY RowTypes, RowTypesNext, BooksAssumption DEF LedgerInv, IInv
<1>2. \A p \in Periods :
         /\ CountedTotal(p) \in Int
         /\ CountedTotal(p)' = CountedTotal(p) + Counted(p, c)' - Counted(p, c)
         /\ Counted(p, c) \in Int /\ Counted(p, c)' \in Int
  BY <1>1, CallTotals DEF RowsTyped
<1>3. \A p \in Periods : MeteredTotal(p)' = MeteredTotal(p) /\ MeteredTotal(p) \in Int
  <2>1. \A p, l : Metered(p, l)' = Metered(p, l)
    BY DEF Metered
  <2>2. ASSUME NEW p \in Periods PROVE MeteredTotal(p) \in Int
    <3>. DEFINE f == [l \in Legs |-> Metered(p, l)]
    <3>1. \A l \in Legs : f[l] \in Int
      BY <1>1 DEF RowsTyped
    <3>2. MeteredTotal(p) = Total(f, Legs)
      BY DEF MeteredTotal
    <3>. HIDE DEF f
    <3>. QED
      BY <1>1, <3>1, <3>2, SumType DEF Total
  <2>. QED
    BY <2>1, <2>2 DEF MeteredTotal, Total
<1>4. PeriodBooks'
  <2>1. ASSUME NEW p \in Periods
        PROVE  usage'[p].committed = CountedTotal(p)' + MeteredTotal(p)'
    <3>1. usage[p].committed = CountedTotal(p) + MeteredTotal(p)
      BY DEF LedgerInv, PeriodBooks
    <3>2. /\ usage'[p].committed = usage[p].committed + Counted(p, c)' - Counted(p, c)
          /\ CountedTotal(p)' = CountedTotal(p) + Counted(p, c)' - Counted(p, c)
          /\ CountedTotal(p) \in Int /\ MeteredTotal(p) \in Int
          /\ MeteredTotal(p)' = MeteredTotal(p)
      BY <1>2, <1>3
    <3>3. PICK a \in Int, b \in Int : a = Counted(p, c) /\ b = Counted(p, c)'
      BY <1>2
    <3>. QED
      BY <3>1, <3>2, <3>3
  <2>. QED
    BY <2>1 DEF PeriodBooks
<1>5. RepairBooks'
  <2>1. RepairBooks
    BY DEF LedgerInv
  <2>2. ASSUME reconciling.at # "idle"
        PROVE  /\ reconciling.period \in Periods
               /\ CountedTotal(reconciling.period)' = CountedTotal(reconciling.period)
    <3>. DEFINE p == reconciling.period
    <3>1. p \in Periods
      BY <2>1, <2>2 DEF RepairBooks
    <3>2. Counted(p, c)' = Counted(p, c)
      BY <3>1 DEF UsageFree
    <3>3. CountedTotal(p)' = CountedTotal(p) + Counted(p, c)' - Counted(p, c)
      BY <1>2, <3>1
    <3>4. PICK a \in Int, b \in Int : a = Counted(p, c) /\ b = CountedTotal(p)
      BY <1>2, <3>1
    <3>. QED
      BY <3>1, <3>2, <3>3, <3>4
  <2>. QED
    BY <1>3, <2>1, <2>2 DEF RepairBooks
<1>. QED
  BY <1>4, <1>5

\* Every reservation keeps its period and no period loses its row; the weights
\* of the other calls stay.
LEMMA CallStepRows ==
    ASSUME LedgerInv, NEW c \in Calls, TypeOK', HoldStep(c), SameTerms(c), UNCHANGED reserving,
           settlement'[c].state = "final" => settlement'[c].weighted >= settlement'[c].billable,
           \A p \in Periods : usage'[p].row = usage[p].row
    PROVE  RowsExist' /\ WeightedUp'
<1>1. TypeOK /\ OthersUntouched(c)
  BY DEF LedgerInv, IInv, HoldStep
<1>2. reservation[c].state = "none" => reservation'[c].state = "none"
  <2>1. HoldOf(c) = "free" <=> reservation[c].state = "none"
    BY <1>1, HoldOfStates
  <2>2. HoldOf(c)' = "free" <=> reservation'[c].state = "none"
    BY DEF TypeOK, Reservation, HoldOf, InFlightStates
  <2>. QED
    BY <2>1, <2>2 DEF HoldStep, KeepsHold, ReturnsHold, ChargesHold
<1>3. RowsExist'
  <2>1. ASSUME NEW d \in Calls, reservation'[d].state # "none"
        PROVE  reservation'[d].period \in Periods /\ usage'[reservation'[d].period].row
    <3>1. reservation[d].state # "none" /\ reservation'[d].period = reservation[d].period
      BY <1>1, <1>2, <2>1 DEF OthersUntouched, SameTerms
    <3>. QED
      BY <3>1 DEF LedgerInv, RowsExist
  <2>. QED
    BY <2>1 DEF LedgerInv, RowsExist
<1>4. WeightedUp'
  BY <1>1 DEF LedgerInv, WeightedUp, OthersUntouched
<1>. QED
  BY <1>3, <1>4

\* A settlement or a correction commits what the call's part of its period's
\* ledger changes by.
LEMMA CallStepPeriodBooks ==
    ASSUME LedgerInv, NEW c \in Calls, CallStep(c)
    PROVE  RowsExist' /\ WeightedUp' /\ PeriodBooks' /\ RepairBooks'
<1>0. PICK p0 : p0 = reservation[c].period
  OBVIOUS
<1>. USE <1>0
<1>1. /\ TypeOK /\ TypeOK' /\ OthersUntouched(c) /\ SameTerms(c) /\ HoldStep(c)
      /\ Quiet(c) \/ Corrected(c) \/ Billed(c)
      /\ UNCHANGED <<meter, clock, reserving, reconciling>>
      /\ Matched(c) /\ Matched(c)'
  BY CallStepTypeOK, CallStepHold, CallStepEffects DEF LedgerInv, IInv, HoldStep
<1>2. RowsTyped /\ RowsTyped'
  BY <1>1, RowTypes, RowTypesNext
<1>3. settlement[c] \in Settlement /\ settlement'[c] \in Settlement
  BY <1>1 DEF TypeOK
<1>4. reservation[c].state # "none" => p0 \in Periods /\ usage[p0].row
  BY DEF LedgerInv, RowsExist
<1>5. \A p \in Periods : /\ usage[p].row \in BOOLEAN
                         /\ usage[p].committed \in Int
                         /\ usage[p] = [row |-> usage[p].row, committed |-> usage[p].committed]
  BY <1>1 DEF TypeOK
<1>6. ASSUME NEW n \in Int, p0 \in Periods, usage[p0].row, usage' = Committed(p0, n)
      PROVE  \A p \in Periods : /\ usage'[p].row = usage[p].row
                                /\ usage'[p].committed =
                                      IF p = p0 THEN usage[p].committed + n
                                      ELSE usage[p].committed
  BY <1>1, <1>6 DEF Committed, TypeOK
<1>7. ASSUME NEW p, p # p0 PROVE Counted(p, c) = 0 /\ Counted(p, c)' = 0
  BY <1>1, <1>7 DEF Counted, Finalized, SameTerms
<1>8. CASE Quiet(c)
  <2>1. \A p : Counted(p, c)' = Counted(p, c)
    <3>1. CASE settlement[c].state = "final" /\ settlement'[c].state = "final"
      BY <1>1, <1>8, <3>1
         DEF Counted, Finalized, IncludedShare, Surcharge, Quiet, SameTerms, SameSize
    <3>2. CASE settlement[c].state # "final" \/ settlement'[c].state # "final"
      <4>1. /\ settlement[c].billable = 0 /\ settlement[c].weighted = 0
            /\ settlement'[c].billable = 0 /\ settlement'[c].weighted = 0
        BY <1>1, <1>8, <3>2 DEF Matched, Quiet
      <4>2. reservation[c].included \in Nat /\ reservation'[c].included \in Nat
        BY <1>1, GrantLimitsAssumption DEF TypeOK, Reservation
      <4>3. IncludedShare(c) = 0 /\ Surcharge(c) = 0 /\ IncludedShare(c)' = 0 /\ Surcharge(c)' = 0
        BY <4>1, <4>2 DEF IncludedShare, Surcharge, least, greatest
      <4>. QED
        BY <4>3 DEF Counted
    <3>. QED
      BY <3>1, <3>2
  <2>2. \A p \in Periods :
           /\ usage'[p].committed = usage[p].committed + Counted(p, c)' - Counted(p, c)
           /\ usage'[p].row = usage[p].row
    <3>1. ASSUME NEW p \in Periods
          PROVE  usage[p].committed = usage[p].committed + Counted(p, c)' - Counted(p, c)
      <4>1. PICK a \in Int : a = Counted(p, c) /\ a = Counted(p, c)'
        BY <1>2, <2>1 DEF RowsTyped
      <4>2. PICK u \in Int : u = usage[p].committed
        BY <1>5
      <4>3. u = u + a - a
        OBVIOUS
      <4>. QED
        BY <4>1, <4>2, <4>3
    <3>. QED
      BY <1>8, <3>1 DEF Quiet
  <2>3. settlement'[c].state = "final" => settlement'[c].weighted >= settlement'[c].billable
    BY <1>1, <1>3, <1>8 DEF Quiet, Matched, LedgerInv, WeightedUp, Settlement
  <2>. QED
    BY <1>1, <2>1, <2>2, <2>3, BooksFollow, CallStepRows
<1>9. CASE Corrected(c)
  <2>. DEFINE n == settlement'[c].weighted - settlement[c].weighted
  <2>1. reservation[c].state # "none" /\ p0 \in Periods /\ usage[p0].row
    BY <1>1, <1>4, <1>9 DEF Corrected, Matched
  <2>2. /\ settlement[c].billable \in Nat /\ settlement[c].weighted \in Nat
        /\ settlement'[c].weighted \in Nat
        /\ settlement[c].weighted >= settlement[c].billable
    BY <1>3, <1>9 DEF LedgerInv, WeightedUp, Settlement, Corrected
  <2>3. c \in Finalized(p0) /\ c \in Finalized(p0)'
    BY <1>1, <1>9 DEF Finalized, Corrected, SameTerms
  <2>4. /\ IncludedShare(c)' = IncludedShare(c)
        /\ Surcharge(c) = settlement[c].weighted - settlement[c].billable
        /\ Surcharge(c)' = settlement'[c].weighted - settlement[c].billable
    BY <1>1, <1>9, <2>2
       DEF IncludedShare, Surcharge, greatest, Corrected, SameTerms, SameSize
  <2>5. Counted(p0, c) \in Int /\ Counted(p0, c)' = Counted(p0, c) + n
    <3>1. Counted(p0, c) = IncludedShare(c) + Surcharge(c)
          /\ Counted(p0, c)' = IncludedShare(c)' + Surcharge(c)'
      BY <2>3 DEF Counted
    <3>2. PICK a \in Nat : a = IncludedShare(c)
      BY <1>2 DEF RowsTyped
    <3>. QED
      BY <2>2, <2>4, <3>1, <3>2
  <2>6. n \in Int
    BY <2>2
  <2>7. usage' = Committed(p0, n) /\ UsageFree(p0)
    BY <1>9 DEF Corrected
  <2>. HIDE DEF n
  <2>8. ASSUME NEW p \in Periods
        PROVE  /\ usage'[p].committed = usage[p].committed + Counted(p, c)' - Counted(p, c)
               /\ Counted(p, c)' # Counted(p, c) => UsageFree(p)
               /\ usage'[p].row = usage[p].row
    <3>0. PICK u \in Int : /\ u = usage[p].committed
                           /\ usage'[p].row = usage[p].row
                           /\ usage'[p].committed = IF p = p0 THEN u + n ELSE u
      <4>1. usage[p].committed \in Int
        BY <1>5
      <4>. QED
        BY <1>6, <4>1, <2>1, <2>6, <2>7
    <3>1. CASE p = p0
      <4>1. PICK a \in Int : a = Counted(p, c) /\ Counted(p, c)' = a + n
        BY <2>5, <3>1
      <4>2. u + n = u + (a + n) - a
        BY <2>6
      <4>. QED
        BY <2>7, <3>0, <3>1, <4>1, <4>2
    <3>2. CASE p # p0
      <4>1. Counted(p, c) = 0 /\ Counted(p, c)' = 0 /\ u = u + 0 - 0
        BY <1>7, <3>2
      <4>. QED
        BY <3>0, <3>2, <4>1
    <3>. QED
      BY <3>1, <3>2
  <2>9. settlement'[c].state = "final" => settlement'[c].weighted >= settlement'[c].billable
    BY <1>9 DEF Corrected
  <2>. QED
    BY <1>1, <2>8, <2>9, BooksFollow, CallStepRows
<1>10. CASE Billed(c)
  <2>. DEFINE n == IncludedShare(c)' + Surcharge(c)'
  <2>1. reservation[c].state # "none" /\ p0 \in Periods /\ usage[p0].row
    BY <1>4, <1>10 DEF Billed, InFlight, InFlightStates
  <2>2. Counted(p0, c) = 0
    BY <1>10 DEF Billed, Counted, Finalized
  <2>3. Counted(p0, c)' = n
    BY <1>1, <1>10 DEF Billed, Counted, Finalized, SameTerms
  <2>4. n \in Int
    <3>1. PICK a \in Nat, b \in Nat : a = IncludedShare(c)' /\ b = Surcharge(c)'
      BY <1>2 DEF RowsTyped
    <3>. QED
      BY <3>1
  <2>5. usage' = Committed(p0, n) /\ UsageFree(p0)
    BY <1>10 DEF Billed
  <2>. HIDE DEF n
  <2>6. ASSUME NEW p \in Periods
        PROVE  /\ usage'[p].committed = usage[p].committed + Counted(p, c)' - Counted(p, c)
               /\ Counted(p, c)' # Counted(p, c) => UsageFree(p)
               /\ usage'[p].row = usage[p].row
    <3>0. PICK u \in Int : /\ u = usage[p].committed
                           /\ usage'[p].row = usage[p].row
                           /\ usage'[p].committed = IF p = p0 THEN u + n ELSE u
      <4>1. usage[p].committed \in Int
        BY <1>5
      <4>. QED
        BY <1>6, <4>1, <2>1, <2>4, <2>5
    <3>1. CASE p = p0
      <4>1. u + n = u + n - 0
        BY <2>4
      <4>. QED
        BY <2>2, <2>3, <2>5, <3>0, <3>1, <4>1
    <3>2. CASE p # p0
      <4>1. Counted(p, c) = 0 /\ Counted(p, c)' = 0 /\ u = u + 0 - 0
        BY <1>7, <3>2
      <4>. QED
        BY <3>0, <3>2, <4>1
    <3>. QED
      BY <3>1, <3>2
  <2>7. settlement'[c].state = "final" => settlement'[c].weighted >= settlement'[c].billable
    BY <1>10 DEF Billed
  <2>. QED
    BY <1>1, <2>6, <2>7, BooksFollow, CallStepRows
<1>. QED
  BY <1>1, <1>8, <1>9, <1>10

-----------------------------------------------------------------------------
(* The other steps. *)

LEMMA SameLegs == ASSUME UNCHANGED meter PROVE \A p : MeteredTotal(p)' = MeteredTotal(p)
<1>1. \A p, l : Metered(p, l)' = Metered(p, l)
  BY DEF Metered
<1>. QED
  BY <1>1 DEF MeteredTotal, Total

LEMMA SamePacks == ASSUME UNCHANGED grant PROVE GoneTotal' = GoneTotal
BY DEF GoneTotal, Gone, Total

\* Every ledger is empty at first.
LEMMA InitLedger == Init => LedgerInv
<1>. SUFFICES ASSUME Init PROVE LedgerInv
  OBVIOUS
<1>1. IInv /\ IsFiniteSet(Calls) /\ IsFiniteSet(Grants) /\ IsFiniteSet(Legs)
  BY InitIInv, BooksAssumption, GrantsAre
<1>2. UnsoldIsEmpty /\ RowsExist /\ WeightedUp
  BY DEF Init, UnsoldIsEmpty, RowsExist, WeightedUp, NoReservation, NoReserve, NoSettlement
<1>3. \A c \in Calls : /\ reservation[c].bonus = 0
                       /\ reservation[c].allocation = [g \in Grants |-> 0]
                       /\ c \notin InFlight
                       /\ \A p : c \notin Finalized(p)
                       /\ Debit(c) = 0
  BY DEF Init, NoReservation, NoSettlement, InFlight, InFlightStates, Finalized, Debit,
         IncludedShare, least
<1>4. BonusBooks
  <2>1. \A g \in Grants : Gone(g) = 0
    BY DEF Init, Gone
  <2>2. GoneTotal = 0
    BY <1>1, <2>1, SumZero DEF GoneTotal, Total
  <2>3. DebitTotal = 0
    BY <1>1, <1>3, SumZero DEF DebitTotal, Total
  <2>. QED
    BY <2>2, <2>3 DEF BonusBooks
<1>5. AllocatedInFull
  <2>1. \A c \in Calls : AllocationTotal(c) = 0
    BY <1>1, <1>3, SumZero DEF AllocationTotal, Total
  <2>. QED
    BY <1>3, <2>1 DEF AllocatedInFull
<1>6. PackBooks
  <2>1. \A g : \A c \in Calls : Earmark(g, c) = 0
    BY <1>3 DEF Earmark
  <2>2. \A g : EarmarkTotal(g) = 0
    BY <1>1, <2>1, SumZero DEF EarmarkTotal, Total
  <2>3. \A g \in Grants : grant[g].remaining = 0
    BY DEF Init
  <2>. QED
    BY <2>2, <2>3 DEF PackBooks
<1>7. PeriodBooks
  <2>1. \A p : \A c \in Calls : Counted(p, c) = 0
    BY <1>3 DEF Counted
  <2>2. \A p : \A l \in Legs : Metered(p, l) = 0
    BY DEF Init, Metered
  <2>3. \A p : CountedTotal(p) = 0 /\ MeteredTotal(p) = 0
    BY <1>1, <2>1, <2>2, SumZero DEF CountedTotal, MeteredTotal, Total
  <2>4. \A p \in Periods : usage[p].committed = 0
    BY DEF Init
  <2>. QED
    BY <2>3, <2>4 DEF PeriodBooks
<1>8. RepairBooks
  BY DEF Init, RepairBooks, NoReconcile
<1>. QED
  BY <1>1, <1>2, <1>4, <1>5, <1>6, <1>7, <1>8 DEF LedgerInv

\* Every function that works on one call keeps the ledgers.
LEMMA CallStepLedger ==
    ASSUME LedgerInv, NEW c \in Calls, CallStep(c) PROVE LedgerInv'
BY CallStepIInv, CallStepBonusBooks, CallStepPackBooks, CallStepPeriodBooks DEF LedgerInv

\* A step on no row of a ledger, that keeps the counters and loses no row.
LEMMA BystanderLedger ==
    ASSUME LedgerInv, IInv', RowsExist',
           UNCHANGED <<reservation, settlement, grant, meter, clock, reconciling>>,
           \A p \in Periods : usage'[p].committed = usage[p].committed
    PROVE  LedgerInv'
<1>1. /\ DebitTotal' = DebitTotal /\ GoneTotal' = GoneTotal
      /\ \A p : CountedTotal(p)' = CountedTotal(p) /\ MeteredTotal(p)' = MeteredTotal(p)
      /\ \A g : EarmarkTotal(g)' = EarmarkTotal(g)
      /\ \A c : AllocationTotal(c)' = AllocationTotal(c)
  BY SameCalls, SameLegs, SamePacks
<1>2. UnsoldIsEmpty' /\ WeightedUp' /\ BonusBooks' /\ AllocatedInFull'
  BY <1>1 DEF LedgerInv, UnsoldIsEmpty, WeightedUp, BonusBooks, AllocatedInFull
<1>3. PackBooks'
  BY <1>1 DEF LedgerInv, PackBooks, Undisturbed
<1>4. PeriodBooks' /\ RepairBooks'
  BY <1>1 DEF LedgerInv, PeriodBooks, RepairBooks
<1>. QED
  BY <1>2, <1>3, <1>4 DEF LedgerInv

\* The insert of a reserve allocates, pack by pack, only what no other call in
\* flight holds there, and all of the bonus it promises.
LEMMA ReserveInsertLedger ==
    ASSUME LedgerInv, ReserveInsert, IInv' PROVE LedgerInv'
<1>1. /\ TypeOK /\ TypeOK' /\ RowsTyped /\ RowsTyped'
      /\ reservation \in [Calls -> Reservation] /\ settlement \in [Calls -> Settlement]
  BY RowTypes, RowTypesNext DEF LedgerInv, IInv, TypeOK
<1>2. /\ reserving.call \in Calls /\ reservation[reserving.call].state = "none"
      /\ reserving.period \in Periods /\ usage[reserving.period].row
      /\ reserving'.at = "idle"
      /\ UNCHANGED <<settlement, session, usage, grant, meter, clock, reconciling>>
  BY DEF LedgerInv, IInv, ReserveChecked, RowsExist, ReserveInsert, NoReserve
<1>3. CASE reservation' = reservation
  <2>1. RowsExist'
    BY <1>2, <1>3 DEF LedgerInv, RowsExist
  <2>. QED
    BY <1>2, <1>3, <2>1, BystanderLedger
<1>4. CASE reservation' # reservation
  <2>0. PICK c \in Calls : c = reserving.call
    BY <1>2
  <2>1. PICK left \in Countdown(reserving.bonus) :
          /\ Allocates(left)
          /\ ~(left[NumGrants] > 0)
          /\ reservation' = [reservation EXCEPT ![c] =
                  [state |-> "pending_answer", period |-> reserving.period,
                   included |-> reserving.included, bonus |-> reserving.bonus,
                   allocation |-> [g \in Grants |-> Taken(left, g)],
                   answered |-> FALSE, attached |-> FALSE]]
    BY <1>4, <2>0 DEF ReserveInsert
  <2>2. reserving.bonus \in Nat /\ reserving.included \in Nat
    BY <1>1, GrantLimitsAssumption DEF TypeOK, Reserving
  <2>3. left[NumGrants] = 0
    BY <2>1, <2>2, CountdownTakes
  <2>4. /\ reservation'[c].state = "pending_answer"
        /\ reservation'[c].period = reserving.period
        /\ reservation'[c].included = reserving.included
        /\ reservation'[c].bonus = reserving.bonus
        /\ reservation'[c].allocation = [g \in Grants |-> Taken(left, g)]
        /\ \A d \in Calls \ {c} : reservation'[d] = reservation[d]
    BY <1>1, <2>1
  <2>5. OthersUntouched(c)
    BY <1>2, <2>4 DEF OthersUntouched
  <2>6. settlement[c].state # "final" /\ settlement[c].billable = 0
        /\ reservation[c].included \in Nat
    <3>1. Matched(c) /\ reservation[c].state = "none"
      BY <1>2, <2>0 DEF LedgerInv, IInv
    <3>. QED
      BY <1>1, <3>1, GrantLimitsAssumption DEF Matched, Reservation
  <2>7. Debit(c) = 0 /\ Debit(c)' = 0 /\ \A p : Counted(p, c) = 0 /\ Counted(p, c)' = 0
    BY <1>2, <2>2, <2>4, <2>6 DEF Debit, IncludedShare, least, Counted, Finalized
  <2>8. BonusBooks' /\ UnsoldIsEmpty' /\ WeightedUp'
    <3>1. DebitTotal' = DebitTotal + 0 - 0 /\ DebitTotal \in Int
      BY <1>1, <2>5, <2>7, CallTotals
    <3>2. GoneTotal' = GoneTotal
      BY <1>2, SamePacks
    <3>. QED
      BY <1>2, <3>1, <3>2 DEF LedgerInv, BonusBooks, UnsoldIsEmpty, WeightedUp
  <2>9. AllocatedInFull'
    <3>1. AllocationTotal(c)' = reserving.bonus - left[NumGrants]
      BY <2>2, <2>4, CountdownSums DEF AllocationTotal, Total
    <3>2. AllocationTotal(c)' = reservation'[c].bonus
      BY <2>2, <2>3, <2>4, <3>1
    <3>. QED
      BY <2>4, <3>2 DEF LedgerInv, AllocatedInFull, AllocationTotal
  <2>10. PackBooks'
    <3>1. ASSUME Undisturbed, NEW g \in Grants PROVE EarmarkTotal(g)' <= grant[g].remaining
      <4>1. /\ left[g - 1] \in Nat /\ left[g] \in Nat /\ grant[g].remaining \in Nat
            /\ EarmarkTotal(g) \in Int
        <5>1. left[g - 1] \in Nat /\ left[g] \in Nat
          BY <2>2, CountdownTakes
        <5>2. EarmarkTotal(g) \in Int
          BY <1>1, <2>5, CallTotals
        <5>3. grant[g].remaining \in Nat
          BY <1>1 DEF TypeOK
        <5>. QED
          BY <5>1, <5>2, <5>3
      <4>2. EarmarkTotal(g) <= grant[g].remaining
        BY <3>1 DEF LedgerInv, PackBooks
      <4>3. left[g] = left[g - 1] -
              (IF Live(g)
               THEN least(left[g - 1], greatest(0, grant[g].remaining - EarmarkTotal(g)))
               ELSE 0)
        BY <1>1, <2>1, HeldOnIs DEF Allocates
      <4>4. Taken(left, g) \in Nat /\ Taken(left, g) <= grant[g].remaining - EarmarkTotal(g)
        BY <4>1, <4>2, <4>3 DEF Taken, least, greatest
      <4>5. Earmark(g, c) = 0 /\ Earmark(g, c)' = Taken(left, g)
        BY <1>2, <2>0, <2>4 DEF Earmark, InFlight, InFlightStates
      <4>6. EarmarkTotal(g)' = EarmarkTotal(g) + Taken(left, g) - 0
        BY <1>1, <2>5, <4>5, CallTotals
      <4>. QED
        BY <4>1, <4>4, <4>6
    <3>. QED
      BY <1>2, <3>1 DEF PackBooks, Undisturbed
  <2>11. PeriodBooks' /\ RepairBooks'
    <3>1. \A p \in Periods : usage[p].committed = usage[p].committed + 0 - 0
      BY <1>1 DEF TypeOK
    <3>. QED
      BY <1>1, <1>2, <2>5, <2>7, <3>1, BooksFollow
  <2>12. RowsExist'
    BY <1>2, <2>4 DEF LedgerInv, RowsExist
  <2>. QED
    BY <2>8, <2>9, <2>10, <2>11, <2>12 DEF LedgerInv
<1>. QED
  BY <1>3, <1>4

\* Every statement of voice_reserve_for_call keeps the ledgers.
LEMMA ReserveLedger == ASSUME LedgerInv, Reserve PROVE LedgerInv'
<1>1. IInv' /\ TypeOK /\ RowsExist
  BY ReserveIInv DEF LedgerInv, IInv
<1>2. ASSUME NEW c \in Calls, NEW p \in Periods, ReserveBegin(c, p) PROVE LedgerInv'
  <2>1. \A q \in Periods : /\ usage'[q].committed = usage[q].committed
                           /\ usage[q].row => usage'[q].row
    BY <1>1, <1>2 DEF ReserveBegin, TypeOK
  <2>2. usage'[p].row /\ reserving'.period = p
    BY <1>1, <1>2 DEF ReserveBegin, TypeOK, Reserving
  <2>3. RowsExist'
    BY <1>1, <1>2, <2>1, <2>2 DEF ReserveBegin, RowsExist
  <2>. QED
    BY <1>1, <1>2, <2>1, <2>3, BystanderLedger DEF ReserveBegin
<1>3. ASSUME UNCHANGED <<reservation, settlement, session, usage, grant, meter, clock, reconciling>>,
             \/ reserving'.at = "idle"
             \/ reserving.at # "idle" /\ reserving'.period = reserving.period
      PROVE  LedgerInv'
  <2>1. RowsExist'
    BY <1>1, <1>3 DEF RowsExist
  <2>. QED
    BY <1>1, <1>3, <2>1, BystanderLedger
<1>4. CASE ReserveReadHeld
  BY <1>1, <1>3, <1>4 DEF ReserveReadHeld, TypeOK, Reserving
<1>5. CASE ReserveCount
  BY <1>1, <1>3, <1>5 DEF ReserveCount, TypeOK, Reserving, NoReserve
<1>6. CASE ReserveReadPool
  BY <1>1, <1>3, <1>6 DEF ReserveReadPool, TypeOK, Reserving
<1>7. CASE ReserveReadBonus
  <2>1. \/ reserving'.at = "idle"
        \/ reserving.at # "idle" /\ reserving'.period = reserving.period
    BY <1>1, <1>7 DEF ReserveReadBonus, TypeOK, Reserving, NoReserve
  <2>. QED
    BY <1>3, <1>7, <2>1 DEF ReserveReadBonus
<1>8. CASE ReserveInsert
  BY <1>1, <1>8, ReserveInsertLedger
<1>. QED
  BY <1>2, <1>4, <1>5, <1>6, <1>7, <1>8 DEF Reserve

\* A repair adds up the ledgers of a locked row and writes the sum it found.
LEMMA ReconcileLedger == ASSUME LedgerInv, IInv', Reconcile PROVE LedgerInv'
<1>1. /\ TypeOK /\ RepairBooks /\ PeriodBooks
      /\ UNCHANGED <<reservation, settlement, grant, meter, clock, reserving>>
  BY DEF LedgerInv, IInv, Reconcile, ReconcileLock, ReconcileSum, ReconcileWrite
<1>2. /\ DebitTotal' = DebitTotal /\ GoneTotal' = GoneTotal
      /\ \A p : CountedTotal(p)' = CountedTotal(p) /\ MeteredTotal(p)' = MeteredTotal(p)
      /\ \A g : EarmarkTotal(g)' = EarmarkTotal(g)
      /\ \A c : AllocationTotal(c)' = AllocationTotal(c)
  BY <1>1, SameCalls, SameLegs, SamePacks
<1>3. UnsoldIsEmpty' /\ WeightedUp' /\ BonusBooks' /\ AllocatedInFull' /\ PackBooks'
  BY <1>1, <1>2 DEF LedgerInv, UnsoldIsEmpty, WeightedUp, BonusBooks, AllocatedInFull,
     PackBooks, Undisturbed
<1>4. SUFFICES /\ \A p \in Periods : /\ usage'[p].committed = usage[p].committed
                                     /\ usage'[p].row = usage[p].row
               /\ RepairBooks'
  <2>1. ASSUME \A p \in Periods : /\ usage'[p].committed = usage[p].committed
                                  /\ usage'[p].row = usage[p].row
        PROVE  PeriodBooks' /\ RowsExist'
    BY <1>1, <1>2, <2>1 DEF LedgerInv, PeriodBooks, RowsExist
  <2>. QED
    BY <1>3, <1>4, <2>1 DEF LedgerInv
<1>5. ASSUME NEW p \in Periods, ReconcileLock(p) PROVE RepairBooks' /\ usage' = usage
  BY <1>5 DEF ReconcileLock, RepairBooks
<1>6. CASE ReconcileSum
  <2>. DEFINE p == reconciling.period
  <2>1. p \in Periods
    BY <1>1, <1>6 DEF ReconcileSum, RepairBooks
  <2>2. /\ reconciling' = [reconciling EXCEPT !.at = "write", !.expected = Ledger(p)]
        /\ usage' = usage
    BY <1>6 DEF ReconcileSum
  <2>3. reconciling'.at = "write" /\ reconciling'.period = p
        /\ reconciling'.expected = CountedTotal(p) + MeteredTotal(p)
    BY <1>1, <2>1, <2>2, LedgerIs DEF TypeOK
  <2>4. RepairBooks'
    BY <1>2, <2>1, <2>3 DEF RepairBooks
  <2>. QED
    BY <2>2, <2>4
<1>7. CASE ReconcileWrite
  <2>. DEFINE p == reconciling.period
  <2>1. /\ p \in Periods /\ reconciling.expected = CountedTotal(p) + MeteredTotal(p)
        /\ usage' = [usage EXCEPT ![p].committed = reconciling.expected]
        /\ reconciling' = NoReconcile
    BY <1>1, <1>7 DEF ReconcileWrite, RepairBooks
  <2>2. reconciling.expected = usage[p].committed
    BY <1>1, <2>1 DEF PeriodBooks
  <2>3. \A q \in Periods : /\ usage'[q].committed = usage[q].committed
                           /\ usage'[q].row = usage[q].row
    BY <1>1, <2>1, <2>2 DEF TypeOK
  <2>4. RepairBooks'
    BY <2>1 DEF RepairBooks, NoReconcile
  <2>. QED
    BY <2>3, <2>4
<1>. QED
  BY <1>5, <1>6, <1>7 DEF Reconcile

\* A leg is metered once, and its seconds go to its period's counter.
LEMMA MeterLedger ==
    ASSUME LedgerInv, IInv', NEW l \in Legs, NEW p \in Periods, NEW n \in Durations,
           MeterForwardedCall(l, p, n)
    PROVE  LedgerInv'
<1>1. /\ TypeOK /\ TypeOK' /\ RowsTyped /\ RowsTyped' /\ IsFiniteSet(Legs)
      /\ RepairBooks /\ PeriodBooks
      /\ n \in Nat /\ RoundUp(n) \in Nat
      /\ UNCHANGED <<reservation, settlement, grant, clock, reserving, reconciling>>
  BY RowTypes, RowTypesNext, BooksAssumption, RoundUpIsNat
     DEF LedgerInv, IInv, MeterForwardedCall
<1>2. /\ DebitTotal' = DebitTotal /\ GoneTotal' = GoneTotal
      /\ \A q : CountedTotal(q)' = CountedTotal(q)
      /\ \A g : EarmarkTotal(g)' = EarmarkTotal(g)
      /\ \A c : AllocationTotal(c)' = AllocationTotal(c)
  BY <1>1, SameCalls, SamePacks
<1>3. UnsoldIsEmpty' /\ WeightedUp' /\ BonusBooks' /\ AllocatedInFull' /\ PackBooks'
  BY <1>1, <1>2 DEF LedgerInv, UnsoldIsEmpty, WeightedUp, BonusBooks, AllocatedInFull,
     PackBooks, Undisturbed
<1>4. n = 0 => RoundUp(n) = 0
  <2>1. Minute \in Nat \ {0}
    BY BooksAssumption
  <2>2. ASSUME NEW m \in Nat \ {0} PROVE ((0 + m - 1) \div m) * m = 0
    <3>1. (m - 1) \div m = 0
      OBVIOUS
    <3>. QED
      BY <3>1
  <2>. QED
    BY <2>1, <2>2 DEF RoundUp
<1>5. /\ \A q \in Periods : /\ usage'[q].committed =
                                 IF q = p THEN usage[q].committed + RoundUp(n)
                                 ELSE usage[q].committed
                            /\ usage[q].row => usage'[q].row
      /\ RoundUp(n) # 0 => UsageFree(p)
  <2>1. CASE n = 0
    BY <1>1, <1>4, <2>1 DEF MeterForwardedCall, TypeOK
  <2>2. CASE n # 0
    BY <1>1, <2>2 DEF MeterForwardedCall, TypeOK
  <2>. QED
    BY <2>1, <2>2
<1>6. /\ meter[l].period = NoPeriod
      /\ meter' = [meter EXCEPT ![l] = [period |-> p, seconds |-> RoundUp(n)]]
  BY DEF MeterForwardedCall
<1>7. ASSUME NEW q \in Periods
      PROVE  /\ MeteredTotal(q) \in Int
             /\ MeteredTotal(q)' = IF q = p THEN MeteredTotal(q) + RoundUp(n)
                                   ELSE MeteredTotal(q)
  <2>. DEFINE f == [k \in Legs |-> Metered(q, k)]
              h == [k \in Legs |-> Metered(q, k)']
  <2>1. f[l] = 0 /\ h[l] = IF q = p THEN RoundUp(n) ELSE 0
    <3>1. Metered(q, l) = 0
      BY <1>6, NoPeriodAssumption DEF Metered
    <3>2. meter'[l].period = p /\ meter'[l].seconds = RoundUp(n)
      BY <1>1, <1>6 DEF TypeOK
    <3>3. Metered(q, l)' = IF q = p THEN RoundUp(n) ELSE 0
      BY <3>2 DEF Metered
    <3>. QED
      BY <3>1, <3>3
  <2>2. \A k \in Legs : f[k] \in Int /\ h[k] \in Int /\ (k # l => h[k] = f[k])
    <3>1. \A k \in Legs : k # l => meter'[k] = meter[k]
      BY <1>1, <1>6 DEF TypeOK
    <3>. QED
      BY <1>1, <3>1 DEF RowsTyped, Metered
  <2>3. MeteredTotal(q) = Total(f, Legs) /\ MeteredTotal(q)' = Total(h, Legs)
    BY DEF MeteredTotal, Total
  <2>. HIDE DEF f, h
  <2>4. Total(f, Legs) \in Int /\ Total(h, Legs) = Total(f, Legs) + h[l] - f[l]
    BY <1>1, <2>2, SumOne, SumType DEF Total
  <2>. QED
    BY <1>1, <2>1, <2>3, <2>4
<1>8. PeriodBooks'
  <2>1. ASSUME NEW q \in Periods
        PROVE  usage'[q].committed = CountedTotal(q)' + MeteredTotal(q)'
    <3>1. usage[q].committed = CountedTotal(q) + MeteredTotal(q) /\ MeteredTotal(q) \in Int
      BY <1>1, <1>7 DEF PeriodBooks
    <3>2. CountedTotal(q) \in Int
      <4>1. \A c \in Calls : Counted(q, c) \in Int
        BY <1>1 DEF RowsTyped
      <4>. QED
        BY <4>1, BooksAssumption, SumType DEF CountedTotal, Total
    <3>. QED
      BY <1>1, <1>2, <1>5, <1>7, <3>1, <3>2
  <2>. QED
    BY <2>1 DEF PeriodBooks
<1>9. RepairBooks'
  <2>1. ASSUME reconciling.at # "idle"
        PROVE  MeteredTotal(reconciling.period)' = MeteredTotal(reconciling.period)
    <3>1. PICK q \in Periods : q = reconciling.period
      BY <1>1, <2>1 DEF RepairBooks
    <3>2. q = p => RoundUp(n) = 0
      BY <1>5, <3>1 DEF UsageFree
    <3>3. MeteredTotal(q)' = MeteredTotal(q)
      BY <1>1, <1>7, <3>2
    <3>. QED
      BY <1>1, <3>1, <3>3
  <2>. QED
    BY <1>1, <1>2, <2>1 DEF RepairBooks
<1>10. RowsExist'
  BY <1>1, <1>5 DEF LedgerInv, RowsExist
<1>. QED
  BY <1>3, <1>8, <1>9, <1>10 DEF LedgerInv

\* A sale fills an empty pack; a refund is told by the pack it took from.
LEMMA PackStepLedger ==
    ASSUME LedgerInv, IInv', NEW g \in Grants, PackStep(g) PROVE LedgerInv'
<1>1. /\ TypeOK /\ TypeOK' /\ RowsTyped /\ RowsTyped' /\ IsFiniteSet(Grants)
      /\ UnsoldIsEmpty /\ BonusBooks /\ PackBooks
      /\ UNCHANGED <<reservation, settlement, usage, meter, clock, reserving, reconciling>>
  BY RowTypes, RowTypesNext, GrantsAre DEF LedgerInv, IInv, PackStep, BuyPack, VoidPack
<1>2. /\ DebitTotal' = DebitTotal
      /\ \A p : CountedTotal(p)' = CountedTotal(p) /\ MeteredTotal(p)' = MeteredTotal(p)
      /\ \A h : EarmarkTotal(h)' = EarmarkTotal(h)
      /\ \A c : AllocationTotal(c)' = AllocationTotal(c)
  BY <1>1, SameCalls, SameLegs
<1>3. WeightedUp' /\ AllocatedInFull' /\ RowsExist' /\ PeriodBooks' /\ RepairBooks'
  BY <1>1, <1>2 DEF LedgerInv, WeightedUp, AllocatedInFull, RowsExist, PeriodBooks, RepairBooks
<1>4. SUFFICES /\ grant'[g].state # "none"
               /\ Gone(g)' = Gone(g)
               /\ Undisturbed' => Undisturbed /\ grant[g].remaining <= grant'[g].remaining
               /\ \A h \in Grants \ {g} : grant'[h] = grant[h]
  <2>1. ASSUME /\ grant'[g].state # "none"
               /\ Gone(g)' = Gone(g)
               /\ Undisturbed' => Undisturbed /\ grant[g].remaining <= grant'[g].remaining
               /\ \A h \in Grants \ {g} : grant'[h] = grant[h]
        PROVE  UnsoldIsEmpty' /\ BonusBooks' /\ PackBooks'
    <3>1. UnsoldIsEmpty'
      BY <1>1, <2>1 DEF UnsoldIsEmpty
    <3>2. GoneTotal' = GoneTotal
      <4>1. \A h \in Grants : Gone(h)' = Gone(h)
        BY <2>1 DEF Gone
      <4>. QED
        BY <4>1 DEF GoneTotal, Total
    <3>3. PackBooks'
      <4>1. ASSUME Undisturbed', NEW h \in Grants
            PROVE  EarmarkTotal(h)' <= grant'[h].remaining
        <5>1. /\ EarmarkTotal(h) <= grant[h].remaining
              /\ grant[h].remaining <= grant'[h].remaining
              /\ grant[h].remaining \in Nat /\ grant'[h].remaining \in Nat
          BY <1>1, <2>1, <4>1 DEF PackBooks, TypeOK
        <5>2. EarmarkTotal(h) \in Int
          <6>1. \A c \in Calls : Earmark(h, c) \in Int
            BY <1>1 DEF RowsTyped
          <6>. QED
            BY <6>1, BooksAssumption, SumType DEF EarmarkTotal, Total
        <5>. QED
          BY <1>2, <5>1, <5>2
      <4>. QED
        BY <4>1 DEF PackBooks
    <3>. QED
      BY <1>1, <1>2, <3>1, <3>2, <3>3 DEF BonusBooks
  <2>. QED
    BY <1>3, <1>4, <2>1 DEF LedgerInv
<1>5. /\ grant \in [Grants -> GrantRow] /\ grant[g] \in GrantRow
  BY <1>1 DEF TypeOK, GrantRow
<1>6. ASSUME NEW n \in PackSeconds, BuyPack(g, n)
      PROVE  /\ grant'[g].state # "none"
             /\ Gone(g)' = Gone(g)
             /\ Undisturbed' => Undisturbed /\ grant[g].remaining <= grant'[g].remaining
             /\ \A h \in Grants \ {g} : grant'[h] = grant[h]
  <2>1. n \in Nat
    BY BooksAssumption
  <2>2. /\ grant[g].state = "none" /\ grant[g].purchased = 0 /\ grant[g].remaining = 0
        /\ grant[g].clawed = 0
    BY <1>1, <1>6 DEF BuyPack, UnsoldIsEmpty
  <2>3. /\ grant'[g].state = "live" /\ grant'[g].purchased = n /\ grant'[g].remaining = n
        /\ grant'[g].clawed = 0
        /\ \A h \in Grants \ {g} : grant'[h] = grant[h]
    BY <1>5, <1>6 DEF BuyPack
  <2>4. Gone(g)' = Gone(g)
    BY <2>1, <2>2, <2>3 DEF Gone
  <2>5. Undisturbed' => Undisturbed
    BY <1>1, <2>2, <2>3 DEF Undisturbed
  <2>. QED
    BY <2>1, <2>2, <2>3, <2>4, <2>5
<1>7. ASSUME NEW n \in 1..grant[g].purchased, VoidPack(g, n)
      PROVE  /\ grant'[g].state # "none"
             /\ Gone(g)' = Gone(g)
             /\ Undisturbed' => Undisturbed /\ grant[g].remaining <= grant'[g].remaining
             /\ \A h \in Grants \ {g} : grant'[h] = grant[h]
  <2>. DEFINE claw == least(n, grant[g].remaining)
              row == [grant[g] EXCEPT
                        !.state = IF n >= grant[g].remaining THEN "voided" ELSE @,
                        !.remaining = @ - claw,
                        !.clawed = @ + claw]
  <2>1. /\ n \in Nat \ {0} /\ grant[g].state = "live" /\ grant[g].purchased \in Nat
        /\ grant[g].remaining \in Nat /\ grant[g].clawed \in Nat
    BY <1>5, <1>7 DEF VoidPack, GrantRow
  <2>2. claw \in Nat /\ (n < grant[g].remaining => claw = n)
    BY <2>1 DEF least
  <2>3. grant' = [grant EXCEPT ![g] = row]
    BY <1>5, <1>7 DEF VoidPack
  <2>. HIDE DEF claw
  <2>4. /\ grant'[g].state = IF n >= grant[g].remaining THEN "voided" ELSE "live"
        /\ grant'[g].purchased = grant[g].purchased
        /\ grant'[g].remaining = grant[g].remaining - claw
        /\ grant'[g].clawed = grant[g].clawed + claw
        /\ \A h \in Grants \ {g} : grant'[h] = grant[h]
    BY <1>5, <2>1, <2>3 DEF GrantRow
  <2>5. Gone(g)' = Gone(g)
    BY <2>1, <2>2, <2>4 DEF Gone
  <2>6. ~Undisturbed'
    <3>1. CASE n >= grant[g].remaining
      BY <2>4, <3>1 DEF Undisturbed
    <3>2. CASE n < grant[g].remaining
      BY <2>1, <2>2, <2>4, <3>2 DEF Undisturbed
    <3>. QED
      BY <2>1, <3>1, <3>2
  <2>. QED
    BY <2>4, <2>5, <2>6
<1>. QED
  BY <1>6, <1>7 DEF PackStep

\* LedgerInv is inductive.
LEMMA NextLedger == LedgerInv /\ [Next]_vars => LedgerInv'
<1>. SUFFICES ASSUME LedgerInv, [Next]_vars PROVE LedgerInv'
  OBVIOUS
<1>1. IInv'
  BY NextIInv DEF LedgerInv
<1>2. CASE ExpirePack
  <2>1. /\ UNCHANGED <<reservation, settlement, usage, grant, meter, reserving, reconciling>>
        /\ clock' = clock + 1 /\ clock \in Nat
    BY <1>2, BooksAssumption DEF ExpirePack, LedgerInv, IInv, TypeOK
  <2>2. /\ DebitTotal' = DebitTotal /\ GoneTotal' = GoneTotal
        /\ \A p : CountedTotal(p)' = CountedTotal(p) /\ MeteredTotal(p)' = MeteredTotal(p)
        /\ \A c : AllocationTotal(c)' = AllocationTotal(c)
    BY <2>1, SameCalls, SameLegs, SamePacks
  <2>3. PackBooks'
    BY <2>1 DEF PackBooks, Undisturbed
  <2>. QED
    BY <1>1, <2>1, <2>2, <2>3 DEF LedgerInv, UnsoldIsEmpty, BonusBooks, AllocatedInFull,
       RowsExist, WeightedUp, PeriodBooks, RepairBooks
<1>3. CASE UNCHANGED vars
  <2>1. RowsExist'
    BY <1>3 DEF vars, LedgerInv, RowsExist
  <2>. QED
    BY <1>1, <1>3, <2>1, BystanderLedger DEF vars
<1>. QED
  BY <1>1, <1>2, <1>3, ReserveLedger, CallStepLedger, ReconcileLedger, MeterLedger,
     PackStepLedger DEF Next

-----------------------------------------------------------------------------
(* What follows, for every number of calls, packs, legs and periods. *)

\* The ledgers, each with what it needs to stay true, hold in every reachable
\* state (voice_reserve_for_call to voice_reconcile_period_usage_row).
THEOREM LedgersHold == Spec => []LedgerInv
BY InitLedger, NextLedger, PTL DEF Spec

\* The counter the reserve gate reads is what the settlements and the forwarded
\* legs of the period add up to, whatever repairs and corrections interleave.
THEOREM IncludedLedgerHolds == Spec => []IncludedLedgerAgrees
<1>1. LedgerInv => IncludedLedgerAgrees
  BY LedgerIs DEF LedgerInv, IInv, PeriodBooks, IncludedLedgerAgrees
<1>. QED
  BY <1>1, LedgersHold, PTL

\* The pack seconds gone without a refund are the pack seconds billed: no
\* settlement debits a pack twice or bills a second it could not debit.
THEOREM BonusLedgerHolds == Spec => []BonusLedgerAgrees
<1>1. LedgerInv => BonusLedgerAgrees
  BY BonusLedgerIs DEF LedgerInv
<1>. QED
  BY <1>1, LedgersHold, PTL

\* As long as no pack was refunded or has expired, what calls in flight have
\* allocated is still in the packs: no second is promised twice.
THEOREM HoldsStayCovered == Spec => []HoldsAreInThePacks
<1>1. LedgerInv => HoldsAreInThePacks
  BY HeldOnIs DEF LedgerInv, IInv, PackBooks, Undisturbed, HoldsAreInThePacks
<1>. QED
  BY <1>1, LedgersHold, PTL

-----------------------------------------------------------------------------
(* How far the included pool can be oversold.  IncludedWithinCap does not    *)
(* hold: a reserve reads the committed seconds and the seconds held one      *)
(* after the other, and a call that settles in between is in neither.  What  *)
(* can slip through is what was held at the first reading.                   *)

\* What a call has of a period's included seconds: billed, or promised to it.
ShareOf(p, c) == IF c \in Finalized(p) THEN IncludedShare(c) ELSE 0
PromiseOf(p, c) == IF c \in Held(p) THEN reservation[c].included ELSE 0

ShareTotal(p) == Total([c \in Calls |-> ShareOf(p, c)], Calls)
SoldTotal(p) == Total([c \in Calls |-> ShareOf(p, c) + PromiseOf(p, c)], Calls)

OneRound == MaxConcurrent * MaxGrant

\* Since the reserve under way read the committed seconds, no more was sold.
CommittedRead ==
    reserving.at # "idle" => SoldTotal(reserving.period) <= reserving.committed + OneRound

HeldRead == reserving.at \notin {"idle", "held"} => reserving.held >= 0

\* What it grants fits in what is left by its two readings.
GrantFits ==
    reserving.at \in {"pool", "bonus", "insert"} =>
        reserving.included = 0 \/ reserving.included <= Remaining

SoldInv ==
    /\ LedgerInv
    /\ WithinLimit
    /\ \A p \in Periods : SoldTotal(p) <= Cap + OneRound
    /\ CommittedRead
    /\ HeldRead
    /\ GrantFits

SoldTyped == \A c \in Calls, p \in Periods : ShareOf(p, c) \in Nat /\ PromiseOf(p, c) \in Nat

\* What a call has of the included seconds is a number of seconds.
LEMMA SoldTypes == TypeOK => SoldTyped
<1>. SUFFICES ASSUME TypeOK PROVE SoldTyped
  OBVIOUS
<1>1. \A c \in Calls : IncludedShare(c) \in Nat
  BY RowTypes DEF RowsTyped
<1>2. \A c \in Calls : reservation[c].included \in Nat
  BY GrantLimitsAssumption DEF TypeOK, Reservation
<1>. QED
  BY <1>1, <1>2 DEF SoldTyped, ShareOf, PromiseOf

LEMMA SoldTypesNext == TypeOK' => SoldTyped'
BY SoldTypes, PTL

\* The seconds billed and the seconds promised, as sums over all calls.
LEMMA SoldIs ==
    ASSUME TypeOK, NEW p \in Periods
    PROVE  /\ ShareTotal(p) \in Int /\ HeldIncluded(p) \in Int /\ SoldTotal(p) \in Int
           /\ Sum([c \in Calls |-> IncludedShare(c)], Finalized(p)) = ShareTotal(p)
           /\ HeldIncluded(p) = Total([c \in Calls |-> PromiseOf(p, c)], Calls)
           /\ SoldTotal(p) = ShareTotal(p) + HeldIncluded(p)
<1>1. RowsTyped /\ IsFiniteSet(Calls)
  BY RowTypes, BooksAssumption
<1>2. \A c \in Calls : ShareOf(p, c) \in Nat /\ PromiseOf(p, c) \in Nat
  BY SoldTypes DEF SoldTyped
<1>. DEFINE f == [c \in Calls |-> IncludedShare(c)]
            h == [c \in Calls |-> reservation[c].included]
            s == [c \in Calls |-> ShareOf(p, c)]
            r == [c \in Calls |-> PromiseOf(p, c)]
            t == [c \in Calls |-> ShareOf(p, c) + PromiseOf(p, c)]
<1>3. /\ \A c \in Calls : /\ f[c] \in Int /\ h[c] \in Int
                          /\ s[c] \in Int /\ r[c] \in Int /\ t[c] = s[c] + r[c]
      /\ \A c \in Calls : s[c] = IF c \in Finalized(p) THEN f[c] ELSE 0
      /\ \A c \in Calls : r[c] = IF c \in Held(p) THEN h[c] ELSE 0
  <2>1. \A c \in Calls : f[c] \in Int
    BY <1>1 DEF RowsTyped
  <2>2. \A c \in Calls : h[c] \in Int
    BY GrantLimitsAssumption DEF TypeOK, Reservation
  <2>3. \A c \in Calls : s[c] \in Int /\ r[c] \in Int /\ t[c] = s[c] + r[c]
    BY <1>2
  <2>4. \A c \in Calls : s[c] = IF c \in Finalized(p) THEN f[c] ELSE 0
    BY DEF ShareOf
  <2>5. \A c \in Calls : r[c] = IF c \in Held(p) THEN h[c] ELSE 0
    BY DEF PromiseOf
  <2>. QED
    BY <2>1, <2>2, <2>3, <2>4, <2>5
<1>4. /\ Finalized(p) \in SUBSET Calls /\ Held(p) \in SUBSET Calls
      /\ IsFiniteSet(Finalized(p)) /\ IsFiniteSet(Held(p))
  <2>1. Finalized(p) \in SUBSET Calls /\ Held(p) \in SUBSET Calls
    BY DEF Finalized, Held, InFlight
  <2>. QED
    BY <1>1, <2>1, FS_Subset
<1>5. HeldIncluded(p) = Sum(h, Held(p)) /\ ShareTotal(p) = Total(s, Calls)
      /\ SoldTotal(p) = Total(t, Calls)
  BY DEF HeldIncluded, ShareTotal, SoldTotal
<1>. HIDE DEF f, h, s, r, t
<1>6. Sum(f, Finalized(p)) = Total(s, Calls)
  <2>1. Sum(f, Finalized(p)) = Total(f, Finalized(p))
    BY <1>3, <1>4, SumIsTotal
  <2>2. Total(f, Finalized(p)) = Total(s, Calls)
    BY <1>1, <1>3, <1>4, SumWithin DEF Total
  <2>. QED
    BY <2>1, <2>2
<1>7. Sum(h, Held(p)) = Total(r, Calls)
  <2>1. Sum(h, Held(p)) = Total(h, Held(p))
    BY <1>3, <1>4, SumIsTotal
  <2>2. Total(h, Held(p)) = Total(r, Calls)
    BY <1>1, <1>3, <1>4, SumWithin DEF Total
  <2>. QED
    BY <2>1, <2>2
<1>8. /\ Total(s, Calls) \in Int /\ Total(r, Calls) \in Int
      /\ Total(t, Calls) = Total(s, Calls) + Total(r, Calls)
  BY <1>1, <1>3, SumType, SumPlus DEF Total
<1>9. Total(t, Calls) \in Int
  BY <1>8
<1>. QED
  BY <1>5, <1>6, <1>7, <1>8, <1>9 DEF f, r

SoldNumbers == \A p \in Periods : SoldTotal(p) \in Int

LEMMA SoldIsNumber == TypeOK => SoldNumbers
BY SoldIs DEF SoldNumbers

LEMMA SoldIsNumberNext == TypeOK' => SoldNumbers'
BY SoldIsNumber, PTL

\* No more is promised in a period than the largest grant of every call that
\* can be in flight.
LEMMA PromisedAtMost ==
    ASSUME TypeOK, WithinLimit, NEW p \in Periods
    PROVE  HeldIncluded(p) \in Nat /\ HeldIncluded(p) <= OneRound /\ OneRound \in Nat
<1>1. Held(p) \in SUBSET Calls /\ InFlight \subseteq Calls /\ Held(p) \subseteq InFlight
  BY DEF Held, InFlight
<1>2. IsFiniteSet(Calls) /\ IsFiniteSet(Held(p)) /\ MaxGrant \in Nat /\ MaxConcurrent \in Nat
  BY <1>1, BooksAssumption, GrantLimitsAssumption, FS_Subset
<1>. DEFINE h == [c \in Calls |-> reservation[c].included]
            z == [c \in Calls |-> 0]
<1>3. \A c \in Calls : h[c] \in Int /\ 0 <= h[c] /\ h[c] <= MaxGrant /\ z[c] = 0
  <2>1. \A c \in Calls : reservation[c].included \in 0..MaxGrant
    BY DEF TypeOK, Reservation
  <2>. QED
    BY <1>2, <2>1
<1>4. HeldIncluded(p) = Sum(h, Held(p))
  BY DEF HeldIncluded
<1>. HIDE DEF h, z
<1>5. Sum(h, Held(p)) = Total(h, Held(p)) /\ Total(h, Held(p)) \in Int
  BY <1>1, <1>2, <1>3, SumIsTotal, SumType DEF Total
<1>6. Total(z, Held(p)) = 0
  BY <1>1, <1>2, <1>3, SumZero DEF Total
<1>7. Total(z, Held(p)) <= Total(h, Held(p))
  BY <1>1, <1>2, <1>3, SumMonotone DEF Total
<1>8. Total(h, Held(p)) <= MaxGrant * Cardinality(Held(p))
  BY <1>1, <1>2, <1>3, SumBounded DEF Total
<1>9. Cardinality(Held(p)) \in Nat /\ Cardinality(Held(p)) <= MaxConcurrent
  <2>1. /\ Cardinality(Held(p)) \in Nat /\ Cardinality(InFlight) \in Nat
        /\ Cardinality(Held(p)) <= Cardinality(InFlight)
    BY <1>1, InFlightShrinks
  <2>. QED
    BY <1>2, <2>1 DEF WithinLimit
<1>10. /\ MaxGrant * Cardinality(Held(p)) <= MaxConcurrent * MaxGrant
       /\ MaxGrant * Cardinality(Held(p)) \in Nat /\ MaxConcurrent * MaxGrant \in Nat
  <2>1. ASSUME NEW a \in Nat, NEW b \in Nat, NEW m \in Nat, a <= b
        PROVE  m * a <= b * m /\ m * a \in Nat /\ b * m \in Nat
    <3>1. PICK d \in Nat : b = a + d
      BY <2>1, b - a \in Nat
    <3>2. b * m = m * a + d * m /\ m * a \in Nat /\ d * m \in Nat
      BY <3>1
    <3>. QED
      BY <3>2
  <2>. QED
    BY <1>2, <1>9, <2>1
<1>. QED
  BY <1>4, <1>5, <1>6, <1>7, <1>8, <1>10 DEF OneRound

\* A step on one call's rows moves what is sold by what that call has.
LEMMA SoldMoves ==
    ASSUME TypeOK, TypeOK', NEW c \in Calls, OthersUntouched(c), NEW p \in Periods
    PROVE  SoldTotal(p)' = SoldTotal(p) + (ShareOf(p, c)' + PromiseOf(p, c)')
                                        - (ShareOf(p, c) + PromiseOf(p, c))
<1>1. SoldTyped /\ SoldTyped' /\ IsFiniteSet(Calls)
  BY SoldTypes, SoldTypesNext, BooksAssumption
<1>2. ASSUME NEW d \in Calls, d # c
      PROVE  reservation'[d] = reservation[d] /\ settlement'[d] = settlement[d]
  BY <1>2 DEF OthersUntouched
<1>. DEFINE f == [d \in Calls |-> ShareOf(p, d) + PromiseOf(p, d)]
            h == [d \in Calls |-> ShareOf(p, d)' + PromiseOf(p, d)']
<1>3. \A d \in Calls : f[d] \in Int /\ h[d] \in Int
  BY <1>1 DEF SoldTyped
<1>4. \A d \in Calls : d # c => h[d] = f[d]
  BY <1>2 DEF ShareOf, PromiseOf, Finalized, Held, InFlight, IncludedShare
<1>5. f[c] = ShareOf(p, c) + PromiseOf(p, c) /\ h[c] = ShareOf(p, c)' + PromiseOf(p, c)'
      /\ SoldTotal(p) = Total(f, Calls) /\ SoldTotal(p)' = Total(h, Calls)
  BY DEF SoldTotal, Total
<1>. HIDE DEF f, h
<1>6. Total(f, Calls) \in Int /\ Total(h, Calls) = Total(f, Calls) + h[c] - f[c]
  BY <1>1, <1>3, <1>4, SumOne, SumType DEF Total
<1>. QED
  BY <1>5, <1>6

LEMMA SameSold ==
    ASSUME UNCHANGED <<reservation, settlement>> PROVE \A p : SoldTotal(p)' = SoldTotal(p)
<1>1. \A p, c : ShareOf(p, c)' = ShareOf(p, c) /\ PromiseOf(p, c)' = PromiseOf(p, c)
  BY DEF ShareOf, PromiseOf, Finalized, Held, InFlight, IncludedShare
<1>. QED
  BY <1>1 DEF SoldTotal, Total

\* Settling, releasing or correcting a call sells nothing: a call is billed no
\* more of the included seconds than it was promised.
LEMMA CallStepSells ==
    ASSUME IInv, NEW c \in Calls, CallStep(c), NEW p \in Periods
    PROVE  SoldTotal(p)' <= SoldTotal(p)
<1>1. /\ TypeOK /\ TypeOK' /\ Matched(c) /\ Matched(c)' /\ HoldStep(c) /\ SameTerms(c)
      /\ SoldTyped /\ SoldTyped'
  BY CallStepIInv, CallStepHold, CallStepEffects, SoldTypes, SoldTypesNext DEF IInv
<1>2. /\ reservation[c].included \in Nat
      /\ settlement[c].billable \in Nat /\ settlement'[c].billable \in Nat
      /\ reservation'[c].included = reservation[c].included
      /\ reservation'[c].period = reservation[c].period
  BY <1>1, GrantLimitsAssumption DEF TypeOK, Reservation, Settlement, SameTerms, SameSize
<1>3. /\ HoldOf(c) = "held" <=> c \in InFlight
      /\ HoldOf(c)' = "held" <=> c \in InFlight'
  <2>1. TypeOK => \A d \in Calls : HoldOf(d) = "held" <=> d \in InFlight
    BY HoldOfStates DEF InFlight
  <2>2. HoldOf(c)' = "held" <=> c \in InFlight'
    BY DEF HoldOf, InFlightStates, InFlight
  <2>. QED
    BY <1>1, <2>1, <2>2
<1>4. /\ settlement[c].state # "final" => settlement[c].billable = 0
      /\ c \in InFlight => settlement[c].state # "final"
      /\ settlement'[c].billable = settlement[c].billable \/ ChargesHold(c)
      /\ c \in InFlight' => c \in InFlight
      /\ ChargesHold(c) => c \in InFlight /\ c \notin InFlight'
  <2>1. /\ settlement[c].state # "final" => settlement[c].billable = 0
        /\ c \in InFlight => settlement[c].state # "final"
    BY <1>1 DEF Matched, InFlight, InFlightStates
  <2>2. KeepsHold(c) \/ ReturnsHold(c) \/ ChargesHold(c)
    BY <1>1 DEF HoldStep
  <2>. QED
    BY <1>3, <2>1, <2>2 DEF KeepsHold, ReturnsHold, ChargesHold
<1>5. CASE reservation[c].period # p
  <2>1. /\ ShareOf(p, c) = 0 /\ ShareOf(p, c)' = 0
        /\ PromiseOf(p, c) = 0 /\ PromiseOf(p, c)' = 0
    BY <1>2, <1>5 DEF ShareOf, PromiseOf, Finalized, Held
  <2>2. SoldTotal(p)' = SoldTotal(p) + (ShareOf(p, c)' + PromiseOf(p, c)')
                                     - (ShareOf(p, c) + PromiseOf(p, c))
    BY <1>1, SoldMoves DEF HoldStep
  <2>3. SoldTotal(p) \in Int
    BY <1>1, SoldIs
  <2>. QED
    BY <2>1, <2>2, <2>3
<1>6. CASE reservation[c].period = p
  <2>1. /\ ShareOf(p, c) = IF settlement[c].state = "final" THEN IncludedShare(c) ELSE 0
        /\ ShareOf(p, c)' = IF settlement'[c].state = "final" THEN IncludedShare(c)' ELSE 0
        /\ PromiseOf(p, c) = IF c \in InFlight THEN reservation[c].included ELSE 0
        /\ PromiseOf(p, c)' = IF c \in InFlight' THEN reservation[c].included ELSE 0
    BY <1>2, <1>6 DEF ShareOf, PromiseOf, Finalized, Held
  <2>2. /\ IncludedShare(c) \in Nat /\ IncludedShare(c)' \in 0..reservation[c].included
        /\ settlement[c].billable = 0 => IncludedShare(c) = 0
        /\ settlement'[c].billable = settlement[c].billable => IncludedShare(c)' = IncludedShare(c)
    BY <1>2 DEF IncludedShare, least
  <2>3. ShareOf(p, c)' + PromiseOf(p, c)' <= ShareOf(p, c) + PromiseOf(p, c)
    <3>1. CASE ChargesHold(c)
      BY <1>2, <1>4, <2>1, <2>2, <3>1
    <3>2. CASE ~ChargesHold(c)
      BY <1>2, <1>4, <2>1, <2>2, <3>2
    <3>. QED
      BY <3>1, <3>2
  <2>4. SoldTotal(p)' = SoldTotal(p) + (ShareOf(p, c)' + PromiseOf(p, c)')
                                     - (ShareOf(p, c) + PromiseOf(p, c))
    BY <1>1, SoldMoves DEF HoldStep
  <2>5. /\ ShareOf(p, c) \in Nat /\ ShareOf(p, c)' \in Nat
        /\ PromiseOf(p, c) \in Nat /\ PromiseOf(p, c)' \in Nat
        /\ SoldTotal(p) \in Int
    BY <1>1, SoldIs DEF SoldTyped
  <2>. QED
    BY <2>3, <2>4, <2>5
<1>. QED
  BY <1>5, <1>6

\* What a step that sells nothing leaves as it was.
LEMMA NothingSold ==
    ASSUME SoldInv, LedgerInv', WithinLimit', UNCHANGED reserving,
           \A p \in Periods : SoldTotal(p)' <= SoldTotal(p)
    PROVE  SoldInv'
<1>1. /\ TypeOK /\ TypeOK' /\ RowsExist
      /\ Cap \in Nat /\ OneRound \in Int /\ reserving.committed \in Int
  BY BooksAssumption, GrantLimitsAssumption
     DEF SoldInv, LedgerInv, IInv, TypeOK, Reserving, OneRound
<1>2. \A p \in Periods : SoldTotal(p) \in Int /\ SoldTotal(p)' \in Int
  BY <1>1, SoldIsNumber, SoldIsNumberNext DEF SoldNumbers
<1>3. \A p \in Periods : SoldTotal(p)' <= Cap + OneRound
  BY <1>1, <1>2 DEF SoldInv
<1>4. CommittedRead'
  <2>1. CASE reserving.at = "idle"
    BY <2>1 DEF CommittedRead
  <2>2. CASE reserving.at # "idle"
    <3>1. PICK p \in Periods : p = reserving.period
      BY <1>1, <2>2 DEF RowsExist
    <3>2. SoldTotal(p) <= reserving.committed + OneRound
      BY <2>2, <3>1 DEF SoldInv, CommittedRead
    <3>3. SoldTotal(p)' <= reserving.committed + OneRound
      BY <1>1, <1>2, <3>2
    <3>4. SoldTotal(reserving.period)' = SoldTotal(p)'
      BY <3>1
    <3>. QED
      BY <3>3, <3>4 DEF CommittedRead
  <2>. QED
    BY <2>1, <2>2
<1>5. HeldRead' /\ GrantFits'
  BY DEF SoldInv, HeldRead, GrantFits, Remaining
<1>. QED
  BY <1>3, <1>4, <1>5 DEF SoldInv

\* When a reserve reads the committed seconds, what was sold beyond them is at
\* most what calls in flight hold.
LEMMA BeginReads ==
    ASSUME LedgerInv, WithinLimit, NEW p \in Periods
    PROVE  SoldTotal(p) <= usage[p].committed + OneRound
<1>1. /\ TypeOK /\ RowsTyped /\ SoldTyped /\ PeriodBooks
      /\ IsFiniteSet(Calls) /\ IsFiniteSet(Legs)
  BY RowTypes, SoldTypes, BooksAssumption DEF LedgerInv, IInv
<1>2. ShareTotal(p) <= CountedTotal(p) /\ CountedTotal(p) \in Int
  <2>. DEFINE f == [c \in Calls |-> ShareOf(p, c)]
              h == [c \in Calls |-> Counted(p, c)]
  <2>1. \A c \in Calls : f[c] \in Int /\ h[c] \in Int /\ f[c] <= h[c]
    <3>1. ASSUME NEW c \in Calls PROVE ShareOf(p, c) <= Counted(p, c)
      BY <1>1 DEF RowsTyped, ShareOf, Counted
    <3>2. \A c \in Calls : ShareOf(p, c) \in Int /\ Counted(p, c) \in Int
      BY <1>1 DEF RowsTyped, SoldTyped
    <3>. QED
      BY <3>1, <3>2
  <2>2. ShareTotal(p) = Total(f, Calls) /\ CountedTotal(p) = Total(h, Calls)
    BY DEF ShareTotal, CountedTotal
  <2>. HIDE DEF f, h
  <2>3. Total(f, Calls) <= Total(h, Calls) /\ Total(h, Calls) \in Int
    BY <1>1, <2>1, SumMonotone, SumType DEF Total
  <2>. QED
    BY <2>2, <2>3
<1>3. MeteredTotal(p) \in Int /\ MeteredTotal(p) >= 0
  <2>. DEFINE f == [l \in Legs |-> Metered(p, l)]
              z == [l \in Legs |-> 0]
  <2>1. \A l \in Legs : z[l] = 0 /\ z[l] \in Int /\ f[l] \in Int /\ z[l] <= f[l]
    BY <1>1 DEF RowsTyped
  <2>2. MeteredTotal(p) = Total(f, Legs)
    BY DEF MeteredTotal
  <2>. HIDE DEF f, z
  <2>3. Total(z, Legs) = 0
    BY <1>1, <2>1, SumZero DEF Total
  <2>4. Total(z, Legs) <= Total(f, Legs) /\ Total(f, Legs) \in Int
    BY <1>1, <2>1, SumMonotone, SumType DEF Total
  <2>. QED
    BY <2>2, <2>3, <2>4
<1>4. HeldIncluded(p) <= OneRound /\ HeldIncluded(p) \in Nat /\ OneRound \in Nat
  BY <1>1, PromisedAtMost
<1>5. SoldTotal(p) = ShareTotal(p) + HeldIncluded(p) /\ ShareTotal(p) \in Int
  BY <1>1, SoldIs
<1>6. usage[p].committed = CountedTotal(p) + MeteredTotal(p)
  BY <1>1 DEF PeriodBooks
<1>. QED
  BY <1>2, <1>3, <1>4, <1>5, <1>6

\* The insert sells what it promises, and that fits in what its two readings
\* left of the plan.
LEMMA ReserveInsertSold ==
    ASSUME SoldInv, ReserveInsert, LedgerInv', WithinLimit' PROVE SoldInv'
<1>1. /\ LedgerInv /\ IInv /\ TypeOK /\ TypeOK' /\ SoldTyped /\ SoldTyped' /\ SoldNumbers
      /\ SoldNumbers'
      /\ reservation \in [Calls -> Reservation]
  BY SoldTypes, SoldTypesNext, SoldIsNumber, SoldIsNumberNext DEF SoldInv, LedgerInv, IInv, TypeOK
<1>2. /\ reserving.call \in Calls /\ reservation[reserving.call].state = "none"
      /\ reserving.period \in Periods
      /\ reserving.at = "insert" /\ reserving'.at = "idle"
      /\ settlement' = settlement
  BY <1>1 DEF LedgerInv, IInv, ReserveChecked, RowsExist, ReserveInsert, NoReserve
<1>3. CommittedRead' /\ HeldRead' /\ GrantFits'
  BY <1>2 DEF CommittedRead, HeldRead, GrantFits
<1>4. CASE reservation' = reservation
  <2>1. \A p \in Periods : SoldTotal(p)' = SoldTotal(p)
    BY <1>2, <1>4, SameSold
  <2>. QED
    BY <1>3, <2>1 DEF SoldInv
<1>5. CASE reservation' # reservation
  <2>0. PICK c \in Calls : c = reserving.call
    BY <1>2
  <2>1. PICK left \in Countdown(reserving.bonus) :
          reservation' = [reservation EXCEPT ![c] =
                  [state |-> "pending_answer", period |-> reserving.period,
                   included |-> reserving.included, bonus |-> reserving.bonus,
                   allocation |-> [g \in Grants |-> Taken(left, g)],
                   answered |-> FALSE, attached |-> FALSE]]
    BY <1>5, <2>0 DEF ReserveInsert
  <2>2. /\ reservation'[c].state = "pending_answer"
        /\ reservation'[c].period = reserving.period
        /\ reservation'[c].included = reserving.included
        /\ \A d \in Calls \ {c} : reservation'[d] = reservation[d]
    BY <1>1, <2>1
  <2>3. OthersUntouched(c)
    BY <1>2, <2>2 DEF OthersUntouched
  <2>4. c \notin InFlight /\ c \in InFlight' /\ \A p : c \notin Finalized(p) /\ c \notin Finalized(p)'
    <3>1. settlement[c].state # "final"
      BY <1>1, <1>2, <2>0 DEF IInv, Matched
    <3>. QED
      BY <1>2, <2>0, <2>2, <3>1 DEF InFlight, InFlightStates, Finalized
  <2>5. ASSUME NEW p \in Periods
        PROVE  SoldTotal(p)' = SoldTotal(p) +
                   (IF p = reserving.period THEN reserving.included ELSE 0)
    <3>1. ShareOf(p, c) = 0 /\ ShareOf(p, c)' = 0 /\ PromiseOf(p, c) = 0
      BY <2>4 DEF ShareOf, PromiseOf, Held
    <3>2. PromiseOf(p, c)' = IF p = reserving.period THEN reserving.included ELSE 0
      BY <2>2, <2>4 DEF PromiseOf, Held
    <3>3. SoldTotal(p)' = SoldTotal(p) + (ShareOf(p, c)' + PromiseOf(p, c)')
                                       - (ShareOf(p, c) + PromiseOf(p, c))
      BY <1>1, <2>3, SoldMoves
    <3>4. SoldTotal(p) \in Int /\ PromiseOf(p, c)' \in Int
      BY <1>1 DEF SoldNumbers, SoldTyped
    <3>. QED
      BY <3>1, <3>2, <3>3, <3>4
  <2>6. /\ reserving.committed \in Int /\ reserving.held \in Int /\ reserving.included \in Nat
        /\ reserving.held >= 0
        /\ Cap \in Nat /\ OneRound \in Int
        /\ reserving.included = 0 \/ reserving.included <= Cap - reserving.committed - reserving.held
    <3>1. /\ reserving.committed \in Int /\ reserving.held \in Int /\ reserving.included \in Nat
          /\ Cap \in Nat /\ OneRound \in Int
      BY <1>1, BooksAssumption, GrantLimitsAssumption DEF TypeOK, Reserving, OneRound
    <3>. QED
      BY <1>2, <3>1 DEF SoldInv, HeldRead, GrantFits, Remaining
  <2>7. ASSUME NEW p \in Periods PROVE SoldTotal(p)' <= Cap + OneRound
    <3>1. SoldTotal(p) \in Int /\ SoldTotal(p) <= Cap + OneRound
      BY <1>1 DEF SoldInv, SoldNumbers
    <3>2. CASE p # reserving.period \/ reserving.included = 0
      BY <2>5, <2>6, <3>1, <3>2
    <3>3. CASE p = reserving.period /\ reserving.included # 0
      <4>1. SoldTotal(p) <= reserving.committed + OneRound
        BY <1>2, <3>3 DEF SoldInv, CommittedRead
      <4>2. SoldTotal(p)' = SoldTotal(p) + reserving.included
        BY <2>5, <3>3
      <4>. QED
        BY <2>6, <3>1, <3>3, <4>1, <4>2
    <3>. QED
      BY <3>2, <3>3
  <2>. QED
    BY <1>3, <2>7 DEF SoldInv
<1>. QED
  BY <1>4, <1>5

\* Every statement of voice_reserve_for_call keeps the bound.
LEMMA ReserveSold ==
    ASSUME SoldInv, Reserve, LedgerInv', WithinLimit' PROVE SoldInv'
<1>1. /\ LedgerInv /\ WithinLimit /\ TypeOK /\ TypeOK' /\ RowsExist
      /\ reserving \in Reserving /\ Cap \in Nat /\ MaxGrant \in Nat
  BY BooksAssumption, GrantLimitsAssumption DEF SoldInv, LedgerInv, IInv, TypeOK
<1>2. ASSUME UNCHANGED <<reservation, settlement>>, CommittedRead', HeldRead', GrantFits'
      PROVE  SoldInv'
  <2>1. \A p : SoldTotal(p)' = SoldTotal(p)
    BY <1>2, SameSold
  <2>. QED
    BY <1>2, <2>1 DEF SoldInv
<1>3. ASSUME UNCHANGED <<reservation, settlement>>,
             reserving.at # "idle" /\ reserving'.at # "idle",
             reserving'.period = reserving.period, reserving'.committed = reserving.committed
      PROVE  CommittedRead'
  <2>1. SoldTotal(reserving.period)' = SoldTotal(reserving.period)
    BY <1>3, SameSold
  <2>. QED
    BY <1>3, <2>1 DEF SoldInv, CommittedRead
<1>4. ASSUME UNCHANGED <<reservation, settlement>>, reserving' = NoReserve PROVE SoldInv'
  BY <1>2, <1>4 DEF NoReserve, CommittedRead, HeldRead, GrantFits
<1>5. ASSUME NEW c \in Calls, NEW p \in Periods, ReserveBegin(c, p) PROVE SoldInv'
  <2>1. /\ reserving'.at = "held" /\ reserving'.period = p
        /\ reserving'.committed = usage[p].committed
        /\ UNCHANGED <<reservation, settlement>>
    BY <1>1, <1>5 DEF ReserveBegin, Reserving
  <2>2. SoldTotal(p) <= usage[p].committed + OneRound
    BY <1>1, BeginReads
  <2>3. SoldTotal(reserving.period)' = SoldTotal(p)
    BY <2>1, SameSold
  <2>. QED
    BY <1>2, <2>1, <2>2, <2>3 DEF CommittedRead, HeldRead, GrantFits
<1>6. CASE ReserveReadHeld
  <2>1. /\ reserving.at = "held" /\ reserving'.at = "count"
        /\ reserving'.period = reserving.period /\ reserving'.committed = reserving.committed
        /\ reserving'.held = HeldIncluded(reserving.period)
        /\ UNCHANGED <<reservation, settlement>>
    BY <1>1, <1>6 DEF ReserveReadHeld, Reserving
  <2>2. PICK p \in Periods : p = reserving.period
    BY <1>1, <2>1 DEF RowsExist
  <2>3. HeldIncluded(p) \in Nat
    BY <1>1, PromisedAtMost
  <2>4. HeldRead' /\ GrantFits'
    BY <2>1, <2>2, <2>3 DEF HeldRead, GrantFits
  <2>. QED
    BY <1>2, <1>3, <2>1, <2>4
<1>7. CASE ReserveCount
  <2>1. CASE ~NoRoom
    <3>1. /\ reserving.at = "count" /\ reserving'.at = "pool"
          /\ reserving'.period = reserving.period /\ reserving'.committed = reserving.committed
          /\ reserving'.held = reserving.held
          /\ reserving'.included = FromIncluded
          /\ UNCHANGED <<reservation, settlement>>
      BY <1>1, <1>7, <2>1 DEF ReserveCount, Reserving
    <3>2. Remaining' = Remaining /\ Remaining \in Int
      BY <1>1, <3>1 DEF Remaining, Reserving
    <3>3. HeldRead' /\ GrantFits'
      BY <1>1, <3>1, <3>2 DEF SoldInv, HeldRead, GrantFits, FromIncluded, least, greatest
    <3>. QED
      BY <1>2, <1>3, <3>1, <3>3
  <2>2. CASE NoRoom
    BY <1>4, <1>7, <2>2 DEF ReserveCount
  <2>. QED
    BY <2>1, <2>2
<1>8. ASSUME UNCHANGED <<reservation, settlement>>,
             reserving.at \in {"pool", "bonus"},
             reserving'.at \in {"bonus", "insert"},
             reserving'.period = reserving.period, reserving'.committed = reserving.committed,
             reserving'.held = reserving.held, reserving'.included = reserving.included
      PROVE  SoldInv'
  <2>1. HeldRead' /\ GrantFits'
    BY <1>8 DEF SoldInv, HeldRead, GrantFits, Remaining
  <2>. QED
    BY <1>2, <1>3, <1>8, <2>1
<1>9. CASE ReserveReadPool
  BY <1>1, <1>8, <1>9 DEF ReserveReadPool, Reserving
<1>10. CASE ReserveReadBonus
  <2>. DEFINE bonus == least(MaxGrant - reserving.included,
                             greatest(0, reserving.pool - HeldBonus))
  <2>1. CASE reserving.included + bonus < MinGrant
    BY <1>4, <1>10, <2>1 DEF ReserveReadBonus
  <2>2. CASE ~(reserving.included + bonus < MinGrant)
    <3>1. reserving' = [reserving EXCEPT !.at = "insert", !.bonus = bonus]
      BY <1>10, <2>2 DEF ReserveReadBonus
    <3>2. reserving.at = "bonus" /\ UNCHANGED <<reservation, settlement>>
      BY <1>10 DEF ReserveReadBonus
    <3>. HIDE DEF bonus
    <3>3. /\ reserving'.at = "insert" /\ reserving'.period = reserving.period
          /\ reserving'.committed = reserving.committed
          /\ reserving'.held = reserving.held /\ reserving'.included = reserving.included
      BY <1>1, <3>1 DEF Reserving
    <3>. QED
      BY <1>8, <3>2, <3>3
  <2>. QED
    BY <2>1, <2>2
<1>11. CASE ReserveInsert
  BY <1>11, ReserveInsertSold
<1>. QED
  BY <1>5, <1>6, <1>7, <1>9, <1>10, <1>11 DEF Reserve

\* SoldInv is inductive.
LEMMA NextSold == SoldInv /\ [Next]_vars => SoldInv'
<1>. SUFFICES ASSUME SoldInv, [Next]_vars PROVE SoldInv'
  OBVIOUS
<1>1. LedgerInv' /\ WithinLimit' /\ IInv
  BY NextLedger, NextWithinLimit DEF SoldInv, LedgerInv
<1>2. ASSUME UNCHANGED <<reservation, settlement, reserving>> PROVE SoldInv'
  <2>1. \A p \in Periods : SoldTotal(p)' <= SoldTotal(p)
    <3>1. \A p \in Periods : SoldTotal(p)' = SoldTotal(p)
      BY <1>2, SameSold
    <3>2. \A p \in Periods : SoldTotal(p) \in Int
      BY <1>1, SoldIsNumber DEF SoldNumbers, IInv
    <3>. QED
      BY <3>1, <3>2
  <2>. QED
    BY <1>1, <1>2, <2>1, NothingSold
<1>3. ASSUME NEW c \in Calls, CallStep(c) PROVE SoldInv'
  BY <1>1, <1>3, CallStepSells, CallStepReserving, NothingSold
<1>4. CASE Reserve
  BY <1>1, <1>4, ReserveSold
<1>5. CASE Reconcile
  BY <1>2, <1>5 DEF Reconcile, ReconcileLock, ReconcileSum, ReconcileWrite
<1>6. CASE \E l \in Legs, p \in Periods, n \in Durations : MeterForwardedCall(l, p, n)
  BY <1>2, <1>6 DEF MeterForwardedCall
<1>7. CASE \E g \in Grants : PackStep(g)
  <2>1. ASSUME NEW g, NEW n, BuyPack(g, n) \/ VoidPack(g, n)
        PROVE  UNCHANGED <<reservation, settlement, reserving>>
    BY <2>1 DEF BuyPack, VoidPack
  <2>. QED
    BY <1>2, <1>7, <2>1 DEF PackStep
<1>8. CASE ExpirePack \/ UNCHANGED vars
  BY <1>2, <1>8 DEF ExpirePack, vars
<1>. QED
  BY <1>3, <1>4, <1>5, <1>6, <1>7, <1>8 DEF Next

\* Nothing is sold at first.
LEMMA InitSold == Init => SoldInv
<1>. SUFFICES ASSUME Init PROVE SoldInv
  OBVIOUS
<1>1. LedgerInv /\ TypeOK
  BY InitLedger DEF LedgerInv, IInv
<1>2. InFlight = {} /\ reserving.at = "idle"
  BY DEF Init, InFlight, InFlightStates, NoReservation, NoReserve
<1>3. WithinLimit
  BY <1>2, FS_EmptySet, GrantLimitsAssumption DEF WithinLimit
<1>4. CommittedRead /\ HeldRead /\ GrantFits
  BY <1>2 DEF CommittedRead, HeldRead, GrantFits
<1>5. ASSUME NEW p \in Periods PROVE SoldTotal(p) <= Cap + OneRound
  <2>1. SoldTotal(p) <= usage[p].committed + OneRound /\ SoldTotal(p) \in Int
    BY <1>1, <1>3, BeginReads, SoldIsNumber DEF SoldNumbers
  <2>2. usage[p].committed = 0
    BY DEF Init
  <2>3. Cap \in Nat /\ OneRound \in Int
    BY BooksAssumption, GrantLimitsAssumption DEF OneRound
  <2>. QED
    BY <2>1, <2>2, <2>3
<1>. QED
  BY <1>1, <1>3, <1>4, <1>5 DEF SoldInv

\* A plan can be oversold (IncludedWithinCap does not hold), but by no more than
\* one round of grants.  What settles between the two readings of
\* voice_reserve_for_call was in flight at the first, and at most MaxConcurrent
\* calls are, of MaxGrant seconds at most; the next reserve reads a counter in
\* which those are, so what several races oversell adds up to no more.
THEOREM OversellingBounded == Spec => []OversoldAtMostOneRound
<1>1. SoldInv => OversoldAtMostOneRound
  <2>. SUFFICES ASSUME SoldInv PROVE OversoldAtMostOneRound
    OBVIOUS
  <2>1. TypeOK
    BY DEF SoldInv, LedgerInv, IInv
  <2>. QED
    BY <2>1, SoldIs DEF SoldInv, OversoldAtMostOneRound, OneRound
<1>. QED
  BY <1>1, InitSold, NextSold, PTL DEF Spec

=============================================================================
