-------------------------- MODULE LeaveBalance_proofs --------------------------
(***************************************************************************)
(* Proofs, for any types, calendar, rules and number of calls in flight,   *)
(* that the days of a balance add up, that a balance is overdrawn by       *)
(* nothing but changes of leaves, that accrual never lowers one and gives  *)
(* the days of one tier once, and that the days used are those of leaves.  *)
(***************************************************************************)
EXTENDS LeaveBalance, FiniteSetTheorems, WellFoundedInduction, TLAPS

-----------------------------------------------------------------------------
(* The inductive invariant.                                                *)

\* Before a row exists there is nothing in it, and nothing of it has expired.
EmptyBeforeCreated == \A k \in Keys : ~balance[k].exists => balance[k] = NoBalance /\ lapsed[k] = 0

\* What a call has read of a balance: rows never go away, and a leave was checked.
CallsHaveRead ==
    \A r \in inFlight :
        /\ r.op = "create" => balance[r.key].exists /\ r.seen >= r.days
        /\ r.op = "accrue" => (r.found => balance[r.key].exists)

LInv == LeaveTypeOK /\ EmptyBeforeCreated /\ CallsHaveRead /\ DaysAddUp /\ OverdrawnOnlyByChanges

CreateCalls == [op : {"create"}, key : Keys, type : Types, days : Nat, seen : Int]
ModifyCalls == [op : {"modify"}, leave : LeaveIds, key : Keys, year : Years, days : Nat, seen : Nat]
DeleteCalls == [op : {"delete"}, leave : LeaveIds, key : Keys, seen : Nat]
AccrueCalls == [op : {"accrue"}, key : Keys, days : Nat, seen : Int, found : BOOLEAN, expiresAt : Nat]

LEMMA CallKinds ==
    ASSUME NEW r \in Call
    PROVE  /\ r.op = "create" => r \in CreateCalls
           /\ r.op = "modify" => r \in ModifyCalls
           /\ r.op = "delete" => r \in DeleteCalls
           /\ r.op = "accrue" => r \in AccrueCalls
           /\ r.key \in Keys
  BY DEF Call, CreateCalls, ModifyCalls, DeleteCalls, AccrueCalls

-----------------------------------------------------------------------------
(* Numbers of days.                                                        *)

LEMMA ProductIsNatural == ASSUME NEW m \in Nat, NEW n \in Nat PROVE m * n \in Nat
  OBVIOUS

LEMMA YearsAreNatural == Years \subseteq Nat \ {0} /\ 1 \in Years
  <1>1. ASSUME NEW d \in Days PROVE YearOf(d) \in Nat \ {0}
    <2>1. d - 1 \in Nat /\ YearLength \in Nat \ {0}
      BY LeaveConstants DEF Days
    <2>2. (d - 1) \div YearLength \in Nat
      BY <2>1
    <2> QED
      BY <2>2 DEF YearOf
  <1>2. 1 \in Days /\ YearOf(1) = 1
    BY LeaveConstants DEF Days, YearOf
  <1> QED
    BY <1>1, <1>2 DEF Years

LEMMA FirstDayIsNatural == ASSUME NEW y \in Nat \ {0} PROVE FirstDay(y) \in Nat
  <1>1. (y - 1) * YearLength \in Nat
    BY LeaveConstants, ProductIsNatural
  <1> QED
    BY <1>1 DEF FirstDay

LEMMA DaysUsedAreNatural ==
    ASSUME NEW t \in Types, NEW p \in Periods
    PROVE  calcLeaveDaysUsed(t, p[1], p[2]) \in Nat /\ computeLeaveDaysUsed(t, p[1], p[2]) \in Nat
  <1>1. p[1] \in Nat /\ p[2] \in Nat /\ Deduct[t] \in Nat
    BY LeaveConstants DEF Periods, Days
  <1>2. Cardinality(Workdays \cap p[1] .. p[2]) \in Nat
    <2>1. \A a, b \in Int : IsFiniteSet(a .. b)
      BY FS_Interval
    <2>2. p[1] \in Int /\ p[2] \in Int
      BY <1>1
    <2>3. IsFiniteSet(p[1] .. p[2])
      BY <2>1, <2>2, Zenon
    <2>4. IsFiniteSet(Workdays \cap p[1] .. p[2])
      BY <2>3, FS_Intersection, Zenon
    <2> QED
      BY <2>4, FS_CardinalityType
  <1>3. AtLeast(p[2] - p[1] + 1, 1) \in Nat /\ AtLeast(Cardinality(Workdays \cap p[1] .. p[2]), 1) \in Nat
    BY <1>1, <1>2 DEF AtLeast
  <1> QED
    BY <1>1, <1>3, ProductIsNatural DEF calcLeaveDaysUsed, computeLeaveDaysUsed

LEMMA TargetIsNatural ==
    ASSUME NEW i \in Item, NEW y \in Nat \ {0}, NEW ref \in Int
    PROVE  TargetDays(i, y, ref) \in Nat /\ calcExpiresAt(i, y) \in Nat
  <1>1. FirstDay(y) \in Nat /\ JoinedAt \in Nat
    BY LeaveConstants, FirstDayIsNatural
  <1>2. AtLeast(FirstDay(y), JoinedAt) \in Nat
    BY <1>1 DEF AtLeast
  <1>3. calcMonthlyAccrualCount(y, ref) \in Nat
    BY <1>2 DEF AtLeast, calcMonthlyAccrualCount
  <1>4. i.days * calcMonthlyAccrualCount(y, ref) \in Nat
    BY <1>3, ProductIsNatural DEF Item
  <1> QED
    BY <1>1, <1>4 DEF TargetDays, calcExpiresAt, Item, NoDate

-----------------------------------------------------------------------------
(* What handlers read.                                                     *)

LEMMA ChargedFacts ==
    ASSUME LeaveTypeOK, NEW c \in Types, NEW t \in Types, NEW p \in Periods, NEW days \in Nat,
           NEW r \in Charged(c, t, p, days)
    PROVE  r \in CreateCalls /\ balance[r.key].exists /\ r.seen >= r.days
  <1>1. <<c, YearOf(p[1])>> \in Keys
    BY DEF Periods, Keys, Years
  <1>2. balance[<<c, YearOf(p[1])>>] \in Balance
    BY <1>1 DEF LeaveTypeOK
  <1>3. r = CreateCall(<<c, YearOf(p[1])>>, t, days) /\ validateBalance(<<c, YearOf(p[1])>>, days, p[1])
    BY DEF Charged
  <1> QED
    BY <1>1, <1>2, <1>3 DEF CreateCall, CreateCalls, validateBalance, Balance

LEMMA TypesChosen == resolveBalanceTypeId \subseteq Types /\ pickRepresentativeLeaveType \subseteq Types
  BY DEF resolveBalanceTypeId, pickRepresentativeLeaveType, Representatives, ActiveTypes

LEMMA ReadFacts ==
    ASSUME LeaveTypeOK, NEW r \in Reads
    PROVE  /\ r \in Call
           /\ r.op = "create" => balance[r.key].exists /\ r.seen >= r.days
           /\ r.op = "accrue" => (r.found => balance[r.key].exists)
  <1>1. CASE r \in createLeave \cup applyLeaveCreate
    <2>1. PICK c \in Types, t \in Types, p \in Periods, days \in Nat : r \in Charged(c, t, p, days)
      BY <1>1, TypesChosen, DaysUsedAreNatural DEF createLeave, applyLeaveCreate
    <2>2. r \in CreateCalls /\ balance[r.key].exists /\ r.seen >= r.days
      BY <2>1, ChargedFacts
    <2> QED
      BY <2>2 DEF Call, CreateCalls
  <1>2. CASE r \in applyLeaveModify
    <2>1. PICK rep \in resolveBalanceTypeId, l \in Taken, p \in Periods :
             r = [op |-> "modify", leave |-> l, key |-> <<rep, leaves[l].year>>, year |-> YearOf(p[1]),
                  days |-> computeLeaveDaysUsed(leaves[l].type, p[1], p[2]), seen |-> leaves[l].daysUsed]
      BY <1>2 DEF applyLeaveModify
    <2>2. l \in LeaveIds /\ leaves[l] \in Leave
      BY DEF Taken, LeaveTypeOK
    <2>3. computeLeaveDaysUsed(leaves[l].type, p[1], p[2]) \in Nat
      BY <2>2, DaysUsedAreNatural DEF Leave
    <2>4. YearOf(p[1]) \in Years /\ <<rep, leaves[l].year>> \in Keys
      BY <2>2, TypesChosen DEF Periods, Years, Keys, Leave
    <2>5. r \in ModifyCalls
      BY <2>1, <2>2, <2>3, <2>4 DEF ModifyCalls, Leave
    <2> QED
      BY <2>5 DEF Call, ModifyCalls
  <1>3. CASE r \in applyLeaveDelete
    <2>1. PICK rep \in resolveBalanceTypeId, l \in Taken :
             r = [op |-> "delete", leave |-> l, key |-> <<rep, leaves[l].year>>, seen |-> leaves[l].daysUsed]
      BY <1>3 DEF applyLeaveDelete
    <2>2. l \in LeaveIds /\ leaves[l] \in Leave
      BY DEF Taken, LeaveTypeOK
    <2>3. <<rep, leaves[l].year>> \in Keys
      BY <2>2, TypesChosen DEF Keys, Leave
    <2>4. r \in DeleteCalls
      BY <2>1, <2>2, <2>3 DEF DeleteCalls, Leave
    <2> QED
      BY <2>4 DEF Call, DeleteCalls
  <1>4. CASE \E y \in Years : r \in runAccrualRule(y)
    <2>1. PICK y \in Years : r \in runAccrualRule(y)
      BY <1>4
    <2> DEFINE asOf == clampToYear(today, y)
    <2>2. PICK t \in pickRepresentativeLeaveType, i \in ApplicableItems(asOf) : r = AccrueCall(t, i, y, asOf)
      BY <2>1 DEF runAccrualRule
    <2>3. y \in Nat \ {0} /\ y + 1 \in Nat \ {0}
      BY YearsAreNatural
    <2>4. asOf \in Int
      BY <2>3, FirstDayIsNatural DEF clampToYear, AtLeast, AtMost, LeaveTypeOK, Days
    <2>5. i \in Item
      BY DEF ApplicableItems, LeaveTypeOK
    <2>6. TargetDays(i, y, asOf) \in Nat /\ calcExpiresAt(i, y) \in Nat
      BY <2>3, <2>4, <2>5, TargetIsNatural
    <2>7. <<t, y>> \in Keys /\ balance[<<t, y>>] \in Balance
      BY TypesChosen DEF Keys, LeaveTypeOK
    <2> HIDE DEF asOf
    <2>8. r \in AccrueCalls
      BY <2>2, <2>6, <2>7 DEF AccrueCall, AccrueCalls, Balance
    <2> QED
      BY <2>2, <2>8 DEF AccrueCall, Call, AccrueCalls
  <1> QED
    BY <1>1, <1>2, <1>3, <1>4 DEF Reads
-----------------------------------------------------------------------------
(* What is written to a row.                                               *)

LEMMA MovedFacts ==
    ASSUME NEW b \in Balance, NEW n, n \in Int
    PROVE  /\ Moved(b, n) \in Balance
           /\ Moved(b, n).exists = b.exists
           /\ Moved(b, n).accrued = b.accrued
           /\ Moved(b, n).used = b.used + n
           /\ Moved(b, n).remaining = b.remaining - n
  <1> DEFINE used == b.used + n
             remaining == b.remaining - n
             upd == [b EXCEPT !.used = used, !.remaining = remaining]
  <1>1. Moved(b, n) = upd
    BY DEF Moved
  <1>2. used \in Int /\ remaining \in Int
    BY DEF Balance
  <1> HIDE DEF used, remaining
  <1>3. /\ upd \in Balance /\ upd.exists = b.exists /\ upd.accrued = b.accrued
        /\ upd.used = used /\ upd.remaining = remaining
    BY <1>2 DEF Balance
  <1> QED
    BY <1>1, <1>3 DEF used, remaining

LEMMA RaisedFacts ==
    ASSUME NEW b \in Balance, NEW r \in AccrueCalls
    PROVE  /\ Raised(b, r) \in Balance
           /\ Raised(b, r).exists = b.exists
           /\ Raised(b, r).accrued = r.days
           /\ Raised(b, r).used = b.used
           /\ Raised(b, r).remaining = b.remaining + (r.days - r.seen)
  <1> DEFINE expiresAt == IF r.expiresAt # NoDate THEN r.expiresAt ELSE b.expiresAt
             remaining == b.remaining + (r.days - r.seen)
             upd == [b EXCEPT !.accrued = r.days, !.remaining = remaining, !.expiresAt = expiresAt]
  <1>1. Raised(b, r) = upd
    BY DEF Raised
  <1>2. expiresAt \in Nat /\ remaining \in Int /\ r.days \in Int
    BY DEF AccrueCalls, Balance
  <1> HIDE DEF expiresAt, remaining
  <1>3. /\ upd \in Balance /\ upd.exists = b.exists /\ upd.accrued = r.days
        /\ upd.used = b.used /\ upd.remaining = remaining
    BY <1>2 DEF Balance
  <1> QED
    BY <1>1, <1>3 DEF remaining

LEMMA ToppedFacts ==
    ASSUME NEW b \in Balance, NEW n, n \in Nat, NEW d, d \in Nat
    PROVE  /\ Topped(b, n, d) \in Balance
           /\ Topped(b, n, d).exists
           /\ Topped(b, n, d).accrued = IF b.exists THEN b.accrued + n ELSE n
           /\ Topped(b, n, d).used = IF b.exists THEN b.used ELSE 0
           /\ Topped(b, n, d).remaining = IF b.exists THEN b.remaining + n ELSE n
  <1>1. CASE ~b.exists
    BY <1>1 DEF Topped, Balance
  <1>2. CASE b.exists
    <2> DEFINE expiresAt == IF d # NoDate THEN d ELSE b.expiresAt
               accrued == b.accrued + n
               remaining == b.remaining + n
               upd == [b EXCEPT !.accrued = accrued, !.remaining = remaining, !.expiresAt = expiresAt]
    <2>1. Topped(b, n, d) = upd
      BY <1>2 DEF Topped
    <2>2. expiresAt \in Nat /\ accrued \in Int /\ remaining \in Int
      BY DEF Balance
    <2> HIDE DEF expiresAt, accrued, remaining
    <2>3. /\ upd \in Balance /\ upd.exists = b.exists /\ upd.accrued = accrued
          /\ upd.used = b.used /\ upd.remaining = remaining
      BY <2>2 DEF Balance
    <2> QED
      BY <1>2, <2>1, <2>3 DEF accrued, remaining
  <1> QED
    BY <1>1, <1>2

\* The parts of the invariant that are about one balance.
Good(b, l, e, s) ==
    /\ ~b.exists => b = NoBalance /\ l = 0
    /\ "accrual" \notin s => b.accrued = b.used + b.remaining + l
    /\ "balance" \notin s => b.remaining + e >= 0

LEMMA GoodIsInvariant ==
    EmptyBeforeCreated /\ DaysAddUp /\ OverdrawnOnlyByChanges
        <=> \A k \in Keys : Good(balance[k], lapsed[k], extended, spoiled)
  BY DEF EmptyBeforeCreated, DaysAddUp, OverdrawnOnlyByChanges, Good

\* Balances that a step leaves alone stay good.
LEMMA GoodIsKept ==
    ASSUME NEW b \in Balance, NEW l \in Nat, NEW e \in Nat, NEW f \in Nat, f >= e, NEW s, NEW t, s \subseteq t,
           Good(b, l, e, s)
    PROVE  Good(b, l, f, t)
  BY DEF Good, Balance
-----------------------------------------------------------------------------
(* Steps.                                                                  *)

Kinds == {"accrual", "balance", "leave"}

\* The rows and the history, as the invariant wants them.
Rows ==
    /\ balance \in [Keys -> Balance]
    /\ leaves \in [LeaveIds -> Leave]
    /\ lapsed \in [Keys -> Nat] /\ extended \in Nat /\ granted \in [Keys -> Nat]
    /\ spoiled \subseteq Kinds
    /\ \A k \in Keys : Good(balance[k], lapsed[k], extended, spoiled)

\* What every step on them does.
Outcome ==
    /\ Rows'
    /\ \A k \in Keys : balance[k].exists => balance'[k].exists
    /\ "accrual" \notin spoiled' => \A k \in Keys : balance'[k].accrued >= balance[k].accrued

LEMMA InvariantRows == LInv => Rows
  BY GoodIsInvariant DEF LInv, LeaveTypeOK, Rows, Kinds

LEMMA SpoilsAdds ==
    ASSUME spoiled \subseteq Kinds, NEW kind \in Kinds, NEW cond, Spoils(kind, cond)
    PROVE  /\ spoiled \subseteq spoiled' /\ spoiled' \subseteq Kinds
           /\ kind \notin spoiled' => ~cond
  BY DEF Spoils

\* One row changes.
LEMMA RowChange ==
    ASSUME Rows, NEW k \in Keys, NEW b \in Balance,
           balance' = [balance EXCEPT ![k] = b],
           balance[k].exists => b.exists,
           "accrual" \notin spoiled' => b.accrued >= balance[k].accrued,
           Good(b, lapsed[k], extended', spoiled'),
           lapsed' = lapsed, extended' \in Nat, extended' >= extended,
           leaves' \in [LeaveIds -> Leave], granted' \in [Keys -> Nat],
           spoiled \subseteq spoiled', spoiled' \subseteq Kinds
    PROVE  Outcome
  <1>1. /\ balance' \in [Keys -> Balance] /\ balance'[k] = b
        /\ \A j \in Keys : j # k => balance'[j] = balance[j]
    BY DEF Rows
  <1>2. ASSUME NEW j \in Keys, j # k PROVE Good(balance[j], lapsed[j], extended', spoiled')
    <2>1. balance[j] \in Balance /\ lapsed[j] \in Nat /\ extended \in Nat /\ Good(balance[j], lapsed[j], extended, spoiled)
      BY DEF Rows
    <2> QED
      BY <2>1, GoodIsKept
  <1>3. \A j \in Keys : Good(balance'[j], lapsed'[j], extended', spoiled')
    BY <1>1, <1>2
  <1>4. \A j \in Keys : balance[j].exists => balance'[j].exists
    BY <1>1
  <1>5. "accrual" \notin spoiled' => \A j \in Keys : balance'[j].accrued >= balance[j].accrued
    <2>1. \A j \in Keys : balance[j].accrued \in Int
      BY DEF Rows, Balance
    <2> QED
      BY <1>1, <2>1
  <1> QED
    BY <1>1, <1>3, <1>4, <1>5 DEF Outcome, Rows

\* No row changes.
LEMMA NoRowChange ==
    ASSUME Rows, balance' = balance, lapsed' = lapsed, extended' \in Nat, extended' >= extended,
           leaves' \in [LeaveIds -> Leave], granted' \in [Keys -> Nat],
           spoiled \subseteq spoiled', spoiled' \subseteq Kinds
    PROVE  Outcome
  <1>1. ASSUME NEW j \in Keys PROVE Good(balance[j], lapsed[j], extended', spoiled')
    <2>1. balance[j] \in Balance /\ lapsed[j] \in Nat /\ extended \in Nat /\ Good(balance[j], lapsed[j], extended, spoiled)
      BY DEF Rows
    <2> QED
      BY <2>1, GoodIsKept
  <1>2. \A j \in Keys : balance[j].accrued \in Int
    BY DEF Rows, Balance
  <1> QED
    BY <1>1, <1>2 DEF Outcome, Rows

\* A leave is created from a balance that held its days when it was read; that it
\* holds them no longer spoils.
LEMMA CreateKeeps ==
    ASSUME Rows, NEW r \in CreateCalls, balance[r.key].exists, r.seen >= r.days, WriteCreate(r)
    PROVE  Outcome
  <1> DEFINE old == balance[r.key]
             upd == Moved(old, r.days)
  <1>1. r.key \in Keys /\ r.key[2] \in Years /\ r.type \in Types /\ r.days \in Nat /\ r.seen \in Int
    BY DEF CreateCalls, Keys
  <1>2. /\ balance' = [balance EXCEPT ![r.key] = upd]
        /\ UNCHANGED <<lapsed, extended, granted, offered>>
        /\ Spoils("balance", old.remaining < r.seen)
    BY DEF WriteCreate, Use
  <1>3. leaves' \in [LeaveIds -> Leave]
    <2>1. PICK l \in LeaveIds \ Taken :
             leaves' = [leaves EXCEPT ![l] = [exists |-> TRUE, type |-> r.type, year |-> r.key[2], daysUsed |-> r.days]]
      BY DEF WriteCreate
    <2>2. [exists |-> TRUE, type |-> r.type, year |-> r.key[2], daysUsed |-> r.days] \in Leave
      BY <1>1 DEF Leave
    <2> QED
      BY <2>1, <2>2 DEF Rows
  <1>4. /\ old \in Balance /\ lapsed[r.key] \in Nat /\ extended \in Nat /\ spoiled \subseteq Kinds
        /\ granted \in [Keys -> Nat] /\ Good(old, lapsed[r.key], extended, spoiled)
    BY <1>1 DEF Rows
  <1>5. /\ upd \in Balance /\ upd.exists = old.exists /\ upd.accrued = old.accrued
        /\ upd.used = old.used + r.days /\ upd.remaining = old.remaining - r.days
    <2>1. r.days \in Int
      BY <1>1
    <2> QED
      BY <1>4, <2>1, MovedFacts
  <1>6. /\ spoiled \subseteq spoiled' /\ spoiled' \subseteq Kinds
        /\ "balance" \notin spoiled' => ~(old.remaining < r.seen)
    BY <1>2, <1>4, SpoilsAdds DEF Kinds
  <1> HIDE DEF upd, old
  <1>7. /\ old.accrued \in Int /\ old.used \in Int /\ old.remaining \in Int
    BY <1>4 DEF Balance
  <1>8. Good(upd, lapsed[r.key], extended, spoiled')
    <2>1. old.exists
      BY DEF old
    <2>2. "accrual" \notin spoiled' => upd.accrued = upd.used + upd.remaining + lapsed[r.key]
      BY <1>1, <1>4, <1>5, <1>6, <1>7 DEF Good
    <2>3. "balance" \notin spoiled' => upd.remaining + extended >= 0
      BY <1>1, <1>4, <1>5, <1>6, <1>7
    <2> QED
      BY <1>5, <2>1, <2>2, <2>3 DEF Good
  <1>9. /\ balance[r.key] = old
        /\ old.exists => upd.exists
        /\ "accrual" \notin spoiled' => upd.accrued >= old.accrued
        /\ extended' \in Nat /\ extended' >= extended
        /\ granted' \in [Keys -> Nat] /\ lapsed' = lapsed
        /\ Good(upd, lapsed[r.key], extended', spoiled')
    BY <1>2, <1>4, <1>5, <1>7, <1>8 DEF old
  <1> QED
    BY <1>1, <1>2, <1>3, <1>5, <1>6, <1>9, RowChange
\* A booking moves days between used and remaining; a change of a leave takes at
\* most what it adds to extended.
LEMMA BookKeeps ==
    ASSUME Rows, NEW k \in Keys, NEW delta, delta \in Int, Book(k, delta),
           extended' \in Nat, extended' >= extended, extended' - extended >= delta,
           leaves' \in [LeaveIds -> Leave], UNCHANGED <<lapsed, granted>>,
           spoiled \subseteq spoiled', spoiled' \subseteq Kinds
    PROVE  Outcome
  <1> DEFINE old == balance[k]
             upd == Moved(old, delta)
  <1>1. /\ old \in Balance /\ lapsed[k] \in Nat /\ extended \in Nat
        /\ granted \in [Keys -> Nat] /\ Good(old, lapsed[k], extended, spoiled)
    BY DEF Rows
  <1>2. CASE ~old.exists
    <2>1. balance' = balance
      BY <1>2 DEF Book
    <2> QED
      BY <1>1, <2>1, NoRowChange
  <1>3. CASE old.exists
    <2>1. balance' = [balance EXCEPT ![k] = upd]
      BY <1>3 DEF Book
    <2>2. /\ upd \in Balance /\ upd.exists = old.exists /\ upd.accrued = old.accrued
          /\ upd.used = old.used + delta /\ upd.remaining = old.remaining - delta
      BY <1>1, MovedFacts
    <2> HIDE DEF upd, old
    <2>3. /\ old.accrued \in Int /\ old.used \in Int /\ old.remaining \in Int
      BY <1>1 DEF Balance
    <2>4. "accrual" \notin spoiled' => upd.accrued = upd.used + upd.remaining + lapsed[k]
      BY <1>1, <2>2, <2>3 DEF Good
    <2>5. "balance" \notin spoiled' => upd.remaining + extended' >= 0
      <3>1. "balance" \notin spoiled' => old.remaining + extended >= 0
        BY <1>1 DEF Good
      <3>2. /\ upd.remaining = old.remaining - delta
            /\ extended \in Int /\ extended' \in Int /\ delta \in Int /\ old.remaining \in Int
        BY <1>1, <2>2, <2>3
      <3>3. \A n, d, e, f \in Int : n + e >= 0 /\ f - e >= d => (n - d) + f >= 0
        OBVIOUS
      <3> QED
        BY <3>1, <3>2, <3>3, Zenon
    <2>6. /\ balance[k] = old
          /\ old.exists => upd.exists
          /\ "accrual" \notin spoiled' => upd.accrued >= old.accrued
          /\ granted' \in [Keys -> Nat] /\ lapsed' = lapsed
          /\ Good(upd, lapsed[k], extended', spoiled')
      BY <1>1, <1>3, <2>2, <2>3, <2>4, <2>5 DEF Good, old
    <2> QED
      BY <2>1, <2>2, <2>6, RowChange
  <1> QED
    BY <1>2, <1>3

LEMMA ModifyKeeps == ASSUME Rows, NEW r \in ModifyCalls, WriteModify(r) PROVE Outcome
  <1>1. r.key \in Keys /\ r.leave \in LeaveIds /\ r.year \in Years /\ r.days \in Nat /\ r.seen \in Nat
    BY DEF ModifyCalls
  <1>2. leaves' \in [LeaveIds -> Leave]
    <2> DEFINE upd == [leaves[r.leave] EXCEPT !.year = r.year, !.daysUsed = r.days]
    <2>1. leaves \in [LeaveIds -> Leave] /\ leaves[r.leave] \in Leave
      BY <1>1 DEF Rows
    <2>2. upd \in Leave
      BY <1>1, <2>1 DEF Leave
    <2>3. leaves' = [leaves EXCEPT ![r.leave] = upd]
      BY <1>1, <2>1 DEF WriteModify, Leave
    <2> QED
      BY <2>1, <2>2, <2>3
  <1>3. extended \in Nat /\ extended' = extended + AtLeast(r.days - r.seen, 0)
    BY DEF WriteModify, Rows
  <1>4. extended' \in Nat /\ extended' >= extended /\ extended' - extended >= r.days - r.seen
    BY <1>1, <1>3 DEF AtLeast
  <1>5. Book(r.key, r.days - r.seen) /\ UNCHANGED <<lapsed, granted>> /\ r.days - r.seen \in Int
    BY <1>1 DEF WriteModify
  <1>6. spoiled \subseteq spoiled' /\ spoiled' \subseteq Kinds
    BY SpoilsAdds DEF WriteModify, Kinds, Rows
  <1> QED
    BY <1>1, <1>2, <1>4, <1>5, <1>6, BookKeeps

LEMMA DeleteKeeps == ASSUME Rows, NEW r \in DeleteCalls, WriteDelete(r) PROVE Outcome
  <1>1. r.key \in Keys /\ r.leave \in LeaveIds /\ r.seen \in Nat
    BY DEF DeleteCalls
  <1>2. leaves' \in [LeaveIds -> Leave]
    <2>1. NoLeave \in Leave
      BY LeaveConstants, YearsAreNatural DEF NoLeave, Leave
    <2> QED
      BY <2>1 DEF WriteDelete, Rows
  <1>3. /\ Book(r.key, 0 - r.seen) /\ UNCHANGED <<lapsed, extended, granted>>
        /\ 0 - r.seen \in Int
    BY <1>1 DEF WriteDelete
  <1>4. extended' \in Nat /\ extended' >= extended /\ extended' - extended >= 0 - r.seen
    BY <1>1, <1>3 DEF Rows
  <1>5. spoiled \subseteq spoiled' /\ spoiled' \subseteq Kinds
    BY SpoilsAdds DEF WriteDelete, Kinds, Rows
  <1> QED
    BY <1>1, <1>2, <1>3, <1>4, <1>5, BookKeeps

\* An accrual raises a row by what it lacked when it was read, or makes one.
LEMMA AccrualKeeps ==
    ASSUME Rows, NEW r \in AccrueCalls, r.found => balance[r.key].exists, WriteAccrual(r)
    PROVE  Outcome
  <1> DEFINE old == balance[r.key]
             fresh == [exists |-> TRUE, accrued |-> r.days, used |-> 0, remaining |-> r.days, expiresAt |-> r.expiresAt]
             upd == IF r.found THEN Raised(old, r) ELSE fresh
  <1>1. r.key \in Keys /\ r.days \in Nat /\ r.seen \in Int /\ r.found \in BOOLEAN /\ r.expiresAt \in Nat
    BY DEF AccrueCalls
  <1>2. /\ balance' = [balance EXCEPT ![r.key] = upd]
        /\ UNCHANGED <<leaves, lapsed, extended, granted>>
        /\ Spoils("accrual", r.found /\ old.accrued # r.seen)
        /\ r.found \/ ~old.exists
        /\ ~TargetReached(r)
    BY DEF WriteAccrual
  <1>3. /\ old \in Balance /\ lapsed[r.key] \in Nat /\ extended \in Nat /\ spoiled \subseteq Kinds
        /\ leaves \in [LeaveIds -> Leave] /\ granted \in [Keys -> Nat]
        /\ Good(old, lapsed[r.key], extended, spoiled)
    BY <1>1 DEF Rows
  <1>4. /\ spoiled \subseteq spoiled' /\ spoiled' \subseteq Kinds
        /\ "accrual" \notin spoiled' => ~(r.found /\ old.accrued # r.seen)
    BY <1>2, <1>3, SpoilsAdds DEF Kinds
  <1>5. /\ upd \in Balance /\ upd.exists
        /\ "accrual" \notin spoiled' => upd.accrued >= old.accrued
        /\ Good(upd, lapsed[r.key], extended, spoiled')
    <2>1. CASE r.found
      <3>1. /\ upd \in Balance /\ upd.exists = old.exists /\ upd.accrued = r.days
            /\ upd.used = old.used /\ upd.remaining = old.remaining + (r.days - r.seen)
        BY <1>3, <2>1, RaisedFacts
      <3>2. r.days > r.seen /\ old.exists
        BY <1>1, <1>2, <2>1 DEF TargetReached
      <3> HIDE DEF upd, old
      <3>3. old.accrued \in Int /\ old.used \in Int /\ old.remaining \in Int
        BY <1>3 DEF Balance
      <3>4. "accrual" \notin spoiled' => /\ upd.accrued = upd.used + upd.remaining + lapsed[r.key]
                                        /\ upd.accrued >= old.accrued
        BY <1>1, <1>3, <1>4, <2>1, <3>1, <3>2, <3>3 DEF Good
      <3>5. "balance" \notin spoiled' => upd.remaining + extended >= 0
        BY <1>1, <1>3, <1>4, <3>1, <3>2, <3>3 DEF Good
      <3> QED
        BY <3>1, <3>2, <3>4, <3>5 DEF Good
    <2>2. CASE ~r.found
      <3>1. upd = fresh /\ old = NoBalance /\ lapsed[r.key] = 0
        BY <1>2, <1>3, <2>2 DEF Good
      <3>2. /\ fresh \in Balance /\ fresh.exists /\ fresh.accrued = r.days
            /\ fresh.used = 0 /\ fresh.remaining = r.days
        BY <1>1 DEF Balance
      <3> HIDE DEF fresh, upd, old
      <3>3. NoBalance.accrued = 0
        BY DEF NoBalance
      <3>4. Good(fresh, 0, extended, spoiled')
        BY <1>1, <1>3, <3>2 DEF Good
      <3> QED
        BY <1>1, <3>1, <3>2, <3>3, <3>4
    <2> QED
      BY <1>1, <2>1, <2>2
  <1> HIDE DEF upd, old
  <1>6. /\ balance[r.key] = old
        /\ extended' \in Nat /\ extended' >= extended
        /\ granted' \in [Keys -> Nat] /\ lapsed' = lapsed /\ leaves' \in [LeaveIds -> Leave]
        /\ Good(upd, lapsed[r.key], extended', spoiled')
    BY <1>2, <1>3, <1>5 DEF old
  <1> QED
    BY <1>1, <1>2, <1>4, <1>5, <1>6, RowChange

LEMMA GrantKeeps ==
    ASSUME Rows, NEW k \in Keys, NEW n, n \in Amounts, NEW d, d \in GrantExpiry, Grant(k, n, d)
    PROVE  Outcome
  <1> DEFINE old == balance[k]
             upd == Topped(old, n, d)
  <1>1. n \in Nat /\ d \in Nat
    BY LeaveConstants DEF Days, NoDate
  <1>2. /\ balance' = [balance EXCEPT ![k] = upd]
        /\ granted' = [granted EXCEPT ![k] = @ + n]
        /\ UNCHANGED <<leaves, lapsed, extended, spoiled>>
    BY DEF Grant
  <1>3. /\ old \in Balance /\ lapsed[k] \in Nat /\ extended \in Nat /\ spoiled \subseteq Kinds
        /\ leaves \in [LeaveIds -> Leave] /\ granted \in [Keys -> Nat]
        /\ Good(old, lapsed[k], extended, spoiled)
    BY DEF Rows
  <1>4. granted' \in [Keys -> Nat]
    BY <1>1, <1>2, <1>3
  <1>5. /\ upd \in Balance /\ upd.exists
        /\ upd.accrued = IF old.exists THEN old.accrued + n ELSE n
        /\ upd.used = IF old.exists THEN old.used ELSE 0
        /\ upd.remaining = IF old.exists THEN old.remaining + n ELSE n
    <2>1. old \in Balance /\ n \in Nat /\ d \in Nat
      BY <1>1, <1>3
    <2> HIDE DEF old
    <2>2. upd \in Balance /\ upd.exists
      BY <2>1, ToppedFacts
    <2>3. upd.accrued = IF old.exists THEN old.accrued + n ELSE n
      BY <2>1, ToppedFacts
    <2>4. upd.used = IF old.exists THEN old.used ELSE 0
      BY <2>1, ToppedFacts
    <2>5. upd.remaining = IF old.exists THEN old.remaining + n ELSE n
      BY <2>1, ToppedFacts
    <2> QED
      BY <2>2, <2>3, <2>4, <2>5
  <1> HIDE DEF upd, old
  <1>6. old.accrued \in Int /\ old.used \in Int /\ old.remaining \in Int
    BY <1>3 DEF Balance
  <1>7. ~old.exists => lapsed[k] = 0 /\ old.accrued = 0
    BY <1>3 DEF Good, NoBalance
  <1>8. upd.accrued >= old.accrued
    BY <1>1, <1>5, <1>6, <1>7
  <1>9. Good(upd, lapsed[k], extended, spoiled)
    <2>1. "accrual" \notin spoiled => upd.accrued = upd.used + upd.remaining + lapsed[k]
      BY <1>1, <1>3, <1>5, <1>6, <1>7 DEF Good
    <2>2. "balance" \notin spoiled => upd.remaining + extended >= 0
      BY <1>1, <1>3, <1>5, <1>6 DEF Good
    <2> QED
      BY <1>5, <2>1, <2>2 DEF Good
  <1>10. /\ balance[k] = old
         /\ extended' \in Nat /\ extended' >= extended
         /\ lapsed' = lapsed /\ leaves' \in [LeaveIds -> Leave]
         /\ spoiled \subseteq spoiled' /\ spoiled' \subseteq Kinds
         /\ Good(upd, lapsed[k], extended', spoiled')
    BY <1>2, <1>3, <1>9 DEF old
  <1> QED
    BY <1>2, <1>4, <1>5, <1>8, <1>10, RowChange
\* The expiry of overdue balances moves what remains to lapsed.
LEMMA ExpiryKeeps == ASSUME Rows, expireOverdueBalances PROVE Outcome
  <1>1. /\ \A k \in Keys : balance[k] \in Balance /\ lapsed[k] \in Nat /\ Good(balance[k], lapsed[k], extended, spoiled)
        /\ extended \in Nat /\ spoiled \subseteq Kinds
        /\ leaves \in [LeaveIds -> Leave] /\ granted \in [Keys -> Nat]
    BY DEF Rows
  <1>2. /\ balance' = [k \in Keys |-> IF Overdue(balance[k]) THEN [balance[k] EXCEPT !.remaining = 0] ELSE balance[k]]
        /\ lapsed' = [k \in Keys |-> lapsed[k] + (balance[k].remaining - balance'[k].remaining)]
        /\ UNCHANGED <<leaves, extended, granted, spoiled>>
    BY DEF expireOverdueBalances
  <1>3. ASSUME NEW k \in Keys
        PROVE  /\ balance'[k] \in Balance
               /\ balance'[k].exists = balance[k].exists /\ balance'[k].accrued = balance[k].accrued
               /\ lapsed'[k] \in Nat
               /\ Good(balance'[k], lapsed'[k], extended, spoiled)
    <2> DEFINE old == balance[k]
               upd == [old EXCEPT !.remaining = 0]
    <2>1. /\ old.exists \in BOOLEAN /\ old.accrued \in Int /\ old.used \in Int /\ old.remaining \in Int
          /\ old \in Balance /\ lapsed[k] \in Nat /\ Good(old, lapsed[k], extended, spoiled)
      BY <1>1 DEF Balance
    <2>2. CASE ~Overdue(old)
      <3>1. balance'[k] = old /\ lapsed'[k] = lapsed[k]
        BY <1>2, <2>1, <2>2
      <3> QED
        BY <2>1, <3>1
    <2>3. CASE Overdue(old)
      <3>1. balance'[k] = upd /\ lapsed'[k] = lapsed[k] + (old.remaining - upd.remaining)
        BY <1>2, <2>3
      <3>2. /\ upd \in Balance /\ upd.exists = old.exists /\ upd.accrued = old.accrued
            /\ upd.used = old.used /\ upd.remaining = 0
        BY <2>1 DEF Balance
      <3>3. old.remaining > 0 /\ old.exists
        BY <2>1, <2>3 DEF Overdue, Good, NoBalance
      <3> HIDE DEF old, upd
      <3>4. lapsed'[k] = lapsed[k] + old.remaining /\ lapsed'[k] \in Nat
        BY <2>1, <3>1, <3>2, <3>3
      <3>5. "accrual" \notin spoiled => upd.accrued = upd.used + upd.remaining + lapsed'[k]
        BY <2>1, <3>2, <3>4 DEF Good
      <3>6. upd.remaining + extended >= 0
        BY <1>1, <3>2
      <3>7. Good(upd, lapsed'[k], extended, spoiled)
        BY <3>2, <3>3, <3>5, <3>6 DEF Good
      <3> QED
        BY <3>1, <3>2, <3>4, <3>7 DEF old
    <2> QED
      BY <2>2, <2>3
  <1>4. balance' \in [Keys -> Balance] /\ lapsed' \in [Keys -> Nat]
    BY <1>2, <1>3
  <1>5. \A k \in Keys : balance'[k].accrued >= balance[k].accrued
    BY <1>1, <1>3 DEF Balance
  <1> QED
    BY <1>1, <1>2, <1>3, <1>4, <1>5 DEF Outcome, Rows

LEMMA WriteKeeps ==
    ASSUME Rows, NEW r \in Call,
           r.op = "create" => balance[r.key].exists /\ r.seen >= r.days,
           r.op = "accrue" => (r.found => balance[r.key].exists),
           Write(r)
    PROVE  Outcome
  <1>1. CASE WriteCreate(r)
    BY <1>1, CallKinds, CreateKeeps DEF WriteCreate
  <1>2. CASE WriteModify(r)
    BY <1>2, CallKinds, ModifyKeeps DEF WriteModify
  <1>3. CASE WriteDelete(r)
    BY <1>3, CallKinds, DeleteKeeps DEF WriteDelete
  <1>4. CASE WriteAccrual(r)
    BY <1>4, CallKinds, AccrualKeeps DEF WriteAccrual
  <1>5. CASE RollBack(r) \/ SkipAccrual(r)
    <2>1. UNCHANGED <<leaves, balance, lapsed, extended, granted, spoiled>>
      BY <1>5 DEF RollBack, SkipAccrual, history
    <2> QED
      BY <2>1, NoRowChange DEF Rows
  <1> QED
    BY <1>1, <1>2, <1>3, <1>4, <1>5 DEF Write

-----------------------------------------------------------------------------
(* Sums.  SumOver is a fold over a finite set; that it follows its parts is *)
(* shown by taking a least set for which it would not.                     *)

\* A set of naturals has a least element.
LEMMA LeastNatural ==
    ASSUME NEW T, T \subseteq Nat, T # {}
    PROVE  \E x \in T : \A y \in T : x <= y
  <1>1. IsWellFoundedOn(OpToRel(<, Nat), Nat)
    BY NatLessThanWellFounded
  <1>2. \E x \in T : \A y \in T : <<y, x>> \notin OpToRel(<, Nat)
    BY <1>1, WFMin
  <1>3. \A x, y \in T : <<y, x>> \notin OpToRel(<, Nat) => x <= y
    BY DEF OpToRel
  <1> QED
    BY <1>2, <1>3

\* The fold behind a sum takes the elements of a set in a fixed order.
Pick(s) == CHOOSE x \in s : TRUE
Rest(s) == s \ {Pick(s)}

\* g gives each set of D the sum of w over it.
Adds(g, w, D) == g = [s \in D |-> IF s = {} THEN 0 ELSE w[Pick(s)] + g[Rest(s)]]

UpTo(n, S) == {s \in SUBSET S : Cardinality(s) <= n}

LEMMA RestIsSmaller ==
    ASSUME NEW S, IsFiniteSet(S), NEW s \in SUBSET S
    PROVE  /\ Cardinality(s) \in Nat
           /\ s = {} <=> Cardinality(s) = 0
           /\ s # {} => /\ Pick(s) \in s /\ Rest(s) \in SUBSET S
                        /\ Cardinality(Rest(s)) = Cardinality(s) - 1
  <1>1. IsFiniteSet(s)
    BY FS_Subset
  <1>2. Cardinality(s) \in Nat /\ (Cardinality(s) = 0 <=> s = {})
    BY <1>1, FS_CardinalityType, FS_EmptySet
  <1>3. ASSUME s # {} PROVE Pick(s) \in s
    BY <1>3 DEF Pick
  <1>4. ASSUME s # {} PROVE Cardinality(Rest(s)) = Cardinality(s) - 1
    BY <1>1, <1>3, <1>4, FS_RemoveElement DEF Rest
  <1> QED
    BY <1>2, <1>3, <1>4 DEF Rest

\* Induction over the subsets of a finite set, along that order.
LEMMA FiniteInduction ==
    ASSUME NEW S, IsFiniteSet(S), NEW G, {} \in G,
           \A s \in SUBSET S : s # {} /\ Rest(s) \in G => s \in G
    PROVE  S \in G
  <1> DEFINE Bad == {n \in Nat : \E s \in SUBSET S : Cardinality(s) = n /\ s \notin G}
  <1>1. Bad = {}
    <2> SUFFICES ASSUME Bad # {} PROVE FALSE
      OBVIOUS
    <2>1. PICK n \in Bad : \A m \in Bad : n <= m
      <3>1. Bad \subseteq Nat
        OBVIOUS
      <3> HIDE DEF Bad
      <3> QED
        BY <3>1, LeastNatural
    <2>2. PICK s \in SUBSET S : Cardinality(s) = n /\ s \notin G
      OBVIOUS
    <2>3. s # {}
      BY <2>2
    <2>4. Rest(s) \in SUBSET S /\ Cardinality(Rest(s)) = n - 1 /\ n - 1 \in Nat /\ n \in Nat
      BY <2>2, <2>3, RestIsSmaller
    <2>5. n - 1 \notin Bad
      <3>1. ~(n <= n - 1)
        BY <2>4
      <3> HIDE DEF Bad
      <3> QED
        BY <2>1, <3>1
    <2> QED
      BY <2>2, <2>3, <2>4, <2>5
  <1>2. S \in SUBSET S /\ Cardinality(S) \in Nat
    BY FS_CardinalityType
  <1> QED
    BY <1>1, <1>2

\* There is such a function.
LEMMA SumsExist ==
    ASSUME NEW S, IsFiniteSet(S), NEW w
    PROVE  \E g : Adds(g, w, SUBSET S)
  <1> DEFINE Bad == {n \in Nat : ~ \E g : Adds(g, w, UpTo(n, S))}
  <1>1. 0 \notin Bad
    <2> DEFINE g == [s \in UpTo(0, S) |-> 0]
    <2>1. \A s \in UpTo(0, S) : s = {}
      BY RestIsSmaller DEF UpTo
    <2>2. g = [s \in UpTo(0, S) |-> IF s = {} THEN 0 ELSE w[Pick(s)] + g[Rest(s)]]
      BY <2>1
    <2> QED
      BY <2>2 DEF Adds
  <1>2. ASSUME NEW n \in Nat, n + 1 \in Bad PROVE n \in Bad
    <2> SUFFICES ASSUME NEW h, Adds(h, w, UpTo(n, S)) PROVE FALSE
      BY <1>2
    <2> DEFINE g == [s \in UpTo(n + 1, S) |-> IF s = {} THEN 0 ELSE w[Pick(s)] + h[Rest(s)]]
    <2>1. \A s \in UpTo(n, S) : s \in UpTo(n + 1, S) /\ h[s] = g[s]
      <3>1. ASSUME NEW s \in UpTo(n, S) PROVE s \in UpTo(n + 1, S)
        <4>1. s \in SUBSET S /\ Cardinality(s) <= n
          BY DEF UpTo
        <4>2. Cardinality(s) \in Nat
          BY <4>1, RestIsSmaller
        <4> QED
          BY <4>1, <4>2 DEF UpTo
      <3>2. ASSUME NEW s \in UpTo(n, S)
            PROVE  h[s] = IF s = {} THEN 0 ELSE w[Pick(s)] + h[Rest(s)]
        BY Zenon DEF Adds
      <3> QED
        BY <3>1, <3>2
    <2>2. \A s \in UpTo(n + 1, S) : s # {} => h[Rest(s)] = g[Rest(s)]
      <3> SUFFICES ASSUME NEW s \in UpTo(n + 1, S), s # {} PROVE Rest(s) \in UpTo(n, S)
        BY <2>1
      <3>1. s \in SUBSET S /\ Cardinality(s) <= n + 1
        BY DEF UpTo
      <3>2. Rest(s) \in SUBSET S /\ Cardinality(Rest(s)) = Cardinality(s) - 1 /\ Cardinality(s) \in Nat
        BY <3>1, RestIsSmaller
      <3> QED
        BY <3>1, <3>2 DEF UpTo
    <2>3. Adds(g, w, UpTo(n + 1, S))
      BY <2>2 DEF Adds
    <2> HIDE DEF g
    <2> QED
      BY <1>2, <2>3
  <1>3. Bad = {}
    <2> SUFFICES ASSUME Bad # {} PROVE FALSE
      OBVIOUS
    <2>0. Bad \subseteq Nat
      OBVIOUS
    <2> HIDE DEF Bad
    <2>1. PICK n \in Bad : \A m \in Bad : n <= m
      BY <2>0, LeastNatural
    <2>2. n \in Nat /\ n # 0
      BY <1>1, <2>0, <2>1
    <2>3. n - 1 \in Nat /\ (n - 1) + 1 = n /\ ~(n <= n - 1)
      BY <2>2
    <2>4. n - 1 \in Bad
      <3> DEFINE m == n - 1
      <3>1. m \in Nat /\ m + 1 \in Bad
        BY <2>3
      <3> HIDE DEF m
      <3>2. m \in Bad
        BY <1>2, <3>1
      <3> QED
        BY <3>2 DEF m
    <2> QED
      BY <2>1, <2>3, <2>4
  <1>4. Cardinality(S) \in Nat /\ UpTo(Cardinality(S), S) = SUBSET S
    <2>1. \A s \in SUBSET S : Cardinality(s) <= Cardinality(S)
      BY FS_Subset
    <2> QED
      BY <2>1, FS_CardinalityType DEF UpTo
  <1>5. \E g : Adds(g, w, UpTo(Cardinality(S), S))
    BY <1>3, <1>4
  <1> QED
    BY <1>4, <1>5

\* What a sum is.
LEMMA SumIs ==
    ASSUME NEW S, IsFiniteSet(S), NEW w
    PROVE  \E g : /\ SumOver(w, S) = g[S]
                  /\ g[{}] = 0
                  /\ \A s \in SUBSET S : s # {} => g[s] = w[Pick(s)] + g[Rest(s)]
  <1> DEFINE g == CHOOSE f : Adds(f, w, SUBSET S)
  <1>1. Adds(g, w, SUBSET S)
    BY SumsExist, Zenon
  <1>2. SumOver(w, S) = g[S]
    BY Zenon DEF SumOver, MapThenSumSet, MapThenFoldSet, Adds, Pick, Rest
  <1> HIDE DEF g
  <1>3. \A s \in SUBSET S : g[s] = IF s = {} THEN 0 ELSE w[Pick(s)] + g[Rest(s)]
    BY <1>1, Zenon DEF Adds
  <1>4. {} \in SUBSET S
    OBVIOUS
  <1> QED
    BY <1>2, <1>3, <1>4

\* A sum of integers is one, and follows a change of one of them.
LEMMA SumChanges ==
    ASSUME NEW S, IsFiniteSet(S), NEW w, NEW v, NEW k \in S, NEW d, d \in Int,
           \A x \in S : w[x] \in Int, v[k] = w[k] + d, \A x \in S : x # k => v[x] = w[x]
    PROVE  SumOver(w, S) \in Int /\ SumOver(v, S) = SumOver(w, S) + d
  <1>1. PICK g : /\ SumOver(w, S) = g[S] /\ g[{}] = 0
                 /\ \A s \in SUBSET S : s # {} => g[s] = w[Pick(s)] + g[Rest(s)]
    BY SumIs
  <1>2. PICK h : /\ SumOver(v, S) = h[S] /\ h[{}] = 0
                 /\ \A s \in SUBSET S : s # {} => h[s] = v[Pick(s)] + h[Rest(s)]
    BY SumIs
  <1> DEFINE G == {s \in SUBSET S : g[s] \in Int /\ h[s] = g[s] + (IF k \in s THEN d ELSE 0)}
  <1>3. {} \in G
    BY <1>1, <1>2
  <1>4. ASSUME NEW s \in SUBSET S, s # {}, Rest(s) \in G PROVE s \in G
    <2> DEFINE x == Pick(s)
               t == Rest(s)
    <2>1. x \in s /\ x \in S /\ w[x] \in Int /\ v[x] = IF x = k THEN w[x] + d ELSE w[x]
      BY <1>4 DEF Pick
    <2>2. g[s] = w[x] + g[t] /\ h[s] = v[x] + h[t]
      BY <1>1, <1>2, <1>4
    <2>3. g[t] \in Int /\ h[t] = g[t] + (IF k \in t THEN d ELSE 0)
      BY <1>4
    <2>4. k \in t <=> k \in s /\ x # k
      BY DEF Rest
    <2>5. x = k => k \in s
      BY <2>1
    <2> HIDE DEF x, t
    <2>6. g[s] \in Int
      BY <2>1, <2>2, <2>3
    <2>7. h[s] = g[s] + (IF k \in s THEN d ELSE 0)
      BY <2>1, <2>2, <2>3, <2>4, <2>5
    <2> QED
      BY <2>6, <2>7
  <1>5. S \in G
    <2> HIDE DEF G
    <2> QED
      BY <1>3, <1>4, FiniteInduction
  <1> QED
    BY <1>1, <1>2, <1>5

\* A sum of zeros is zero.
LEMMA SumOfZeros ==
    ASSUME NEW S, IsFiniteSet(S), NEW w, \A x \in S : w[x] = 0
    PROVE  SumOver(w, S) = 0
  <1>1. PICK g : /\ SumOver(w, S) = g[S] /\ g[{}] = 0
                 /\ \A s \in SUBSET S : s # {} => g[s] = w[Pick(s)] + g[Rest(s)]
    BY SumIs
  <1> DEFINE G == {s \in SUBSET S : g[s] = 0}
  <1>2. {} \in G
    BY <1>1
  <1>3. ASSUME NEW s \in SUBSET S, s # {}, Rest(s) \in G PROVE s \in G
    <2>1. Pick(s) \in S
      BY <1>3 DEF Pick
    <2> QED
      BY <1>1, <1>3, <2>1
  <1>4. S \in G
    <2> HIDE DEF G
    <2> QED
      BY <1>2, <1>3, FiniteInduction
  <1> QED
    BY <1>1, <1>4

-----------------------------------------------------------------------------
(* Days used and days of leaves.                                           *)

UsedOf == [k \in Keys |-> balance[k].used]
TakenOf == [l \in LeaveIds |-> IF leaves[l].exists THEN leaves[l].daysUsed ELSE 0]

LEMMA KeysAreFinite == IsFiniteSet(Keys)
  <1> DEFINE f == [d \in Days |-> YearOf(d)]
  <1>1. IsFiniteSet(Days)
    <2>1. 1 \in Int /\ LastDay \in Int
      BY LeaveConstants
    <2> QED
      BY <2>1, FS_Interval DEF Days
  <1>2. f \in Surjection(Days, Years)
    BY DEF Surjection, Years
  <1>3. IsFiniteSet(Years)
    BY <1>1, <1>2, FS_Surjection
  <1> QED
    BY <1>3, LeaveConstants, FS_Product DEF Keys

\* The days used change with those of one balance.
LEMMA UsedMoves ==
    ASSUME Rows, NEW k \in Keys, NEW d, d \in Int,
           balance'[k].used = balance[k].used + d,
           \A j \in Keys : j # k => balance'[j].used = balance[j].used
    PROVE  TotalUsed \in Int /\ TotalUsed' = TotalUsed + d
  <1>1. \A j \in Keys : UsedOf[j] \in Int
    BY DEF UsedOf, Rows, Balance
  <1>2. UsedOf'[k] = UsedOf[k] + d /\ \A j \in Keys : j # k => UsedOf'[j] = UsedOf[j]
    BY DEF UsedOf
  <1>3. TotalUsed = SumOver(UsedOf, Keys) /\ TotalUsed' = SumOver(UsedOf', Keys)
    BY DEF TotalUsed, UsedOf
  <1>4. PICK w, v : w = UsedOf /\ v = UsedOf'
    OBVIOUS
  <1>5. (\A j \in Keys : w[j] \in Int) /\ v[k] = w[k] + d /\ \A j \in Keys : j # k => v[j] = w[j]
    BY <1>1, <1>4, <1>2
  <1>6. SumOver(w, Keys) \in Int /\ SumOver(v, Keys) = SumOver(w, Keys) + d
    BY <1>5, KeysAreFinite, SumChanges
  <1> QED
    BY <1>3, <1>4, <1>6

\* The days of leaves change with those of one leave.
LEMMA TakenMoves ==
    ASSUME Rows, NEW l \in LeaveIds, NEW d, d \in Int,
           TakenOf'[l] = TakenOf[l] + d, \A m \in LeaveIds : m # l => TakenOf'[m] = TakenOf[m]
    PROVE  TotalTaken \in Int /\ TotalTaken' = TotalTaken + d
  <1>1. \A m \in LeaveIds : TakenOf[m] \in Int
    BY DEF TakenOf, Rows, Leave
  <1>2. TotalTaken = SumOver(TakenOf, LeaveIds) /\ TotalTaken' = SumOver(TakenOf', LeaveIds)
    BY DEF TotalTaken, TakenOf
  <1>3. PICK w, v : w = TakenOf /\ v = TakenOf'
    OBVIOUS
  <1>4. (\A m \in LeaveIds : w[m] \in Int) /\ v[l] = w[l] + d /\ \A m \in LeaveIds : m # l => v[m] = w[m]
    BY <1>1, <1>3
  <1>5. SumOver(w, LeaveIds) \in Int /\ SumOver(v, LeaveIds) = SumOver(w, LeaveIds) + d
    BY <1>4, LeaveConstants, SumChanges
  <1> QED
    BY <1>2, <1>3, <1>5

\* What a step does to the two sums.
SumsAgree == UsedDaysAreLeaves => UsedDaysAreLeaves'

LEMMA NoSumChange ==
    ASSUME \A j \in Keys : balance'[j].used = balance[j].used, UNCHANGED leaves,
           spoiled \subseteq spoiled'
    PROVE  SumsAgree
  <1>1. UsedOf' = UsedOf
    BY DEF UsedOf
  <1>2. TotalUsed' = TotalUsed /\ TotalTaken' = TotalTaken
    BY <1>1 DEF TotalUsed, TotalTaken, UsedOf
  <1> QED
    BY <1>2 DEF SumsAgree, UsedDaysAreLeaves

LEMMA BothSumsMove ==
    ASSUME Rows, NEW k \in Keys, NEW l \in LeaveIds, NEW d, d \in Int,
           balance'[k].used = balance[k].used + d,
           \A j \in Keys : j # k => balance'[j].used = balance[j].used,
           TakenOf'[l] = TakenOf[l] + d, \A m \in LeaveIds : m # l => TakenOf'[m] = TakenOf[m],
           spoiled \subseteq spoiled'
    PROVE  SumsAgree
  <1>1. TotalUsed' = TotalUsed + d /\ TotalTaken' = TotalTaken + d
    BY UsedMoves, TakenMoves
  <1> QED
    BY <1>1 DEF SumsAgree, UsedDaysAreLeaves

LEMMA CreateAgrees == ASSUME Rows, NEW r \in CreateCalls, WriteCreate(r) PROVE SumsAgree
  <1>1. r.key \in Keys /\ r.days \in Nat /\ balance[r.key] \in Balance
    BY DEF CreateCalls, Rows
  <1>2. /\ balance'[r.key].used = balance[r.key].used + r.days
        /\ \A j \in Keys : j # r.key => balance'[j].used = balance[j].used
    <2>1. Moved(balance[r.key], r.days).used = balance[r.key].used + r.days
      BY <1>1, MovedFacts
    <2>2. balance' = [balance EXCEPT ![r.key] = Moved(balance[r.key], r.days)]
      BY DEF WriteCreate, Use
    <2>3. ASSUME NEW j \in Keys, j # r.key PROVE balance'[j].used = balance[j].used
      BY <2>2, <2>3 DEF Rows
    <2> HIDE DEF Moved
    <2>4. balance'[r.key].used = balance[r.key].used + r.days
      BY <1>1, <2>1, <2>2 DEF Rows
    <2> QED
      BY <2>3, <2>4
  <1>3. PICK l \in LeaveIds \ Taken :
           leaves' = [leaves EXCEPT ![l] = [exists |-> TRUE, type |-> r.type, year |-> r.key[2], daysUsed |-> r.days]]
    BY DEF WriteCreate
  <1>4. TakenOf'[l] = TakenOf[l] + r.days /\ \A m \in LeaveIds : m # l => TakenOf'[m] = TakenOf[m]
    <2>1. ~leaves[l].exists
      BY DEF Taken
    <2>2. leaves'[l].exists /\ leaves'[l].daysUsed = r.days
      BY <1>3 DEF Rows
    <2>3. \A m \in LeaveIds : m # l => leaves'[m] = leaves[m]
      BY <1>3 DEF Rows
    <2> QED
      BY <1>1, <2>1, <2>2, <2>3 DEF TakenOf
  <1>5. spoiled \subseteq spoiled'
    BY SpoilsAdds DEF WriteCreate, Kinds, Rows
  <1> QED
    BY <1>1, <1>2, <1>4, <1>5, BothSumsMove

\* A booking of the days that the leave has changed by, unless there is no balance.
LEMMA BookMoves ==
    ASSUME Rows, NEW k \in Keys, NEW delta, delta \in Int, Book(k, delta),
           delta = 0 \/ balance[k].exists
    PROVE  /\ balance'[k].used = balance[k].used + delta
           /\ \A j \in Keys : j # k => balance'[j].used = balance[j].used
  <1>1. /\ balance \in [Keys -> Balance]
        /\ \A j \in Keys : balance[j].used \in Int
        /\ Moved(balance[k], delta).used = balance[k].used + delta
    BY MovedFacts DEF Rows, Balance
  <1>2. CASE ~balance[k].exists
    <2>1. balance' = balance /\ delta = 0
      BY <1>2 DEF Book
    <2> QED
      BY <1>1, <2>1
  <1>3. CASE balance[k].exists
    <2>1. balance' = [balance EXCEPT ![k] = Moved(balance[k], delta)]
      BY <1>3 DEF Book
    <2> QED
      BY <1>1, <2>1
  <1> QED
    BY <1>2, <1>3

\* A leave changes and the difference is booked.
LEMMA ChangeAgrees ==
    ASSUME Rows, NEW r, r.key \in Keys, r.leave \in LeaveIds, r.seen \in Nat, leaves[r.leave].exists,
           NEW new, new \in Nat, Book(r.key, new - r.seen), Spoils("leave", BookingGoesWrong(r, new - r.seen)),
           TakenOf'[r.leave] = new, \A m \in LeaveIds : m # r.leave => TakenOf'[m] = TakenOf[m]
    PROVE  SumsAgree
  <1> DEFINE delta == new - r.seen
  <1>1. delta \in Int
    OBVIOUS
  <1>2. spoiled \subseteq spoiled' /\ ("leave" \notin spoiled' => ~BookingGoesWrong(r, delta))
    BY SpoilsAdds DEF Kinds, Rows
  <1>3. CASE "leave" \in spoiled'
    BY <1>3 DEF SumsAgree, UsedDaysAreLeaves
  <1>4. CASE "leave" \notin spoiled'
    <2>1. (delta = 0 \/ balance[r.key].exists) /\ leaves[r.leave].daysUsed = r.seen
      BY <1>2, <1>4 DEF BookingGoesWrong
    <2>2. TakenOf[r.leave] = r.seen
      BY <2>1 DEF TakenOf
    <2>3. TakenOf'[r.leave] = TakenOf[r.leave] + delta
      BY <2>2
    <2>4. Book(r.key, delta)
      OBVIOUS
    <2> HIDE DEF delta
    <2>5. /\ balance'[r.key].used = balance[r.key].used + delta
          /\ \A j \in Keys : j # r.key => balance'[j].used = balance[j].used
      BY <1>1, <2>1, <2>4, BookMoves
    <2>6. spoiled \subseteq spoiled'
      BY <1>2
    <2> QED
      BY <1>1, <2>3, <2>5, <2>6, BothSumsMove
  <1> QED
    BY <1>3, <1>4

LEMMA ModifyAgrees == ASSUME Rows, NEW r \in ModifyCalls, WriteModify(r) PROVE SumsAgree
  <1>1. r.key \in Keys /\ r.leave \in LeaveIds /\ r.days \in Nat /\ r.seen \in Nat
    BY DEF ModifyCalls
  <1> DEFINE upd == [leaves[r.leave] EXCEPT !.year = r.year, !.daysUsed = r.days]
  <1>2. leaves \in [LeaveIds -> Leave] /\ leaves[r.leave] \in Leave /\ leaves[r.leave].exists
    BY <1>1 DEF Rows, WriteModify
  <1>3. leaves' = [leaves EXCEPT ![r.leave] = upd]
    BY <1>1, <1>2 DEF WriteModify, Leave
  <1>4. upd.exists /\ upd.daysUsed = r.days
    BY <1>2 DEF Leave
  <1> HIDE DEF upd
  <1>5. leaves'[r.leave] = upd /\ \A m \in LeaveIds : m # r.leave => leaves'[m] = leaves[m]
    BY <1>1, <1>2, <1>3
  <1>6. TakenOf'[r.leave] = r.days /\ \A m \in LeaveIds : m # r.leave => TakenOf'[m] = TakenOf[m]
    BY <1>1, <1>4, <1>5 DEF TakenOf
  <1>7. Book(r.key, r.days - r.seen) /\ Spoils("leave", BookingGoesWrong(r, r.days - r.seen))
    BY DEF WriteModify
  <1> QED
    BY <1>1, <1>2, <1>6, <1>7, ChangeAgrees

LEMMA DeleteAgrees == ASSUME Rows, NEW r \in DeleteCalls, WriteDelete(r) PROVE SumsAgree
  <1>1. r.key \in Keys /\ r.leave \in LeaveIds /\ r.seen \in Nat
    BY DEF DeleteCalls
  <1>2. leaves \in [LeaveIds -> Leave] /\ leaves[r.leave].exists
    BY <1>1 DEF Rows, WriteDelete
  <1>3. leaves' = [leaves EXCEPT ![r.leave] = NoLeave] /\ ~NoLeave.exists
    BY DEF WriteDelete, NoLeave
  <1>4. TakenOf'[r.leave] = 0 /\ \A m \in LeaveIds : m # r.leave => TakenOf'[m] = TakenOf[m]
    BY <1>1, <1>2, <1>3 DEF TakenOf
  <1>5. Book(r.key, 0 - r.seen) /\ Spoils("leave", BookingGoesWrong(r, 0 - r.seen)) /\ 0 \in Nat
    BY DEF WriteDelete
  <1> QED
    BY <1>1, <1>2, <1>4, <1>5, ChangeAgrees

-----------------------------------------------------------------------------
(* Days granted and days accrued.                                          *)

\* a days lie within what is granted and what one tier of items gives in the year.
Enough(a, g, items, y) ==
    \/ a <= g
    \/ \E i \in items : a <= g + TargetDays(i, y, FirstDay(y + 1) - 1)

\* An accrual in flight carries the days of a tier that has been in force.
FromRules(r) == r.op = "accrue" => Enough(r.days, 0, offered, r.key[2])

\* What a row counts as accrued lies within that, even when runs overlap.
AccruedBound == \A k \in Keys : Enough(balance[k].accrued, granted[k], offered, k[2])

\* No step forgets a rule.
AccrualAgrees == offered \subseteq offered' /\ (AccruedBound => AccruedBound')

LEMMA SameAccrued ==
    ASSUME \A k \in Keys : balance'[k].accrued = balance[k].accrued,
           UNCHANGED granted, offered \subseteq offered'
    PROVE  AccrualAgrees
  <1>1. ASSUME NEW a, NEW g, NEW y, Enough(a, g, offered, y) PROVE Enough(a, g, offered', y)
    BY <1>1 DEF Enough
  <1> QED
    BY <1>1 DEF AccrualAgrees, AccruedBound

LEMMA ProductGrows ==
    ASSUME NEW n, n \in Nat, NEW a, a \in Nat, NEW b, b \in Nat, a <= b
    PROVE  n * a <= n * b
  <1>1. PICK e \in Nat : b = a + e
    <2>1. b - a \in Nat /\ b = a + (b - a)
      OBVIOUS
    <2> QED
      BY <2>1
  <1>2. n * b = n * a + n * e
    BY <1>1
  <1>3. n * e \in Nat /\ n * a \in Nat
    BY <1>1, ProductIsNatural
  <1> QED
    BY <1>2, <1>3

\* A tier gives no more on a day of the year than on its last.
LEMMA TargetGrows ==
    ASSUME NEW i \in Item, NEW y \in Nat \ {0}, NEW ref \in Int, NEW last \in Int, ref <= last
    PROVE  TargetDays(i, y, ref) <= TargetDays(i, y, last)
  <1>1. FirstDay(y) \in Nat /\ JoinedAt \in Nat
    BY LeaveConstants, FirstDayIsNatural
  <1>2. AtLeast(FirstDay(y), JoinedAt) \in Nat
    BY <1>1 DEF AtLeast
  <1> DEFINE a == calcMonthlyAccrualCount(y, ref)
             b == calcMonthlyAccrualCount(y, last)
  <1>3. a \in Nat /\ b \in Nat /\ a <= b
    BY <1>2 DEF AtLeast, calcMonthlyAccrualCount
  <1>4. i.days \in Nat
    BY DEF Item
  <1>5. TargetDays(i, y, ref) = (IF i.monthly THEN i.days * a ELSE i.days)
    BY DEF TargetDays
  <1>6. TargetDays(i, y, last) = (IF i.monthly THEN i.days * b ELSE i.days)
    BY DEF TargetDays
  <1> HIDE DEF a, b
  <1>7. i.days * a <= i.days * b
    BY <1>3, <1>4, ProductGrows
  <1> QED
    BY <1>4, <1>5, <1>6, <1>7

LEMMA ReadFromRules == ASSUME LeaveTypeOK, rule \subseteq offered, NEW r \in Reads PROVE FromRules(r)
  <1>1. CASE r \notin UNION {runAccrualRule(y) : y \in Years}
    <2>1. CASE r \in createLeave \cup applyLeaveCreate
      <3>1. PICK c \in Types, t \in Types, p \in Periods, days \in Nat : r \in Charged(c, t, p, days)
        BY <2>1, TypesChosen, DaysUsedAreNatural DEF createLeave, applyLeaveCreate
      <3> QED
        BY <3>1 DEF Charged, CreateCall, FromRules
    <2>2. CASE r \in applyLeaveModify
      BY <2>2 DEF applyLeaveModify, FromRules
    <2>3. CASE r \in applyLeaveDelete
      BY <2>3 DEF applyLeaveDelete, FromRules
    <2> QED
      BY <1>1, <2>1, <2>2, <2>3 DEF Reads
  <1>2. CASE r \in UNION {runAccrualRule(y) : y \in Years}
    <2>1. PICK y \in Years : r \in runAccrualRule(y)
      BY <1>2
    <2> DEFINE asOf == clampToYear(today, y)
               last == FirstDay(y + 1) - 1
    <2>2. PICK t \in pickRepresentativeLeaveType, i \in ApplicableItems(asOf) : r = AccrueCall(t, i, y, asOf)
      BY <2>1 DEF runAccrualRule
    <2>3. y \in Nat \ {0} /\ y + 1 \in Nat \ {0}
      BY YearsAreNatural
    <2>4. asOf \in Int /\ last \in Int /\ asOf <= last
      BY <2>3, FirstDayIsNatural DEF clampToYear, AtLeast, AtMost, LeaveTypeOK, Days
    <2>5. i \in Item /\ i \in offered
      BY DEF ApplicableItems, LeaveTypeOK
    <2>6. r.days = TargetDays(i, y, asOf) /\ r.key[2] = y
      BY <2>2 DEF AccrueCall
    <2>7. TargetDays(i, y, asOf) \in Nat /\ TargetDays(i, y, last) \in Nat
      BY <2>3, <2>4, <2>5, TargetIsNatural
    <2>8. TargetDays(i, y, asOf) <= TargetDays(i, y, last)
      BY <2>3, <2>4, <2>5, TargetGrows
    <2>9. r.days <= 0 + TargetDays(i, y, last)
      BY <2>6, <2>7, <2>8
    <2> QED
      BY <2>5, <2>6, <2>9 DEF FromRules, Enough
  <1> QED
    BY <1>1, <1>2

\* More may be granted, and no more accrued with it.
LEMMA EnoughIsKept ==
    ASSUME NEW items, items \subseteq Item, NEW a, a \in Int, NEW g, g \in Int, NEW y \in Nat \ {0},
           Enough(a, g, items, y), NEW b, b \in Int, NEW h, h \in Int, b - a <= h - g
    PROVE  Enough(b, h, items, y)
  <1>1. CASE a <= g
    BY <1>1 DEF Enough
  <1>2. CASE \E i \in items : a <= g + TargetDays(i, y, FirstDay(y + 1) - 1)
    <2>1. PICK i \in items : a <= g + TargetDays(i, y, FirstDay(y + 1) - 1)
      BY <1>2
    <2> DEFINE n == TargetDays(i, y, FirstDay(y + 1) - 1)
    <2>2. n \in Int
      <3>1. i \in Item /\ y + 1 \in Nat \ {0}
        OBVIOUS
      <3>2. FirstDay(y + 1) - 1 \in Int
        BY <3>1, FirstDayIsNatural
      <3> QED
        BY <3>1, <3>2, TargetIsNatural
    <2>3. a <= g + n
      BY <2>1
    <2> HIDE DEF n
    <2>4. b <= h + n
      BY <2>2, <2>3
    <2> QED
      BY <2>4 DEF Enough, n
  <1> QED
    BY <1>1, <1>2 DEF Enough

\* What is accrued stays, or becomes what a call in flight carries.
LEMMA WriteAgrees ==
    ASSUME Rows, offered \subseteq Item, NEW r \in Call, FromRules(r), Write(r)
    PROVE  SumsAgree /\ AccrualAgrees
  <1>0. /\ balance \in [Keys -> Balance] /\ granted \in [Keys -> Nat] /\ spoiled \subseteq Kinds
        /\ r.key \in Keys
    BY CallKinds DEF Rows
  <1>1. ASSUME \A k \in Keys : balance'[k].accrued = balance[k].accrued, UNCHANGED <<granted, offered>>
        PROVE  AccrualAgrees
    BY <1>1, SameAccrued
  <1>2. ASSUME NEW k \in Keys, NEW n, n \in Int, balance' = [balance EXCEPT ![k] = Moved(balance[k], n)]
        PROVE  \A j \in Keys : balance'[j].accrued = balance[j].accrued
    <2>1. Moved(balance[k], n).accrued = balance[k].accrued
      BY <1>0, <1>2, MovedFacts
    <2> QED
      BY <1>0, <1>2, <2>1
  <1>3. CASE WriteCreate(r)
    <2>1. r \in CreateCalls /\ r.days \in Int
      BY <1>3, CallKinds DEF WriteCreate, CreateCalls
    <2>2. balance' = [balance EXCEPT ![r.key] = Moved(balance[r.key], r.days)] /\ UNCHANGED <<granted, offered>>
      BY <1>3 DEF WriteCreate, Use
    <2>3. AccrualAgrees
      BY <1>0, <1>1, <1>2, <2>1, <2>2
    <2> QED
      BY <1>3, <2>1, <2>3, CreateAgrees
  <1>4. ASSUME NEW delta, delta \in Int, Book(r.key, delta), UNCHANGED <<granted, offered>> PROVE AccrualAgrees
    <2>1. CASE balance[r.key].exists
      <3>1. balance' = [balance EXCEPT ![r.key] = Moved(balance[r.key], delta)]
        BY <1>4, <2>1 DEF Book
      <3> QED
        BY <1>0, <1>1, <1>2, <1>4, <3>1
    <2>2. CASE ~balance[r.key].exists
      BY <1>1, <1>4, <2>2 DEF Book
    <2> QED
      BY <2>1, <2>2
  <1>5. CASE WriteModify(r)
    <2>1. r \in ModifyCalls /\ r.days - r.seen \in Int
      BY <1>5, CallKinds DEF WriteModify, ModifyCalls
    <2>2. Book(r.key, r.days - r.seen) /\ UNCHANGED <<granted, offered>>
      BY <1>5 DEF WriteModify
    <2>3. AccrualAgrees
      BY <1>4, <2>1, <2>2
    <2> QED
      BY <1>5, <2>1, <2>3, ModifyAgrees
  <1>6. CASE WriteDelete(r)
    <2>1. r \in DeleteCalls /\ 0 - r.seen \in Int
      BY <1>6, CallKinds DEF WriteDelete, DeleteCalls
    <2>2. Book(r.key, 0 - r.seen) /\ UNCHANGED <<granted, offered>>
      BY <1>6 DEF WriteDelete
    <2>3. AccrualAgrees
      BY <1>4, <2>1, <2>2
    <2> QED
      BY <1>6, <2>1, <2>3, DeleteAgrees
  <1>7. CASE WriteAccrual(r)
    <2> DEFINE fresh == [exists |-> TRUE, accrued |-> r.days, used |-> 0, remaining |-> r.days,
                         expiresAt |-> r.expiresAt]
               upd == IF r.found THEN Raised(balance[r.key], r) ELSE fresh
    <2>1. r \in AccrueCalls /\ r.days \in Nat /\ r.found \in BOOLEAN
      BY <1>7, CallKinds DEF WriteAccrual, AccrueCalls
    <2>2. /\ balance' = [balance EXCEPT ![r.key] = upd] /\ UNCHANGED <<granted, leaves, offered>>
          /\ Spoils("accrual", r.found /\ balance[r.key].accrued # r.seen)
          /\ r.found \/ ~balance[r.key].exists
      BY <1>7 DEF WriteAccrual
    <2>3. upd.accrued = r.days /\ upd.used = balance[r.key].used
      <3>1. CASE r.found
        BY <1>0, <2>1, <3>1, RaisedFacts
      <3>2. CASE ~r.found
        <4>1. balance[r.key] = NoBalance
          BY <1>0, <2>2, <3>2 DEF Rows, Good
        <4> QED
          BY <3>2, <4>1 DEF NoBalance
      <3> QED
        BY <2>1, <3>1, <3>2
    <2> HIDE DEF upd
    <2>4. balance'[r.key] = upd /\ \A j \in Keys : j # r.key => balance'[j] = balance[j]
      BY <1>0, <2>2
    <2>5. SumsAgree
      <3>1. \A j \in Keys : balance'[j].used = balance[j].used
        BY <2>3, <2>4
      <3>2. spoiled \subseteq spoiled'
        BY <1>0, <2>2, SpoilsAdds DEF Kinds
      <3> QED
        BY <2>2, <3>1, <3>2, NoSumChange
    <2>6. Enough(r.days, granted[r.key], offered, r.key[2])
      <3>1. Enough(r.days, 0, offered, r.key[2])
        BY <1>7 DEF FromRules, WriteAccrual
      <3>2. r.key[2] \in Nat \ {0} /\ granted[r.key] \in Nat
        BY <1>0, YearsAreNatural DEF Keys
      <3>3. 0 \in Int /\ r.days \in Int /\ granted[r.key] \in Int /\ r.days - r.days <= granted[r.key] - 0
        BY <2>1, <3>2
      <3> QED
        BY <3>1, <3>2, <3>3, EnoughIsKept
    <2>7. AccrualAgrees
      BY <2>2, <2>3, <2>4, <2>6 DEF AccrualAgrees, AccruedBound, Enough
    <2> QED
      BY <2>5, <2>7
  <1>8. CASE RollBack(r) \/ SkipAccrual(r)
    <2>1. UNCHANGED <<leaves, balance, granted, offered, spoiled>>
      BY <1>8 DEF RollBack, SkipAccrual, history
    <2>2. SumsAgree
      BY <2>1, NoSumChange
    <2>3. AccrualAgrees
      BY <1>1, <2>1
    <2> QED
      BY <2>2, <2>3
  <1> QED
    BY <1>3, <1>5, <1>6, <1>7, <1>8 DEF Write

LEMMA GrantAgrees ==
    ASSUME Rows, offered \subseteq Item, NEW k \in Keys, NEW n, n \in Amounts, NEW d, d \in GrantExpiry,
           Grant(k, n, d)
    PROVE  SumsAgree /\ AccrualAgrees
  <1>1. n \in Nat /\ d \in Nat /\ balance \in [Keys -> Balance] /\ granted \in [Keys -> Nat]
    BY LeaveConstants DEF Days, NoDate, Rows
  <1> DEFINE old == balance[k]
             upd == Topped(old, n, d)
  <1>2. /\ balance' = [balance EXCEPT ![k] = upd] /\ granted' = [granted EXCEPT ![k] = @ + n]
        /\ UNCHANGED <<leaves, offered, spoiled>>
    BY DEF Grant
  <1>3. old \in Balance /\ (~old.exists => old.used = 0 /\ old.accrued = 0)
    BY <1>1 DEF Rows, Good, NoBalance
  <1>4. upd.used = old.used /\ upd.accrued = old.accrued + n
    <2> HIDE DEF old
    <2>1. n \in Nat /\ d \in Nat /\ old \in Balance
      BY <1>1, <1>3
    <2>2. /\ Topped(old, n, d).used = (IF old.exists THEN old.used ELSE 0)
          /\ Topped(old, n, d).accrued = (IF old.exists THEN old.accrued + n ELSE n)
      BY <2>1, ToppedFacts
    <2> QED
      BY <1>3, <2>1, <2>2 DEF Balance
  <1> HIDE DEF upd
  <1>5. /\ balance'[k] = upd /\ granted'[k] = granted[k] + n
        /\ \A j \in Keys : j # k => balance'[j] = balance[j] /\ granted'[j] = granted[j]
    BY <1>1, <1>2
  <1>6. SumsAgree
    BY <1>2, <1>4, <1>5, NoSumChange
  <1>7. ASSUME Enough(old.accrued, granted[k], offered, k[2])
        PROVE  Enough(old.accrued + n, granted[k] + n, offered, k[2])
    <2>1. k[2] \in Nat \ {0} /\ granted[k] \in Nat
      BY <1>1, YearsAreNatural DEF Keys
    <2>2. old.accrued \in Int
      BY <1>3 DEF Balance
    <2>3. granted[k] \in Int /\ granted[k] + n \in Int /\ old.accrued \in Int /\ old.accrued + n \in Int
      BY <1>1, <2>1, <2>2
    <2>4. (old.accrued + n) - old.accrued <= (granted[k] + n) - granted[k]
      BY <1>1, <2>3
    <2> HIDE DEF old
    <2> QED
      BY <1>7, <2>1, <2>3, <2>4, EnoughIsKept
  <1>8. AccrualAgrees
    BY <1>2, <1>4, <1>5, <1>7 DEF AccrualAgrees, AccruedBound, Enough
  <1> QED
    BY <1>6, <1>8

LEMMA ExpiryAgrees == ASSUME Rows, expireOverdueBalances PROVE SumsAgree /\ AccrualAgrees
  <1>1. /\ balance' = [k \in Keys |-> IF Overdue(balance[k]) THEN [balance[k] EXCEPT !.remaining = 0] ELSE balance[k]]
        /\ UNCHANGED <<leaves, granted, offered, spoiled>>
    BY DEF expireOverdueBalances
  <1>2. \A k \in Keys : balance'[k].used = balance[k].used /\ balance'[k].accrued = balance[k].accrued
    BY <1>1 DEF Rows, Balance
  <1>3. SumsAgree
    BY <1>1, <1>2, NoSumChange
  <1> QED
    BY <1>1, <1>2, <1>3, SameAccrued

\* The invariant of the two properties: calls carry what a rule gives.
SourcesKnown ==
    /\ rule \subseteq offered
    /\ \A r \in inFlight : FromRules(r)
    /\ AccruedBound
    /\ UsedDaysAreLeaves

-----------------------------------------------------------------------------
(* Theorems.                                                               *)

LEMMA InvariantInit == LInit => LInv
  <1> SUFFICES ASSUME LInit PROVE LInv
    OBVIOUS
  <1>1. NoBalance \in Balance /\ NoBalance.accrued = NoBalance.used + NoBalance.remaining + 0 /\ NoBalance.remaining + 0 >= 0
    BY DEF NoBalance, Balance, NoDate
  <1>2. NoLeave \in Leave
    BY LeaveConstants, YearsAreNatural DEF NoLeave, Leave
  <1>3. 1 \in Days /\ rule \subseteq Item
    BY LeaveConstants DEF Days, LInit
  <1>4. LeaveTypeOK
    BY <1>1, <1>2, <1>3 DEF LInit, LeaveTypeOK
  <1>5. EmptyBeforeCreated /\ CallsHaveRead /\ DaysAddUp /\ OverdrawnOnlyByChanges
    BY <1>1 DEF LInit, EmptyBeforeCreated, CallsHaveRead, DaysAddUp, OverdrawnOnlyByChanges
  <1> QED
    BY <1>4, <1>5 DEF LInv

LEMMA WriteOffersNothing == ASSUME NEW r, Write(r) PROVE offered' = offered
  BY DEF Write, WriteCreate, WriteModify, WriteDelete, RollBack, WriteAccrual, SkipAccrual, history

\* Every step of the model is one of these.
LEMMA StepOutcome ==
    ASSUME LInv, [LNext]_lvars
    PROVE  /\ Outcome
           /\ active' \in [Types -> BOOLEAN] /\ rule' \subseteq Item /\ offered' \subseteq Item /\ today' \in Days
           /\ \/ inFlight' \subseteq inFlight
              \/ \E r \in Reads : inFlight' = inFlight \cup {r} /\ balance' = balance
  <1>1. /\ LeaveTypeOK /\ Rows
    BY InvariantRows DEF LInv
  <1>2. active \in [Types -> BOOLEAN] /\ rule \subseteq Item /\ offered \subseteq Item /\ today \in Days
    BY <1>1 DEF LeaveTypeOK
  <1>3. ASSUME UNCHANGED <<balance, leaves, lapsed, extended, granted, spoiled>> PROVE Outcome
    BY <1>1, <1>3, NoRowChange DEF Rows
  <1>4. CASE \E r \in Reads : AtOnce(r)
    <2>1. PICK r \in Reads : Write(r) /\ UNCHANGED inFlight
      BY <1>4 DEF AtOnce
    <2>2. Outcome
      BY <1>1, <2>1, ReadFacts, WriteKeeps
    <2>3. offered' = offered
      BY <2>1, WriteOffersNothing
    <2> QED
      BY <1>2, <2>1, <2>2, <2>3 DEF Write
  <1>5. CASE \E r \in inFlight : Finish(r)
    <2>1. PICK r \in inFlight : Write(r) /\ inFlight' = inFlight \ {r}
      BY <1>5 DEF Finish
    <2>2. r \in Call
      BY <1>1 DEF LeaveTypeOK
    <2>3. Outcome
      BY <1>1, <2>1, <2>2, WriteKeeps DEF LInv, CallsHaveRead
    <2>4. offered' = offered
      BY <2>1, WriteOffersNothing
    <2> QED
      BY <1>2, <2>1, <2>3, <2>4 DEF Write
  <1>6. CASE \E r \in Reads : Begin(r)
    <2>1. PICK r \in Reads : inFlight' = inFlight \cup {r} /\ UNCHANGED <<active, rule, balance, leaves, today, history>>
      BY <1>6 DEF Begin
    <2> QED
      BY <1>2, <1>3, <2>1 DEF history
  <1>7. CASE \E k \in Keys, n \in Amounts, d \in GrantExpiry : Grant(k, n, d)
    <2>1. Outcome
      BY <1>1, <1>7, GrantKeeps
    <2> QED
      BY <1>2, <1>7, <2>1 DEF Grant
  <1>8. CASE \E items \in Rules : EditRule(items)
    BY <1>2, <1>3, <1>8, LeaveConstants DEF EditRule
  <1>9. CASE \E types \in {{t} : t \in Types} \cup {Types} : DeleteTypes(types)
    <2>1. PICK types : DeleteTypes(types)
      BY <1>9
    <2>2. active' \in [Types -> BOOLEAN]
      BY <1>2, <2>1 DEF DeleteTypes
    <2> QED
      BY <1>2, <1>3, <2>1, <2>2 DEF DeleteTypes, history
  <1>10. CASE \E t \in Types : ActivateType(t)
    BY <1>2, <1>3, <1>10 DEF ActivateType, history
  <1>11. CASE expireOverdueBalances
    BY <1>1, <1>2, <1>11, ExpiryKeeps DEF expireOverdueBalances
  <1>12. CASE NextDay
    BY <1>2, <1>3, <1>12, LeaveConstants DEF NextDay, history, Days
  <1>13. CASE UNCHANGED lvars
    BY <1>2, <1>3, <1>13 DEF lvars
  <1> QED
    BY <1>4, <1>5, <1>6, <1>7, <1>8, <1>9, <1>10, <1>11, <1>12, <1>13 DEF LNext, Handlers, Administration

LEMMA InvariantStep == LInv /\ [LNext]_lvars => LInv'
  <1> SUFFICES ASSUME LInv, [LNext]_lvars PROVE LInv'
    OBVIOUS
  <1>1. /\ Outcome
        /\ active' \in [Types -> BOOLEAN] /\ rule' \subseteq Item /\ offered' \subseteq Item /\ today' \in Days
        /\ \/ inFlight' \subseteq inFlight
           \/ \E r \in Reads : inFlight' = inFlight \cup {r} /\ balance' = balance
    BY StepOutcome
  <1>2. LeaveTypeOK /\ CallsHaveRead /\ inFlight \subseteq Call
    BY DEF LInv, LeaveTypeOK
  <1>3. inFlight' \subseteq Call
    BY <1>1, <1>2, ReadFacts
  <1>4. CallsHaveRead'
    <2>1. \A r \in inFlight : r.key \in Keys
      BY <1>2, CallKinds
    <2>2. CASE inFlight' \subseteq inFlight
      BY <1>1, <1>2, <2>1, <2>2 DEF CallsHaveRead, Outcome
    <2>3. CASE \E r \in Reads : inFlight' = inFlight \cup {r} /\ balance' = balance
      BY <1>2, <2>3, ReadFacts DEF CallsHaveRead
    <2> QED
      BY <1>1, <2>2, <2>3
  <1>5. (EmptyBeforeCreated /\ DaysAddUp /\ OverdrawnOnlyByChanges)'
    BY <1>1 DEF Outcome, Rows, EmptyBeforeCreated, DaysAddUp, OverdrawnOnlyByChanges, Good
  <1>6. LeaveTypeOK'
    BY <1>1, <1>3 DEF Outcome, Rows, LeaveTypeOK, Kinds
  <1> QED
    BY <1>4, <1>5, <1>6 DEF LInv

LEMMA Invariance == LSpec => []LInv
  BY InvariantInit, InvariantStep, PTL DEF LSpec

\* Every reachable balance, leave and call is well typed.
THEOREM LeaveTypeCorrectness == LSpec => []LeaveTypeOK
  BY Invariance, PTL DEF LInv

\* Grants (upsertAccruedBalance), accrual (applyAccrualTarget), leaves and expiry
\* neither make nor lose days, unless an accrual writes over what it did not read.
THEOREM ConservationOfDays == LSpec => []DaysAddUp
  BY Invariance, PTL DEF LInv

\* The check of the balance (validateBalance) keeps it from being overdrawn, but for
\* changes of leaves, unless the days it saw were spent before the write.
THEOREM OverdraftCorrectness == LSpec => []OverdrawnOnlyByChanges
  BY Invariance, PTL DEF LInv

\* An accrual run (applyAccrualTarget) lowers no balance.
THEOREM AccrualCorrectness == LSpec => AccrualNeverLowers
  <1>1. ASSUME LInv, [LNext]_lvars
        PROVE  [("accrual" \notin spoiled') => \A k \in Keys : balance'[k].accrued >= balance[k].accrued]_lvars
    BY <1>1, StepOutcome DEF Outcome
  <1> QED
    BY <1>1, Invariance, PTL DEF LSpec, AccrualNeverLowers

LEMMA SourcesInit == LInit => SourcesKnown
  <1> SUFFICES ASSUME LInit PROVE SourcesKnown
    OBVIOUS
  <1>1. AccruedBound
    <2>1. \A k \in Keys : balance[k].accrued = 0 /\ granted[k] = 0
      BY DEF LInit, NoBalance
    <2> QED
      BY <2>1 DEF AccruedBound, Enough
  <1>2. TotalUsed = 0
    <2>1. \A k \in Keys : UsedOf[k] = 0
      BY DEF LInit, NoBalance, UsedOf
    <2>2. PICK w : w = UsedOf
      OBVIOUS
    <2>3. SumOver(w, Keys) = 0
      BY <2>1, <2>2, KeysAreFinite, SumOfZeros
    <2> QED
      BY <2>2, <2>3 DEF TotalUsed, UsedOf
  <1>3. TotalTaken = 0
    <2>1. \A l \in LeaveIds : TakenOf[l] = 0
      BY DEF LInit, NoLeave, TakenOf
    <2>2. PICK w : w = TakenOf
      OBVIOUS
    <2>3. SumOver(w, LeaveIds) = 0
      BY <2>1, <2>2, LeaveConstants, SumOfZeros
    <2> QED
      BY <2>2, <2>3 DEF TotalTaken, TakenOf
  <1> QED
    BY <1>1, <1>2, <1>3 DEF SourcesKnown, UsedDaysAreLeaves, LInit

LEMMA SourcesStep == LInv /\ SourcesKnown /\ [LNext]_lvars => SourcesKnown'
  <1> SUFFICES ASSUME LInv, SourcesKnown, [LNext]_lvars PROVE SourcesKnown'
    OBVIOUS
  <1>1. /\ Rows /\ LeaveTypeOK /\ rule \subseteq offered /\ offered \subseteq Item /\ (\A r \in inFlight : FromRules(r))
        /\ inFlight \subseteq Call
    BY InvariantRows DEF LInv, SourcesKnown, LeaveTypeOK
  <1>2. ASSUME UNCHANGED <<balance, leaves, granted, spoiled>>, offered \subseteq offered'
        PROVE  SumsAgree /\ AccrualAgrees
    BY <1>2, NoSumChange, SameAccrued
  <1>3. \A r \in Reads : r \in Call /\ FromRules(r)
    BY <1>1, ReadFacts, ReadFromRules
  <1>4. /\ SumsAgree /\ AccrualAgrees /\ rule' \subseteq offered'
        /\ inFlight' \subseteq inFlight \cup Reads
    <2>1. CASE \E r \in Reads : AtOnce(r)
      <3>1. PICK r \in Reads : Write(r) /\ UNCHANGED inFlight
        BY <2>1 DEF AtOnce
      <3> QED
        BY <1>1, <1>3, <3>1, WriteAgrees, WriteOffersNothing DEF Write
    <2>2. CASE \E r \in inFlight : Finish(r)
      <3>1. PICK r \in inFlight : Write(r) /\ inFlight' = inFlight \ {r}
        BY <2>2 DEF Finish
      <3> QED
        BY <1>1, <3>1, WriteAgrees, WriteOffersNothing DEF Write
    <2>3. CASE \E r \in Reads : Begin(r)
      BY <1>1, <1>2, <2>3 DEF Begin, history
    <2>4. CASE \E k \in Keys, n \in Amounts, d \in GrantExpiry : Grant(k, n, d)
      <3>1. SumsAgree /\ AccrualAgrees
        BY <1>1, <2>4, GrantAgrees
      <3> QED
        BY <1>1, <2>4, <3>1 DEF Grant
    <2>5. CASE \E items \in Rules : EditRule(items)
      BY <1>1, <1>2, <2>5 DEF EditRule
    <2>6. CASE \E types \in {{t} : t \in Types} \cup {Types} : DeleteTypes(types)
      BY <1>1, <1>2, <2>6 DEF DeleteTypes, history
    <2>7. CASE \E t \in Types : ActivateType(t)
      BY <1>1, <1>2, <2>7 DEF ActivateType, history
    <2>8. CASE expireOverdueBalances
      <3>1. SumsAgree /\ AccrualAgrees
        BY <1>1, <2>8, ExpiryAgrees
      <3> QED
        BY <1>1, <2>8, <3>1 DEF expireOverdueBalances
    <2>9. CASE NextDay
      BY <1>1, <1>2, <2>9 DEF NextDay, history
    <2>10. CASE UNCHANGED lvars
      BY <1>1, <1>2, <2>10 DEF lvars
    <2> QED
      BY <2>1, <2>2, <2>3, <2>4, <2>5, <2>6, <2>7, <2>8, <2>9, <2>10 DEF LNext, Handlers, Administration
  <1>5. (\A r \in inFlight : FromRules(r))'
    <2>1. \A r \in inFlight' : FromRules(r)
      BY <1>1, <1>3, <1>4
    <2>2. offered \subseteq offered'
      BY <1>4 DEF AccrualAgrees
    <2> QED
      BY <2>1, <2>2 DEF FromRules, Enough
  <1>6. UsedDaysAreLeaves' /\ AccruedBound'
    BY <1>4 DEF SourcesKnown, SumsAgree, AccrualAgrees
  <1> QED
    BY <1>4, <1>5, <1>6 DEF SourcesKnown

LEMMA SourcesInvariance == LSpec => []SourcesKnown
  BY SourcesInit, SourcesStep, Invariance, PTL DEF LSpec

\* Leaves are created, changed and deleted with the days of the balances
\* (applyLeaveCreate, applyLeaveModify, applyLeaveDelete), whichever balance stands
\* for the group when they are.
THEOREM UsedDaysCorrectness == LSpec => []UsedDaysAreLeaves
  BY SourcesInvariance, PTL DEF SourcesKnown

\* Accrual runs, also between other calls, give the days of one tier once
\* and no used or expired day again: applyAccrualTarget compares its target with what
\* the row ever accrued.  Only two runs that read the same row may give days twice.
THEOREM AccrualOnce == LSpec => []AccrualNotRepeated
  <1>1. LInv /\ SourcesKnown => AccrualNotRepeated
    BY DEF LInv, SourcesKnown, AccruedBound, Enough, DaysAddUp, AccrualNotRepeated, Received
  <1> QED
    BY <1>1, SourcesInvariance, Invariance, PTL
=============================================================================
