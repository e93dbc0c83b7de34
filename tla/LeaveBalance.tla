----------------------------- MODULE LeaveBalance -----------------------------
(***************************************************************************)
(* The leave balances of one employee in one leave group: LeavesService,   *)
(* LeaveAccrualService, the nightly LeaveAccrualScheduler, and what the    *)
(* approval of a leave request does to leaves and balances                 *)
(* (RequestEffectsService).                                                *)
(*                                                                         *)
(* A handler that reads rows, decides, and writes later is a record of     *)
(* what it has read: Reads is the set of all records that a handler could  *)
(* load now, Write(r) is what it does with r.  A handler either does both  *)
(* at once or stays in inFlight in between, while others write.  A day of  *)
(* the model is a month of the code wherever accrual counts months.        *)
(***************************************************************************)
EXTENDS Integers, FiniteSets, FiniteSetsExt

CONSTANTS
    Types,          \* leave types of the group
    FullDay,        \* SUBSET Types: deductionDays = 1 and timeOption = "full_day"
    Deduct,         \* [Types -> Nat \ {0}], deductionDays
    LastDay,        \* the calendar is 1 .. LastDay
    YearLength,     \* days of a year
    Workdays,       \* days that are neither weekend nor holiday
    JoinedAt,       \* the day the employee joined
    Rules,          \* sets of items that administrators give the accrual rule
    Amounts,        \* days granted by hand at a time
    GrantExpiry,    \* their dates of expiry, NoDate among them
    MaxGranted,     \* bound on all days granted by hand
    MaxExtended,    \* bound on the days that changes add to leaves
    LeaveIds,       \* bound on the leaves that exist at a time
    MaxLength,      \* bound on the calendar days of a leave
    MaxInFlight     \* bound on the calls between their read and their write

Days == 1 .. LastDay
YearOf(d) == 1 + (d - 1) \div YearLength
Years == {YearOf(d) : d \in Days}
FirstDay(y) == 1 + (y - 1) * YearLength
Keys == Types \X Years            \* unique (employee, leaveType, year)
NoDate == 0                       \* null

\* A tier of the accrual rule: days at a tenure, at once or per month, that expire
\* so long after the start of the year (never if 0).
Item == [tenure : Nat, monthly : BOOLEAN, days : Nat, valid : Nat]

ASSUME LeaveConstants ==
    /\ Types # {} /\ FullDay \subseteq Types
    /\ Deduct \in [Types -> Nat \ {0}]
    /\ LastDay \in Nat \ {0} /\ YearLength \in Nat \ {0} /\ MaxLength \in Nat \ {0}
    /\ JoinedAt \in Nat /\ MaxGranted \in Nat /\ MaxExtended \in Nat /\ MaxInFlight \in Nat
    /\ Amounts \subseteq Nat \ {0} /\ GrantExpiry \subseteq Days \cup {NoDate}
    /\ \A items \in Rules : items \subseteq Item
    /\ IsFiniteSet(Types) /\ IsFiniteSet(LeaveIds)

Balance == [exists : BOOLEAN, accrued : Int, used : Int, remaining : Int, expiresAt : Nat]
NoBalance == [exists |-> FALSE, accrued |-> 0, used |-> 0, remaining |-> 0, expiresAt |-> NoDate]

\* The dates of a leave count through its days and the year of its start.
Leave == [exists : BOOLEAN, type : Types, year : Years, daysUsed : Nat]
NoLeave == [exists |-> FALSE, type |-> CHOOSE t \in Types : TRUE, year |-> 1, daysUsed |-> 0]

Call ==
    [op : {"create"}, key : Keys, type : Types, days : Nat, seen : Int]
    \cup [op : {"modify"}, leave : LeaveIds, key : Keys, year : Years, days : Nat, seen : Nat]
    \cup [op : {"delete"}, leave : LeaveIds, key : Keys, seen : Nat]
    \cup [op : {"accrue"}, key : Keys, days : Nat, seen : Int, found : BOOLEAN, expiresAt : Nat]

VARIABLES
    active,    \* [Types -> BOOLEAN], LeaveType.isActive
    rule,      \* items of the active accrual rule, {} without one
    balance,   \* [Keys -> Balance], the rows of LeaveBalance
    leaves,    \* [LeaveIds -> Leave], the rows of Leave
    today,
    inFlight,  \* SUBSET Call
    \* History, which no handler reads:
    lapsed,    \* [Keys -> Nat], days that expired
    extended,  \* days added to leaves by LEAVE_MODIFY
    granted,   \* [Keys -> Nat], days granted by hand
    offered,   \* items of all rules that have been in force
    spoiled    \* what has gone wrong so far, see Spoils

history == <<lapsed, extended, granted, offered, spoiled>>
lvars == <<active, rule, balance, leaves, today, inFlight, lapsed, extended, granted, offered, spoiled>>

\* Two calls wrote over each other, or a change was booked on no balance.
Spoils(kind, cond) == spoiled' = IF cond THEN spoiled \cup {kind} ELSE spoiled

-----------------------------------------------------------------------------
(* Types, dates and amounts.                                               *)

ActiveTypes == {t \in Types : active[t]}

\* The types whose balance may stand for the group: the full-day types of the pool
\* if there are any, else all of it.  The query that picks one has no order.
Representatives(pool) == IF pool \cap FullDay # {} THEN pool \cap FullDay ELSE pool

\* Requests fall back to inactive types when none is active; accrual does not.
resolveBalanceTypeId == Representatives(IF ActiveTypes # {} THEN ActiveTypes ELSE Types)
pickRepresentativeLeaveType == Representatives(ActiveTypes)

\* n, but not less than least; n, but not more than most.
AtLeast(n, least) == IF n < least THEN least ELSE n
AtMost(n, most) == IF n > most THEN most ELSE n

\* An administrator's leave costs calendar days, a requested one working days.
calcLeaveDaysUsed(t, start, end) == AtLeast(end - start + 1, 1) * Deduct[t]
computeLeaveDaysUsed(t, start, end) == AtLeast(Cardinality(Workdays \cap start .. end), 1) * Deduct[t]

Periods == {p \in Days \X Days : p[1] <= p[2] /\ p[2] < p[1] + MaxLength}

clampToYear(d, y) == AtMost(AtLeast(d, FirstDay(y)), FirstDay(y + 1) - 1)
calcMonthlyAccrualCount(y, ref) == AtLeast(ref - AtLeast(FirstDay(y), JoinedAt), 0)

\* The highest tier that the tenure on day ref reaches.
ApplicableItems(ref) ==
    LET reached == {i \in rule : AtLeast(ref - JoinedAt, 0) >= i.tenure}
    IN  {i \in reached : \A j \in reached : j.tenure <= i.tenure}

calcExpiresAt(i, y) == IF i.valid = 0 THEN NoDate ELSE FirstDay(y) + i.valid

\* The days that item i gives for year y as of day ref.
TargetDays(i, y, ref) == IF i.monthly THEN i.days * calcMonthlyAccrualCount(y, ref) ELSE i.days

-----------------------------------------------------------------------------
(* What the handlers read and check.                                       *)

\* MUTANT of validateBalance: the amount is not compared.
validateExistenceOnly(k, days, start) == balance[k].exists

validateBalance(k, days, start) ==
    /\ balance[k].exists
    /\ balance[k].remaining >= days
    /\ balance[k].expiresAt # NoDate => balance[k].expiresAt >= start

CreateCall(k, t, days) ==
    [op |-> "create", key |-> k, type |-> t, days |-> days, seen |-> balance[k].remaining]

\* A leave of type t over the days p, charged to type c if its balance allows.
Charged(c, t, p, days) ==
    IF validateBalance(<<c, YearOf(p[1])>>, days, p[1])
    THEN {CreateCall(<<c, YearOf(p[1])>>, t, days)} ELSE {}

\* createLeave checks the balance of the leave's own type, before its transaction.
createLeave == UNION {Charged(t, t, p, calcLeaveDaysUsed(t, p[1], p[2])) : t \in Types, p \in Periods}

\* applyLeaveCreate checks the group's representative.  The submission of the
\* request made the same checks, and that t was active; both may be stale by now.
applyLeaveCreate ==
    UNION {Charged(rep, t, p, computeLeaveDaysUsed(t, p[1], p[2])) :
              rep \in resolveBalanceTypeId, t \in Types, p \in Periods}

Taken == {l \in LeaveIds : leaves[l].exists}

\* applyLeaveModify: no balance is looked at.
applyLeaveModify ==
    {[op |-> "modify", leave |-> l, key |-> <<rep, leaves[l].year>>, year |-> YearOf(p[1]),
      days |-> computeLeaveDaysUsed(leaves[l].type, p[1], p[2]), seen |-> leaves[l].daysUsed] :
        rep \in resolveBalanceTypeId, l \in Taken, p \in Periods}

applyLeaveDelete ==
    {[op |-> "delete", leave |-> l, key |-> <<rep, leaves[l].year>>, seen |-> leaves[l].daysUsed] :
        rep \in resolveBalanceTypeId, l \in Taken}

AccrueCall(t, i, y, ref) ==
    [op |-> "accrue", key |-> <<t, y>>, days |-> TargetDays(i, y, ref), seen |-> balance[<<t, y>>].accrued,
     found |-> balance[<<t, y>>].exists, expiresAt |-> calcExpiresAt(i, y)]

\* runAccrualRule for year y, up to the read in applyAccrualTarget.
runAccrualRule(y) ==
    LET ref == clampToYear(today, y)
        items == {i \in ApplicableItems(ref) : i.monthly => calcMonthlyAccrualCount(y, ref) > 0}
    IN  {AccrueCall(t, i, y, ref) : t \in pickRepresentativeLeaveType, i \in items}

Reads == createLeave \cup applyLeaveCreate \cup applyLeaveModify \cup applyLeaveDelete
         \cup UNION {runAccrualRule(y) : y \in Years}

-----------------------------------------------------------------------------
(* What they write.                                                        *)

\* The increment and the decrement of one update.
Moved(b, days) == [b EXCEPT !.used = @ + days, !.remaining = @ - days]

\* MUTANT of Use: the row is written from what was read.
UseFromRead(b, days, seen) == [Moved(b, days) EXCEPT !.remaining = seen - days]

Use(b, days, seen) == Moved(b, days)

\* The transaction of createLeave and of applyLeaveCreate.
WriteCreate(r) ==
    /\ r.op = "create"
    /\ \E l \in LeaveIds \ Taken :
          leaves' = [leaves EXCEPT ![l] = [exists |-> TRUE, type |-> r.type, year |-> r.key[2],
                                           daysUsed |-> r.days]]
    /\ balance' = [balance EXCEPT ![r.key] = Use(@, r.days, r.seen)]
    /\ Spoils("balance", balance[r.key].remaining < r.seen)
    /\ UNCHANGED <<lapsed, extended, granted, offered>>

\* MUTANT of Book: increment and decrement swapped.
BookReversed(k, delta) ==
    balance' = IF balance[k].exists THEN [balance EXCEPT ![k] = Moved(@, 0 - delta)] ELSE balance

\* updateMany: a balance that does not exist is skipped.
Book(k, delta) ==
    balance' = IF balance[k].exists THEN [balance EXCEPT ![k] = Moved(@, delta)] ELSE balance

BookingGoesWrong(r, delta) ==
    \/ delta # 0 /\ ~balance[r.key].exists
    \/ leaves[r.leave].daysUsed # r.seen

\* The difference is booked on the year the leave started in.
WriteModify(r) ==
    /\ r.op = "modify"
    /\ leaves[r.leave].exists
    /\ extended + AtLeast(r.days - r.seen, 0) <= MaxExtended
    /\ leaves' = [leaves EXCEPT ![r.leave].year = r.year, ![r.leave].daysUsed = r.days]
    /\ Book(r.key, r.days - r.seen)
    /\ extended' = extended + AtLeast(r.days - r.seen, 0)
    /\ Spoils("leave", BookingGoesWrong(r, r.days - r.seen))
    /\ UNCHANGED <<lapsed, granted, offered>>

\* The days go back to the group's present representative.
WriteDelete(r) ==
    /\ r.op = "delete"
    /\ leaves[r.leave].exists
    /\ leaves' = [leaves EXCEPT ![r.leave] = NoLeave]
    /\ Book(r.key, 0 - r.seen)
    /\ Spoils("leave", BookingGoesWrong(r, 0 - r.seen))
    /\ UNCHANGED <<lapsed, extended, granted, offered>>

\* The leave is gone, or the row to create exists by now: the transaction fails.
RollBack(r) ==
    /\ \/ r.op \in {"modify", "delete"} /\ ~leaves[r.leave].exists
       \/ r.op = "accrue" /\ ~r.found /\ balance[r.key].exists
    /\ UNCHANGED <<leaves, balance, history>>

\* MUTANT of Raised: the target is added to what there is.
RaisedBy(b, r) == [b EXCEPT !.accrued = @ + r.days, !.remaining = @ + r.days]

\* The row after an update that sets accrued and increments remaining.
Raised(b, r) ==
    [b EXCEPT !.accrued = r.days, !.remaining = @ + (r.days - r.seen),
              !.expiresAt = IF r.expiresAt # NoDate THEN r.expiresAt ELSE @]

\* MUTANT of TargetReached: the accrual lowers a balance to its target.
TargetEqual(r) == r.found /\ r.days = r.seen

TargetReached(r) == r.found /\ r.days <= r.seen

\* applyAccrualTarget.
WriteAccrual(r) ==
    LET b == balance[r.key]
    IN  /\ r.op = "accrue"
        /\ ~TargetReached(r)
        /\ r.found \/ ~b.exists
        /\ balance' = [balance EXCEPT ![r.key] =
              IF r.found THEN Raised(b, r)
              ELSE [exists |-> TRUE, accrued |-> r.days, used |-> 0, remaining |-> r.days,
                    expiresAt |-> r.expiresAt]]
        /\ Spoils("accrual", r.found /\ b.accrued # r.seen)
        /\ UNCHANGED <<leaves, lapsed, extended, granted, offered>>

SkipAccrual(r) ==
    /\ r.op = "accrue" /\ TargetReached(r)
    /\ UNCHANGED <<leaves, balance, history>>

Write(r) ==
    /\ \/ WriteCreate(r) \/ WriteModify(r) \/ WriteDelete(r) \/ RollBack(r)
       \/ WriteAccrual(r) \/ SkipAccrual(r)
    /\ UNCHANGED <<active, rule, today>>

-----------------------------------------------------------------------------
(* Handlers of a single write.                                             *)

\* The sum of w[x] for all x of S.
SumOver(w, S) == MapThenSumSet(LAMBDA x : w[x], S)

TotalGranted == SumOver(granted, Keys)

Topped(b, n, expiresAt) ==
    IF b.exists THEN [b EXCEPT !.accrued = @ + n, !.remaining = @ + n,
                               !.expiresAt = IF expiresAt # NoDate THEN expiresAt ELSE @]
    ELSE [exists |-> TRUE, accrued |-> n, used |-> 0, remaining |-> n, expiresAt |-> expiresAt]

\* upsertAccruedBalance, for manualAccrual and createCompensationLeave.
Grant(k, n, expiresAt) ==
    /\ TotalGranted + n <= MaxGranted
    /\ balance' = [balance EXCEPT ![k] = Topped(@, n, expiresAt)]
    /\ granted' = [granted EXCEPT ![k] = @ + n]
    /\ UNCHANGED <<active, rule, leaves, today, inFlight, lapsed, extended, offered, spoiled>>

\* createAccrualRule, updateAccrualRule, deleteAccrualRule.
EditRule(items) ==
    /\ items # rule
    /\ rule' = items
    /\ offered' = offered \cup items
    /\ UNCHANGED <<active, balance, leaves, today, inFlight, lapsed, extended, granted, spoiled>>

\* deleteType looks for days left, then deactivates; deleteGroup does it for all types.
InUse(types) == \E k \in Keys : k[1] \in types /\ balance[k].remaining > 0

DeleteTypes(types) ==
    /\ ~InUse(types)
    /\ active' = [t \in Types |-> active[t] /\ t \notin types]
    /\ UNCHANGED <<rule, balance, leaves, today, inFlight, history>>

\* updateType can set isActive again.
ActivateType(t) ==
    /\ ~active[t]
    /\ active' = [active EXCEPT ![t] = TRUE]
    /\ UNCHANGED <<rule, balance, leaves, today, inFlight, history>>

\* MUTANT of Overdue: balances below zero are reset too.
OverdueAnyway(b) == b.expiresAt # NoDate /\ b.expiresAt < today /\ b.remaining # 0

Overdue(b) == b.expiresAt # NoDate /\ b.expiresAt < today /\ b.remaining > 0

\* expireOverdueBalances, after a nightly accrual whose failure is only logged.
expireOverdueBalances ==
    /\ balance' = [k \in Keys |-> IF Overdue(balance[k]) THEN [balance[k] EXCEPT !.remaining = 0]
                                  ELSE balance[k]]
    /\ lapsed' = [k \in Keys |-> lapsed[k] + (balance[k].remaining - balance'[k].remaining)]
    /\ UNCHANGED <<active, rule, leaves, today, inFlight, extended, granted, offered, spoiled>>

NextDay ==
    /\ today < LastDay
    /\ today' = today + 1
    /\ UNCHANGED <<active, rule, balance, leaves, inFlight, history>>

-----------------------------------------------------------------------------
LInit ==
    /\ active = [t \in Types |-> TRUE]
    /\ rule \in Rules
    /\ balance = [k \in Keys |-> NoBalance]
    /\ leaves = [l \in LeaveIds |-> NoLeave]
    /\ today = 1
    /\ inFlight = {}
    /\ lapsed = [k \in Keys |-> 0]
    /\ extended = 0
    /\ granted = [k \in Keys |-> 0]
    /\ offered = rule
    /\ spoiled = {}

Begin(r) ==
    /\ Cardinality(inFlight) < MaxInFlight
    /\ inFlight' = inFlight \cup {r}
    /\ UNCHANGED <<active, rule, balance, leaves, today, history>>

Finish(r) == Write(r) /\ inFlight' = inFlight \ {r}

AtOnce(r) == Write(r) /\ UNCHANGED inFlight

Handlers ==
    \/ \E r \in Reads : Begin(r) \/ AtOnce(r)
    \/ \E r \in inFlight : Finish(r)

Administration ==
    \/ \E k \in Keys, n \in Amounts, d \in GrantExpiry : Grant(k, n, d)
    \/ \E items \in Rules : EditRule(items)
    \/ \E types \in {{t} : t \in Types} \cup {Types} : DeleteTypes(types)
    \/ \E t \in Types : ActivateType(t)

\* Bound: a behaviour is followed until the first thing goes wrong.
LNext == spoiled = {} /\ (Handlers \/ Administration \/ expireOverdueBalances \/ NextDay)

LSpec == LInit /\ [][LNext]_lvars

-----------------------------------------------------------------------------
(* Properties.                                                             *)

LeaveTypeOK ==
    /\ active \in [Types -> BOOLEAN]
    /\ rule \subseteq Item /\ offered \subseteq Item
    /\ balance \in [Keys -> Balance]
    /\ leaves \in [LeaveIds -> Leave]
    /\ today \in Days
    /\ inFlight \subseteq Call
    /\ lapsed \in [Keys -> Nat] /\ extended \in Nat /\ granted \in [Keys -> Nat]
    /\ spoiled \subseteq {"accrual", "balance", "leave"}

\* "accruedDays - usedDays - remainingDays is what lapsed": no mixture of grants,
\* accruals, leaves and expiry makes days appear or disappear, except an accrual
\* run that writes over a change of the row since it read it.
DaysAddUp ==
    "accrual" \notin spoiled =>
        \A k \in Keys : balance[k].accrued = balance[k].used + balance[k].remaining + lapsed[k]

\* A balance is overdrawn by no more than the days that LEAVE_MODIFY added, which
\* looks at no balance, unless two calls spent the same days.
OverdrawnOnlyByChanges ==
    "balance" \notin spoiled => \A k \in Keys : balance[k].remaining + extended >= 0

TotalUsed == SumOver([k \in Keys |-> balance[k].used], Keys)
TotalTaken == SumOver([l \in LeaveIds |-> IF leaves[l].exists THEN leaves[l].daysUsed ELSE 0], LeaveIds)

\* The days used over all balances are the days of the leaves that exist, whichever
\* type and year they are booked on, unless a change found no balance to book on
\* or two changes of one leave overlapped.
UsedDaysAreLeaves == "leave" \notin spoiled => TotalUsed = TotalTaken

\* All days that a balance has received: used, left, or expired.
Received(k) == balance[k].used + balance[k].remaining + lapsed[k]

\* However often and by whomever the accrual is run, also with calls under way and
\* under rules that change, a balance receives no more days than one tier in force
\* so far gives for the year, on top of those granted by hand; days that were used
\* or have expired are not given again.  Of two overlapping runs that find no row
\* one fails; two that find the same row give its days twice and are exempt.
AccrualNotRepeated ==
    "accrual" \notin spoiled =>
        \A k \in Keys :
            \/ Received(k) <= granted[k]
            \/ \E i \in offered : Received(k) <= granted[k] + TargetDays(i, k[2], FirstDay(k[2] + 1) - 1)

\* "Already at the target or above": an accrual run takes away none of the days
\* that were granted by hand, except those granted since it read the row.
AccrualNeverLowers ==
    [][("accrual" \notin spoiled') => \A k \in Keys : balance'[k].accrued >= balance[k].accrued]_lvars
=============================================================================
