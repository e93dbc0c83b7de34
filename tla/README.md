# AbleWork: a TLA+ model of approval, leave, attendance and organizations

AbleWork is a group-ware and HR service: a NestJS API over PostgreSQL (`apps/api`),
a web client and a mobile client. Its core is approval. A document travels along a
line of approvers; an HR request (leave, shift, attendance, custom) goes through
rounds of approvals and then takes effect, on leave balances, shifts and attendance
records that people, administrators and nightly jobs change as well. Who may approve follows from a
tree of organizations. This directory specifies all of these in TLA+, checks them with TLC and
proves their main safety properties with TLAPS.

Paths below are relative to `src/apps/api/src/modules/` unless they start with `src/`.

## 1. Inventory

### Document approval (`documents/`)

State: `Document` (status, docNumber, submittedAt, ...), its `ApprovalStep` rows
(role, stepOrder, assigneeId or organizationId, status, proxyId), its
`ApprovalHistory`, the company's `NumberRule` per form, and `ProxySetting`s.

| part | operations |
| --- | --- |
| `documents.service` | create, update, submit, recall, remove, forceDelete |
| `document-steps.service` | resolveSteps, the submit transaction, issueDocNumber |
| `approval-actions.service` | approve, agree, department collaboration, reject, preApprove, returnToPrevious, cancelApproval, receive, bounce, view, addCcSteps, addOpinion; progressFlow and finalizeApproval inside them |
| `approval-support.service` | resolveActor (assignee, document manager of a department, or proxy), history, notification |
| `proxy-settings.service` | who acts for whom, between two dates |
| `document-forms.service` | forms and their number rules |
| categories, templates, saved lines, attachments, queries | records and reads |

Hard: the turn moves forward, backward and over the end (pre-approval) by rewriting
two rows at a time, and which row comes next is worked out from the statuses of all.
Every handler reads the document and checks its conditions *before* its
transaction; the transaction updates by id, at READ COMMITTED, and checks nothing
again. Numbers are chosen without a lock and retried once on a unique-key collision.

Correct means: one current step at a time, no approval without its steps, receivers
after approval and never before, decisions final, proxies named only for what they did,
everyone told of his turn, no pending document without someone who can act, and a
number for whoever submits alone.

### HR requests (`requests/`)

State: `Request` (status, payload, ruleId, documentId), `RequestApproval` records,
`ApprovalRule`s with a detail per round, and the request's document, which mirrors it.

| part | operations |
| --- | --- |
| `requests.service` | createRequest (with or without rule, automatic approval, document), updateRequest, cancel |
| `request-approval.service` | approve, reject, forceApprove, forceReject, rounds, rule lookup |
| `approval-rules.service` | save, switch, delete |
| `request-effects.service` | what an approved request does to leaves, shifts and attendance |

Hard: quorums counted by concurrent transactions that do not see each other; a status
read before the transaction; rules edited while requests are pending; two state machines
(request and document) that must agree.

Correct means: a request is approved with the approvals its rule asks for, by different
people, round after round; it takes effect exactly once, as it reads; the document says
the same as the request; a decided request stays decided.

### Leave (`leaves/`)

State: `LeaveType`s of a group with `isActive`, one `LeaveBalance` row per employee, type and year
(accrued, used, remaining, expiresAt), `Leave` rows, and the company's accrual rule.

| part | operations |
| --- | --- |
| `leaves.service` | manual grants, compensation leave, an administrator's leave (createLeave), the balance check, types and groups, accrual rules |
| `leave-accrual.service`, `.scheduler` | the nightly (or manual) accrual run that *sets* a balance to its target, and the expiry of balances |
| `request-effects.service` | leaves created, changed and deleted by approved requests |

Hard: the check of a balance and its decrement are separate statements; grants increment what accrual sets;
a leave is booked on whichever type *represents* its group on the day of the booking; expiry empties
balances that leaves are still changed against.

Correct means: days neither appear nor vanish; nobody takes days they have not got; used days are those of
the leaves that exist; accrual gives a year's days once and never takes granted ones away.

### Attendance and shifts (`attendances/`, `shifts/`)

State: one `Attendance` per presence (linked shift, clock-in, clock-out, status, breaks, confirmation) and `Shift`s.

| part | operations |
| --- | --- |
| `attendances.service`, `attendance-clockin.service` | clockIn, clockOut, breaks, manual records, edits, deletion, confirmPeriod and unconfirm |
| `attendance-absent.scheduler` | every half hour: an ABSENT record for shifts that ended without one |
| `shifts.service` | create, change, confirm, delete |
| `request-effects.service` | shifts and records that approved requests add, change and delete |

Hard: "is at work" is derived from a record without clock-out, which clock-in, approvals, administrators and
the scheduler all write; confirmation is checked before the write; the scheduler works through a list that ages.

Correct means: one open clock-in at a time, confirmed records unchanged, absences only for days without a record.

### Organizations and employees (`organizations/`, `employees/`)

State: `Organization` rows (parent, isActive), `Employee` rows (isActive) and their `EmployeeOrganization`s.
Operations: create, move and remove organizations, findTree; enter, re-enter, place, dismiss, reactivate and delete people.
Hard: the search for cycles and the counts that forbid a removal are statements of their own, outside
any transaction, and the tree is built from the top, so whatever hangs on a cycle or on a removed parent is shown nowhere.

Correct means: every active organization is in the tree, and nobody who works loses an organization to its removal.

### The rest

`positions/` and `companies/` are master data: what the models read of them (levels, settings) are
constants. In the approval modules membership, department heads and document managers are constants too.
`auth/` issues tokens; the models start from an authenticated
actor. `notifications/`, `messages/`, `mail/` and `integrations/` react to the events in
`events/domain-events.ts`; which event a decision emits is modelled, delivery is not.
`audit/`, `reports/`, `standardization-rules/`, `timeclock-areas/`, `wage-info/`, the web
and mobile clients, `packages/` and `deploy/` hold no state machine of this kind.
`PROJECT.json` lists every component with its status, and every hazard at its line.

### How the parts interact

A handler calls helpers and runs one Prisma transaction; inside it, history and step rows
are written and an event is put on the in-process emitter. `createRequest` creates a document
in the same transaction and `request-approval` mirrors each decision on it; the approval that completes
a request applies its effect to leaves, shifts or attendance in the same transaction. The clients
and schedulers are concurrent callers of the same handlers. There is no queue and no
lock between them but the database.

## 2. Modules

| module | models |
| --- | --- |
| `ApprovalLine` | Statuses and roles of `documents.constants.ts` and pure functions on a line: `initialStepStatus`, the next, previous and later rows, what a rejection, a pre-approval and the final approval do to the rows. |
| `DocumentApproval` | One document from creation to deletion: every handler of `documents.service` and `approval-actions.service` with the helpers it calls. |
| `SequencedApproval` | The same for lines whose flow steps have different orders (assumption `SequencedLines`, which the web client ensures by renumbering); the refinement mapping to `TurnPassing`; the inductive invariant `IInv`. |
| `TurnPassing` | What sequential approval promises: a counter of steps that approved, moved by one. |
| `SequencedApproval_proofs` | The theorems about calls in sequence, and the proof of the refinement. |
| `DocumentSessions` | The same handlers as concurrent calls: `Load` checks a guard, `Commit` runs the transaction later on the rows as they are then, `Abort` rolls back. |
| `DocumentSessions_proofs` | The theorems about overlapping calls: what any overlap keeps, and what calls of different holders keep. |
| `DocNumbering` | Numbers of submitted documents, several submissions in flight: rule sequences, yearly reset, counting, collision and retry, deletion and rule edits. |
| `DocNumbering_proofs` | The theorems about numbers. |
| `HRRequests` | One request with its rules, approvals, document and effect. |
| `RequestSessions` | Its handlers as concurrent calls, in three steps: checked, decided, committed. |
| `HRRequests_proofs` | The theorems about requests. |
| `RequestSessions_proofs` | The theorems about overlapping calls on a request. |
| `LeaveBalance` | The balances and leaves of one employee in one group of types: grants, leaves, changes, deletions, accrual, expiry, activation of types. |
| `LeaveBalance_proofs` | The theorems about balances. |
| `Attendance` | The records and shifts of one employee: clocks, breaks, edits, confirmation, requests' effects, the absence scheduler. |
| `Attendance_proofs` | The theorems about records. |
| `Organizations` | The tree of a company and the people in it. |
| `Organizations_proofs` | The theorems about the tree. |
| `MC*` | Instances for TLC. |

In the approval modules every handler is written in three parts, so that the sequential and the concurrent
modules share them: `XGuard` is what the code checks before its transaction, `XTx` is the
transaction, and the handler (`Submit`, `approveFlowStep`, ...) is both at once.

How `DocumentApproval`'s state corresponds to the code:

| variable | code |
| --- | --- |
| `status` | `Document.status`, `"NONE"` before it exists and `"DELETED"` after |
| `line`, `st`, `proxyId` | the `ApprovalStep` rows: fixed columns, status, proxy |
| `docNumber` | how often a number was issued (numbers themselves: `DocNumbering`) |
| `history` | the kinds of `ApprovalHistory` records written |
| `emitted` | the events the last handler emitted |
| `proxies` | pairs (assignee, proxy) in force now |

How `HRRequests`'s state corresponds: `reqStatus`, `payload`, `ruleId`
are columns of `Request`; `approvals` the `RequestApproval` records in order; `applied` what
`applyApprovedRequest` has put into effect, in order; `docStatus`, `content`, `steps` the document;
`rules` the table of rules.

`LeaveBalance`, `Attendance` and `Organizations` put sequential and concurrent behaviour in one module. A
handler that reads, decides and writes later is a record of what it has read: `Reads` is the set of records
that handlers could load now (named after the handlers: `createLeave`, `clockIn`, `remove`), and `Write(r)` is what
such a handler then does, by row id and whatever has become of the row. `AtOnce(r)` is a handler with nothing in between;
`Begin(r)` puts the record in `inFlight`, others write, and `Finish(r)` writes, or fails if the row is gone or a unique key is taken.

| module | variable | code |
| --- | --- | --- |
| `LeaveBalance` | `active`, `rule`, `balance`, `leaves` | `LeaveType.isActive`, the items of the active accrual rule, the rows of `LeaveBalance` and of `Leave` |
| | `today`, `inFlight` | the date, the calls between read and write |
| | `lapsed`, `extended`, `granted`, `offered`, `spoiled` | history that only the properties read: days expired, days added by LEAVE_MODIFY, days granted by hand, items of the rules in force so far, what has gone wrong |
| `Attendance` | `shift`, `record`, `now`, `inFlight` | the rows of `Shift` and `Attendance`, the clock, the calls |
| | `late` | history: pairs of a call and a record, where the record did not stand in the way when the call made its check and does now, until the call writes |
| `Organizations` | `org`, `employee`, `inFlight` | the rows of `Organization`, and of `Employee` with `EmployeeOrganization`; the calls, each with a flag that says whether another write came in between (only for the properties) |

In `DocNumbering`, `call` is a submission in flight: the attempt, what it read, and in which of its attempts
another submission was committed. That and `setBack`, the forms whose sequence a late reset set back, are history
that only the properties read.

The definitions whose comment starts with `MUTANT of` are variants with a plausible bug
(a dropped guard, a missing reset). No specification uses them; they are there to show that
each property fails when the code is wrong in that way.

### Abstractions

- A transaction is one step. At READ COMMITTED with updates by primary key this is what
  other calls see of it, but for statements that read inside the transaction:
  `RequestSessions` splits those of `approve` and `reject` (the count of the round), and
  `DocNumbering` splits reading from writing. The increment of `currentSeq` locks its row
  until the commit, so from there to the commit nothing interferes.
- One document, and one request, per model: handlers touch one. Numbers are where documents meet;
  they have their own module with several documents.
- Titles, contents, files, references and messages are left out. `payload` and `content` are kept as a
  value, because edits matter.
- History is a set of kinds. A document with history records cannot be removed (foreign key), which
  `Abort` models.
- An event carries its kind and recipient.
- Proxies change at any moment to any set of `ProxyChoices`. Which of several settings is
  in force is the code's `resolveActor`, which takes the newest; that choice is not yet modelled.
- `addCcSteps` takes `CcInputs` as the new recipients after duplicates are filtered.
- `Document.requestId` is never written by the code (`requests/requests.service.ts:407` stores the link in the
  request only). `DocumentApproval` has the operator `RequestManaged` for the checks that rely
  on it, and it is false, as in the code. `forceDelete` finds request documents by the
  request's own column and refuses them.
- `resetYearly` is a constant for each form; it is on by default.
- In `LeaveBalance` a day stands for a month where accrual counts months; a leave is its start year and its days,
  after the two ways the code counts them; a request's approval makes the same checks as its submission, so only
  the approval is there. Grants, rule edits, deletion of types and the expiry are one step each (an upsert, an
  updateMany, or a check whose race has no property).
- In `Attendance` a time is a tick and a clock-in its day, once its status is decided from the tick; edited
  times are a small set. Confirmation of a period is one updateMany. Places and channels of a clock-in, the
  reminder job and what is shown on dashboards are left out.
- In `Organizations` the guards that look at shifts and at open approvals are left out: removal, dismissal and
  deletion are possible more often than in the code. Names, order, depth, approvers, document managers and places are left out.
- Bounds: `MaxInFlight` (calls between read and write), `Slow` (which calls of `Attendance` may be delayed: insertions, deletions,
  edits and the scheduler's list), `MaxGranted`, `MaxExtended`, `MaxLength`, `LeaveIds`, `RecordIds`, `ShiftIds`, `OrgIds`. `LNext` follows a
  behaviour of `LeaveBalance` up to the first thing that goes wrong (`spoiled`); every property is about what is right until then.

## 3. Runs

| run | instance | question |
| --- | --- | --- |
| `approval` | 3 people, a line of three flow steps out of order with one person twice, a line with departments and a reference, a line that cannot be submitted, the company's default line, a proxy that comes and goes, an administrator | Is everything in order when calls do not overlap? Do the handlers implement turn passing? Is every submitted document decided? |
| `turn_holders` | 3 sessions of 3 people, two flow steps, receiver, reference, no proxies; every call but recall, cancelApproval and deletion; 17,895 states | Can the calls of people who hold different roles on a document disturb one another? |
| `any_calls` | 2 sessions that between them may make every call | What survives every overlap? |
| `numbers` | 2 sessions, 2 years, 7 documents: a form with a rule that is edited and deleted from, a form without rule, and two undisturbed forms whose rules share a pattern, one of them never reset; 625,632 states | Does whoever submits alone get a number? Does a rolled-back increment leave a gap? |
| `rounds` | 4 people, two rounds (two of the approvers, then an administrator), document, viewer; rules saved, switched and deleted, form or no form; `RFairSpec`, 56,160 states | Rounds, quorum, effect, mirror, decision; does an edit let a request through early; is every request decided while rules stay? |
| `any_request_calls` | 3 sessions (requester, manager, administrator), every call on the request, the recall of its document and a viewer, rules that stay; 32,792 states | What survives every overlap? |
| `leaves` | 2 types of a group, 2 days in one year, monthly and yearly rules with tiers, one leave, grants that expire, one call in flight; 1,067,682 states | Do days add up, whoever grants, takes, changes, accrues or expires them? |
| `attendance` | one shift, 2 records, 4 ticks over 2 days, one insertion, edit, deletion or scheduler list in flight; 652,264 states | Open clock-ins, confirmed records, absences |
| `organizations` | 3 organizations, one employee, one call in flight; 31,557 states | Is every organization in the tree, does anyone lose theirs? |
| `stale_checks`, `effects_race`, `absence_open` | small | Statements of the repository that the code does not keep, see section 4 |

What the properties say is stated above each of them. The deepest:

- `OneTurn` and `ApprovedMeansComplete` (approval, turn_holders): exactly one current step with
  everything before it passed and everything after it open, after any mix of approve, return,
  cancel, and pre-approve. `ImplementsTurnPassing` says it for steps rather than states:
  no handler moves the turn by two, adds or loses a step.
- `TurnIsAnnounced`: every row that newly gets the turn is announced to its assignee, but for
  the caller who takes it back.
- `SubmittedIsDecided`: no mixture of returns and cancelled approvals leaves a document where
  the turn comes back to nobody.
- `FailsOnlyUnderContention`: a submission that fails was overtaken by others in *each* of its two attempts. The property names what
  this depends on: patterns of the form's own, a count that no deletion lowers and no other company shares (`CountsSafely`), and no
  yearly reset committed late (`setBack`). Section 4 says what happens otherwise.
- `SequenceCoversNumbers`: deletes, edits of the pattern and new years never make a rule propose a number in use, unless a reset came late.
- `GapFree`: in the first year, a form with a rule of which nothing was deleted has the numbers 1, 2, ..., n, although attempts that collide (with another form of the same
  pattern) have incremented the sequence and are rolled back; so have the counted numbers, where nothing is deleted or edited.
- `QuorumDecides`: an approval by quorum satisfies every round of the rule in force at that moment, although the
  rule may have changed since the request, or since the earlier approvals.
- `RoundsHandOver` and `RequestIsDecided`: under rules that stay, the last approval of a round opens the next one, and a request
  is decided if its approvers act. (With a rule edit in between neither holds: the next round's steps may not exist.) `RoundsHandOver`
  also supposes that one active rule leads (`OneRuleLeads`): between two of equal priority the query has no order, and it may choose another one each time.
- `DaysAddUp`: accrued = used + remaining + lapsed, over any mixture of increments by grants, settings by accrual, leaves and expiry.
- `OverdrawnOnlyByChanges`: no balance below zero but by the days that LEAVE_MODIFY adds unchecked.
- `UsedDaysAreLeaves`: over all types and years, used days are the days of existing leaves, although each booking chooses its row anew.
- `AccrualNotRepeated`: however often the accrual runs, and whatever was used or expired in between, a balance receives (used + remaining + lapsed) no more than one tier in
  force so far gives for the year and what was granted by hand. Two runs that find no row are kept apart by the unique key; two that find the same row are not, and are exempt
  (section 4). `AccrualNeverLowers`: none granted by hand goes.
- `OwnClockInsAlternate`, `ConfirmedRecordsStand`, `AbsencesStandAlone`: a second open record of the employee's own, a change of a confirmed record,
  an absence beside another record comes about only through the very record that came to stand in the way after the call had made its check (`late`).
  For an absence this is the look at the shift's own day (`Check`), not the list made at the beginning: whatever was recorded while the scheduler
  worked on earlier shifts is seen.
- `EveryOrganizationShown`, `NobodyLosesTheirOrganization`: the checks of moves and removals suffice to keep the tree whole, again unless a call
  writes after another write overtook its checks. The exceptions are real: two overlapping moves make a cycle (section 4).
- `RacesNeverApproveEarly`: however calls overlap, a request that its approvers approved, unforced, has the approvals of every round of a rule in force.
- `OutcomesAreRecorded`, `WritesStayTogether`: what unchecked overlaps still cannot break. A recall of the document checks the document only, and so may
  leave an approved request with a recalled document; edits of rules do not overlap with calls in `RequestSessions`.

### Bounds, and why they are enough

Three flow steps give a turn a first, a middle and a last place, and a return from the
middle; one person on two steps and orders that are not 1, 2, 3 distinguish position,
order and person. Two sessions suffice for any two transactions to overlap; while one submission is in flight
the other session can commit two, so that it is overtaken in both attempts. Two rounds, the first with a quorum of two, give a round that
completes by the second of two approvals and a hand-over. Two rules let one shadow the
other. Two years give one reset. Approvals, history and effects are bounded by the guards
themselves: nothing else is cut off. `numbers` uses symmetry of sessions and of the documents
of one form; it checks invariants only, so this is sound. Two forms of one pattern collide when the sequence of the one has not met the numbers
of the other; the form that is never reset still has its sequence when another submission finds its number taken.

`leaves`: one year with two days gives accrual before and after, and expiry between; two types, one of them full-day, let the
representative change; one leave is created, extended and deleted, and one call in flight overlaps any other handler. `attendance`: the second
day is where a clock-in meets a record left open; a shift with two ticks tells late from early. Administrators set no status by hand there
(`GivenStatus = {}`; an absence that they enter is checked against nothing), but times and days. One employee suffices because nothing in
these handlers relates the rows of two. `organizations`: three make a cycle of three and a chain as deep as `MAX_DEPTH = 3`, and a search
one step shorter already misses one (the mutant `assertNoShortCycle`). `attendance` and `organizations` use symmetry of
the records and of the organizations; they check invariants and action properties, no liveness, and no definition picks one of the set.

Deadlock is checked in `approval` and `turn_holders`, where a finished document still has legal calls.
It is also checked in `organizations`, where something can always be done. It is off in the other runs, where every document or request may be
finished and the calendar and the ids of leaves and records end.

### Fairness

Nobody is obliged to act, so the only fairness is about people. `FairSpec` has strong fairness of
the approval of each flow row: whoever gets the turn again and again (because others keep
returning it or taking it back) approves at some time. Weak fairness would not be enough, nor true
to the system: a return disables the approval. `RFairSpec` has weak fairness of `approve` for each
approver of a request, who sees it in the list until it is decided; the property supposes that no administrator edits
the rules meanwhile (`RulesStand`), since an edit can leave a round without steps. Neither says anything of the program's
scheduling: the result is that the *program* always leaves someone able to finish.

## 4. Where the code departs from its own words

The runs that expect a violation each show one, with the trace TLC finds.

- `stale_checks`: handlers check on rows loaded before the transaction. A recall and an approval that overlap
  both take effect. The same holds for update and submit (a submitted line is replaced by rows that wait; two
  submissions issue two numbers), for cancelApproval and the next approval, and for an assignee and
  a proxy on one step.
- `effects_race`: the same for requests. An edit, a cancellation or another approval that overlaps an approval makes the
  request and its effect disagree.
- `absence_open`: the absence scheduler leaves a record without clock-out, which is what an open record is: the next clock-in
  is refused because the employee "is already at work".

Found while modelling, without a run of their own:

- `request-approval.service.ts:379` looks up the active rule with the highest priority of the type at each approval. The comment
  at `requests.service.ts:341` calls the stored `ruleId` a snapshot against retroactive changes; the decision reads neither
  it nor the scope of the rule, so a rule for other departments can decide.
- `approval-actions.service.ts:174` cancels WAITING and PENDING rows, so a step that had returned the turn stays RETURNED in a rejected document.
- `documents.helpers.ts:92` makes every flow row with the lowest order PENDING; the API accepts equal orders, the web client sends none.
- `approval-support.service.ts:103` takes the newest proxy setting and then checks its dates: a setting for next month hides the one in force.
- `documents.service.ts:109` and some end-to-end tests still describe editing and submitting RECALLED and REJECTED documents; `EDITABLE_STATUSES` is DRAFT only.
- `request-approval.service.ts:74`: two approvals of one quorum that overlap each count only their own, so the request has all its approvals
  and stays PENDING, and nobody can approve again.
- `document-steps.service.ts:188`: default numbers are counted per company, but `docNumber` is unique over all (`schema.prisma:915`): the second
  company's first submission collides in both attempts. A deleted document
  lowers the count too, which then proposes a number in use. `CountsSafely` names both cases: without it `FailsOnlyUnderContention` fails
  in `MCDocNumbering` with `CompanyOf <- TwoCompanies` and `RuleForms = {}`, and with `Deletable = {f2}`.
- `document-steps.service.ts:194`: a submission that reads that the yearly reset is due resets the sequence when it commits, even if others
  of the form were numbered since. If it takes a number that is free, because an early document of the year was deleted by force or because
  a new year began between its reads and the commits of others, the sequence falls back below numbers in use. From then on whoever submits,
  alone, collides in both attempts: each rolls its increment back. The comment at `document-steps.service.ts:155` relies on one retry.
  `setBack` names the forms this has happened to; without it both `FailsOnlyUnderContention` and `SequenceCoversNumbers` fail, within a
  year if documents of the form are deleted, over two New Years if not. Found by the proof: the invariant was not inductive.
- `request-approval.service.ts:379`: between active rules of the same priority `findApplicableRule` has no order. Successive approvals may be
  counted by different rules, so that a request may have all approvals of the one and stay pending by the other.
- `requests.service.ts:407` never sets `Document.requestId`, so the document of a pending request can be recalled through the document
  endpoints although `documents.helpers.ts:147` says that such documents are managed by their request. A recall that overlaps the approval
  leaves it RECALLED although the request is approved (`WritesStayTogether` allows just this).

Leave:

- `leave-accrual.service.ts:52`: the representative of a group changes when types are added or deactivated; the accrual then starts again on another type's row,
  and the employee has the days of the tier on both. `AccrualNotRepeated` is about each row.
- `leaves.service.ts:429` (createLeave) charges the leave's own type, approved requests the representative, with calendar
  days in the one and working days in the other; changes and deletions are booked on the representative of that day.
- A LEAVE_MODIFY that moves a leave to another year books the difference on the old year, and its deletion returns the days to the new one.
- `request-effects.service.ts:442`: the change of a leave checks no balance, and its updateMany books nothing if the row is missing.
- `leave-accrual.service.ts:248`: an accrual run that overlaps a grant writes over `accruedDays` (`spoiled`, "accrual"). Two runs that read the same row, a nightly one and
  one by hand, both set `accruedDays` to the target but both increment `remainingDays` by the difference: the days are given twice, and no later run takes them
  back. The comment at `leave-accrual.service.ts:212` calls the write idempotent; it is so for runs one after the other.
- `leave-accrual.service.ts:192` speaks of 0 to 12 monthly accruals; there are at most 11 within a year.
- createLeave and manual grants do not ask whether the type is active.

Attendance:

- `confirmPeriod` takes open records; the employee can then neither clock out nor in until somebody unconfirms.
- A second clock-in on a linked shift fails on the unique key; `createManual` has the check, `clockIn` has not.
- `clockOut` leaves open breaks, which `breakEnd` cannot close any more.
- A deleted ABSENT record is created again while its shift is within the lookback. Approved requests change confirmed
  shifts; deleting a shift unlinks even a confirmed record.

Organizations and employees:

- `organizations.service.ts:79`: `docs/design/SYSTEM_DESIGN.md:951` says that cycles are blocked. Two moves that overlap both pass the check and close one;
  findTree then shows neither, nor what is below. Likewise a removal and the creation of a child.
- `organizations.service.ts:274`: the search gives up after 100 organizations, while depth is unlimited (`SYSTEM_DESIGN.md:393`).
- `organizations.service.ts:81`: a move gives the organization a new depth, its descendants keep theirs, and the web client prints them.
- `employees.service.ts:517` and `employee-permission.service.ts:183`: reactivation, entry, placement and import put working people into removed
  organizations, which a removal refuses to leave behind (`SYSTEM_DESIGN.md:914`).
- `employees.service.ts:477`: dismissal clears `approverId` so that no resigned person remains (`SYSTEM_DESIGN.md:944`), but neither `docManagerId` nor the document managers;
  department steps then resolve to people who have left.
- `employees.service.ts:626`: deleting an employee by force deletes their steps in other people's documents; if the current turn is among them, nobody has it.

## 5. Proofs

Every component has theorems; each holds for every value of the constants that satisfies the assumptions of its module,
not only for the instance the runs check. All safety properties of the passing runs are among them.

| module | theorem | says | assumes beyond the module |
| --- | --- | --- | --- |
| `SequencedApproval_proofs` | `Invariance`, `TypeCorrectness` | `Spec => []IInv`, `[]TypeOK` | `SequencedLines`: the flow steps of a line have different orders |
| | `TurnCorrectness` | `[]OneTurn` | |
| | `ApprovalCorrectness` | `[]ApprovedMeansComplete` | |
| | `ReceiverCorrectness` | `[]ReceiversFollowDocument` | |
| | `ProxyCorrectness` | `[]ProxyAttribution` | |
| | `Finality` | `FinalIsFinal` | |
| | `Refinement` | `ImplementsTurnPassing` | |
| | `TurnAnnounced` | `TurnIsAnnounced` | |
| `DocumentSessions_proofs` | `SessionInvariance`, `SessionTypes` | `SSpec => []SIInv`, `[]TypeOK` | |
| | `ReceiversWait` | `[]ReceiversAfterApproval` | |
| | `AuditTrail` | `[]OutcomesAreRecorded` | |
| | `HoldersInvariance` | `[]HInv` | `OneHolderPerStep` |
| | `HoldersKeepTurn`, `HoldersComplete` | `[]OneTurn`, `[]ApprovedMeansComplete` | `OneHolderPerStep` |
| | `HoldersFinal`, `HoldersAnnounced` | `FinalIsFinal`, `TurnIsAnnounced` | `OneHolderPerStep` |
| | `HoldersPassTurns` | `ImplementsTurnPassing` | `OneHolderPerStep` |
| `DocNumbering_proofs` | `NumberingInvariance` | `NSpec => []NInv` | |
| | `SequencesAhead` | `[]SequenceCoversNumbers` | |
| | `RetrySuffices` | `[]FailsOnlyUnderContention` | |
| | `NoGaps` | `[]GapFree` | |
| `HRRequests_proofs` | `RequestTypeCorrectness` | `RSpec => []RequestTypeOK` | |
| | `EffectCorrectness` | `[]EffectsExactlyOnce` | |
| | `MirrorCorrectness` | `[]DocumentMirrorsRequest` | |
| | `ApproverCorrectness` | `[]DistinctApprovers` | |
| | `DecisionFinality` | `DecidedIsFinal` | |
| | `QuorumCorrectness` | `QuorumDecides` | |
| | `RoundCorrectness` | `RoundsHandOver` | |
| `RequestSessions_proofs` | `RequestSessionInvariance` | `CSpec => []CInv` | |
| | `RequestWrites` | `[]WritesStayTogether` | |
| | `NoEarlyApproval` | `[]RacesNeverApproveEarly` | |
| `LeaveBalance_proofs` | `LeaveTypeCorrectness` | `LSpec => []LeaveTypeOK` | |
| | `ConservationOfDays` | `[]DaysAddUp` | |
| | `OverdraftCorrectness` | `[]OverdrawnOnlyByChanges` | |
| | `AccrualCorrectness` | `AccrualNeverLowers` | |
| | `UsedDaysCorrectness` | `[]UsedDaysAreLeaves` | |
| | `AccrualOnce` | `[]AccrualNotRepeated` | |
| `Attendance_proofs` | `AttendanceTypeCorrectness` | `ASpec => []AttendanceTypeOK` | |
| | `ClockInCorrectness` | `OwnClockInsAlternate` | |
| | `ConfirmationCorrectness` | `ConfirmedRecordsStand` | |
| | `AbsenceCorrectness` | `AbsencesStandAlone` | administrators enter no absence by hand |
| `Organizations_proofs` | `OrganizationTypeCorrectness` | `OSpec => []OrganizationTypeOK` | |
| | `TreeCorrectness` | `EveryOrganizationShown` | `Cardinality(OrgIds) <= MAX_DEPTH` |
| | `PlacementCorrectness` | `NobodyLosesTheirOrganization` | |

### Documents

None of the properties is inductive. `OneTurn` for instance is kept by approval only if the next row is
unique, which needs `DistinctFlowOrders`, and established by submission only if nothing was decided in a
draft, `DraftIsUntouched`. `ReceiversFollowDocument` needs that rows added later are of other roles
(`CcRowsOnlyViewed`) and `ApprovedMeansComplete` is where the last turn of `OneTurn` arrives. `IInv` is the
conjunction of all of them. For each handler a lemma proves that its transaction, from a state
that satisfies `IInv` and its guard, leads to one that does; lemmas on lines (`ResolveFacts`,
`RoleGroups`, ...) say what the pure functions keep. `Finality` follows from `IInv` and the handlers' status guards.

The refinement maps a document to the number of its flow rows that have passed (`PassedRows`) and the number of all. For each
handler a lemma says by which row the set of passed rows changes, and one on cardinalities turns that into the step of the counter.

### Overlapping calls on a document

`SIInv` is what any overlap keeps: columns are typed and agree with the history and with one another row by row (`DocSound`,
`RowSound`), and what a call in flight holds still names rows of the roles that its handler writes, although `update` may have
replaced them (`CallsNameRows`). Nothing about turns can be part of it: the run `stale_checks` shows why.

The theorems on holders say when overlap does no harm, although no transaction checks its conditions again. `OneHolderPerStep`
supposes that nobody has two calls in flight, that there is no proxy, that a collaborating department has one document manager at
most, and that calls of recall, cancelApproval and forceDelete are not among them. Each of these is a way in which a second
call can change what the first has checked; the trace of `stale_checks` shows one. Then the only calls that write the flow are the drafter's while the document is
a draft and those of the holder of the turn while it is pending, so that what they have checked holds until they write
(`CallsHold`). `HoldersStep` concludes that every commit is a step of the handlers in sequence or one that leaves status and flow alone
(`KeepsFlow`: marks and new viewers), and the five properties follow from what is proved of those. The run `turn_holders` satisfies the hypothesis.

### Numbers

`NInv` says of the sequence of each form that it covers the numbers of the year (`SequencesCover`), of the counted numbers that none exceeds their
count (`CountCovers`), and of a submission in flight that if its number is taken now, another was committed during this attempt, and
during the first one if it is in its second (`Overtaken`). The commit of one submission is the only step that can take the number of
another, and records that. `RuleGapless` and `CountGapless` are the two halves of `GapFree`; the first follows from the numbers
of the form's documents being exactly those up to its sequence, until one of them is deleted.
The conditions inside the properties came out of the attempts: each was a state that broke the invariant, which TLC then reached (section 4).

### Requests

`RInv` is the conjunction of the type invariant and the three state properties, none of which is inductive alone: that an effect is
applied once needs that only decided requests have one, and that it is of the present payload that document and
request agree. The number of rounds and the choice of the rule are maxima of finite sets, which exist because the rule table is finite. The theorems are about `RSpec`; the run
`rounds` checks the same properties under `RFairSpec`, which implies it.

`RoundCorrectness` has an invariant of its own, `HandOverInv`: under the one rule that leads, the current round is the first that lacks
approvals, no later round has any, and its steps are open and those after it wait. An approval adds one to the count of one round (`CountApproved`
of the longer sequence, by cardinality), so it completes the current round or leaves it current.

### Overlapping calls on a request

`CInv` adds to the two properties what a call knows between its decision and its commit (`ClosersKnow`): one that is going to close
the request has counted, in every round of a rule in force, the approvals needed, its own included. Approvals are only added, so that
this stays true however many others commit in between, and the rules of this module are fixed while calls overlap. A recall in flight
has seen a document, and documents stay (`RecallsHaveDocument`).
`NothingBeforeCreate` keeps calls away from a request that does not exist or that createRequest approved by itself.

### Balances

`LInv` adds to the properties that a balance that does not exist is empty and nothing of it has lapsed, and
that a call in flight has read a balance that exists, with enough days (`CallsHaveRead`). This holds as rows are never
removed, and it is what lets a create that comes late still be compared with what it saw. Each write is then a change of one
row (`RowChange`) that keeps accrued = used + remaining + lapsed, or is recorded as spoiled.

`UsedDaysAreLeaves` compares two sums over finite sets. That a sum changes by what one summand changes is proved for
the fold that defines it: were it false for some subset there would be a least one, and removing an element of it gives a smaller (the library's
induction theorems cannot be instantiated). `SourcesKnown` says that what a call in flight books is the days of its leave, and what an accrual run
gives is a target of a rule that has been in force. `AccruedBound`, that `accrued` stays within a tier and the grants, is kept by every overlap; with `DaysAddUp` it gives
`AccrualNotRepeated`, which speaks of the days received.

### Attendance

The invariant has the types of rows and calls, and `ChecksHeld`: of a call in flight that has made its check, each record stood aside then, or is in `late` because it
came to stand in the way since. `Bars(r)` names these records for each kind of call: an open record of one's own for a clock-in, a confirmed one for an
edit, any record of the day for an absence. A step that adds a record to that set adds it to `late` (`ChecksHeldStep`), so a write that does harm finds in `late` what
it harms; a handler that writes at once finds nothing (`NothingBars`). What each kind of write can change is `InsertFacts`, `RecordWriteFacts` and `ShiftWriteFacts`.

### Organizations

A write could hide an organization only by closing a cycle or by taking away a parent. The proof is about the set
of organizations from which no way up leads to a root: a way up that repeats nothing is at most as long as there are organizations
(pigeonhole), so the bounded search of `assertNoCycle` sees every ancestor if there are no more of them than `MAX_DEPTH`. `FreshCallsHold` says that
a call which no write has overtaken is still one that handlers could load now.

### Model-checked only

- Liveness: `SubmittedIsDecided` and `RequestIsDecided`. It is out of the prover's reach. `RoundsHandOver`, which is safety under the temporal hypothesis
  `RulesStand`, is proved.
- The three statements that the code does not keep (`stale_checks`, `effects_race`, `absence_open`): the trace is the proof.
- That the instance of `turn_holders` satisfies `OneHolderPerStep` is read off its constants.

### What the proofs found

- Properties that were true of the instances and false in general: `RacesNeverApproveEarly` of requests that createRequest approves by itself and of rules of
  equal priority, `RoundsHandOver` of the latter, `FailsOnlyUnderContention` and `SequenceCoversNumbers` of a late reset, of shared
  patterns and of counts across companies. Each is now restated with its condition, and the condition is described in section 4 where it
  is a weakness of the code.
- A defect of the model: the cases of `ApprovalRecord` overlapped for an agreement or a collaboration given by a proxy.

## 6. Plan

Done: documents, requests, leave, attendance and organizations, with the overlap of calls in each, and the proofs above: all safety
properties of the runs.

Next, in this order:

1. `ProxySettings`: settings with dates, the calendar, `resolveActor`'s choice. Property: whoever has a valid setting
   today can act (the newest-setting rule, `approval-support.service.ts:103`), and nobody else can.
2. Events emitted inside a transaction that may still roll back, and their listeners (`request-approval.service.ts:98`).
3. Deletion of a rule between its check and its write (`approval-rules.service.ts:74`).
4. What the forced deletion of an employee (`employees.service.ts:626`) does to documents and requests in progress: the composition of
   `Organizations` with `DocumentApproval`.
5. Liveness of the absence scheduler (every shift without a record is listed before its lookback ends), on an instance of `Attendance`
   small enough for temporal checking.
6. Proofs: the theorems of these modules, and for requests a hypothesis like `OneHolderPerStep` (one approver at a time, no edit or cancellation
   in between) under which overlapping calls keep `EffectsExactlyOnce`.

Not planned: master data, authentication, files, mail, messages, reports, integrations and the clients. They are records, reads and
I/O without a protocol that these methods would say more of than a test does.
