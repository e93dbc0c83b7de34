----------------------------- MODULE Organizations -----------------------------
(***************************************************************************)
(* The organizations of a company and the employees who belong to them:    *)
(* OrganizationsService and the handlers of EmployeesService that enter,   *)
(* place, dismiss and delete people.                                       *)
(*                                                                         *)
(* As in Attendance, a handler that reads, decides and writes later is a   *)
(* record of what it has read.  Whether another write came in between is   *)
(* part of the record, for the properties only.                            *)
(*                                                                         *)
(* Not here: shifts of an organization and open approvals of an employee,  *)
(* which refuse a removal or a dismissal the model then merely need not    *)
(* take; names, order, depth, approvers and managers of organizations.     *)
(***************************************************************************)
EXTENDS Naturals, FiniteSets

CONSTANTS
    OrgIds,       \* bound on the organizations ever created
    EmployeeIds,  \* the people who may be entered, by their e-mail address
    NoOrg,        \* null
    MAX_DEPTH,    \* steps that the search for a cycle takes
    MaxInFlight   \* bound on the calls between their read and their write

ASSUME OrganizationConstants ==
    /\ NoOrg \notin OrgIds /\ IsFiniteSet(OrgIds)
    /\ MAX_DEPTH \in Nat /\ MaxInFlight \in Nat

Org == [state : {"none", "active", "removed"}, parent : OrgIds \cup {NoOrg}]
Employee == [state : {"none", "working", "resigned"}, orgs : SUBSET OrgIds]

VARIABLES
    org,       \* [OrgIds -> Org], the rows of Organization
    employee,  \* [EmployeeIds -> Employee], those of Employee and EmployeeOrganization
    inFlight   \* calls between their read and their write

ovars == <<org, employee, inFlight>>

Active == {o \in OrgIds : org[o].state = "active"}
Existing == {o \in OrgIds : org[o].state # "none"}
Working == {e \in EmployeeIds : employee[e].state = "working"}

-----------------------------------------------------------------------------
(* The tree.                                                               *)

\* buildTree finds no way from the top to any organization of os.
Unreachable(os) ==
    \A o \in os : /\ org[o].parent # NoOrg
                  /\ org[o].parent \in Active => org[o].parent \in os

findTree == Active \ UNION {os \in SUBSET Active : Unreachable(os)}

\* The way up from p takes n steps to o.
Up(p, o, n) ==
    \E way \in [0 .. n -> OrgIds] :
        /\ way[0] = p /\ way[n] = o
        /\ \A i \in 1 .. n : way[i] = org[way[i - 1]].parent

\* MUTANT of assertNoParentCycle: the search gives up one organization too early.
assertNoShortCycle(o, p) == \A n \in 0 .. MAX_DEPTH - 2 : ~Up(p, o, n)

\* The search for o gives up after MAX_DEPTH organizations.
assertNoParentCycle(o, p) == \A n \in 0 .. MAX_DEPTH - 1 : ~Up(p, o, n)

-----------------------------------------------------------------------------
(* What the handlers read and check.                                       *)

Call(op, o, p) == [op |-> op, org |-> o, parent |-> p, overtaken |-> FALSE]

create == {Call("create", NoOrg, p) : p \in Active \cup {NoOrg}}

\* MUTANT of update: a parent that is not given is written too.
updateUndefined == {Call("move", o, "undefined") : o \in Active}

\* update with a parent; without one it changes nothing of the model.
update ==
    {Call("move", o, NoOrg) : o \in Active}
    \cup {Call("move", c[1], c[2]) : c \in {m \in Active \X Active : assertNoParentCycle(m[1], m[2])}}

\* MUTANT of HasChildren: only organizations at the top are protected.
HasChildrenAtTop(o) == org[o].parent = NoOrg /\ \E child \in Active : org[child].parent = o

HasChildren(o) == \E child \in Active : org[child].parent = o

\* MUTANT of HasEmployees: only an employee without another organization counts.
HasOnlyEmployees(o) == \E e \in Working : employee[e].orgs = {o}

HasEmployees(o) == \E e \in Working : o \in employee[e].orgs

remove == {Call("remove", o, NoOrg) : o \in {x \in Active : ~HasChildren(x) /\ ~HasEmployees(x)}}

EmployeeCall(op, e, os) == [op |-> op, employee |-> e, orgs |-> os, overtaken |-> FALSE]

\* validateOrganizationsBelongToCompany does not ask whether they are active.
Placements == SUBSET Existing \ {{}}

\* EmployeesService.create: a resigned employee of the same address is reactivated.
createEmployee ==
    {EmployeeCall("insert", c[1], c[2]) : c \in {e \in EmployeeIds : employee[e].state = "none"} \X Placements}
    \cup {EmployeeCall("reenter", c[1], c[2]) :
             c \in {e \in EmployeeIds : employee[e].state = "resigned"} \X Placements}

\* update, with organizations; they are checked in the transaction.
place == {EmployeeCall("place", c[1], c[2]) :
             c \in {e \in EmployeeIds : employee[e].state # "none"} \X Placements}

deactivate == {EmployeeCall("deactivate", e, {}) : e \in Working}
activate == {EmployeeCall("activate", e, {}) : e \in {x \in EmployeeIds : employee[x].state = "resigned"}}

\* The employee's remove, with and without force.
removeEmployee == {EmployeeCall("delete", e, {}) : e \in {x \in EmployeeIds : employee[x].state # "none"}}

Reads == UNION {create, update, remove, createEmployee, place, deactivate, activate, removeEmployee}

-----------------------------------------------------------------------------
(* What they write: by id, whatever has become of the row.                 *)

WriteOrg(r) ==
    /\ \/ /\ r.op = "create"
          /\ \E o \in OrgIds \ Existing :
                org' = [org EXCEPT ![o] = [state |-> "active", parent |-> r.parent]]
       \/ r.op = "move" /\ org' = [org EXCEPT ![r.org].parent = r.parent]
       \/ r.op = "remove" /\ org' = [org EXCEPT ![r.org].state = "removed"]
    /\ UNCHANGED employee

Written(e, r) ==
    CASE r.op \in {"insert", "reenter"} -> [state |-> "working", orgs |-> r.orgs]
      [] r.op = "place"                 -> [e EXCEPT !.orgs = r.orgs]
      [] r.op = "deactivate"            -> [e EXCEPT !.state = "resigned"]
      [] r.op = "activate"              -> [e EXCEPT !.state = "working"]
      [] r.op = "delete"                -> [state |-> "none", orgs |-> {}]

EmployeeOps == {"insert", "reenter", "place", "deactivate", "activate", "delete"}

WriteEmployee(r) ==
    /\ r.op \in EmployeeOps
    /\ (r.op = "insert") <=> (employee[r.employee].state = "none")
    /\ employee' = [employee EXCEPT ![r.employee] = Written(@, r)]
    /\ UNCHANGED org

\* The row is gone, or another call entered the same person.
Fail(r) ==
    /\ r.op \in EmployeeOps
    /\ (r.op = "insert") <=> (employee[r.employee].state # "none")
    /\ UNCHANGED <<org, employee>>

Write(r) == WriteOrg(r) \/ WriteEmployee(r)

-----------------------------------------------------------------------------
OInit ==
    /\ org = [o \in OrgIds |-> [state |-> "none", parent |-> NoOrg]]
    /\ employee = [e \in EmployeeIds |-> [state |-> "none", orgs |-> {}]]
    /\ inFlight = {}

Begin(r) ==
    /\ Cardinality(inFlight) < MaxInFlight
    /\ inFlight' = inFlight \cup {r}
    /\ UNCHANGED <<org, employee>>

Overtaken(calls) == {[r EXCEPT !.overtaken = TRUE] : r \in calls}

AtOnce(r) == Write(r) /\ inFlight' = Overtaken(inFlight)

Finish(r) ==
    \/ Write(r) /\ inFlight' = Overtaken(inFlight \ {r})
    \/ Fail(r) /\ inFlight' = inFlight \ {r}

ONext ==
    \/ \E r \in Reads : AtOnce(r) \/ Begin(r)
    \/ \E r \in inFlight : Finish(r)

OSpec == OInit /\ [][ONext]_ovars

-----------------------------------------------------------------------------
(* Properties.                                                             *)

OrganizationTypeOK ==
    /\ org \in [OrgIds -> Org]
    /\ employee \in [EmployeeIds -> Employee]
    /\ \A r \in inFlight :
          \/ r.op \in {"create", "move", "remove"}
             /\ r \in [op : {"create", "move", "remove"}, org : OrgIds \cup {NoOrg},
                       parent : OrgIds \cup {NoOrg}, overtaken : BOOLEAN]
          \/ r.op \in EmployeeOps
             /\ r \in [op : EmployeeOps, employee : EmployeeIds, orgs : SUBSET OrgIds, overtaken : BOOLEAN]

\* A call whose checks another write may have made untrue.
Late == \E r \in inFlight : r.overtaken /\ Finish(r)

\* The tree loses no organization, neither to a cycle nor to a parent that is gone,
\* however organizations are created, moved and removed, unless a call writes after
\* another write has overtaken its checks.
EveryOrganizationShown == [][findTree = Active => findTree' = Active' \/ Late]_ovars

\* "Move the employees first": nobody who works in organizations that all exist
\* loses one of them, unless they are placed elsewhere or a call is overtaken.
NobodyLosesTheirOrganization ==
    [][\A e \in Working :
          (employee[e].orgs \subseteq Active /\ employee'[e] = employee[e]) =>
              employee[e].orgs \subseteq Active' \/ Late]_ovars
=============================================================================
