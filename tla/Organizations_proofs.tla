------------------------- MODULE Organizations_proofs -------------------------
(***************************************************************************)
(* Proof, for any number of calls in flight and any employees, that the    *)
(* tree of a company with at most MAX_DEPTH organizations stays whole.     *)
(***************************************************************************)
EXTENDS Organizations, FiniteSetTheorems, WellFoundedInduction, TLAPS

-----------------------------------------------------------------------------
(* Ways up the tree.                                                       *)

\* A set of naturals has a least element.
LEMMA LeastNatural ==
    ASSUME NEW T, T \subseteq Nat, T # {}
    PROVE  \E x \in T : \A y \in T : x <= y
  <1>1. IsWellFoundedOn(OpToRel(<, Nat), Nat)
    BY NatLessThanWellFounded
  <1>2. \E x \in T : \A y \in T : <<y, x>> \notin OpToRel(<, Nat)
    BY <1>1, WFMin
  <1>3. \A x, y \in T : <<y, x>> \notin OpToRel(<, Nat) => x <= y
    BY DEF OpToRel
  <1> QED
    BY <1>2, <1>3

\* A way that visits an organization twice can be cut short.
LEMMA CutShort ==
    ASSUME NEW p \in OrgIds, NEW o \in OrgIds, NEW n \in Nat, NEW way \in [0 .. n -> OrgIds],
           way[0] = p, way[n] = o,
           \A k \in 1 .. n : way[k] = org[way[k - 1]].parent,
           NEW i \in 0 .. n, NEW j \in 0 .. n, i < j, way[i] = way[j]
    PROVE  n - (j - i) \in Nat /\ n - (j - i) < n /\ Up(p, o, n - (j - i))
  <1> DEFINE m == n - (j - i)
             short == [k \in 0 .. m |-> IF k <= i THEN way[k] ELSE way[k + (j - i)]]
  <1>1. m \in Nat /\ m < n /\ i <= m
    OBVIOUS
  <1>2. \A k \in 0 .. m : k + (j - i) \in 0 .. n /\ (k <= i => k \in 0 .. n)
    OBVIOUS
  <1>3. short \in [0 .. m -> OrgIds]
    BY <1>2
  <1>4. short[0] = p
    BY <1>1
  <1>5. short[m] = o
    <2>1. CASE m = i
      <3>1. n = j
        BY <2>1
      <3> QED
        BY <1>1, <2>1, <3>1
    <2>2. CASE m > i
      <3>1. m + (j - i) = n
        OBVIOUS
      <3> QED
        BY <1>1, <2>2, <3>1
    <2> QED
      BY <1>1, <2>1, <2>2
  <1>6. \A k \in 1 .. m : short[k] = org[short[k - 1]].parent
    <2> SUFFICES ASSUME NEW k \in 1 .. m PROVE short[k] = org[short[k - 1]].parent
      OBVIOUS
    <2>1. k \in 0 .. m /\ k - 1 \in 0 .. m
      OBVIOUS
    <2>2. CASE k <= i
      <3>1. short[k] = way[k] /\ short[k - 1] = way[k - 1] /\ k \in 1 .. n
        BY <1>1, <2>1, <2>2
      <3> QED
        BY <3>1
    <2>3. CASE k = i + 1
      <3>0. i \in Int /\ j \in Int /\ 0 <= i /\ i < j /\ j + 1 <= n
        <4>1. m \in Int /\ k <= m /\ i + 1 <= n - (j - i)
          BY <1>1, <2>3
        <4> QED
          BY <4>1
      <3>1. ~(k <= i) /\ k - 1 <= i /\ k - 1 = i /\ k + (j - i) = j + 1
            /\ j + 1 \in 1 .. n /\ (j + 1) - 1 = j
        <4> HIDE DEF short, m
        <4> QED
          BY <2>3, <3>0
      <3>2. short[k] = way[k + (j - i)] /\ short[k - 1] = way[k - 1]
        BY <2>1, <3>1
      <3>3. way[j + 1] = org[way[(j + 1) - 1]].parent
        BY <3>1
      <3> QED
        BY <3>1, <3>2, <3>3
    <2>4. CASE k > i + 1
      <3> DEFINE d == j - i
      <3>0. d \in Int /\ 0 < d /\ k \in Int /\ i \in Int /\ i + 1 < k /\ 0 < k /\ k + d <= n
        BY <2>4
      <3>1. ~(k <= i) /\ ~(k - 1 <= i) /\ (k + d) - 1 = (k - 1) + d /\ k + d \in 1 .. n
        <4> HIDE DEF d
        <4> QED
          BY <3>0
      <3>2. short[k] = way[k + (j - i)] /\ short[k - 1] = way[(k - 1) + (j - i)]
        BY <2>1, <3>1
      <3>3. way[k + (j - i)] = org[way[(k + (j - i)) - 1]].parent
        BY <3>1
      <3> QED
        BY <3>1, <3>2, <3>3
    <2> QED
      BY <2>2, <2>3, <2>4
  <1> HIDE DEF m, short
  <1>7. Up(p, o, m)
    BY <1>3, <1>4, <1>5, <1>6 DEF Up
  <1> QED
    BY <1>1, <1>7 DEF m

\* Whatever is above an organization is above it by fewer steps than there are
\* organizations.
LEMMA ShortWay ==
    ASSUME NEW p \in OrgIds, NEW o \in OrgIds, NEW n \in Nat, Up(p, o, n)
    PROVE  \E m \in Nat : m < Cardinality(OrgIds) /\ Up(p, o, m)
  <1> DEFINE lengths == {m \in Nat : Up(p, o, m)}
  <1>1. PICK m \in lengths : \A k \in lengths : m <= k
    <2> HIDE DEF lengths
    <2>1. lengths \subseteq Nat /\ lengths # {}
      BY DEF lengths
    <2> QED
      BY <2>1, LeastNatural
  <1>2. m \in Nat /\ Up(p, o, m)
    OBVIOUS
  <1>3. IsFiniteSet(OrgIds) /\ Cardinality(OrgIds) \in Nat
    BY OrganizationConstants, FS_CardinalityType
  <1>4. PICK way \in [0 .. m -> OrgIds] :
            way[0] = p /\ way[m] = o /\ \A k \in 1 .. m : way[k] = org[way[k - 1]].parent
    BY <1>2 DEF Up
  <1>5. ASSUME ~(m < Cardinality(OrgIds)) PROVE FALSE
    <2>1. IsFiniteSet(0 .. m) /\ Cardinality(0 .. m) = m + 1
      BY <1>2, FS_Interval
    <2>2. PICK i, j \in 0 .. m : i # j /\ way[i] = way[j]
      BY <1>2, <1>3, <1>5, <2>1, FS_PigeonHole
    <2>3. CASE i < j
      <3>1. m - (j - i) \in Nat /\ m - (j - i) < m /\ Up(p, o, m - (j - i))
        BY <1>2, <1>4, <2>2, <2>3, CutShort
      <3> QED
        BY <1>1, <1>2, <3>1
    <2>4. CASE j < i
      <3>1. m - (i - j) \in Nat /\ m - (i - j) < m /\ Up(p, o, m - (i - j))
        BY <1>2, <1>4, <2>2, <2>4, CutShort
      <3> QED
        BY <1>1, <1>2, <3>1
    <2> QED
      BY <1>2, <2>2, <2>3, <2>4
  <1> QED
    BY <1>2, <1>5

\* The parent of an organization above p is above p as well.
LEMMA ParentAbove ==
    ASSUME NEW p \in OrgIds, NEW o \in OrgIds, NEW n \in Nat, Up(p, o, n), org[o].parent \in OrgIds
    PROVE  Up(p, org[o].parent, n + 1)
  <1>1. PICK way \in [0 .. n -> OrgIds] :
            way[0] = p /\ way[n] = o /\ \A k \in 1 .. n : way[k] = org[way[k - 1]].parent
    BY DEF Up
  <1> DEFINE longer == [k \in 0 .. n + 1 |-> IF k = n + 1 THEN org[o].parent ELSE way[k]]
  <1>2. \A k \in 0 .. n + 1 : k # n + 1 => k \in 0 .. n
    OBVIOUS
  <1>3. longer \in [0 .. n + 1 -> OrgIds]
    BY <1>2
  <1>4. longer[0] = p /\ longer[n + 1] = org[o].parent
    BY <1>1
  <1>5. \A k \in 1 .. n + 1 : longer[k] = org[longer[k - 1]].parent
    <2> SUFFICES ASSUME NEW k \in 1 .. n + 1 PROVE longer[k] = org[longer[k - 1]].parent
      OBVIOUS
    <2>1. CASE k = n + 1
      <3>1. k - 1 = n /\ k - 1 # n + 1 /\ k - 1 \in 0 .. n + 1
        BY <2>1
      <3> QED
        BY <1>1, <1>4, <2>1, <3>1
    <2>2. CASE k # n + 1
      <3>1. k \in 1 .. n /\ k - 1 # n + 1 /\ k \in 0 .. n + 1 /\ k - 1 \in 0 .. n + 1
        BY <2>2
      <3>2. longer[k] = way[k] /\ longer[k - 1] = way[k - 1]
        BY <2>2, <3>1
      <3> QED
        BY <1>1, <3>1, <3>2
    <2> QED
      BY <2>1, <2>2
  <1> HIDE DEF longer
  <1> QED
    BY <1>3, <1>4, <1>5 DEF Up

-----------------------------------------------------------------------------
(* The tree is whole when no set of active organizations is cut off.       *)

Whole == \A os \in SUBSET Active : Unreachable(os) => os = {}

LEMMA ShownWhenWhole == findTree = Active <=> Whole
  <1>1. ASSUME findTree = Active, NEW os \in SUBSET Active, Unreachable(os) PROVE os = {}
    <2>1. \A o \in os : o \in Active /\ o \notin findTree
      BY <1>1 DEF findTree
    <2> QED
      BY <1>1, <2>1
  <1>2. ASSUME Whole PROVE findTree = Active
    BY <1>2 DEF Whole, findTree
  <1> QED
    BY <1>1, <1>2 DEF Whole

OrgTypeOK == org \in [OrgIds -> Org]

\* A new organization under a parent that is there, or at the top.
LEMMA CreateKeepsWhole ==
    ASSUME OrgTypeOK, Whole, NEW p \in Active \cup {NoOrg}, NEW o \in OrgIds \ Existing,
           org' = [org EXCEPT ![o] = [state |-> "active", parent |-> p]]
    PROVE  Whole'
  <1> SUFFICES ASSUME NEW os \in SUBSET Active', Unreachable(os)' PROVE os = {}
    BY DEF Whole
  <1>1. Active' = Active \cup {o} /\ o \notin Active
    BY DEF Active, Existing, OrgTypeOK, Org
  <1>2. \A x \in Active : org'[x] = org[x]
    BY <1>1 DEF Active, OrgTypeOK
  <1>3. org'[o].parent = p
    BY DEF OrgTypeOK
  <1>4. \A x \in Active : org[x].parent # NoOrg => org[x].parent \in Active
    <2> SUFFICES ASSUME NEW x \in Active, org[x].parent # NoOrg, org[x].parent \notin Active PROVE FALSE
      OBVIOUS
    <2>1. {x} \in SUBSET Active /\ Unreachable({x})
      BY DEF Unreachable
    <2> QED
      BY <2>1 DEF Whole
  <1>5. Unreachable(os \ {o})
    <2> SUFFICES ASSUME NEW x \in os \ {o}
                 PROVE  /\ org[x].parent # NoOrg
                        /\ org[x].parent \in Active => org[x].parent \in os \ {o}
      BY DEF Unreachable
    <2>1. x \in Active /\ org'[x] = org[x]
      BY <1>1, <1>2
    <2> QED
      BY <1>1, <2>1 DEF Unreachable
  <1>6. os \ {o} = {}
    BY <1>1, <1>5 DEF Whole
  <1>7. o \notin os
    <2> SUFFICES ASSUME o \in os PROVE FALSE
      OBVIOUS
    <2>1. p # NoOrg /\ (p \in Active' => p \in os)
      BY <1>3 DEF Unreachable
    <2>2. p \in Active /\ p # o
      BY <1>1, <2>1
    <2> QED
      BY <1>1, <1>6, <2>1, <2>2
  <1> QED
    BY <1>6, <1>7

\* An organization that no active one has as its parent goes.
LEMMA RemoveKeepsWhole ==
    ASSUME OrgTypeOK, Whole, NEW o \in Active, ~HasChildren(o),
           org' = [org EXCEPT ![o].state = "removed"]
    PROVE  Whole'
  <1> SUFFICES ASSUME NEW os \in SUBSET Active', Unreachable(os)' PROVE os = {}
    BY DEF Whole
  <1>1. Active' = Active \ {o} /\ \A x \in OrgIds : org'[x].parent = org[x].parent
    BY DEF Active, OrgTypeOK, Org
  <1>2. os \in SUBSET Active /\ Active \subseteq OrgIds
    BY <1>1 DEF Active
  <1>3. Unreachable(os)
    BY <1>1, <1>2 DEF Unreachable, HasChildren
  <1> QED
    BY <1>2, <1>3 DEF Whole

\* An organization goes under one that it is not above, in a company small enough
\* for the search.
LEMMA MoveKeepsWhole ==
    ASSUME OrgTypeOK, Whole, Cardinality(OrgIds) <= MAX_DEPTH,
           NEW o \in Active, NEW p \in OrgIds \cup {NoOrg},
           p = NoOrg \/ (p \in Active /\ assertNoParentCycle(o, p)),
           org' = [org EXCEPT ![o].parent = p]
    PROVE  Whole'
  <1> SUFFICES ASSUME NEW os \in SUBSET Active', Unreachable(os)', os # {} PROVE FALSE
    BY DEF Whole
  <1>1. /\ Active' = Active /\ Active \subseteq OrgIds /\ org'[o].parent = p
        /\ \A x \in OrgIds \ {o} : org'[x].parent = org[x].parent
    BY DEF Active, OrgTypeOK, Org
  <1>2. o \in os
    <2> SUFFICES ASSUME o \notin os PROVE FALSE
      OBVIOUS
    <2>1. Unreachable(os)
      BY <1>1 DEF Unreachable
    <2> QED
      BY <1>1, <2>1 DEF Whole
  <1>3. p # NoOrg /\ p \in Active /\ p \in os /\ assertNoParentCycle(o, p)
    BY <1>1, <1>2 DEF Unreachable
  <1> DEFINE above == {x \in OrgIds : \E n \in Nat : Up(p, x, n)}
  <1>4. p \in above
    <2>1. [k \in 0 .. 0 |-> p] \in [0 .. 0 -> OrgIds] /\ [k \in 0 .. 0 |-> p][0] = p
      BY <1>1, <1>3
    <2>2. \A k \in 1 .. 0 : [q \in 0 .. 0 |-> p][k] = org[[q \in 0 .. 0 |-> p][k - 1]].parent
      OBVIOUS
    <2>3. Up(p, p, 0)
      BY <2>1, <2>2 DEF Up
    <2> QED
      BY <1>1, <1>3, <2>3
  <1>5. o \notin above
    <2> SUFFICES ASSUME NEW n \in Nat, Up(p, o, n) PROVE FALSE
      OBVIOUS
    <2>1. PICK m \in Nat : m < Cardinality(OrgIds) /\ Up(p, o, m)
      BY <1>1, <1>3, ShortWay
    <2>2. Cardinality(OrgIds) \in Nat /\ MAX_DEPTH \in Nat
      BY OrganizationConstants, FS_CardinalityType
    <2>3. m \in 0 .. MAX_DEPTH - 1
      BY <2>1, <2>2
    <2> QED
      BY <1>3, <2>1, <2>3 DEF assertNoParentCycle
  <1>6. Unreachable(os \cap above)
    <2> SUFFICES ASSUME NEW x \in os \cap above
                 PROVE  /\ org[x].parent # NoOrg
                        /\ org[x].parent \in Active => org[x].parent \in os \cap above
      BY DEF Unreachable
    <2>1. x \in OrgIds \ {o} /\ org'[x].parent = org[x].parent
      BY <1>1, <1>5
    <2>2. org[x].parent # NoOrg /\ (org[x].parent \in Active => org[x].parent \in os)
      BY <1>1, <2>1 DEF Unreachable
    <2>3. ASSUME org[x].parent \in Active PROVE org[x].parent \in above
      <3>1. PICK n \in Nat : Up(p, x, n)
        OBVIOUS
      <3>2. Up(p, org[x].parent, n + 1)
        BY <1>1, <1>3, <2>1, <2>3, <3>1, ParentAbove
      <3> QED
        BY <1>1, <2>3, <3>2
    <2> QED
      BY <2>2, <2>3
  <1> HIDE DEF above
  <1>7. os \cap above = {}
    BY <1>1, <1>6 DEF Whole
  <1> QED
    BY <1>3, <1>4, <1>7

-----------------------------------------------------------------------------
(* The checks of a call that no write has overtaken still hold.            *)

OrgCall == [op : {"create", "move", "remove"}, org : OrgIds \cup {NoOrg},
            parent : OrgIds \cup {NoOrg}, overtaken : BOOLEAN]
StaffCall == [op : EmployeeOps, employee : EmployeeIds, orgs : SUBSET OrgIds, overtaken : BOOLEAN]

FreshCallsHold == \A r \in inFlight : ~r.overtaken => r \in Reads

OInv == OrganizationTypeOK /\ FreshCallsHold

LEMMA CallTypes == OrganizationTypeOK <=> /\ org \in [OrgIds -> Org]
                                          /\ employee \in [EmployeeIds -> Employee]
                                          /\ inFlight \subseteq OrgCall \cup StaffCall
  <1>1. \A r \in OrgCall : r.op \in {"create", "move", "remove"}
    BY DEF OrgCall
  <1>2. \A r \in StaffCall : r.op \in EmployeeOps
    BY DEF StaffCall
  <1> QED
    BY <1>1, <1>2 DEF OrganizationTypeOK, OrgCall, StaffCall

LEMMA ReadsTyped == Reads \subseteq OrgCall \cup StaffCall
  <1>1. Active \subseteq OrgIds /\ Existing \subseteq OrgIds /\ Working \subseteq EmployeeIds
    BY DEF Active, Existing, Working
  <1>2. \A op \in {"create", "move", "remove"}, o \in OrgIds \cup {NoOrg}, p \in OrgIds \cup {NoOrg} :
           Call(op, o, p) \in OrgCall
    BY DEF Call, OrgCall
  <1>3. \A op \in EmployeeOps, e \in EmployeeIds, os \in SUBSET OrgIds : EmployeeCall(op, e, os) \in StaffCall
    BY DEF EmployeeCall, StaffCall
  <1>4. create \subseteq OrgCall
    BY <1>1, <1>2 DEF create
  <1>5. update \subseteq OrgCall
    BY <1>1, <1>2 DEF update
  <1>6. remove \subseteq OrgCall
    BY <1>1, <1>2 DEF remove
  <1>7. Placements \subseteq SUBSET OrgIds
    BY <1>1 DEF Placements
  <1>8. createEmployee \subseteq StaffCall
    BY <1>3, <1>7 DEF createEmployee, EmployeeOps
  <1>9. place \subseteq StaffCall
    BY <1>3, <1>7 DEF place, EmployeeOps
  <1>10. deactivate \subseteq StaffCall /\ activate \subseteq StaffCall
    BY <1>1, <1>3 DEF deactivate, activate, EmployeeOps
  <1>11. removeEmployee \subseteq StaffCall
    BY <1>3 DEF removeEmployee, EmployeeOps
  <1> QED
    BY <1>4, <1>5, <1>6, <1>8, <1>9, <1>10, <1>11 DEF Reads

LEMMA OvertakenTyped ==
    ASSUME NEW calls, calls \subseteq OrgCall \cup StaffCall
    PROVE  Overtaken(calls) \subseteq OrgCall \cup StaffCall /\ \A r \in Overtaken(calls) : r.overtaken
  <1>1. \A r \in OrgCall : [r EXCEPT !.overtaken = TRUE] \in OrgCall /\ [r EXCEPT !.overtaken = TRUE].overtaken
    BY DEF OrgCall
  <1>2. \A r \in StaffCall :
           [r EXCEPT !.overtaken = TRUE] \in StaffCall /\ [r EXCEPT !.overtaken = TRUE].overtaken
    BY DEF StaffCall
  <1> QED
    BY <1>1, <1>2 DEF Overtaken

LEMMA WriteTyped ==
    ASSUME OrganizationTypeOK, NEW r \in OrgCall \cup StaffCall, Write(r)
    PROVE  org' \in [OrgIds -> Org] /\ employee' \in [EmployeeIds -> Employee]
  <1> USE DEF OrganizationTypeOK
  <1>1. CASE WriteOrg(r)
    <2>1. r \in OrgCall
      BY <1>1 DEF WriteOrg, StaffCall, EmployeeOps
    <2>2. org' \in [OrgIds -> Org]
      BY <1>1, <2>1 DEF WriteOrg, OrgCall, Org
    <2> QED
      BY <1>1, <2>2 DEF WriteOrg
  <1>2. CASE WriteEmployee(r)
    <2>1. r \in StaffCall
      BY <1>2 DEF WriteEmployee, OrgCall, EmployeeOps
    <2>2. Written(employee[r.employee], r) \in Employee
      BY <2>1 DEF StaffCall, Written, Employee, EmployeeOps
    <2> QED
      BY <1>2, <2>1, <2>2 DEF WriteEmployee, StaffCall
  <1> QED
    BY <1>1, <1>2 DEF Write

LEMMA InvariantInit == OInit => OInv
  BY DEF OInit, OInv, OrganizationTypeOK, FreshCallsHold, Org, Employee

LEMMA InvariantStep == OInv /\ [ONext]_ovars => OInv'
  <1> SUFFICES ASSUME OInv, [ONext]_ovars PROVE OInv'
    OBVIOUS
  <1>1. /\ OrganizationTypeOK /\ FreshCallsHold
        /\ org \in [OrgIds -> Org] /\ employee \in [EmployeeIds -> Employee]
        /\ inFlight \subseteq OrgCall \cup StaffCall
    BY CallTypes DEF OInv
  <1>2. ASSUME org' \in [OrgIds -> Org], employee' \in [EmployeeIds -> Employee],
               inFlight' \subseteq OrgCall \cup StaffCall
        PROVE  OrganizationTypeOK'
    <2>1. \A r \in OrgCall : r.op \in {"create", "move", "remove"}
      BY DEF OrgCall
    <2>2. \A r \in StaffCall : r.op \in EmployeeOps
      BY DEF StaffCall
    <2> QED
      BY <1>2, <2>1, <2>2 DEF OrganizationTypeOK, OrgCall, StaffCall
  <1>3. ASSUME UNCHANGED <<org, employee>> PROVE Reads' = Reads
    BY <1>3 DEF Reads, create, update, remove, createEmployee, place, deactivate, activate,
                removeEmployee, Active, Existing, Working, Placements, HasChildren, HasEmployees,
                assertNoParentCycle, Up, Call, EmployeeCall
  <1>4. CASE \E r \in Reads : AtOnce(r)
    <2>1. PICK r \in Reads : AtOnce(r)
      BY <1>4
    <2>2. org' \in [OrgIds -> Org] /\ employee' \in [EmployeeIds -> Employee]
      BY <1>1, <2>1, ReadsTyped, WriteTyped DEF AtOnce
    <2> QED
      BY <1>1, <1>2, <2>1, <2>2, OvertakenTyped DEF AtOnce, OInv, FreshCallsHold
  <1>5. CASE \E r \in Reads : Begin(r)
    <2>1. PICK r \in Reads : Begin(r)
      BY <1>5
    <2>2. OrganizationTypeOK'
      BY <1>1, <1>2, <2>1, ReadsTyped DEF Begin
    <2> QED
      BY <1>1, <1>3, <2>1, <2>2 DEF Begin, OInv, FreshCallsHold
  <1>6. CASE \E r \in inFlight : Finish(r)
    <2>1. PICK r \in inFlight : Finish(r)
      BY <1>6
    <2>2. CASE Write(r) /\ inFlight' = Overtaken(inFlight \ {r})
      <3>1. org' \in [OrgIds -> Org] /\ employee' \in [EmployeeIds -> Employee]
        BY <1>1, <2>2, WriteTyped
      <3>2. inFlight \ {r} \subseteq OrgCall \cup StaffCall
        BY <1>1
      <3> QED
        BY <1>2, <2>2, <3>1, <3>2, OvertakenTyped DEF OInv, FreshCallsHold
    <2>3. CASE Fail(r) /\ inFlight' = inFlight \ {r}
      <3>1. UNCHANGED <<org, employee>>
        BY <2>3 DEF Fail
      <3>2. OrganizationTypeOK'
        BY <1>1, <1>2, <2>3, <3>1
      <3> QED
        BY <1>1, <1>3, <2>3, <3>1, <3>2 DEF OInv, FreshCallsHold
    <2> QED
      BY <2>1, <2>2, <2>3 DEF Finish
  <1>7. CASE UNCHANGED ovars
    <2>1. UNCHANGED <<org, employee>> /\ inFlight' = inFlight
      BY <1>7 DEF ovars
    <2> QED
      BY <1>1, <1>2, <1>3, <2>1 DEF OInv, FreshCallsHold
  <1> QED
    BY <1>4, <1>5, <1>6, <1>7 DEF ONext

\* Every row and every call in flight stays within its type.
THEOREM OrganizationTypeCorrectness == OSpec => []OrganizationTypeOK
  <1>1. OSpec => []OInv
    BY InvariantInit, InvariantStep, PTL DEF OSpec
  <1> QED
    BY <1>1, PTL DEF OInv

-----------------------------------------------------------------------------
(* The properties.                                                         *)

\* A write whose checks hold keeps the tree whole.
LEMMA FreshWriteKeepsWhole ==
    ASSUME OrganizationTypeOK, Cardinality(OrgIds) <= MAX_DEPTH, Whole, NEW r \in Reads, Write(r)
    PROVE  Whole'
  <1>1. OrgTypeOK
    BY DEF OrganizationTypeOK, OrgTypeOK
  <1>2. CASE WriteEmployee(r)
    BY <1>2 DEF WriteEmployee, Whole, Active, Unreachable
  <1>3. CASE WriteOrg(r)
    <2>1. r.op \in {"create", "move", "remove"}
      BY <1>3 DEF WriteOrg
    <2>2. r \in create \cup update \cup remove
      BY <2>1 DEF Reads, createEmployee, place, deactivate, activate, removeEmployee, EmployeeCall
    <2>3. CASE r \in create
      <3>1. r.op = "create" /\ r.parent \in Active \cup {NoOrg}
        BY <2>3 DEF create, Call
      <3>2. PICK o \in OrgIds \ Existing : org' = [org EXCEPT ![o] = [state |-> "active", parent |-> r.parent]]
        BY <1>3, <3>1 DEF WriteOrg
      <3> QED
        BY <1>1, <3>1, <3>2, CreateKeepsWhole
    <2>4. CASE r \in update
      <3>1. /\ r.op = "move" /\ r.org \in Active
            /\ r.parent = NoOrg \/ (r.parent \in Active /\ assertNoParentCycle(r.org, r.parent))
        BY <2>4 DEF update, Call
      <3>2. r.parent \in OrgIds \cup {NoOrg} /\ org' = [org EXCEPT ![r.org].parent = r.parent]
        BY <1>3, <3>1 DEF WriteOrg, Active
      <3> QED
        BY <1>1, <3>1, <3>2, MoveKeepsWhole
    <2>5. CASE r \in remove
      <3>1. r.op = "remove" /\ r.org \in Active /\ ~HasChildren(r.org)
        BY <2>5 DEF remove, Call
      <3>2. org' = [org EXCEPT ![r.org].state = "removed"]
        BY <1>3, <3>1 DEF WriteOrg
      <3> QED
        BY <1>1, <3>1, <3>2, RemoveKeepsWhole
    <2> QED
      BY <2>2, <2>3, <2>4, <2>5
  <1> QED
    BY <1>2, <1>3 DEF Write

\* A company of at most MAX_DEPTH organizations never loses one from its tree, unless
\* a call writes although another write overtook its checks.
THEOREM TreeCorrectness ==
    ASSUME Cardinality(OrgIds) <= MAX_DEPTH
    PROVE  OSpec => EveryOrganizationShown
  <1>1. ASSUME OInv, [ONext]_ovars, findTree = Active PROVE findTree' = Active' \/ Late
    <2>1. OrganizationTypeOK /\ FreshCallsHold
      BY <1>1 DEF OInv
    <2>2. Whole
      BY <1>1, ShownWhenWhole
    <2>3. Whole' => findTree' = Active'
      BY DEF Whole, findTree
    <2>4. ASSUME UNCHANGED org PROVE Whole'
      BY <2>2, <2>4 DEF Whole, Active, Unreachable
    <2>5. CASE \E r \in Reads : AtOnce(r)
      BY <2>1, <2>2, <2>3, <2>5, FreshWriteKeepsWhole DEF AtOnce
    <2>6. CASE \E r \in Reads : Begin(r)
      BY <2>3, <2>4, <2>6 DEF Begin
    <2>7. CASE \E r \in inFlight : Finish(r)
      <3>1. PICK r \in inFlight : Finish(r)
        BY <2>7
      <3>2. CASE r.overtaken
        BY <3>1, <3>2 DEF Late
      <3>3. CASE ~r.overtaken /\ Write(r)
        <4>1. r \in Reads
          BY <2>1, <3>3 DEF FreshCallsHold
        <4> QED
          BY <2>1, <2>2, <2>3, <3>3, <4>1, FreshWriteKeepsWhole
      <3>4. CASE Fail(r)
        BY <2>3, <2>4, <3>4 DEF Fail
      <3> QED
        BY <3>1, <3>2, <3>3, <3>4 DEF Finish
    <2>8. CASE UNCHANGED ovars
      BY <2>3, <2>4, <2>8 DEF ovars
    <2> QED
      BY <1>1, <2>5, <2>6, <2>7, <2>8 DEF ONext
  <1>2. OInv /\ [ONext]_ovars => [findTree = Active => findTree' = Active' \/ Late]_ovars
    BY <1>1
  <1>3. OSpec => []OInv
    BY InvariantInit, InvariantStep, PTL DEF OSpec
  <1> QED
    BY <1>2, <1>3, PTL DEF OSpec, EveryOrganizationShown

-----------------------------------------------------------------------------
(* Employees.                                                              *)

\* Of the writes whose checks hold, none removes the organization of anyone who works.
LEMMA FreshWriteKeepsPlaces ==
    ASSUME OrganizationTypeOK, NEW r \in Reads, Write(r), NEW e \in Working,
           employee[e].orgs \subseteq Active
    PROVE  employee[e].orgs \subseteq Active'
  <1>1. org \in [OrgIds -> Org]
    BY DEF OrganizationTypeOK
  <1>2. CASE WriteEmployee(r)
    BY <1>2 DEF WriteEmployee, Active
  <1>3. CASE WriteOrg(r)
    <2>1. CASE r.op = "create"
      <3>1. PICK o \in OrgIds \ Existing : org' = [org EXCEPT ![o] = [state |-> "active", parent |-> r.parent]]
        BY <1>3, <2>1 DEF WriteOrg
      <3> QED
        BY <1>1, <3>1 DEF Active
    <2>2. CASE r.op = "move"
      <3>1. org' = [org EXCEPT ![r.org].parent = r.parent]
        BY <1>3, <2>2 DEF WriteOrg
      <3> QED
        BY <1>1, <3>1 DEF Active, Org
    <2>3. CASE r.op = "remove"
      <3>1. org' = [org EXCEPT ![r.org].state = "removed"]
        BY <1>3, <2>3 DEF WriteOrg
      <3>2. r \in remove
        BY <2>3 DEF Reads, create, update, createEmployee, place, deactivate, activate, removeEmployee,
                    Call, EmployeeCall
      <3>3. ~HasEmployees(r.org)
        BY <3>2 DEF remove, Call
      <3>4. r.org \notin employee[e].orgs
        BY <3>3 DEF HasEmployees
      <3> QED
        BY <1>1, <3>1, <3>4 DEF Active, Org
    <2> QED
      BY <1>3, <2>1, <2>2, <2>3 DEF WriteOrg
  <1> QED
    BY <1>2, <1>3 DEF Write

\* Nobody who works loses an organization to its removal, for any number of people and
\* organizations, unless a call writes although another write overtook its checks.
THEOREM PlacementCorrectness == OSpec => NobodyLosesTheirOrganization
  <1>1. ASSUME OInv, [ONext]_ovars, NEW e \in Working, employee[e].orgs \subseteq Active
        PROVE  employee[e].orgs \subseteq Active' \/ Late
    <2>1. OrganizationTypeOK /\ FreshCallsHold
      BY <1>1 DEF OInv
    <2>2. ASSUME UNCHANGED org PROVE employee[e].orgs \subseteq Active'
      BY <1>1, <2>2 DEF Active
    <2>3. CASE \E r \in Reads : AtOnce(r)
      BY <1>1, <2>1, <2>3, FreshWriteKeepsPlaces DEF AtOnce
    <2>4. CASE \E r \in Reads : Begin(r)
      BY <2>2, <2>4 DEF Begin
    <2>5. CASE \E r \in inFlight : Finish(r)
      <3>1. PICK r \in inFlight : Finish(r)
        BY <2>5
      <3>2. CASE r.overtaken
        BY <3>1, <3>2 DEF Late
      <3>3. CASE ~r.overtaken /\ Write(r)
        <4>1. r \in Reads
          BY <2>1, <3>3 DEF FreshCallsHold
        <4> QED
          BY <1>1, <2>1, <3>3, <4>1, FreshWriteKeepsPlaces
      <3>4. CASE Fail(r)
        BY <2>2, <3>4 DEF Fail
      <3> QED
        BY <3>1, <3>2, <3>3, <3>4 DEF Finish
    <2>6. CASE UNCHANGED ovars
      BY <2>2, <2>6 DEF ovars
    <2> QED
      BY <1>1, <2>3, <2>4, <2>5, <2>6 DEF ONext
  <1>2. OInv /\ [ONext]_ovars =>
            [\A e \in Working :
                (employee[e].orgs \subseteq Active /\ employee'[e] = employee[e]) =>
                    employee[e].orgs \subseteq Active' \/ Late]_ovars
    BY <1>1
  <1>3. OSpec => []OInv
    BY InvariantInit, InvariantStep, PTL DEF OSpec
  <1> QED
    BY <1>2, <1>3, PTL DEF OSpec, NobodyLosesTheirOrganization
=============================================================================
