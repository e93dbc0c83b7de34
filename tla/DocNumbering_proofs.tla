-------------------------- MODULE DocNumbering_proofs --------------------------
(***************************************************************************)
(* Proofs about DocNumbering, for any companies, forms, patterns and       *)
(* documents, any number of submissions in flight and any calendar.        *)
(*                                                                         *)
(* NInv is the inductive invariant.  Its parts:                            *)
(*   - the types, and what a document's number, a rule and a call in       *)
(*     flight know of one another (NTypeOK, DocsSound, RulesSound,         *)
(*     CallsSound, OneCallEach);                                           *)
(*   - SequencesCover: whatever a rule numbered this year is not above its *)
(*     sequence, unless a reset came late;                                 *)
(*   - RuleGapless: in the first year the documents of a form with a rule  *)
(*     are numbered 1 to its sequence, until it loses one, and no reset is *)
(*     due;                                                                *)
(*   - CountCovers: a counted number is not above the number of documents  *)
(*     counted, nor is a number that was read and not yet used;            *)
(*   - CountGapless: in the first year the counted numbers are 1 to n;     *)
(*   - Overtaken: an attempt that would collide was overtaken.             *)
(***************************************************************************)
EXTENDS DocNumbering, FiniteSetTheorems, TLAPS

AllTexts == {"none", "DOC"} \cup UNION {Patterns[f] : f \in Forms}

\* One number, one rule and one call as records of their fields.
NumberType == [text : AllTexts, year : Nat, seq : Nat]
RuleType   == [text : AllTexts, seq : Nat]
CallType   == [doc : Docs \cup {NoDoc}, phase : {"idle", "read", "retry", "failed"},
               attempt : {1, 2}, now : Nat, text : AllTexts, count : Nat,
               reset : BOOLEAN, overtaken : SUBSET {1, 2}]

NTypeOK ==
    /\ year \in Nat \ {0}
    /\ state \in [Docs -> {"DRAFT", "SUBMITTED", "DELETED"}]
    /\ number \in [Docs -> NumberType]
    /\ issuedIn \in [Docs -> Nat]
    /\ rule \in [Forms -> RuleType]
    /\ call \in [Sessions -> CallType]
    /\ setBack \in SUBSET Forms

\* Only submitted documents have numbers, with a text of their form and a year
\* not after the one of their submission.
DocSound(d) ==
    /\ state[d] # "SUBMITTED" => number[d] = NoNumber
    /\ state[d] = "SUBMITTED" =>
        /\ number[d].text \in TextsOf(FormOf[d])
        /\ number[d].year >= 1 /\ number[d].year <= issuedIn[d] /\ issuedIn[d] <= year
DocsSound == \A d \in Docs : DocSound(d)

RuleSound(f) ==
    /\ f \in RuleForms => rule[f].text \in Patterns[f]
    /\ rule[f].text # "none" => f \in RuleForms \cup Editable /\ rule[f].text \in Patterns[f]
RulesSound == \A f \in Forms : RuleSound(f)

\* What a call in flight has read was true of its form, and its document is
\* still a draft.
CallSound(p) ==
    IF call[p].phase = "idle" THEN call[p] = NoCall
    ELSE /\ call[p].doc \in Docs /\ state[call[p].doc] = "DRAFT"
         /\ call[p].now >= 1 /\ call[p].now <= year
         /\ call[p].text = "none" => FormOf[call[p].doc] \notin RuleForms /\ call[p].reset = FALSE
         /\ call[p].text # "none" => /\ FormOf[call[p].doc] \in RuleForms \cup Editable
                                     /\ call[p].text \in Patterns[FormOf[call[p].doc]]
         /\ FormOf[call[p].doc] \notin Editable => call[p].text = rule[FormOf[call[p].doc]].text
CallsSound == \A p \in Sessions : CallSound(p)

OneCallEach ==
    \A p, q \in Sessions : call[p].doc = call[q].doc /\ call[p].doc # NoDoc => p = q

Covered(d) ==
    /\ state[d] = "SUBMITTED" /\ issuedIn[d] = year
    /\ FormOf[d] \notin setBack
    /\ number[d].text = "DOC" => FormOf[d] \in RuleForms
    => number[d].seq <= rule[FormOf[d]].seq
SequencesCover == \A d \in Docs : Covered(d)

\* A form with a rule that has lost no document.
Undisturbed(f) == f \in RuleForms /\ Whole(f)

Gapless(f) ==
    /\ \A k \in Nat : k >= 1 /\ k <= rule[f].seq =>
            \E d \in Docs : FormOf[d] = f /\ number[d].seq = k
    /\ \A d \in Docs : FormOf[d] = f /\ state[d] = "SUBMITTED" =>
            /\ number[d].seq <= rule[f].seq
            /\ f \notin Editable => number[d].text = rule[f].text
    /\ \A p \in Sessions : call[p].doc \in Docs /\ FormOf[call[p].doc] = f => call[p].reset = FALSE
RuleGapless == year = 1 => \A f \in Forms : Undisturbed(f) => Gapless(f)

\* The documents numbered DOC-{y}-, whichever way.
Counted(y) == {d \in Docs : number[d].text = "DOC" /\ number[d].year = y}

CountKept(y) ==
    /\ \A d \in Counted(y) : number[d].seq <= Cardinality(Counted(y))
    /\ \A p \in Sessions : call[p].phase = "read" /\ call[p].text = "none" /\ call[p].now = y
                            => call[p].count <= Cardinality(Counted(y))
CountCovers == CountsSafely => \A y \in Nat : CountKept(y)

\* The forms whose documents are counted have lost none, and nobody edits their rules.
CountUndisturbed == \A g \in Forms : "DOC" \in TextsOf(g) => Whole(g) /\ g \notin Editable

CountGapless ==
    year = 1 /\ CountUndisturbed =>
        /\ CountKept(1)
        /\ \A k \in Nat : k >= 1 /\ k <= Cardinality(Counted(1)) =>
                \E d \in Docs : number[d] = [text |-> "DOC", year |-> 1, seq |-> k]

\* The forms FailsOnlyUnderContention is about, but for late resets.
Alone(f) ==
    /\ f \in RuleForms \cup Editable => OwnPatterns(f)
    /\ f \notin RuleForms => CountsSafely

OvertakenWhenTaken(p) ==
    /\ call[p].phase # "idle" /\ FormOf[call[p].doc] \notin setBack /\ Alone(FormOf[call[p].doc])
    => /\ call[p].phase = "read" /\ Taken(NumberFor(FormOf[call[p].doc], call[p]))
            => call[p].attempt \in call[p].overtaken
       /\ call[p].attempt = 2 => 1 \in call[p].overtaken
       /\ call[p].phase = "retry" => call[p].attempt = 1 /\ 1 \in call[p].overtaken
       /\ call[p].phase = "failed" => call[p].overtaken = {1, 2}
Overtaken == \A p \in Sessions : OvertakenWhenTaken(p)

Basics == NTypeOK /\ DocsSound /\ RulesSound /\ CallsSound /\ OneCallEach

NInv ==
    /\ Basics
    /\ SequencesCover
    /\ RuleGapless
    /\ CountCovers
    /\ CountGapless
    /\ Overtaken

-----------------------------------------------------------------------------
(* What the actions do, field by field.                                    *)

LEMMA CountType ==
    ASSUME NEW c, NEW y
    PROVE  /\ Cardinality(DefaultNumbered(c, y)) \in Nat
           /\ IsFiniteSet(DefaultNumbered(c, y))
<1>1. DefaultNumbered(c, y) \subseteq Docs BY DEF DefaultNumbered
<1>2. IsFiniteSet(DefaultNumbered(c, y)) BY <1>1, NumberingConstants, FS_Subset
<1> QED BY <1>2, FS_CardinalityType

\* Read keeps the document, the attempt and what overtook the call.
LEMMA ReadFields ==
    ASSUME NTypeOK, NEW f \in Forms, NEW c \in CallType
    PROVE  /\ Read(f, c) \in CallType
           /\ Read(f, c).doc = c.doc /\ Read(f, c).attempt = c.attempt
           /\ Read(f, c).overtaken = c.overtaken
           /\ Read(f, c).phase = "read" /\ Read(f, c).now = year
           /\ Read(f, c).text = rule[f].text
           /\ Read(f, c).count = Cardinality(DefaultNumbered(CompanyOf[f], year))
           /\ Read(f, c).reset = (HasRule(f) /\ ResetDue(f))
<1> DEFINE n == Cardinality(DefaultNumbered(CompanyOf[f], year))
           b == HasRule(f) /\ ResetDue(f)
<1>1. n \in Nat BY CountType
<1>2. b \in BOOLEAN BY NumberingConstants DEF HasRule, ResetDue, IssuedThisYear
<1>3. rule[f].text \in AllTexts /\ year \in Nat BY DEF NTypeOK, RuleType
<1>4. Read(f, c) = [c EXCEPT !.phase = "read", !.now = year, !.text = rule[f].text, !.count = n, !.reset = b]
  BY DEF Read
<1> HIDE DEF n, b
<1> QED BY <1>1, <1>2, <1>3, <1>4 DEF CallType, n, b

LEMMA NoCallType == NoCall \in CallType
BY DEF NoCall, CallType, AllTexts

\* What Start and Retry have in common.
ReadsFor(p, d) ==
    /\ d \in Docs /\ state[d] = "DRAFT" /\ FormOf[d] \in Forms
    /\ \A q \in Sessions : q # p => call'[q] = call[q] /\ call[q].doc # d
    /\ call' \in [Sessions -> CallType]
    /\ call'[p].doc = d /\ call'[p].phase = "read" /\ call'[p].now = year
    /\ call'[p].text = rule[FormOf[d]].text
    /\ call'[p].count = Cardinality(DefaultNumbered(CompanyOf[FormOf[d]], year))
    /\ call'[p].reset = (HasRule(FormOf[d]) /\ ResetDue(FormOf[d]))
    /\ \/ call'[p].attempt = 1
       \/ /\ call'[p].attempt = 2 /\ call'[p].overtaken = call[p].overtaken
          /\ call[p].phase = "retry" /\ call[p].doc = d
    /\ UNCHANGED <<year, state, number, issuedIn, rule, setBack>>

LEMMA StartReads ==
    ASSUME Basics, NEW p \in Sessions, NEW d \in Docs, Start(p, d)
    PROVE  ReadsFor(p, d)
<1> DEFINE c == [NoCall EXCEPT !.doc = d]
<1>1. /\ c \in CallType /\ c.doc = d /\ c.attempt = 1
  BY NoCallType DEF NoCall, CallType
<1>2. FormOf[d] \in Forms BY NumberingConstants
<1>3. call' = [call EXCEPT ![p] = Read(FormOf[d], c)]
  BY DEF Start
<1> HIDE DEF c
<1>4. Read(FormOf[d], c) \in CallType BY <1>1, <1>2, ReadFields DEF Basics
<1>5. call \in [Sessions -> CallType] BY DEF Basics, NTypeOK
<1>6. /\ call'[p] = Read(FormOf[d], c) /\ \A q \in Sessions : q # p => call'[q] = call[q]
      /\ call' \in [Sessions -> CallType]
  BY <1>3, <1>4, <1>5
<1>7. /\ state[d] = "DRAFT" /\ \A q \in Sessions : call[q].doc # d
      /\ UNCHANGED <<year, state, number, issuedIn, rule, setBack>>
  BY DEF Start
<1>8. /\ Read(FormOf[d], c).doc = d /\ Read(FormOf[d], c).attempt = 1
      /\ Read(FormOf[d], c).phase = "read" /\ Read(FormOf[d], c).now = year
      /\ Read(FormOf[d], c).text = rule[FormOf[d]].text
      /\ Read(FormOf[d], c).count = Cardinality(DefaultNumbered(CompanyOf[FormOf[d]], year))
      /\ Read(FormOf[d], c).reset = (HasRule(FormOf[d]) /\ ResetDue(FormOf[d]))
  BY <1>1, <1>2, ReadFields DEF Basics
<1> QED BY <1>2, <1>6, <1>7, <1>8, Zenon DEF ReadsFor

LEMMA RetryReads ==
    ASSUME Basics, NEW p \in Sessions, Retry(p)
    PROVE  ReadsFor(p, call[p].doc)
<1> DEFINE d == call[p].doc
           c == [call[p] EXCEPT !.attempt = 2]
<1>0. call \in [Sessions -> CallType] /\ call[p] \in CallType BY DEF Basics, NTypeOK
<1>1. /\ c \in CallType /\ c.doc = d /\ c.attempt = 2 /\ c.overtaken = call[p].overtaken
  BY <1>0 DEF CallType
<1>2. call[p].phase = "retry" BY DEF Retry
<1>3. d \in Docs /\ state[d] = "DRAFT"
  BY <1>2 DEF Basics, CallsSound, CallSound
<1>4. FormOf[d] \in Forms BY <1>3, NumberingConstants
<1>5. call' = [call EXCEPT ![p] = Read(FormOf[d], c)]
  BY <1>0 DEF Retry
<1>6. \A q \in Sessions : q # p => call[q].doc # d
  BY <1>3, NumberingConstants DEF Basics, OneCallEach
<1> HIDE DEF c, d
<1>7. Read(FormOf[d], c) \in CallType BY <1>1, <1>4, ReadFields DEF Basics
<1>8. /\ call'[p] = Read(FormOf[d], c) /\ \A q \in Sessions : q # p => call'[q] = call[q]
      /\ call' \in [Sessions -> CallType]
  BY <1>0, <1>5, <1>7
<1>9. UNCHANGED <<year, state, number, issuedIn, rule, setBack>>
  BY DEF Retry
<1>10. /\ Read(FormOf[d], c).doc = d /\ Read(FormOf[d], c).attempt = 2
       /\ Read(FormOf[d], c).overtaken = call[p].overtaken
       /\ Read(FormOf[d], c).phase = "read" /\ Read(FormOf[d], c).now = year
       /\ Read(FormOf[d], c).text = rule[FormOf[d]].text
       /\ Read(FormOf[d], c).count = Cardinality(DefaultNumbered(CompanyOf[FormOf[d]], year))
       /\ Read(FormOf[d], c).reset = (HasRule(FormOf[d]) /\ ResetDue(FormOf[d]))
  BY <1>1, <1>4, ReadFields DEF Basics
<1>11. ReadsFor(p, d)
  BY <1>2, <1>3, <1>4, <1>6, <1>8, <1>9, <1>10, Zenon DEF ReadsFor, d
<1> QED BY <1>11 DEF d

\* The number a call proposes.
LEMMA NumberForFields ==
    ASSUME Basics, NEW p \in Sessions, call[p].phase # "idle"
    PROVE  LET f == FormOf[call[p].doc]
               n == NumberFor(f, call[p])
           IN  /\ f \in Forms
               /\ n \in NumberType /\ n.year = call[p].now
               /\ n.seq >= 1
               /\ call[p].text = "none" => n.text = "DOC" /\ n.seq = call[p].count + 1
               /\ call[p].text # "none" =>
                    /\ n.text = call[p].text
                    /\ call[p].reset = TRUE => n.seq = 1
                    /\ call[p].reset = FALSE => n.seq = rule[f].seq + 1
<1> DEFINE f == FormOf[call[p].doc]
<1>1. f \in Forms BY NumberingConstants DEF Basics, CallsSound, CallSound
<1>2. call[p] \in CallType /\ rule[f] \in RuleType BY <1>1 DEF Basics, NTypeOK
<1>3. /\ call[p].now \in Nat /\ call[p].count \in Nat /\ call[p].text \in AllTexts
      /\ call[p].reset \in BOOLEAN /\ rule[f].seq \in Nat /\ "DOC" \in AllTexts
  BY <1>2 DEF CallType, RuleType, AllTexts
<1> HIDE DEF f
<1>4. CASE call[p].text = "none"
  <2>1. NumberFor(f, call[p]) = [text |-> "DOC", year |-> call[p].now, seq |-> call[p].count + 1]
    BY <1>4 DEF NumberFor
  <2> QED BY <1>1, <1>3, <1>4, <2>1 DEF NumberType, f
<1>5. CASE call[p].text # "none"
  <2>1. NumberFor(f, call[p]) = [text |-> call[p].text, year |-> call[p].now, seq |-> NextSeq(f, call[p])]
    BY <1>5 DEF NumberFor
  <2>2. /\ call[p].reset = TRUE => NextSeq(f, call[p]) = 1
        /\ call[p].reset = FALSE => NextSeq(f, call[p]) = rule[f].seq + 1
    BY <1>3 DEF NextSeq
  <2>3. NextSeq(f, call[p]) \in Nat /\ NextSeq(f, call[p]) >= 1
    BY <1>3, <2>2
  <2> QED BY <1>1, <1>3, <1>5, <2>1, <2>2, <2>3 DEF NumberType, f
<1> QED BY <1>4, <1>5

\* What Commit does to the document, the rule and the calls.
Commits(p, d, n) ==
    /\ d \in Docs /\ state[d] = "DRAFT" /\ number[d] = NoNumber /\ FormOf[d] \in Forms
    /\ call[p].phase = "read" /\ call[p].doc = d
    /\ n = NumberFor(FormOf[d], call[p]) /\ ~Taken(n)
    /\ n \in NumberType
    /\ state' \in [Docs -> {"DRAFT", "SUBMITTED", "DELETED"}] /\ state'[d] = "SUBMITTED"
    /\ number' \in [Docs -> NumberType] /\ number'[d] = n
    /\ issuedIn' \in [Docs -> Nat] /\ issuedIn'[d] = year
    /\ \A e \in Docs : e # d => state'[e] = state[e] /\ number'[e] = number[e] /\ issuedIn'[e] = issuedIn[e]
    /\ rule' \in [Forms -> RuleType]
    /\ \A g \in Forms : rule'[g].text = rule[g].text /\ (g # FormOf[d] => rule'[g].seq = rule[g].seq)
    /\ call[p].text = "none" => rule' = rule
    /\ call[p].text # "none" => rule'[FormOf[d]].seq = n.seq
    /\ UNCHANGED year

LEMMA CommitEffect ==
    ASSUME Basics, NEW p \in Sessions, Commit(p)
    PROVE  Commits(p, call[p].doc, NumberFor(FormOf[call[p].doc], call[p]))
<1> DEFINE d == call[p].doc
           f == FormOf[d]
           n == NumberFor(f, call[p])
<1>1. /\ call[p].phase = "read" /\ ~Taken(n)
      /\ state' = [state EXCEPT ![d] = "SUBMITTED"]
      /\ number' = [number EXCEPT ![d] = n]
      /\ issuedIn' = [issuedIn EXCEPT ![d] = year]
      /\ rule' = IF call[p].text # "none" THEN [rule EXCEPT ![f].seq = n.seq] ELSE rule
      /\ year' = year
  BY DEF Commit
<1>2. d \in Docs /\ state[d] = "DRAFT"
  BY <1>1 DEF Basics, CallsSound, CallSound
<1>3. f \in Forms BY <1>2, NumberingConstants
<1>4. n \in NumberType
  BY <1>1, NumberForFields
<1>5. number[d] = NoNumber BY <1>2 DEF Basics, DocsSound, DocSound
<1>6. /\ state \in [Docs -> {"DRAFT", "SUBMITTED", "DELETED"}] /\ number \in [Docs -> NumberType]
      /\ issuedIn \in [Docs -> Nat] /\ rule \in [Forms -> RuleType] /\ year \in Nat
  BY DEF Basics, NTypeOK
<1>d. d = call[p].doc OBVIOUS
<1>f. f = FormOf[d] /\ n = NumberFor(FormOf[d], call[p]) OBVIOUS
<1> HIDE DEF d, f, n
<1>7. /\ state' \in [Docs -> {"DRAFT", "SUBMITTED", "DELETED"}] /\ state'[d] = "SUBMITTED"
      /\ number' \in [Docs -> NumberType] /\ number'[d] = n
      /\ issuedIn' \in [Docs -> Nat] /\ issuedIn'[d] = year
      /\ \A e \in Docs : e # d => state'[e] = state[e] /\ number'[e] = number[e] /\ issuedIn'[e] = issuedIn[e]
  BY <1>1, <1>2, <1>4, <1>6
<1>8. /\ rule' \in [Forms -> RuleType]
      /\ \A g \in Forms : rule'[g].text = rule[g].text /\ (g # f => rule'[g].seq = rule[g].seq)
      /\ call[p].text = "none" => rule' = rule
      /\ call[p].text # "none" => rule'[f].seq = n.seq
  <2>1. CASE call[p].text = "none"
    BY <2>1, <1>1, <1>6
  <2>2. CASE call[p].text # "none"
    <3> DEFINE r == [rule[f] EXCEPT !.seq = n.seq]
    <3>1. r \in RuleType /\ r.text = rule[f].text /\ r.seq = n.seq
      BY <1>3, <1>4, <1>6 DEF RuleType, NumberType
    <3>2. rule' = [rule EXCEPT ![f] = r]
      BY <1>1, <1>3, <1>6, <2>2
    <3> HIDE DEF r
    <3> QED BY <1>3, <1>6, <2>2, <3>1, <3>2
  <2> QED BY <2>1, <2>2
<1>9. Commits(p, d, n)
  BY <1>1, <1>2, <1>3, <1>4, <1>5, <1>7, <1>8, <1>d, <1>f, Zenon DEF Commits
<1> QED BY <1>9 DEF d, f, n

\* The others in flight notice, and keep what they read.
LEMMA OvertakeFields ==
    ASSUME NTypeOK, NEW p \in Sessions, call' = Overtake(p)
    PROVE  /\ call' \in [Sessions -> CallType]
           /\ call'[p] = NoCall
           /\ \A q \in Sessions : q # p =>
                /\ call'[q].doc = call[q].doc /\ call'[q].phase = call[q].phase
                /\ call'[q].attempt = call[q].attempt /\ call'[q].now = call[q].now
                /\ call'[q].text = call[q].text /\ call'[q].count = call[q].count
                /\ call'[q].reset = call[q].reset
                /\ call[q].doc = NoDoc => call'[q] = call[q]
                /\ call[q].doc # NoDoc =>
                     call'[q].overtaken = call[q].overtaken \cup {call[q].attempt}
<1>0. call \in [Sessions -> CallType] BY DEF NTypeOK
<1>1. \A q \in Sessions : call'[q] =
        IF q = p THEN NoCall
        ELSE IF call[q].doc # NoDoc
             THEN [call[q] EXCEPT !.overtaken = call[q].overtaken \cup {call[q].attempt}] ELSE call[q]
  BY <1>0 DEF Overtake, CallType
<1>2. call' = [q \in Sessions |-> call'[q]]
  BY DEF Overtake
<1>3. ASSUME NEW q \in Sessions, q # p
      PROVE  /\ call'[q] \in CallType
             /\ call'[q].doc = call[q].doc /\ call'[q].phase = call[q].phase
             /\ call'[q].attempt = call[q].attempt /\ call'[q].now = call[q].now
             /\ call'[q].text = call[q].text /\ call'[q].count = call[q].count
             /\ call'[q].reset = call[q].reset
             /\ call[q].doc = NoDoc => call'[q] = call[q]
             /\ call[q].doc # NoDoc =>
                  call'[q].overtaken = call[q].overtaken \cup {call[q].attempt}
  <2> DEFINE c == call[q]
             r == [c EXCEPT !.overtaken = c.overtaken \cup {c.attempt}]
  <2>1. c \in CallType BY <1>0
  <2>2. /\ r \in CallType /\ r.doc = c.doc /\ r.phase = c.phase /\ r.attempt = c.attempt /\ r.now = c.now
        /\ r.text = c.text /\ r.count = c.count /\ r.reset = c.reset
        /\ r.overtaken = c.overtaken \cup {c.attempt}
    <3> HIDE DEF c
    <3> QED BY <2>1 DEF CallType
  <2>3. c.doc # NoDoc => call'[q] = r BY <1>1, <1>3
  <2>4. c.doc = NoDoc => call'[q] = c BY <1>1, <1>3
  <2> HIDE DEF r
  <2> QED BY <2>1, <2>2, <2>3, <2>4
<1>4. call'[p] = NoCall BY <1>1
<1>5. \A q \in Sessions : call'[q] \in CallType BY <1>3, <1>4, NoCallType
<1>6. call' \in [Sessions -> CallType] BY <1>2, <1>5
<1> QED BY <1>3, <1>4, <1>6

\* Collide only moves the phase; GiveUp forgets the call.
LEMMA CollideFields ==
    ASSUME NTypeOK, NEW p \in Sessions, Collide(p)
    PROVE  /\ call' \in [Sessions -> CallType]
           /\ \A q \in Sessions : q # p => call'[q] = call[q]
           /\ call'[p].phase = IF call[p].attempt = 1 THEN "retry" ELSE "failed"
           /\ call'[p].doc = call[p].doc /\ call'[p].attempt = call[p].attempt
           /\ call'[p].now = call[p].now /\ call'[p].text = call[p].text
           /\ call'[p].count = call[p].count /\ call'[p].reset = call[p].reset
           /\ call'[p].overtaken = call[p].overtaken
<1> DEFINE c == call[p]
           x == IF c.attempt = 1 THEN "retry" ELSE "failed"
           r == [c EXCEPT !.phase = x]
<1>1. call \in [Sessions -> CallType] /\ c \in CallType BY DEF NTypeOK
<1>2. x \in {"retry", "failed"} OBVIOUS
<1>3. call' = [call EXCEPT ![p] = r] BY <1>1 DEF Collide
<1>4. /\ r \in CallType /\ r.doc = c.doc /\ r.phase = x /\ r.attempt = c.attempt /\ r.now = c.now
      /\ r.text = c.text /\ r.count = c.count /\ r.reset = c.reset /\ r.overtaken = c.overtaken
  <2> HIDE DEF c, x
  <2> QED BY <1>1, <1>2 DEF CallType
<1> HIDE DEF r
<1> QED BY <1>1, <1>3, <1>4

LEMMA GiveUpFields ==
    ASSUME NTypeOK, NEW p \in Sessions, GiveUp(p)
    PROVE  /\ call' \in [Sessions -> CallType] /\ call'[p] = NoCall
           /\ \A q \in Sessions : q # p => call'[q] = call[q]
BY NoCallType DEF NTypeOK, GiveUp

LEMMA DeleteFields ==
    ASSUME NTypeOK, NEW d \in Docs, forceDelete(d)
    PROVE  /\ state' \in [Docs -> {"DRAFT", "SUBMITTED", "DELETED"}] /\ state'[d] = "DELETED"
           /\ number' \in [Docs -> NumberType] /\ number'[d] = NoNumber
           /\ issuedIn' \in [Docs -> Nat]
           /\ \A e \in Docs : e # d => state'[e] = state[e] /\ number'[e] = number[e] /\ issuedIn'[e] = issuedIn[e]
<1>1. NoNumber \in NumberType BY DEF NoNumber, NumberType, AllTexts
<1> QED BY <1>1 DEF NTypeOK, forceDelete

LEMMA UpsertFields ==
    ASSUME NTypeOK, NEW f \in Forms, NEW text \in Patterns[f], upsertNumberRule(f, text)
    PROVE  /\ f \in Editable
           /\ rule' \in [Forms -> RuleType] /\ rule'[f].text = text
           /\ \A g \in Forms : rule'[g].seq = rule[g].seq
           /\ \A g \in Forms : g # f => rule'[g] = rule[g]
<1> DEFINE r == [rule[f] EXCEPT !.text = text]
<1>1. text \in AllTexts BY DEF AllTexts
<1>2. rule \in [Forms -> RuleType] /\ rule[f] \in RuleType BY DEF NTypeOK
<1>3. r \in RuleType /\ r.text = text /\ r.seq = rule[f].seq BY <1>1, <1>2 DEF RuleType
<1>4. rule' = [rule EXCEPT ![f] = r] /\ f \in Editable BY <1>2 DEF upsertNumberRule
<1> HIDE DEF r
<1> QED BY <1>2, <1>3, <1>4

-----------------------------------------------------------------------------
(* Types, and what documents, rules and calls know of one another.         *)

LEMMA BasicsInit == NInit => Basics
<1> SUFFICES ASSUME NInit PROVE Basics OBVIOUS
<1>1. NoNumber \in NumberType BY DEF NoNumber, NumberType, AllTexts
<1>2. [Forms -> [text : {"none"} \cup UNION {Patterns[f] : f \in Forms}, seq : {0}]] \subseteq [Forms -> RuleType]
  BY DEF RuleType, AllTexts
<1>3. NTypeOK BY <1>1, <1>2, NoCallType DEF NInit, NTypeOK
<1>4. DocsSound BY DEF NInit, DocsSound, DocSound
<1>5. RulesSound BY NumberingConstants DEF NInit, RulesSound, RuleSound
<1>6. CallsSound BY DEF NInit, CallsSound, CallSound, NoCall
<1>7. OneCallEach BY DEF NInit, OneCallEach, NoCall
<1> QED BY <1>3, <1>4, <1>5, <1>6, <1>7 DEF Basics

LEMMA BasicsRead ==
    ASSUME Basics, NEW p \in Sessions, NEW d, ReadsFor(p, d)
    PROVE  Basics'
<1>1. NTypeOK' BY DEF Basics, NTypeOK, ReadsFor
<1>2. DocsSound' BY DEF Basics, DocsSound, DocSound, ReadsFor
<1>3. RulesSound' BY DEF Basics, RulesSound, RuleSound, ReadsFor
<1>4. ASSUME NEW q \in Sessions PROVE CallSound(q)'
  <2>1. CASE q = p
    <3>1. /\ d \in Docs /\ FormOf[d] \in Forms /\ call'[p].doc = d /\ call'[p].phase = "read"
          /\ call'[p].now = year /\ call'[p].text = rule[FormOf[d]].text
          /\ state'[d] = "DRAFT" /\ year' = year /\ rule' = rule
          /\ call'[p].reset = (HasRule(FormOf[d]) /\ ResetDue(FormOf[d]))
      BY DEF ReadsFor
    <3>2. RuleSound(FormOf[d]) BY <3>1 DEF Basics, RulesSound
    <3>3. year \in Nat /\ year >= 1 BY DEF Basics, NTypeOK
    <3>4. rule[FormOf[d]].text = "none" => FormOf[d] \notin RuleForms /\ call'[p].reset = FALSE
      BY <3>1, <3>2, NumberingConstants DEF RuleSound, HasRule
    <3>5. rule[FormOf[d]].text # "none" =>
            FormOf[d] \in RuleForms \cup Editable /\ rule[FormOf[d]].text \in Patterns[FormOf[d]]
      BY <3>2 DEF RuleSound
    <3> QED BY <2>1, <3>1, <3>3, <3>4, <3>5 DEF CallSound
  <2>2. CASE q # p
    <3>1. CallSound(q) BY DEF Basics, CallsSound
    <3>2. call'[q] = call[q] /\ UNCHANGED <<year, state, rule>> BY <2>2 DEF ReadsFor
    <3> QED BY <3>1, <3>2 DEF CallSound
  <2> QED BY <2>1, <2>2
<1>5. OneCallEach' BY DEF Basics, OneCallEach, ReadsFor
<1> QED BY <1>1, <1>2, <1>3, <1>4, <1>5 DEF Basics, CallsSound

LEMMA BasicsCommit ==
    ASSUME Basics, NEW p \in Sessions, Commit(p)
    PROVE  Basics'
<1> DEFINE d == call[p].doc
           n == NumberFor(FormOf[call[p].doc], call[p])
<1>1. Commits(p, d, n) BY CommitEffect
<1>2. call[p].phase = "read" /\ d = call[p].doc /\ d # NoDoc
  BY <1>1, NumberingConstants DEF Commits
<1>3. /\ n.year = call[p].now /\ n.seq >= 1
      /\ call[p].text = "none" => n.text = "DOC"
      /\ call[p].text # "none" => n.text = call[p].text
  BY <1>2, NumberForFields
<1>4. call' = Overtake(p) /\ (setBack' = setBack \/ setBack' = setBack \cup {FormOf[call[p].doc]})
  BY DEF Commit
<1> HIDE DEF d, n
<1>5. /\ call' \in [Sessions -> CallType] /\ call'[p] = NoCall
      /\ \A q \in Sessions : q # p =>
            /\ call'[q].doc = call[q].doc /\ call'[q].phase = call[q].phase
            /\ call'[q].now = call[q].now /\ call'[q].text = call[q].text /\ call'[q].reset = call[q].reset
            /\ call[q].doc = NoDoc => call'[q] = call[q]
  BY <1>4, OvertakeFields DEF Basics
<1>6. CallSound(p) BY DEF Basics, CallsSound
<1>7. NTypeOK' BY <1>1, <1>2, <1>4, <1>5 DEF Basics, NTypeOK, Commits
<1>8. ASSUME NEW e \in Docs PROVE DocSound(e)'
  <2>1. CASE e = d
    <3>1. n.text \in TextsOf(FormOf[d])
      BY <1>2, <1>3, <1>6 DEF CallSound, TextsOf
    <3>2. n.year >= 1 /\ n.year <= year BY <1>2, <1>3, <1>6 DEF CallSound
    <3>3. state'[e] = "SUBMITTED" /\ number'[e] = n /\ issuedIn'[e] = year /\ year' = year
      BY <1>1, <2>1 DEF Commits
    <3>4. year \in Nat BY DEF Basics, NTypeOK
    <3> QED BY <2>1, <3>1, <3>2, <3>3, <3>4 DEF DocSound, TextsOf
  <2>2. CASE e # d
    <3>1. state'[e] = state[e] /\ number'[e] = number[e] /\ issuedIn'[e] = issuedIn[e] /\ year' = year
      BY <1>1, <2>2 DEF Commits
    <3>2. DocSound(e) BY DEF Basics, DocsSound
    <3> QED BY <3>1, <3>2 DEF DocSound, TextsOf
  <2> QED BY <2>1, <2>2
<1>9. RulesSound' BY <1>1 DEF Basics, RulesSound, RuleSound, Commits
<1>10. ASSUME NEW q \in Sessions PROVE CallSound(q)'
  <2>1. CASE q = p BY <1>5, <2>1 DEF CallSound, NoCall
  <2>2. CASE q # p
    <3>1. CallSound(q) BY DEF Basics, CallsSound
    <3>2. CASE call[q].phase = "idle"
      <4>1. call[q] = NoCall BY <3>1, <3>2 DEF CallSound
      <4>2. call[q].doc = NoDoc BY <4>1 DEF NoCall
      <4> QED BY <1>5, <2>2, <4>1, <4>2 DEF CallSound, NoCall
    <3>3. CASE call[q].phase # "idle"
      <4>1. call[q].doc \in Docs /\ FormOf[call[q].doc] \in Forms
        BY <3>1, <3>3, NumberingConstants DEF CallSound
      <4>2. call[q].doc # d BY <1>2, <2>2 DEF Basics, OneCallEach
      <4>3. state'[call[q].doc] = state[call[q].doc] BY <1>1, <4>1, <4>2 DEF Commits
      <4>4. rule'[FormOf[call[q].doc]].text = rule[FormOf[call[q].doc]].text /\ year' = year
        BY <1>1, <4>1 DEF Commits
      <4>5. /\ call'[q].doc = call[q].doc /\ call'[q].phase = call[q].phase
            /\ call'[q].now = call[q].now /\ call'[q].text = call[q].text /\ call'[q].reset = call[q].reset
        BY <1>5, <2>2
      <4> QED BY <3>1, <3>3, <4>1, <4>3, <4>4, <4>5 DEF CallSound
    <3> QED BY <3>2, <3>3
  <2> QED BY <2>1, <2>2
<1>11. OneCallEach' BY <1>5 DEF Basics, OneCallEach, NoCall
<1> QED BY <1>7, <1>8, <1>9, <1>10, <1>11 DEF Basics, CallsSound, DocsSound

LEMMA BasicsOther ==
    ASSUME Basics,
           \/ \E p \in Sessions : Collide(p) \/ GiveUp(p)
           \/ \E d \in Docs : forceDelete(d)
           \/ \E f \in Forms : \E text \in Patterns[f] : upsertNumberRule(f, text)
           \/ NewYear
           \/ UNCHANGED nvars
    PROVE  Basics'
<1> USE DEF Basics
<1>1. ASSUME NEW p \in Sessions, Collide(p) PROVE Basics'
  <2>1. /\ call' \in [Sessions -> CallType]
        /\ \A q \in Sessions : q # p => call'[q] = call[q]
        /\ call'[p].phase \in {"retry", "failed"} /\ call[p].phase = "read"
        /\ call'[p].doc = call[p].doc /\ call'[p].now = call[p].now /\ call'[p].text = call[p].text
        /\ call'[p].reset = call[p].reset
        /\ UNCHANGED <<year, state, number, issuedIn, rule, setBack>>
    BY <1>1, CollideFields DEF Collide
  <2>2. NTypeOK' BY <2>1 DEF NTypeOK
  <2>3. DocsSound' /\ RulesSound' BY <2>1 DEF DocsSound, DocSound, RulesSound, RuleSound
  <2>4. ASSUME NEW q \in Sessions PROVE CallSound(q)'
    <3>1. CallSound(q) BY DEF CallsSound
    <3>2. CASE q = p BY <2>1, <3>1, <3>2 DEF CallSound
    <3>3. CASE q # p BY <2>1, <3>1, <3>3 DEF CallSound
    <3> QED BY <3>2, <3>3
  <2>5. OneCallEach' BY <2>1 DEF OneCallEach
  <2> QED BY <2>2, <2>3, <2>4, <2>5 DEF CallsSound
<1>2. ASSUME NEW p \in Sessions, GiveUp(p) PROVE Basics'
  <2>1. /\ call' \in [Sessions -> CallType] /\ call'[p] = NoCall
        /\ \A q \in Sessions : q # p => call'[q] = call[q]
        /\ UNCHANGED <<year, state, number, issuedIn, rule, setBack>>
    BY <1>2, GiveUpFields DEF GiveUp
  <2>2. NTypeOK' BY <2>1 DEF NTypeOK
  <2>3. DocsSound' /\ RulesSound' BY <2>1 DEF DocsSound, DocSound, RulesSound, RuleSound
  <2>4. ASSUME NEW q \in Sessions PROVE CallSound(q)'
    <3>1. CallSound(q) BY DEF CallsSound
    <3>2. CASE q = p BY <2>1, <3>2 DEF CallSound, NoCall
    <3>3. CASE q # p BY <2>1, <3>1, <3>3 DEF CallSound
    <3> QED BY <3>2, <3>3
  <2>5. OneCallEach' BY <2>1 DEF OneCallEach, NoCall
  <2> QED BY <2>2, <2>3, <2>4, <2>5 DEF CallsSound
<1>3. ASSUME NEW d \in Docs, forceDelete(d) PROVE Basics'
  <2>1. /\ state' \in [Docs -> {"DRAFT", "SUBMITTED", "DELETED"}] /\ state'[d] = "DELETED"
        /\ number' \in [Docs -> NumberType] /\ number'[d] = NoNumber
        /\ issuedIn' \in [Docs -> Nat]
        /\ \A e \in Docs : e # d => state'[e] = state[e] /\ number'[e] = number[e] /\ issuedIn'[e] = issuedIn[e]
    BY <1>3, DeleteFields
  <2>2. state[d] = "SUBMITTED" /\ UNCHANGED <<year, rule, call, setBack>> BY <1>3 DEF forceDelete
  <2>3. NTypeOK' BY <2>1, <2>2 DEF NTypeOK
  <2>4. ASSUME NEW e \in Docs PROVE DocSound(e)'
    <3>1. DocSound(e) BY DEF DocsSound
    <3>2. CASE e = d BY <2>1, <3>2 DEF DocSound
    <3>3. CASE e # d BY <2>1, <2>2, <3>1, <3>3 DEF DocSound
    <3> QED BY <3>2, <3>3
  <2>5. RulesSound' /\ OneCallEach' BY <2>2 DEF RulesSound, RuleSound, OneCallEach
  <2>6. ASSUME NEW q \in Sessions PROVE CallSound(q)'
    <3>1. CallSound(q) BY DEF CallsSound
    <3> QED BY <2>1, <2>2, <3>1 DEF CallSound
  <2> QED BY <2>3, <2>4, <2>5, <2>6 DEF DocsSound, CallsSound
<1>4. ASSUME NEW f \in Forms, NEW text \in Patterns[f], upsertNumberRule(f, text) PROVE Basics'
  <2>1. /\ f \in Editable
        /\ rule' \in [Forms -> RuleType] /\ rule'[f].text = text
        /\ \A g \in Forms : g # f => rule'[g] = rule[g]
    BY <1>4, UpsertFields
  <2>2. UNCHANGED <<year, state, number, issuedIn, call, setBack>> BY <1>4 DEF upsertNumberRule
  <2>3. NTypeOK' BY <2>1, <2>2 DEF NTypeOK
  <2>4. DocsSound' /\ OneCallEach' BY <2>2 DEF DocsSound, DocSound, OneCallEach
  <2>5. ASSUME NEW g \in Forms PROVE RuleSound(g)'
    <3>1. RuleSound(g) BY DEF RulesSound
    <3>2. CASE g = f BY <2>1, <3>2 DEF RuleSound
    <3>3. CASE g # f BY <2>1, <3>1, <3>3 DEF RuleSound
    <3> QED BY <3>2, <3>3
  <2>6. ASSUME NEW q \in Sessions PROVE CallSound(q)'
    <3>1. CallSound(q) BY DEF CallsSound
    <3>2. call[q].phase # "idle" => FormOf[call[q].doc] \in Forms BY <3>1, NumberingConstants DEF CallSound
    <3>3. call[q].phase # "idle" /\ FormOf[call[q].doc] \notin Editable =>
            rule'[FormOf[call[q].doc]] = rule[FormOf[call[q].doc]]
      BY <2>1, <3>2
    <3> QED BY <2>2, <3>1, <3>2, <3>3 DEF CallSound
  <2> QED BY <2>3, <2>4, <2>5, <2>6 DEF RulesSound, CallsSound
<1>5. ASSUME NewYear PROVE Basics'
  <2>1. year \in Nat \ {0} /\ year' = year + 1 /\ UNCHANGED <<state, number, issuedIn, rule, call, setBack>>
    BY <1>5 DEF NTypeOK, NewYear
  <2>2. NTypeOK' BY <2>1 DEF NTypeOK
  <2>3. ASSUME NEW e \in Docs PROVE DocSound(e)'
    <3>1. DocSound(e) /\ issuedIn[e] \in Nat BY DEF DocsSound, NTypeOK
    <3>2. issuedIn[e] <= year => issuedIn[e] <= year + 1 BY <2>1, <3>1
    <3> QED BY <2>1, <3>1, <3>2 DEF DocSound, TextsOf
  <2>4. RulesSound' /\ OneCallEach' BY <2>1 DEF RulesSound, RuleSound, OneCallEach
  <2>5. ASSUME NEW q \in Sessions PROVE CallSound(q)'
    <3>1. CallSound(q) /\ call[q].now \in Nat BY DEF CallsSound, NTypeOK, CallType
    <3>2. call[q].now <= year => call[q].now <= year + 1 BY <2>1, <3>1
    <3> QED BY <2>1, <3>1, <3>2 DEF CallSound
  <2> QED BY <2>2, <2>3, <2>4, <2>5 DEF DocsSound, CallsSound
<1>6. ASSUME UNCHANGED nvars PROVE Basics'
  BY <1>6 DEF nvars, NTypeOK, DocsSound, DocSound, RulesSound, RuleSound, CallsSound, CallSound, OneCallEach
<1> QED BY <1>1, <1>2, <1>3, <1>4, <1>5, <1>6

\* A step reads, commits, or is one of the small ones.
LEMMA Steps ==
    ASSUME Basics, [NNext]_nvars
    PROVE  \/ \E p \in Sessions, d \in Docs : ReadsFor(p, d)
           \/ \E p \in Sessions : Commit(p)
           \/ \E p \in Sessions : Collide(p)
           \/ \E p \in Sessions : GiveUp(p)
           \/ \E d \in Docs : forceDelete(d)
           \/ \E f \in Forms : \E text \in Patterns[f] : upsertNumberRule(f, text)
           \/ NewYear
           \/ UNCHANGED nvars
<1>1. ASSUME NEW p \in Sessions, Retry(p) PROVE \E d \in Docs : ReadsFor(p, d)
  <2>1. ReadsFor(p, call[p].doc) BY <1>1, RetryReads
  <2>2. call[p].doc \in Docs BY <2>1 DEF ReadsFor
  <2> QED BY <2>1, <2>2
<1>2. ASSUME NEW p \in Sessions, NEW d \in Docs, Start(p, d) PROVE ReadsFor(p, d)
  BY <1>2, StartReads
<1> QED BY <1>1, <1>2, Zenon DEF NNext

LEMMA BasicsStep ==
    ASSUME Basics, [NNext]_nvars
    PROVE  Basics'
BY Steps, BasicsRead, BasicsCommit, BasicsOther, Zenon

-----------------------------------------------------------------------------
(* The sequence of a rule covers the numbers of the year.                  *)

LEMMA SequencesCoverStep ==
    ASSUME Basics, SequencesCover, [NNext]_nvars
    PROVE  SequencesCover'
<1>1. ASSUME UNCHANGED <<year, state, number, issuedIn, setBack>>,
             \A g \in Forms : rule'[g].seq = rule[g].seq
      PROVE  SequencesCover'
  BY <1>1, NumberingConstants DEF SequencesCover, Covered
<1>2. ASSUME NEW p \in Sessions, NEW d \in Docs, ReadsFor(p, d) PROVE SequencesCover'
  BY <1>1, <1>2 DEF ReadsFor
<1>3. ASSUME NEW p \in Sessions, Commit(p) PROVE SequencesCover'
  <2> DEFINE d == call[p].doc
             f == FormOf[call[p].doc]
             n == NumberFor(FormOf[call[p].doc], call[p])
  <2>1. Commits(p, d, n) BY <1>3, CommitEffect
  <2>2. /\ f \in Forms /\ n.seq \in Nat
        /\ call[p].text = "none" => n.text = "DOC"
        /\ call[p].text # "none" =>
              /\ call[p].reset = TRUE => n.seq = 1
              /\ call[p].reset = FALSE => n.seq = rule[f].seq + 1
    BY <2>1, NumberForFields DEF Commits, NumberType
  <2>3. setBack' = IF ResetsLate(p) THEN setBack \cup {f} ELSE setBack
    BY <1>3 DEF Commit
  <2>4. CallSound(p) BY DEF Basics, CallsSound
  <2>5. call[p].reset \in BOOLEAN /\ call[p].now \in Nat /\ rule[f].seq \in Nat /\ year \in Nat
    BY <2>2 DEF Basics, NTypeOK, CallType, RuleType
  <2>6. ASSUME NEW e \in Docs PROVE Covered(e)'
    <3>1. CASE e = d
      <4>1. number'[e] = n /\ FormOf[e] = f BY <2>1, <3>1 DEF Commits
      <4>2. call[p].text # "none" => rule'[f].seq = n.seq BY <2>1 DEF Commits
      <4>3. call[p].text = "none" => f \notin RuleForms
        BY <2>1, <2>4 DEF CallSound, Commits
      <4> QED BY <2>2, <4>1, <4>2, <4>3 DEF Covered
    <3>2. CASE e # d
      <4>1. /\ state'[e] = state[e] /\ number'[e] = number[e] /\ issuedIn'[e] = issuedIn[e]
            /\ year' = year /\ FormOf[e] \in Forms
        BY <2>1, <3>2, NumberingConstants DEF Commits
      <4>2. number[e].seq \in Nat BY DEF Basics, NTypeOK, NumberType
      <4>3. Covered(e) BY DEF SequencesCover
      <4>4. CASE FormOf[e] # f \/ call[p].text = "none"
        <5>1. rule'[FormOf[e]].seq = rule[FormOf[e]].seq BY <2>1, <4>1, <4>4 DEF Commits
        <5> QED BY <2>3, <4>1, <4>3, <5>1 DEF Covered
      <4>5. CASE FormOf[e] = f /\ call[p].text # "none"
        <5>1. rule'[f].seq = n.seq BY <2>1, <4>5 DEF Commits
        <5>2. CASE call[p].reset = FALSE
          <6>1. rule'[f].seq = rule[f].seq + 1 BY <2>2, <4>5, <5>1, <5>2
          <6>2. number[e].seq <= rule[f].seq => number[e].seq <= rule'[f].seq
            BY <2>5, <4>2, <6>1
          <6> QED BY <2>3, <4>1, <4>3, <4>5, <6>2 DEF Covered
        <5>3. CASE call[p].reset = TRUE
          \* The reset was due when it was read; were it late, f would be in setBack'.
          <6>1. call[p].now <= year BY <2>1, <2>4 DEF CallSound, Commits
          <6>2. state[e] = "SUBMITTED" /\ issuedIn[e] = year => ResetsLate(p)
            BY <2>5, <4>5, <5>3, <6>1 DEF ResetsLate, IssuedThisYear
          <6> QED BY <2>3, <4>1, <4>5, <6>2 DEF Covered
        <5> QED BY <2>5, <5>2, <5>3
      <4> QED BY <4>4, <4>5
    <3> QED BY <3>1, <3>2
  <2> QED BY <2>6 DEF SequencesCover
<1>4. ASSUME NEW p \in Sessions, Collide(p) \/ GiveUp(p) PROVE SequencesCover'
  BY <1>1, <1>4 DEF Collide, GiveUp
<1>5. ASSUME NEW d \in Docs, forceDelete(d) PROVE SequencesCover'
  <2>1. /\ state'[d] = "DELETED"
        /\ \A e \in Docs : e # d => state'[e] = state[e] /\ number'[e] = number[e] /\ issuedIn'[e] = issuedIn[e]
        /\ UNCHANGED <<year, rule, setBack>>
    BY <1>5, DeleteFields DEF Basics, forceDelete
  <2> QED BY <2>1 DEF SequencesCover, Covered
<1>6. ASSUME NEW f \in Forms, NEW text \in Patterns[f], upsertNumberRule(f, text) PROVE SequencesCover'
  <2>1. \A g \in Forms : rule'[g].seq = rule[g].seq BY <1>6, UpsertFields DEF Basics
  <2> QED BY <1>1, <1>6, <2>1 DEF upsertNumberRule
<1>7. ASSUME NewYear PROVE SequencesCover'
  <2>1. \A e \in Docs : state[e] = "SUBMITTED" => issuedIn[e] # year + 1
    BY DEF Basics, NTypeOK, DocsSound, DocSound
  <2> QED BY <1>7, <2>1 DEF NewYear, SequencesCover, Covered
<1>8. CASE UNCHANGED nvars BY <1>1, <1>8 DEF nvars
<1> QED BY <1>2, <1>3, <1>4, <1>5, <1>6, <1>7, <1>8, Steps, Zenon

-----------------------------------------------------------------------------
(* Rules that nobody disturbs, in the first year.                          *)

\* Deletion is for good.
LEMMA WholeBefore ==
    ASSUME Basics, [NNext]_nvars, NEW f, Whole(f)'
    PROVE  Whole(f)
<1> SUFFICES ASSUME NEW d \in Docs, state[d] = "DELETED" PROVE state'[d] = "DELETED"
  BY DEF Whole
<1>1. CASE \E p \in Sessions, e \in Docs : ReadsFor(p, e) BY <1>1 DEF ReadsFor
<1>2. ASSUME NEW p \in Sessions, Commit(p) PROVE state'[d] = "DELETED"
  <2>1. Commits(p, call[p].doc, NumberFor(FormOf[call[p].doc], call[p])) BY <1>2, CommitEffect
  <2>2. d # call[p].doc BY <2>1 DEF Commits
  <2> QED BY <2>1, <2>2 DEF Commits
<1>3. ASSUME NEW e \in Docs, forceDelete(e) PROVE state'[d] = "DELETED"
  BY <1>3, DeleteFields DEF Basics
<1>4. CASE \/ \E p \in Sessions : Collide(p)
           \/ \E p \in Sessions : GiveUp(p)
           \/ \E g \in Forms : \E text \in Patterns[g] : upsertNumberRule(g, text)
           \/ NewYear
           \/ UNCHANGED nvars
  BY <1>4 DEF Collide, GiveUp, upsertNumberRule, NewYear, nvars
<1> QED BY <1>1, <1>2, <1>3, <1>4, Steps, Zenon

\* A rule that has numbered finds its own documents: no reset is due.
LEMMA NoResetDue ==
    ASSUME Basics, year = 1, NEW f \in Forms, Gapless(f)
    PROVE  ~ResetDue(f)
<1>1. rule[f].seq \in Nat BY DEF Basics, NTypeOK, RuleType
<1>2. SUFFICES ASSUME rule[f].seq > 0 PROVE IssuedThisYear(f, 1)
  BY DEF ResetDue
<1>3. 1 \in Nat /\ 1 >= 1 /\ 1 <= rule[f].seq BY <1>1, <1>2
<1>4. PICK d \in Docs : FormOf[d] = f /\ number[d].seq = 1
  BY <1>3 DEF Gapless
<1>5. state[d] = "SUBMITTED"
  BY <1>4 DEF Basics, DocsSound, DocSound, NoNumber
<1>6. number[d].year >= 1 /\ number[d].year <= issuedIn[d]
  BY <1>5 DEF Basics, DocsSound, DocSound
<1>7. number[d].year \in Nat /\ issuedIn[d] \in Nat BY DEF Basics, NTypeOK, NumberType
<1>8. issuedIn[d] >= 1 BY <1>6, <1>7
<1> QED BY <1>4, <1>5, <1>8 DEF IssuedThisYear

LEMMA RuleGaplessStep ==
    ASSUME Basics, RuleGapless, [NNext]_nvars
    PROVE  RuleGapless'
<1> SUFFICES ASSUME year' = 1, NEW f \in Forms, Undisturbed(f)'
             PROVE  Gapless(f)'
  BY DEF RuleGapless
<1>0. f \in RuleForms /\ Whole(f) /\ Whole(f)' /\ rule[f].text \in Patterns[f] /\ rule[f].text # "none"
  BY WholeBefore, NumberingConstants DEF Undisturbed, Basics, RulesSound, RuleSound
<1>y. year \in Nat \ {0} /\ (year' = year \/ year' = year + 1)
  BY DEF Basics, NTypeOK, NNext, nvars, NewYear, Commit, Collide, Retry, GiveUp, Start, forceDelete, upsertNumberRule
<1>1. year = 1 /\ year' = year BY <1>y
<1>2. Gapless(f) BY <1>0, <1>1 DEF RuleGapless, Undisturbed
<1>3. ASSUME rule'[f].seq = rule[f].seq, rule'[f].text = rule[f].text \/ f \in Editable,
             UNCHANGED <<state, number>>,
             \A p \in Sessions : call'[p].doc \in Docs /\ FormOf[call'[p].doc] = f => call'[p].reset = FALSE
      PROVE  Gapless(f)'
  BY <1>2, <1>3 DEF Gapless
<1>4. ASSUME NEW p \in Sessions, NEW d \in Docs, ReadsFor(p, d) PROVE Gapless(f)'
  <2>1. /\ UNCHANGED <<state, number, rule>>
        /\ call'[p].doc = d /\ call'[p].reset = (HasRule(FormOf[d]) /\ ResetDue(FormOf[d]))
        /\ \A q \in Sessions : q # p => call'[q] = call[q]
    BY <1>4 DEF ReadsFor
  <2>2. ~ResetDue(f) BY <1>1, <1>2, NoResetDue
  <2>3. ASSUME NEW q \in Sessions, call'[q].doc \in Docs, FormOf[call'[q].doc] = f
        PROVE  call'[q].reset = FALSE
    <3>1. CASE q = p BY <2>1, <2>2, <2>3, <3>1
    <3>2. CASE q # p BY <1>2, <2>1, <2>3, <3>2 DEF Gapless
    <3> QED BY <3>1, <3>2
  <2> QED BY <1>3, <2>1, <2>3
<1>5. ASSUME NEW p \in Sessions, Commit(p) PROVE Gapless(f)'
  <2> DEFINE d == call[p].doc
             n == NumberFor(FormOf[call[p].doc], call[p])
  <2>1. Commits(p, d, n) BY <1>5, CommitEffect
  <2>2. /\ call'[p] = NoCall
        /\ \A q \in Sessions : q # p => call'[q].doc = call[q].doc /\ call'[q].reset = call[q].reset
    BY <1>5, OvertakeFields DEF Commit, Basics
  <2>3. call[p].text # "none" =>
              /\ n.text = call[p].text
              /\ call[p].reset = FALSE => n.seq = rule[FormOf[d]].seq + 1
    BY <2>1, NumberForFields DEF Commits
  <2>4. CallSound(p) /\ call[p].phase = "read" BY <2>1 DEF Basics, CallsSound, Commits
  <2>5. \A q \in Sessions : call'[q].doc \in Docs /\ FormOf[call'[q].doc] = f => call'[q].reset = FALSE
    BY <1>2, <2>2 DEF Gapless, NoCall
  <2>6. /\ d \in Docs /\ number[d] = NoNumber /\ number'[d] = n /\ FormOf[d] \in Forms
        /\ \A e \in Docs : e # d => state'[e] = state[e] /\ number'[e] = number[e]
        /\ rule'[f].text = rule[f].text
    BY <2>1 DEF Commits
  <2>7. rule[f].seq \in Nat /\ \A e \in Docs : number[e].seq \in Nat
    BY DEF Basics, NTypeOK, RuleType, NumberType
  <2>n. NoNumber.seq = 0 BY DEF NoNumber
  <2> HIDE DEF d, n
  <2>8. CASE FormOf[d] # f
    <3>1. rule'[f].seq = rule[f].seq BY <2>1, <2>8 DEF Commits
    <3>2. ASSUME NEW k \in Nat, k >= 1, k <= rule[f].seq
          PROVE  \E e \in Docs : FormOf[e] = f /\ number'[e].seq = k
      <4>1. PICK e \in Docs : FormOf[e] = f /\ number[e].seq = k BY <1>2, <3>2 DEF Gapless
      <4> QED BY <2>6, <2>8, <4>1
    <3>3. \A e \in Docs : FormOf[e] = f /\ state'[e] = "SUBMITTED" =>
              number'[e].seq <= rule[f].seq /\ (f \notin Editable => number'[e].text = rule[f].text)
      BY <1>2, <2>6, <2>8 DEF Gapless
    <3> QED BY <2>5, <2>6, <3>1, <3>2, <3>3 DEF Gapless
  <2>9. CASE FormOf[d] = f
    <3>1. call[p].text # "none" /\ (f \notin Editable => call[p].text = rule[f].text)
      BY <1>0, <2>4, <2>9 DEF CallSound, d
    <3>2. call[p].reset = FALSE BY <1>2, <2>6, <2>9 DEF Gapless, d
    <3>3. n.seq = rule[f].seq + 1 /\ (f \notin Editable => n.text = rule[f].text)
      BY <2>3, <2>9, <3>1, <3>2
    <3>4. rule'[f].seq = rule[f].seq + 1 BY <2>1, <2>9, <3>1, <3>3 DEF Commits
    <3>5. ASSUME NEW k \in Nat, k >= 1, k <= rule[f].seq + 1
          PROVE  \E e \in Docs : FormOf[e] = f /\ number'[e].seq = k
      <4>1. CASE k = rule[f].seq + 1 BY <2>6, <2>9, <3>3, <4>1
      <4>2. CASE k <= rule[f].seq
        <5>1. PICK e \in Docs : FormOf[e] = f /\ number[e].seq = k BY <1>2, <3>5, <4>2 DEF Gapless
        <5>2. e # d BY <2>6, <2>n, <3>5, <5>1
        <5> QED BY <2>6, <5>1, <5>2
      <4> QED BY <2>7, <3>5, <4>1, <4>2
    <3>6. ASSUME NEW e \in Docs, FormOf[e] = f, state'[e] = "SUBMITTED"
          PROVE  number'[e].seq <= rule[f].seq + 1 /\ (f \notin Editable => number'[e].text = rule[f].text)
      <4>1. CASE e = d BY <2>6, <2>7, <3>3, <4>1
      <4>2. CASE e # d
        <5>1. /\ number'[e] = number[e] /\ number[e].seq <= rule[f].seq
              /\ f \notin Editable => number[e].text = rule[f].text
          BY <1>2, <2>6, <3>6, <4>2 DEF Gapless
        <5> QED BY <2>7, <5>1
      <4> QED BY <4>1, <4>2
    <3> QED BY <2>5, <2>6, <3>4, <3>5, <3>6 DEF Gapless
  <2> QED BY <2>8, <2>9
<1>6. ASSUME NEW p \in Sessions, Collide(p) PROVE Gapless(f)'
  <2>1. /\ \A q \in Sessions : q # p => call'[q] = call[q]
        /\ call'[p].doc = call[p].doc /\ call'[p].reset = call[p].reset
        /\ UNCHANGED <<state, number, rule>>
    BY <1>6, CollideFields DEF Collide, Basics
  <2>2. \A q \in Sessions : call'[q].doc = call[q].doc /\ call'[q].reset = call[q].reset BY <2>1
  <2> QED BY <1>2, <1>3, <2>1, <2>2 DEF Gapless
<1>7. ASSUME NEW p \in Sessions, GiveUp(p) PROVE Gapless(f)'
  <2>1. /\ \A q \in Sessions : q # p => call'[q] = call[q]
        /\ call'[p] = NoCall
        /\ UNCHANGED <<state, number, rule>>
    BY <1>7, GiveUpFields DEF GiveUp, Basics
  <2>2. NoCall.reset = FALSE BY DEF NoCall
  <2> QED BY <1>2, <1>3, <2>1, <2>2 DEF Gapless
<1>8. ASSUME NEW d \in Docs, forceDelete(d) PROVE Gapless(f)'
  <2>1. /\ state'[d] = "DELETED"
        /\ \A e \in Docs : e # d => state'[e] = state[e] /\ number'[e] = number[e]
        /\ UNCHANGED <<rule, call>>
    BY <1>8, DeleteFields DEF Basics, forceDelete
  <2>2. FormOf[d] # f BY <1>0, <2>1 DEF Whole
  <2>3. ASSUME NEW k \in Nat, k >= 1, k <= rule[f].seq
        PROVE  \E e \in Docs : FormOf[e] = f /\ number'[e].seq = k
    <3>1. PICK e \in Docs : FormOf[e] = f /\ number[e].seq = k BY <1>2, <2>3 DEF Gapless
    <3> QED BY <2>1, <2>2, <3>1
  <2>4. \A e \in Docs : FormOf[e] = f /\ state'[e] = "SUBMITTED" =>
            number'[e].seq <= rule[f].seq /\ (f \notin Editable => number'[e].text = rule[f].text)
    BY <1>2, <2>1, <2>2 DEF Gapless
  <2> QED BY <1>2, <2>1, <2>3, <2>4 DEF Gapless
<1>9. ASSUME NEW g \in Forms, NEW text \in Patterns[g], upsertNumberRule(g, text) PROVE Gapless(f)'
  <2>1. rule'[f].seq = rule[f].seq /\ (rule'[f].text = rule[f].text \/ f \in Editable)
    BY <1>9, UpsertFields DEF Basics
  <2> QED BY <1>2, <1>3, <1>9, <2>1 DEF upsertNumberRule, Gapless
<1>10. ASSUME NewYear PROVE Gapless(f)'
  BY <1>1, <1>10 DEF NewYear
<1>11. CASE UNCHANGED nvars BY <1>2, <1>3, <1>11 DEF nvars, Gapless
<1> QED BY <1>4, <1>5, <1>6, <1>7, <1>8, <1>9, <1>10, <1>11, Steps, Zenon

-----------------------------------------------------------------------------
(* Counted numbers.                                                        *)

LEMMA CountedFinite ==
    ASSUME NEW y
    PROVE  IsFiniteSet(Counted(y)) /\ Cardinality(Counted(y)) \in Nat
<1>1. Counted(y) \subseteq Docs BY DEF Counted
<1>2. IsFiniteSet(Counted(y)) BY <1>1, NumberingConstants, FS_Subset
<1> QED BY <1>2, FS_CardinalityType

\* In the first year all numbers are of that year.
LEMMA YearOne ==
    ASSUME Basics, year = 1, NEW d \in Docs, state[d] = "SUBMITTED"
    PROVE  number[d].year = 1
<1>1. number[d].year >= 1 /\ number[d].year <= issuedIn[d] /\ issuedIn[d] <= 1
  BY DEF Basics, DocsSound, DocSound
<1>2. number[d].year \in Nat /\ issuedIn[d] \in Nat BY DEF Basics, NTypeOK, NumberType
<1> QED BY <1>1, <1>2

\* What a company counts are some of the documents so numbered.
LEMMA CountNotAbove ==
    ASSUME NEW c, NEW y
    PROVE  Cardinality(DefaultNumbered(c, y)) <= Cardinality(Counted(y))
<1>1. DefaultNumbered(c, y) \subseteq Counted(y) BY DEF DefaultNumbered, Counted
<1> QED BY <1>1, CountedFinite, FS_Subset

\* Numbers and counts stay as they are when no document is added or deleted.
LEMMA CountKeptRead ==
    ASSUME Basics, NEW y \in Nat, CountKept(y),
           NEW p \in Sessions, NEW d, ReadsFor(p, d)
    PROVE  CountKept(y)'
<1>1. Counted(y)' = Counted(y) BY DEF Counted, ReadsFor
<1>2. \A e \in Counted(y) : number'[e] = number[e] BY DEF ReadsFor
<1>3. ASSUME NEW q \in Sessions, call'[q].phase = "read", call'[q].text = "none", call'[q].now = y
      PROVE  call'[q].count <= Cardinality(Counted(y))
  <2>1. CASE q = p
    <3>1. year = y BY <1>3, <2>1 DEF ReadsFor
    <3> QED BY <2>1, <3>1, CountNotAbove DEF ReadsFor
  <2>2. CASE q # p
    BY <1>3, <2>2 DEF ReadsFor, CountKept
  <2> QED BY <2>1, <2>2
<1> QED BY <1>1, <1>2, <1>3 DEF CountKept

LEMMA CountKeptOther ==
    ASSUME Basics, NEW y \in Nat, CountKept(y),
           \/ \E p \in Sessions : Collide(p) \/ GiveUp(p)
           \/ \E d \in Docs : forceDelete(d) /\ "DOC" \notin TextsOf(FormOf[d])
           \/ \E f \in Forms : \E text \in Patterns[f] : upsertNumberRule(f, text)
           \/ NewYear
           \/ UNCHANGED nvars
    PROVE  CountKept(y)' /\ Counted(y)' = Counted(y) /\ \A e \in Counted(y) : number'[e] = number[e]
<1>1. CASE \/ \E f \in Forms : \E text \in Patterns[f] : upsertNumberRule(f, text)
           \/ NewYear
           \/ UNCHANGED nvars
  <2>1. UNCHANGED <<number, call>> BY <1>1 DEF upsertNumberRule, NewYear, nvars
  <2> QED BY <2>1 DEF CountKept, Counted
<1>2. ASSUME NEW p \in Sessions, Collide(p) \/ GiveUp(p)
      PROVE  CountKept(y)' /\ Counted(y)' = Counted(y) /\ \A e \in Counted(y) : number'[e] = number[e]
  <2>1. /\ call'[p].phase # "read" /\ number' = number
        /\ \A q \in Sessions : q # p => call'[q] = call[q]
    BY <1>2, CollideFields, GiveUpFields DEF Basics, Collide, GiveUp, NoCall
  <2> QED BY <2>1 DEF CountKept, Counted
<1>3. ASSUME NEW d \in Docs, forceDelete(d), "DOC" \notin TextsOf(FormOf[d])
      PROVE  CountKept(y)' /\ Counted(y)' = Counted(y) /\ \A e \in Counted(y) : number'[e] = number[e]
  <2>1. /\ number'[d] = NoNumber /\ call' = call
        /\ \A e \in Docs : e # d => number'[e] = number[e]
        /\ state[d] = "SUBMITTED"
    BY <1>3, DeleteFields DEF Basics, forceDelete
  <2>2. number[d].text # "DOC" BY <1>3, <2>1 DEF Basics, DocsSound, DocSound
  <2>3. NoNumber.text # "DOC" BY DEF NoNumber
  <2>4. Counted(y)' = Counted(y) BY <2>1, <2>2, <2>3 DEF Counted
  <2>5. \A e \in Counted(y) : number'[e] = number[e] BY <2>1, <2>2 DEF Counted
  <2> QED BY <2>1, <2>4, <2>5 DEF CountKept
<1> QED BY <1>1, <1>2, <1>3, Zenon

LEMMA CommitCounts ==
    ASSUME Basics, NEW p \in Sessions, NEW d, NEW n, Commits(p, d, n), call' = Overtake(p),
           NEW y \in Nat, CountKept(y),
           n.text = "DOC" /\ n.year = y => n.seq <= Cardinality(Counted(y)) + 1
    PROVE  /\ CountKept(y)'
           /\ n.text = "DOC" /\ n.year = y => Cardinality(Counted(y)') = Cardinality(Counted(y)) + 1
           /\ ~(n.text = "DOC" /\ n.year = y) => Counted(y)' = Counted(y)
           /\ d \notin Counted(y) /\ \A e \in Counted(y) : number'[e] = number[e]
<1>1. /\ d \in Docs /\ number'[d] = n
      /\ \A e \in Docs : e # d => number'[e] = number[e]
  BY DEF Commits
<1>2. d \notin Counted(y) BY DEF Commits, Counted, NoNumber
<1>3. \A e \in Counted(y) : number'[e] = number[e] BY <1>1, <1>2 DEF Counted
<1>4. n.text = "DOC" /\ n.year = y => Counted(y)' = Counted(y) \cup {d}
  BY <1>1 DEF Counted
<1>5. ~(n.text = "DOC" /\ n.year = y) => Counted(y)' = Counted(y)
  BY <1>1, <1>2 DEF Counted
<1>6. n.text = "DOC" /\ n.year = y => Cardinality(Counted(y)') = Cardinality(Counted(y)) + 1
  BY <1>2, <1>4, CountedFinite, FS_AddElement
<1>7. Cardinality(Counted(y)) \in Nat BY CountedFinite
<1>8. /\ Cardinality(Counted(y)') \in Nat
      /\ Cardinality(Counted(y)) <= Cardinality(Counted(y)')
  BY <1>5, <1>6, <1>7
<1>9. n.seq \in Nat /\ number \in [Docs -> NumberType] BY DEF Commits, NumberType, Basics, NTypeOK
<1>10. ASSUME NEW e \in Counted(y)' PROVE number'[e].seq <= Cardinality(Counted(y)')
  <2>1. CASE e = d
    <3>1. number'[d].text = "DOC" /\ number'[d].year = y BY <2>1 DEF Counted
    <3> QED BY <1>1, <1>6, <2>1, <3>1
  <2>2. CASE e # d
    <3>1. e \in Counted(y) BY <1>4, <1>5, <2>2
    <3>2. number'[e] = number[e] /\ number[e].seq <= Cardinality(Counted(y)) BY <1>3, <3>1 DEF CountKept
    <3>3. number[e].seq \in Nat BY <1>9, <3>1 DEF Counted, NumberType
    <3> QED BY <1>7, <1>8, <3>2, <3>3
  <2> QED BY <2>1, <2>2
<1>11. ASSUME NEW q \in Sessions, call'[q].phase = "read", call'[q].text = "none", call'[q].now = y
       PROVE  call'[q].count <= Cardinality(Counted(y)')
  <2>1. q # p BY <1>11, OvertakeFields DEF Basics, NoCall
  <2>2. /\ call[q].phase = "read" /\ call[q].text = "none" /\ call[q].now = y
        /\ call'[q].count = call[q].count
    BY <1>11, <2>1, OvertakeFields DEF Basics
  <2>3. call[q].count <= Cardinality(Counted(y)) /\ call[q].count \in Nat
    BY <2>2 DEF CountKept, Basics, NTypeOK, CallType
  <2> QED BY <1>7, <1>8, <2>2, <2>3
<1> QED BY <1>2, <1>3, <1>5, <1>6, <1>10, <1>11 DEF CountKept

LEMMA CountCoversStep ==
    ASSUME Basics, CountCovers, [NNext]_nvars
    PROVE  CountCovers'
<1> SUFFICES ASSUME CountsSafely, NEW y \in Nat PROVE CountKept(y)'
  BY DEF CountCovers
<1>1. CountKept(y) BY DEF CountCovers
<1>2. ASSUME NEW p \in Sessions, NEW d \in Docs, ReadsFor(p, d) PROVE CountKept(y)'
  BY <1>1, <1>2, CountKeptRead
<1>3. ASSUME NEW p \in Sessions, Commit(p) PROVE CountKept(y)'
  <2> DEFINE d == call[p].doc
             n == NumberFor(FormOf[call[p].doc], call[p])
  <2>1. Commits(p, d, n) BY <1>3, CommitEffect
  <2>2. call' = Overtake(p) BY <1>3 DEF Commit
  <2>3. call[p].phase = "read" /\ CallSound(p) BY <2>1 DEF Commits, Basics, CallsSound
  <2>4. /\ n.year = call[p].now
        /\ call[p].text = "none" => n.seq = call[p].count + 1
        /\ call[p].text # "none" => n.text = call[p].text
    BY <2>3, NumberForFields
  <2>5. ASSUME n.text = "DOC", n.year = y PROVE n.seq <= Cardinality(Counted(y)) + 1
    <3>1. call[p].text = "none" BY <2>3, <2>4, <2>5 DEF CallSound, CountsSafely
    <3>2. call[p].count <= Cardinality(Counted(y)) BY <1>1, <2>3, <2>4, <2>5, <3>1 DEF CountKept
    <3>3. call[p].count \in Nat BY DEF Basics, NTypeOK, CallType
    <3> QED BY <2>4, <3>1, <3>2, <3>3, CountedFinite
  <2> HIDE DEF d, n
  <2> QED BY <1>1, <2>1, <2>2, <2>5, CommitCounts
<1>4. ASSUME NEW d \in Docs, forceDelete(d) PROVE CountKept(y)'
  <2>1. FormOf[d] \in Deletable BY <1>4 DEF forceDelete
  <2>2. "DOC" \notin TextsOf(FormOf[d]) BY <2>1 DEF CountsSafely, TextsOf
  <2> QED BY <1>1, <1>4, <2>2, CountKeptOther
<1>5. ASSUME \/ \E p \in Sessions : Collide(p)
             \/ \E p \in Sessions : GiveUp(p)
             \/ \E f \in Forms : \E text \in Patterns[f] : upsertNumberRule(f, text)
             \/ NewYear
             \/ UNCHANGED nvars
      PROVE  CountKept(y)'
  <2>1. \/ \E p \in Sessions : Collide(p) \/ GiveUp(p)
        \/ \E f \in Forms : \E text \in Patterns[f] : upsertNumberRule(f, text)
        \/ NewYear
        \/ UNCHANGED nvars
    BY <1>5, Zenon
  <2> QED BY <1>1, <2>1, CountKeptOther, Zenon
<1> QED BY <1>2, <1>3, <1>4, <1>5, Steps, Zenon

LEMMA CountGaplessStep ==
    ASSUME Basics, RuleGapless, CountGapless, [NNext]_nvars
    PROVE  CountGapless'
<1> DEFINE InUse(k) == \E d \in Docs : number[d] = [text |-> "DOC", year |-> 1, seq |-> k]
           Full == \A k \in Nat : k >= 1 /\ k <= Cardinality(Counted(1)) => InUse(k)
<1> SUFFICES ASSUME year' = 1, CountUndisturbed' PROVE CountKept(1)' /\ Full'
  BY DEF CountGapless
<1>w. /\ \A g \in Forms : "DOC" \in TextsOf(g) => Whole(g)' /\ Whole(g) /\ g \notin Editable
      /\ CountUndisturbed
  BY WholeBefore DEF CountUndisturbed, TextsOf
<1>y. year \in Nat \ {0} /\ (year' = year \/ year' = year + 1)
  BY DEF Basics, NTypeOK, NNext, nvars, NewYear, Commit, Collide, Retry, GiveUp, Start, forceDelete, upsertNumberRule
<1>1. year = 1 /\ CountKept(1) /\ Full BY <1>w, <1>y DEF CountGapless
<1>u. ASSUME NEW k \in Nat, InUse(k) PROVE \E d \in Counted(1) : number[d] = [text |-> "DOC", year |-> 1, seq |-> k]
  BY <1>u DEF Counted
<1>2. ASSUME CountKept(1)', Counted(1)' = Counted(1), \A e \in Counted(1) : number'[e] = number[e]
      PROVE  CountKept(1)' /\ Full'
  <2>1. ASSUME NEW k \in Nat, k >= 1, k <= Cardinality(Counted(1)) PROVE InUse(k)'
    <3>1. PICK d \in Counted(1) : number[d] = [text |-> "DOC", year |-> 1, seq |-> k]
      BY <1>1, <1>u, <2>1
    <3>2. d \in Docs BY DEF Counted
    <3> QED BY <1>2, <3>1, <3>2
  <2> HIDE DEF InUse
  <2> QED BY <1>2, <2>1
<1>3. ASSUME NEW p \in Sessions, NEW d \in Docs, ReadsFor(p, d) PROVE CountKept(1)' /\ Full'
  <2>1. CountKept(1)' BY <1>1, <1>3, CountKeptRead
  <2>2. number' = number BY <1>3 DEF ReadsFor
  <2>3. Counted(1)' = Counted(1) BY <2>2 DEF Counted
  <2> QED BY <1>2, <2>1, <2>2, <2>3
<1>4. ASSUME NEW p \in Sessions, Commit(p) PROVE CountKept(1)' /\ Full'
  <2> DEFINE d == call[p].doc
             f == FormOf[call[p].doc]
             n == NumberFor(FormOf[call[p].doc], call[p])
             N == Cardinality(Counted(1))
  <2>1. Commits(p, d, n) BY <1>4, CommitEffect
  <2>2. call' = Overtake(p) BY <1>4 DEF Commit
  <2>3. call[p].phase = "read" /\ CallSound(p) /\ d \in Docs /\ f \in Forms /\ ~Taken(n) /\ n \in NumberType
    BY <2>1 DEF Commits, Basics, CallsSound
  <2>4. /\ n.year = call[p].now /\ n.seq >= 1
        /\ call[p].text = "none" => n.seq = call[p].count + 1
        /\ call[p].text # "none" => n.text = call[p].text /\ (call[p].reset = FALSE => n.seq = rule[f].seq + 1)
    BY <2>3, NumberForFields
  <2>N. N \in Nat /\ n.seq \in Nat BY <2>3, CountedFinite DEF NumberType
  <2>5. ASSUME n.text = "DOC", n.year = 1 PROVE n.seq <= N + 1
    <3>1. CASE call[p].text = "none"
      <4>1. call[p].count <= N BY <1>1, <2>3, <2>4, <2>5, <3>1 DEF CountKept
      <4>2. call[p].count \in Nat BY DEF Basics, NTypeOK, CallType
      <4> QED BY <2>4, <2>N, <3>1, <4>1, <4>2
    <3>2. CASE call[p].text # "none"
      <4>1. /\ call[p].text = "DOC" /\ "DOC" \in Patterns[f] /\ f \in RuleForms \cup Editable
        BY <2>3, <2>4, <2>5, <3>2 DEF CallSound
      <4>2. Whole(f) /\ f \notin Editable /\ f \in RuleForms
        BY <1>w, <2>3, <4>1 DEF TextsOf
      <4>3. Gapless(f) BY <1>1, <2>3, <4>2 DEF RuleGapless, Undisturbed
      <4>4. rule[f].text = "DOC" BY <2>3, <4>1, <4>2 DEF CallSound
      <4>5. call[p].reset = FALSE BY <2>3, <4>3 DEF Gapless
      <4>6. rule[f].seq \in Nat BY <2>3 DEF Basics, NTypeOK, RuleType
      <4>7. rule[f].seq <= N
        <5>1. CASE rule[f].seq = 0 BY <2>N, <5>1
        <5>2. CASE rule[f].seq >= 1
          <6>1. PICK e \in Docs : FormOf[e] = f /\ number[e].seq = rule[f].seq
            BY <4>3, <4>6, <5>2 DEF Gapless
          <6>2. state[e] = "SUBMITTED" BY <5>2, <6>1 DEF Basics, DocsSound, DocSound, NoNumber
          <6>3. number[e].text = "DOC" BY <4>2, <4>3, <4>4, <6>1, <6>2 DEF Gapless
          <6>4. number[e].year = 1 BY <1>1, <6>2, YearOne
          <6>5. e \in Counted(1) BY <6>3, <6>4 DEF Counted
          <6> QED BY <1>1, <6>1, <6>5 DEF CountKept
        <5> QED BY <4>6, <5>1, <5>2
      <4> QED BY <2>4, <2>N, <3>2, <4>5, <4>6, <4>7
    <3> QED BY <3>1, <3>2
  <2>6. /\ CountKept(1)'
        /\ n.text = "DOC" /\ n.year = 1 => Cardinality(Counted(1)') = N + 1
        /\ ~(n.text = "DOC" /\ n.year = 1) => Counted(1)' = Counted(1)
        /\ \A e \in Counted(1) : number'[e] = number[e]
    <3> HIDE DEF d, f, n
    <3> QED BY <1>1, <2>1, <2>2, <2>5, CommitCounts
  <2>7. CASE ~(n.text = "DOC" /\ n.year = 1) BY <1>2, <2>6, <2>7
  <2>8. CASE n.text = "DOC" /\ n.year = 1
    \* Not above N + 1, and none of 1 to N, which are in use.
    <3>1. n.seq = N + 1
      <4>1. SUFFICES ASSUME n.seq <= N PROVE FALSE BY <2>5, <2>8, <2>N
      <4>2. InUse(n.seq) BY <1>1, <2>4, <2>N, <4>1
      <4>3. PICK e \in Docs : number[e] = [text |-> "DOC", year |-> 1, seq |-> n.seq] BY <4>2
      <4>4. number[e] = n BY <2>3, <2>8, <4>3 DEF NumberType
      <4>5. state[e] = "SUBMITTED" BY <4>3 DEF Basics, DocsSound, DocSound, NoNumber
      <4> QED BY <2>3, <4>4, <4>5 DEF Taken
    <3>2. n = [text |-> "DOC", year |-> 1, seq |-> N + 1] BY <2>3, <2>8, <3>1 DEF NumberType
    <3>3. number'[d] = n BY <2>1 DEF Commits
    <3>4. ASSUME NEW k \in Nat, k >= 1, k <= N + 1 PROVE InUse(k)'
      <4>1. CASE k = N + 1
        <5> HIDE DEF d, n, N
        <5> QED BY <2>3, <3>2, <3>3, <4>1
      <4>2. CASE k <= N
        <5>1. PICK e \in Counted(1) : number[e] = [text |-> "DOC", year |-> 1, seq |-> k]
          BY <1>1, <1>u, <3>4, <4>2
        <5>2. e \in Docs BY DEF Counted
        <5> QED BY <2>6, <5>1, <5>2
      <4> QED BY <2>N, <3>4, <4>1, <4>2
    <3>5. Cardinality(Counted(1)') = N + 1 BY <2>6, <2>8
    <3> HIDE DEF InUse, N
    <3> QED BY <2>6, <3>4, <3>5
  <2> QED BY <2>7, <2>8
<1>5. ASSUME NEW d \in Docs, forceDelete(d) PROVE CountKept(1)' /\ Full'
  <2>1. state'[d] = "DELETED" /\ FormOf[d] \in Forms BY <1>5, NumberingConstants, DeleteFields DEF Basics
  <2>2. "DOC" \notin TextsOf(FormOf[d]) BY <1>w, <2>1 DEF Whole
  <2>3. CountKept(1)' /\ Counted(1)' = Counted(1) /\ \A e \in Counted(1) : number'[e] = number[e]
    BY <1>1, <1>5, <2>2, CountKeptOther
  <2> QED BY <1>2, <2>3
<1>6. ASSUME \/ \E p \in Sessions : Collide(p)
             \/ \E p \in Sessions : GiveUp(p)
             \/ \E f \in Forms : \E text \in Patterns[f] : upsertNumberRule(f, text)
             \/ NewYear
             \/ UNCHANGED nvars
      PROVE  CountKept(1)' /\ Full'
  <2>1. \/ \E p \in Sessions : Collide(p) \/ GiveUp(p)
        \/ \E f \in Forms : \E text \in Patterns[f] : upsertNumberRule(f, text)
        \/ NewYear
        \/ UNCHANGED nvars
    BY <1>6, Zenon
  <2>2. CountKept(1)' /\ Counted(1)' = Counted(1) /\ \A e \in Counted(1) : number'[e] = number[e]
    <3> 1 \in Nat OBVIOUS
    <3> QED BY <1>1, <2>1, CountKeptOther, Zenon
  <2> QED BY <1>2, <2>2
<1> HIDE DEF InUse, Full
<1> QED BY <1>3, <1>4, <1>5, <1>6, Steps, Zenon

-----------------------------------------------------------------------------
(* Who fails was overtaken.                                                *)

\* What is read is fresh: nobody has the number it leads to.
LEMMA Fresh ==
    ASSUME Basics, SequencesCover, CountCovers, NEW p \in Sessions, NEW d, ReadsFor(p, d),
           FormOf[d] \notin setBack, Alone(FormOf[d]), NEW c, c = call'[p]
    PROVE  ~Taken(NumberFor(FormOf[d], c))
<1> DEFINE f == FormOf[d]
<1>1. /\ f \in Forms /\ c.now = year /\ c.text = rule[f].text
      /\ c.count = Cardinality(DefaultNumbered(CompanyOf[f], year))
      /\ c.reset = (HasRule(f) /\ ResetDue(f))
      /\ UNCHANGED <<year, state, number, issuedIn, rule>>
  BY DEF ReadsFor
<1>2. RuleSound(f) /\ year \in Nat /\ year >= 1 /\ rule[f].seq \in Nat
  BY <1>1 DEF Basics, RulesSound, NTypeOK, RuleType
<1>f. f \notin setBack /\ Alone(f) OBVIOUS
<1> HIDE DEF f
<1>3. ASSUME NEW e \in Docs, state[e] = "SUBMITTED", number[e] = NumberFor(f, c) PROVE FALSE
  <2>1. DocSound(e) /\ number[e] \in NumberType /\ FormOf[e] \in Forms /\ issuedIn[e] \in Nat
    BY NumberingConstants DEF Basics, DocsSound, NTypeOK
  <2>2. CASE c.text = "none"
    <3>1. number[e] = [text |-> "DOC", year |-> year, seq |-> c.count + 1]
      <4>1. NumberFor(f, c) = [text |-> "DOC", year |-> c.now, seq |-> c.count + 1]
        BY <2>2 DEF NumberFor
      <4> QED BY <1>1, <1>3, <4>1
    <3>2. f \notin RuleForms BY <1>1, <1>2, <2>2, NumberingConstants DEF RuleSound
    <3>3. CountsSafely BY <1>f, <3>2 DEF Alone
    <3>4. e \in Counted(year) BY <3>1 DEF Counted
    <3>5. number[e].seq <= Cardinality(Counted(year)) BY <1>2, <3>3, <3>4 DEF CountCovers, CountKept
    <3>6. Counted(year) \subseteq DefaultNumbered(CompanyOf[f], year)
      <4>1. ASSUME NEW g \in Counted(year) PROVE g \in DefaultNumbered(CompanyOf[f], year)
        <5>1. g \in Docs /\ number[g].text = "DOC" /\ number[g].year = year BY DEF Counted
        <5>2. state[g] = "SUBMITTED" BY <5>1 DEF Basics, DocsSound, DocSound, NoNumber
        <5>3. "DOC" \in TextsOf(FormOf[g]) BY <5>1, <5>2 DEF Basics, DocsSound, DocSound
        <5>4. FormOf[g] \in Forms \ RuleForms
          BY <3>3, <5>1, <5>3, NumberingConstants DEF CountsSafely, TextsOf
        <5>5. CompanyOf[FormOf[g]] = CompanyOf[f] BY <1>1, <3>2, <3>3, <5>4 DEF CountsSafely
        <5> QED BY <5>1, <5>2, <5>5 DEF DefaultNumbered
      <4> QED BY <4>1
    <3>7. Cardinality(Counted(year)) <= c.count
      BY <1>1, <3>6, CountType, FS_Subset
    <3>8. c.count \in Nat BY <1>1, CountType
    <3>9. number[e].seq = c.count + 1 BY <3>1
    <3> QED BY <3>5, <3>7, <3>8, <3>9, CountedFinite
  <2>3. CASE c.text # "none"
    <3>1. number[e].text = c.text /\ number[e].year = year /\ number[e].seq = NextSeq(f, c)
      <4>1. NumberFor(f, c) = [text |-> c.text, year |-> c.now, seq |-> NextSeq(f, c)]
        BY <2>3 DEF NumberFor
      <4> QED BY <1>1, <1>3, <4>1
    <3>2. f \in RuleForms \cup Editable /\ c.text \in Patterns[f] BY <1>1, <1>2, <2>3 DEF RuleSound
    <3>3. FormOf[e] = f
      BY <1>f, <1>3, <2>1, <3>1, <3>2 DEF DocSound, Alone, OwnPatterns
    <3>4. issuedIn[e] = year BY <1>2, <1>3, <2>1, <3>1 DEF DocSound
    <3>5. CASE c.reset = TRUE
      <4>1. ~IssuedThisYear(f, year) BY <1>1, <3>5 DEF ResetDue
      <4> QED BY <1>2, <1>3, <3>3, <3>4, <4>1 DEF IssuedThisYear
    <3>6. CASE c.reset = FALSE
      <4>1. number[e].seq = rule[f].seq + 1
        BY <1>1, <3>1, <3>6 DEF NextSeq
      <4>2. number[e].text = "DOC" => f \in RuleForms
        BY <1>f, <3>1, <3>2 DEF Alone, CountsSafely
      <4>3. number[e].seq <= rule[f].seq
        BY <1>f, <1>3, <3>3, <3>4, <4>2 DEF SequencesCover, Covered
      <4> QED BY <1>2, <4>1, <4>3
    <3>7. c.reset \in BOOLEAN
      BY <1>1, NumberingConstants DEF HasRule, ResetDue, IssuedThisYear
    <3> QED BY <3>5, <3>6, <3>7
  <2> QED BY <2>2, <2>3
<1>4. ~Taken(NumberFor(f, c)) BY <1>3 DEF Taken
<1> QED BY <1>4 DEF f

\* A call that does not move, in a step that gives nobody a number.
LEMMA OvertakenStays ==
    ASSUME NEW q \in Sessions, OvertakenWhenTaken(q), call'[q] = call[q],
           setBack' = setBack,
           \A e \in Docs : state'[e] = "SUBMITTED" => state[e] = "SUBMITTED" /\ number'[e] = number[e],
           call[q].phase # "idle" => rule'[FormOf[call[q].doc]].seq = rule[FormOf[call[q].doc]].seq
    PROVE  OvertakenWhenTaken(q)'
<1> DEFINE f == FormOf[call[q].doc]
<1>1. call[q].phase # "idle" => NumberFor(f, call[q])' = NumberFor(f, call[q])
  BY DEF NumberFor, NextSeq
<1>2. call[q].phase # "idle" =>
        (Taken(NumberFor(f, call[q]))' => Taken(NumberFor(f, call[q])))
  BY <1>1 DEF Taken
<1> QED BY <1>2 DEF OvertakenWhenTaken

LEMMA OvertakenStep ==
    ASSUME Basics, SequencesCover, CountCovers, Overtaken, [NNext]_nvars
    PROVE  Overtaken'
<1>c. call \in [Sessions -> CallType] BY DEF Basics, NTypeOK
<1>i. ASSUME NEW q \in Sessions, call[q].phase # "idle"
      PROVE  call[q].doc \in Docs /\ FormOf[call[q].doc] \in Forms /\ call[q].doc # NoDoc
  BY <1>i, NumberingConstants DEF Basics, CallsSound, CallSound
<1>1. ASSUME NEW p \in Sessions, NEW d \in Docs, ReadsFor(p, d), NEW q \in Sessions
      PROVE  OvertakenWhenTaken(q)'
  <2>1. UNCHANGED <<state, number, rule, setBack>> BY <1>1 DEF ReadsFor
  <2>2. OvertakenWhenTaken(q) BY DEF Overtaken
  <2>3. CASE q # p
    <3>1. call'[q] = call[q] BY <1>1, <2>3 DEF ReadsFor
    <3> QED BY <2>1, <2>2, <3>1, OvertakenStays
  <2>4. CASE q = p
    <3>1. SUFFICES ASSUME FormOf[d] \notin setBack, Alone(FormOf[d])
                   PROVE  OvertakenWhenTaken(p)'
      BY <1>1, <2>1, <2>4 DEF ReadsFor, OvertakenWhenTaken
    <3>2. ASSUME NEW c, c = call'[p] PROVE ~Taken(NumberFor(FormOf[d], c))
      BY <1>1, <3>1, <3>2, Fresh
    <3>3. call'[p].doc = d /\ call'[p].phase = "read" BY <1>1 DEF ReadsFor
    <3>4. call'[p].attempt = 2 => 1 \in call'[p].overtaken
      <4>1. SUFFICES ASSUME call'[p].attempt = 2 PROVE 1 \in call'[p].overtaken OBVIOUS
      <4>2. /\ call'[p].overtaken = call[p].overtaken
            /\ call[p].phase = "retry" /\ call[p].doc = d
        BY <1>1, <4>1 DEF ReadsFor
      <4>3. OvertakenWhenTaken(p) BY DEF Overtaken
      <4> QED BY <3>1, <4>2, <4>3 DEF OvertakenWhenTaken
    <3>5. ~Taken(NumberFor(FormOf[call[p].doc], call[p]))'
      <4> SUFFICES ASSUME NEW c, c = call'[p] PROVE ~Taken(NumberFor(FormOf[call[p].doc], call[p]))'
        OBVIOUS
      <4>1. NumberFor(FormOf[call[p].doc], call[p])' = NumberFor(FormOf[d], c)
        BY <2>1, <3>3 DEF NumberFor, NextSeq
      <4> QED BY <2>1, <3>2, <4>1 DEF Taken
    <3> QED BY <3>3, <3>4, <3>5 DEF OvertakenWhenTaken
  <2> QED BY <2>3, <2>4
<1>2. ASSUME NEW p \in Sessions, Commit(p), NEW q \in Sessions
      PROVE  OvertakenWhenTaken(q)'
  <2>1. call' = Overtake(p) /\ setBack \subseteq setBack' BY <1>2 DEF Commit
  <2>2. CASE q = p
    <3>1. call'[q] = NoCall BY <2>1, <2>2, OvertakeFields DEF Basics
    <3> QED BY <3>1 DEF OvertakenWhenTaken, NoCall
  <2>3. CASE q # p
    <3>1. OvertakenWhenTaken(q) BY DEF Overtaken
    <3>2. /\ call'[q].doc = call[q].doc /\ call'[q].phase = call[q].phase
          /\ call'[q].attempt = call[q].attempt
          /\ call[q].doc # NoDoc => call'[q].overtaken = call[q].overtaken \cup {call[q].attempt}
      BY <2>1, <2>3, OvertakeFields DEF Basics
    <3>3. CASE call[q].phase = "idle" BY <3>2, <3>3 DEF OvertakenWhenTaken
    <3>4. CASE call[q].phase # "idle"
      <4>1. call'[q].overtaken = call[q].overtaken \cup {call[q].attempt} BY <1>i, <3>2, <3>4
      <4>2. call[q].attempt \in {1, 2} BY <1>c DEF CallType
      <4> QED BY <2>1, <3>1, <3>2, <3>4, <4>1, <4>2 DEF OvertakenWhenTaken
    <3> QED BY <3>3, <3>4
  <2> QED BY <2>2, <2>3
<1>3. ASSUME NEW p \in Sessions, Collide(p), NEW q \in Sessions
      PROVE  OvertakenWhenTaken(q)'
  <2>1. /\ \A r \in Sessions : r # p => call'[r] = call[r]
        /\ call'[p].phase = IF call[p].attempt = 1 THEN "retry" ELSE "failed"
        /\ call'[p].doc = call[p].doc /\ call'[p].attempt = call[p].attempt
        /\ call'[p].overtaken = call[p].overtaken
    BY <1>3, CollideFields DEF Basics
  <2>2. /\ call[p].phase = "read" /\ Taken(NumberFor(FormOf[call[p].doc], call[p]))
        /\ UNCHANGED <<state, number, rule, setBack>>
    BY <1>3 DEF Collide
  <2>3. OvertakenWhenTaken(q) BY DEF Overtaken
  <2>4. CASE q # p BY <2>1, <2>2, <2>3, <2>4, OvertakenStays
  <2>5. CASE q = p
    <3>1. SUFFICES ASSUME FormOf[call[p].doc] \notin setBack, Alone(FormOf[call[p].doc])
                   PROVE  OvertakenWhenTaken(p)'
      BY <2>1, <2>2, <2>5 DEF OvertakenWhenTaken
    <3>2. call[p].attempt \in {1, 2} /\ call[p].overtaken \in SUBSET {1, 2} BY <1>c DEF CallType
    <3>3. call[p].attempt \in call[p].overtaken /\ (call[p].attempt = 2 => 1 \in call[p].overtaken)
      BY <2>2, <2>3, <2>5, <3>1 DEF OvertakenWhenTaken
    <3>4. CASE call[p].attempt = 1 BY <2>1, <3>3, <3>4 DEF OvertakenWhenTaken
    <3>5. CASE call[p].attempt = 2
      <4>1. call[p].overtaken = {1, 2} BY <3>2, <3>3, <3>5
      <4> QED BY <2>1, <3>5, <4>1 DEF OvertakenWhenTaken
    <3> QED BY <3>2, <3>4, <3>5
  <2> QED BY <2>4, <2>5
<1>4. ASSUME NEW p \in Sessions, GiveUp(p), NEW q \in Sessions
      PROVE  OvertakenWhenTaken(q)'
  <2>1. /\ \A r \in Sessions : r # p => call'[r] = call[r]
        /\ call'[p] = NoCall /\ UNCHANGED <<state, number, rule, setBack>>
    BY <1>4, GiveUpFields DEF Basics, GiveUp
  <2>2. OvertakenWhenTaken(q) BY DEF Overtaken
  <2>3. CASE q # p BY <2>1, <2>2, <2>3, OvertakenStays
  <2>4. CASE q = p BY <2>1, <2>4 DEF OvertakenWhenTaken, NoCall
  <2> QED BY <2>3, <2>4
<1>5. ASSUME NEW d \in Docs, forceDelete(d), NEW q \in Sessions
      PROVE  OvertakenWhenTaken(q)'
  <2>1. /\ state'[d] = "DELETED" /\ UNCHANGED <<rule, call, setBack>>
        /\ \A e \in Docs : e # d => state'[e] = state[e] /\ number'[e] = number[e]
    BY <1>5, DeleteFields DEF Basics, forceDelete
  <2>2. OvertakenWhenTaken(q) BY DEF Overtaken
  <2>3. \A e \in Docs : state'[e] = "SUBMITTED" => state[e] = "SUBMITTED" /\ number'[e] = number[e]
    BY <2>1
  <2> QED BY <2>1, <2>2, <2>3, OvertakenStays
<1>6. ASSUME NEW f \in Forms, NEW text \in Patterns[f], upsertNumberRule(f, text), NEW q \in Sessions
      PROVE  OvertakenWhenTaken(q)'
  <2>1. /\ \A g \in Forms : rule'[g].seq = rule[g].seq
        /\ UNCHANGED <<state, number, call, setBack>>
    BY <1>6, UpsertFields DEF Basics, upsertNumberRule
  <2>2. OvertakenWhenTaken(q) BY DEF Overtaken
  <2> QED BY <1>i, <2>1, <2>2, OvertakenStays
<1>7. ASSUME NewYear \/ UNCHANGED nvars, NEW q \in Sessions
      PROVE  OvertakenWhenTaken(q)'
  <2>1. UNCHANGED <<state, number, rule, call, setBack>> BY <1>7 DEF NewYear, nvars
  <2>2. OvertakenWhenTaken(q) BY DEF Overtaken
  <2> QED BY <2>1, <2>2, OvertakenStays
<1>8. ASSUME NEW q \in Sessions PROVE OvertakenWhenTaken(q)'
  BY <1>1, <1>2, <1>3, <1>4, <1>5, <1>6, <1>7, Steps, Zenon
<1> QED BY <1>8 DEF Overtaken

-----------------------------------------------------------------------------
(* The theorems.                                                           *)

LEMMA InitNInv == NInit => NInv
<1> SUFFICES ASSUME NInit PROVE NInv OBVIOUS
<1>1. Basics BY BasicsInit
<1>2. \A d \in Docs : state[d] = "DRAFT" /\ number[d] = NoNumber BY DEF NInit
<1>3. \A p \in Sessions : call[p] = NoCall BY DEF NInit
<1>4. SequencesCover BY <1>2 DEF SequencesCover, Covered
<1>5. \A f \in Forms : rule[f].seq = 0 BY DEF NInit
<1>6. RuleGapless
  <2>1. \A f \in Forms : Gapless(f) BY <1>2, <1>3, <1>5 DEF Gapless, NoCall
  <2> QED BY <2>1 DEF RuleGapless
<1>7. \A y : Counted(y) = {} BY <1>2 DEF Counted, NoNumber
<1>8. \A y : CountKept(y) BY <1>3, <1>7 DEF CountKept, NoCall
<1>9. CountCovers BY <1>8 DEF CountCovers
<1>10. CountGapless
  <2>1. Cardinality(Counted(1)) = 0 BY <1>7, FS_EmptySet
  <2> QED BY <1>8, <2>1 DEF CountGapless
<1>11. Overtaken BY <1>3 DEF Overtaken, OvertakenWhenTaken, NoCall
<1> QED BY <1>1, <1>4, <1>6, <1>9, <1>10, <1>11 DEF NInv

LEMMA NextNInv == NInv /\ [NNext]_nvars => NInv'
BY BasicsStep, SequencesCoverStep, RuleGaplessStep, CountCoversStep, CountGaplessStep, OvertakenStep, Zenon
   DEF NInv

\* NInv holds in every reachable state: types, drafts and numbers, what a
\* submission in flight has read, and the properties below in the form in which
\* they carry over from step to step.
THEOREM NumberingInvariance == NSpec => []NInv
BY InitNInv, NextNInv, PTL DEF NSpec

\* The sequence of a rule covers the numbers of the current year, for any
\* patterns, deletions, edits and any number of submissions in flight, unless a
\* reset that issueDocNumber read to be due was done late.
THEOREM SequencesAhead == NSpec => []SequenceCoversNumbers
<1>1. NInv => SequenceCoversNumbers
  BY DEF NInv, SequencesCover, Covered, SequenceCoversNumbers
<1> QED BY <1>1, NumberingInvariance, PTL

\* The retry of submit suffices for whoever is not overtaken in both attempts,
\* whatever administrators edit and delete and however many submit.
THEOREM RetrySuffices == NSpec => []FailsOnlyUnderContention
<1>1. NInv => FailsOnlyUnderContention
  BY DEF NInv, Overtaken, OvertakenWhenTaken, Alone, FailsOnlyUnderContention
<1> QED BY <1>1, NumberingInvariance, PTL

\* Nothing is skipped in the first year: the documents of a form with a rule are
\* numbered from 1 until one is deleted, whatever edits and shared patterns, and
\* so are the counted ones, although attempts are rolled back.
THEOREM NoGaps == NSpec => []GapFree
<1>1. ASSUME NInv PROVE GapFree
  <2> SUFFICES ASSUME year = 1, NEW d \in Docs, number[d].seq > 1
               PROVE  LET f == FormOf[d]
                      IN  /\ f \in RuleForms /\ Whole(f) =>
                             \E c \in Docs : FormOf[c] = f /\ number[c].seq = number[d].seq - 1
                          /\ f \notin RuleForms /\ CountUndisturbed =>
                             \E c \in Docs : number[c] = [number[d] EXCEPT !.seq = number[d].seq - 1]
    BY DEF GapFree, CountUndisturbed
  <2> DEFINE f == FormOf[d]
  <2>1. f \in Forms /\ number[d] \in NumberType BY <1>1, NumberingConstants DEF NInv, Basics, NTypeOK
  <2>2. state[d] = "SUBMITTED"
    BY <1>1 DEF NInv, Basics, DocsSound, DocSound, NoNumber
  <2>3. number[d].text \in TextsOf(f) /\ number[d].year = 1
    BY <1>1, <2>2, YearOne DEF NInv, Basics, DocsSound, DocSound
  <2>4. number[d].seq \in Nat /\ number[d].seq - 1 \in Nat /\ number[d].seq - 1 >= 1
    BY <2>1 DEF NumberType
  <2>5. ASSUME f \in RuleForms, Whole(f)
        PROVE  \E c \in Docs : FormOf[c] = f /\ number[c].seq = number[d].seq - 1
    <3>1. Gapless(f) BY <1>1, <2>1, <2>5 DEF NInv, RuleGapless, Undisturbed
    <3>2. number[d].seq <= rule[f].seq BY <2>2, <3>1 DEF Gapless
    <3>3. rule[f].seq \in Nat BY <1>1, <2>1 DEF NInv, Basics, NTypeOK, RuleType
    <3>4. number[d].seq - 1 <= rule[f].seq BY <2>4, <3>2, <3>3
    <3> QED BY <2>4, <3>1, <3>4 DEF Gapless
  <2>6. ASSUME f \notin RuleForms, CountUndisturbed
        PROVE  \E c \in Docs : number[c] = [number[d] EXCEPT !.seq = number[d].seq - 1]
    <3>1. "DOC" \in TextsOf(f) BY <2>6 DEF TextsOf
    <3>2. number[d].text = "DOC" BY <2>1, <2>3, <2>6, <3>1 DEF CountUndisturbed, TextsOf
    <3>3. d \in Counted(1) BY <2>3, <3>2 DEF Counted
    <3>4. number[d].seq <= Cardinality(Counted(1)) BY <1>1, <2>6, <3>3 DEF NInv, CountGapless, CountKept
    <3>5. number[d].seq - 1 <= Cardinality(Counted(1)) BY <2>4, <3>4, CountedFinite
    <3>6. PICK c \in Docs : number[c] = [text |-> "DOC", year |-> 1, seq |-> number[d].seq - 1]
      BY <1>1, <2>4, <2>6, <3>5 DEF NInv, CountGapless
    <3>7. [number[d] EXCEPT !.seq = number[d].seq - 1]
            = [text |-> "DOC", year |-> 1, seq |-> number[d].seq - 1]
      BY <2>1, <2>3, <3>2 DEF NumberType
    <3> QED BY <3>6, <3>7
  <2> QED BY <2>5, <2>6
<1> QED BY <1>1, NumberingInvariance, PTL

=============================================================================
