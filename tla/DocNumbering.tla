----------------------------- MODULE DocNumbering -----------------------------
(***************************************************************************)
(* The numbers issueDocNumber gives to submitted documents, with several   *)
(* submissions in flight.                                                  *)
(*                                                                         *)
(* A form with a number rule has a sequence of its own; a form without one *)
(* counts the numbered documents of its company.  A number is what the     *)
(* pattern renders: here the constant text of the pattern, the year and    *)
(* the sequence value.  Document.docNumber is unique over all companies.   *)
(*                                                                         *)
(* A transaction is two steps: Start reads what the decision depends on,   *)
(* Finish writes.  The increment of currentSeq locks the rule's row until  *)
(* the commit, so from there to the commit nothing interferes.             *)
(***************************************************************************)
EXTENDS Naturals, FiniteSets

CONSTANTS
    Companies,
    Forms,
    Docs,        \* documents that may be created
    Sessions,    \* submissions that can be in flight at the same time
    CompanyOf,   \* [Forms -> Companies]
    FormOf,      \* [Docs -> Forms]
    RuleForms,   \* forms that have a number rule from the start
    Patterns,    \* [Forms -> sets of texts an administrator gives the pattern]
    ResetYearly, \* [Forms -> BOOLEAN], resetYearly of their rules (on by default)
    Deletable,   \* forms whose documents administrators force-delete
    Editable,    \* forms whose number rule administrators save
    LastYear     \* bound on the calendar

NoDoc    == "none"
NoNumber == [text |-> "none", year |-> 0, seq |-> 0]

ASSUME NumberingConstants ==
    /\ CompanyOf \in [Forms -> Companies]
    /\ FormOf \in [Docs -> Forms]
    /\ RuleForms \subseteq Forms
    /\ \A f \in Forms : Patterns[f] # {} /\ "none" \notin Patterns[f]
    /\ IsFiniteSet(Docs) /\ NoDoc \notin Docs
    /\ ResetYearly \in [Forms -> BOOLEAN]
    /\ Deletable \subseteq Forms /\ Editable \subseteq Forms
    /\ LastYear \in Nat \ {0}

VARIABLES
    year,      \* the current year, from 1
    state,     \* [Docs -> "DRAFT", "SUBMITTED" or "DELETED"]
    number,    \* [Docs -> document number]
    issuedIn,  \* [Docs -> year of submittedAt]
    rule,      \* [Forms -> [text, seq]], text "none" when the form has no rule
    call,      \* [Sessions -> what the transaction in flight has read]
    setBack    \* forms whose sequence a late reset set back; only for the properties

nvars == <<year, state, number, issuedIn, rule, call, setBack>>

\* text is the pattern of the rule that was read, "none" if there was none.
\* overtaken has the attempts during which the submission of another was
\* committed: it is only there for the properties.
NoCall == [doc |-> NoDoc, phase |-> "idle", attempt |-> 1, now |-> 0, text |-> "none",
           count |-> 0, reset |-> FALSE, overtaken |-> {}]

HasRule(f) == rule[f].text # "none"

\* Documents of the company whose number starts with DOC-{year}-.
DefaultNumbered(c, y) ==
    {d \in Docs : /\ state[d] = "SUBMITTED"
                  /\ CompanyOf[FormOf[d]] = c
                  /\ number[d].text = "DOC" /\ number[d].year = y}

IssuedThisYear(f, y) ==
    \E d \in Docs : state[d] = "SUBMITTED" /\ FormOf[d] = f /\ issuedIn[d] >= y

\* Whether the transaction will set the sequence back to 0.
ResetDue(f) == ResetYearly[f] /\ rule[f].seq > 0 /\ ~IssuedThisYear(f, year)

\* The reads of one attempt.
Read(f, c) ==
    [c EXCEPT !.phase = "read", !.now = year, !.text = rule[f].text,
              !.count = Cardinality(DefaultNumbered(CompanyOf[f], year)),
              !.reset = HasRule(f) /\ ResetDue(f)]

Start(p, d) ==
    /\ call[p].phase = "idle"
    /\ state[d] = "DRAFT"
    /\ \A q \in Sessions : call[q].doc # d
    /\ call' = [call EXCEPT ![p] = Read(FormOf[d], [NoCall EXCEPT !.doc = d])]
    /\ UNCHANGED <<year, state, number, issuedIn, rule, setBack>>

NextSeq(f, c) == (IF c.reset THEN 0 ELSE rule[f].seq) + 1

\* MUTANT of NumberFor: the retry adds the attempt to the count.
NumberForByAttempt(f, c) ==
    IF c.text # "none" THEN [text |-> c.text, year |-> c.now, seq |-> NextSeq(f, c)]
    ELSE [text |-> "DOC", year |-> c.now, seq |-> c.count + c.attempt]

NumberFor(f, c) ==
    IF c.text # "none" THEN [text |-> c.text, year |-> c.now, seq |-> NextSeq(f, c)]
    ELSE [text |-> "DOC", year |-> c.now, seq |-> c.count + 1]

\* documents_doc_number_key
Taken(n) == \E d \in Docs : state[d] = "SUBMITTED" /\ number[d] = n

Overtake(p) ==
    [q \in Sessions |->
        IF q = p THEN NoCall
        ELSE IF call[q].doc # NoDoc
             THEN [call[q] EXCEPT !.overtaken = @ \cup {call[q].attempt}] ELSE call[q]]

\* The reset that p had read to be due, done although others of the form were
\* numbered since.
ResetsLate(p) == call[p].reset /\ IssuedThisYear(FormOf[call[p].doc], call[p].now)

\* MUTANT of Commit: the new sequence value is not stored.
CommitWithoutSequence(p) ==
    LET d == call[p].doc
        n == NumberFor(FormOf[d], call[p])
    IN  /\ call[p].phase = "read" /\ ~Taken(n)
        /\ state' = [state EXCEPT ![d] = "SUBMITTED"]
        /\ number' = [number EXCEPT ![d] = n]
        /\ issuedIn' = [issuedIn EXCEPT ![d] = year]
        /\ call' = Overtake(p)
        /\ UNCHANGED <<year, rule, setBack>>

Commit(p) ==
    LET d == call[p].doc
        f == FormOf[d]
        n == NumberFor(f, call[p])
    IN  /\ call[p].phase = "read"
        /\ ~Taken(n)
        /\ state' = [state EXCEPT ![d] = "SUBMITTED"]
        /\ number' = [number EXCEPT ![d] = n]
        /\ issuedIn' = [issuedIn EXCEPT ![d] = year]
        /\ rule' = IF call[p].text # "none" THEN [rule EXCEPT ![f].seq = n.seq] ELSE rule
        /\ call' = Overtake(p)
        /\ setBack' = IF ResetsLate(p) THEN setBack \cup {f} ELSE setBack
        /\ UNCHANGED year

\* MUTANT of Collide: the increment survives the attempt, as it would outside the
\* transaction.
CollideKeepsIncrement(p) ==
    LET f == FormOf[call[p].doc]
    IN  /\ call[p].phase = "read"
        /\ Taken(NumberFor(f, call[p]))
        /\ call' = [call EXCEPT ![p].phase = IF call[p].attempt = 1 THEN "retry" ELSE "failed"]
        /\ rule' = IF call[p].text # "none" THEN [rule EXCEPT ![f].seq = NextSeq(f, call[p])] ELSE rule
        /\ UNCHANGED <<year, state, number, issuedIn, setBack>>

\* P2002: the transaction is rolled back, and tried once more.
Collide(p) ==
    /\ call[p].phase = "read"
    /\ Taken(NumberFor(FormOf[call[p].doc], call[p]))
    /\ call' = [call EXCEPT ![p].phase = IF call[p].attempt = 1 THEN "retry" ELSE "failed"]
    /\ UNCHANGED <<year, state, number, issuedIn, rule, setBack>>

\* MUTANT of Retry: the retry reuses what the first attempt read.
RetryWithoutReading(p) ==
    /\ call[p].phase = "retry"
    /\ call' = [call EXCEPT ![p].phase = "read", ![p].attempt = 2]
    /\ UNCHANGED <<year, state, number, issuedIn, rule, setBack>>

Retry(p) ==
    /\ call[p].phase = "retry"
    /\ call' = [call EXCEPT ![p] = Read(FormOf[@.doc], [@ EXCEPT !.attempt = 2])]
    /\ UNCHANGED <<year, state, number, issuedIn, rule, setBack>>

\* The drafter sees the error; the document is still a draft.
GiveUp(p) ==
    /\ call[p].phase = "failed"
    /\ call' = [call EXCEPT ![p] = NoCall]
    /\ UNCHANGED <<year, state, number, issuedIn, rule, setBack>>

forceDelete(d) ==
    /\ FormOf[d] \in Deletable
    /\ state[d] = "SUBMITTED"
    /\ state' = [state EXCEPT ![d] = "DELETED"]
    /\ number' = [number EXCEPT ![d] = NoNumber]
    /\ issuedIn' = [issuedIn EXCEPT ![d] = 0]
    /\ UNCHANGED <<year, rule, call, setBack>>

\* A new rule starts at 0; saving an existing one keeps its sequence.
upsertNumberRule(f, text) ==
    /\ f \in Editable
    /\ rule' = [rule EXCEPT ![f].text = text]
    /\ UNCHANGED <<year, state, number, issuedIn, call, setBack>>

NewYear ==
    /\ year < LastYear
    /\ year' = year + 1
    /\ UNCHANGED <<state, number, issuedIn, rule, call, setBack>>

NInit ==
    /\ year = 1
    /\ state = [d \in Docs |-> "DRAFT"]
    /\ number = [d \in Docs |-> NoNumber]
    /\ issuedIn = [d \in Docs |-> 0]
    /\ rule \in [Forms -> [text : {"none"} \cup UNION {Patterns[f] : f \in Forms}, seq : {0}]]
    /\ \A f \in Forms : rule[f].text \in (IF f \in RuleForms THEN Patterns[f] ELSE {"none"})
    /\ call = [p \in Sessions |-> NoCall]
    /\ setBack = {}

NNext ==
    \/ \E p \in Sessions : Commit(p) \/ Collide(p) \/ Retry(p) \/ GiveUp(p)
    \/ \E p \in Sessions, d \in Docs : Start(p, d)
    \/ \E d \in Docs : forceDelete(d)
    \/ \E f \in Forms : \E text \in Patterns[f] : upsertNumberRule(f, text)
    \/ NewYear

NSpec == NInit /\ [][NNext]_nvars

-----------------------------------------------------------------------------
(* Properties.                                                             *)

\* The texts that numbers of the form's documents can have.
TextsOf(f) ==
    (IF f \in RuleForms \cup Editable THEN Patterns[f] ELSE {})
    \cup (IF f \in RuleForms THEN {} ELSE {"DOC"})

\* No other form has numbers with a text of this form's patterns.
OwnPatterns(f) == \A g \in Forms \ {f} : Patterns[f] \cap TextsOf(g) = {}

\* The forms that number by counting are of one company, lose no documents, and
\* no pattern renders what they render.
CountsSafely ==
    /\ \A f, g \in Forms \ RuleForms : CompanyOf[f] = CompanyOf[g]
    /\ Deletable \subseteq RuleForms
    /\ \A f \in RuleForms \cup Editable : "DOC" \notin Patterns[f]

\* A submission fails for want of a number only when others were numbered while
\* it ran, in each of its two attempts: whoever submits alone succeeds (the retry
\* of DocumentsService.submit).  Edits of the patterns, new years and deletions of
\* documents numbered by a rule do not change that; forms that share a pattern, a
\* count that deletions lower, and a late reset do.
FailsOnlyUnderContention ==
    \A p \in Sessions :
        LET f == FormOf[call[p].doc]
        IN  /\ call[p].phase = "failed"
            /\ f \notin setBack
            /\ f \in RuleForms \cup Editable => OwnPatterns(f)
            /\ f \notin RuleForms => CountsSafely
            => call[p].overtaken = {1, 2}

\* Nobody has deleted a document of the form.
Whole(f) == \A d \in Docs : FormOf[d] = f => state[d] # "DELETED"

\* Nothing is skipped: in the first year, and until one of them is deleted, the
\* documents of a form that starts with a rule are numbered 1, ..., n, whatever its pattern
\* is changed to and whatever other forms share it, although attempts that collide
\* are rolled back after they have incremented the sequence (issueDocNumber); and
\* the counted numbers are 1, 2, ..., n over all forms that have such numbers.
GapFree ==
    year = 1 =>
        \A d \in Docs : LET f == FormOf[d] IN number[d].seq > 1 =>
            /\ f \in RuleForms /\ Whole(f) =>
                  \E c \in Docs : FormOf[c] = f /\ number[c].seq = number[d].seq - 1
            /\ f \notin RuleForms /\ (\A g \in Forms : "DOC" \in TextsOf(g) => Whole(g) /\ g \notin Editable) =>
                  \E c \in Docs : number[c] = [number[d] EXCEPT !.seq = @ - 1]

\* The sequence of a rule never falls behind: a number of the rule's pattern in
\* use in the current year is not above currentSeq, so the next one is fresh,
\* through deletions, edits of the pattern and new years; unless a reset came
\* late, or a new rule takes over the pattern of the counted numbers.
SequenceCoversNumbers ==
    \A d \in Docs :
        LET f == FormOf[d]
        IN  /\ state[d] = "SUBMITTED" /\ HasRule(f) /\ issuedIn[d] = year
            /\ number[d].text = rule[f].text /\ number[d].year = year
            /\ f \notin setBack
            /\ number[d].text = "DOC" => f \in RuleForms
            => number[d].seq <= rule[f].seq
=============================================================================
