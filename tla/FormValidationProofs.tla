------------------------ MODULE FormValidationProofs ------------------------
(***************************************************************************)
(* Safety proofs for FormValidation, for any forms, fields and verdicts.    *)
(***************************************************************************)
EXTENDS FormValidation, FiniteSetTheorems, TLAPS

\* The verdict that a field remembers is the server's, on the question it
\* remembers with it.
Verdict(w, f) ==
  /\ w.previous[f].valid => w.previous[f].old \in Accepts \cup {None}
  /\ w.previous[f].old \in Accepts => w.previous[f].valid

\* The requests' bookkeeping: what waits is counted, what is live is what the
\* field was last asked, and a verdict that is not awaited is the server's.
Good(w) ==
  /\ w.pendingRequest = Cardinality(w.pending)
  /\ \A f \in Fields :
       /\ w.wire[f] # None => f \in w.pending
       /\ f \in w.live => w.previous[f].old = w.wire[f]
       /\ w.wire[f] # None /\ f \notin w.live => w.previous[f].old = None
       /\ w.previous[f].old = None => w.previous[f].valid
       /\ f \notin w.pending => Verdict(w, f)

Core(w) == <<w.previous, w.wire, w.live, w.pending, w.pendingRequest>>

\* The state around the validator.
Around == /\ markup \in Markups /\ page \subseteq Fields /\ value \in [Fields -> Lengths]
          /\ options \in [Fields -> SUBSET Rule] /\ enforced \in [Fields -> SUBSET Rule]
          /\ Static \subseteq page

-----------------------------------------------------------------------------
\* Only the five fields of Core matter to Good.
LEMMA CoreDecides == ASSUME NEW w, NEW c, Good(w), Core(c) = Core(w) PROVE Good(c)
  BY DEF Good, Core, Verdict

LEMMA KeyTyped == ASSUME Around, NEW f \in Fields PROVE Key(f) \in Keys /\ Key(f) # None
<1> USE MarkupsAssumption
<1>1. markup[f].remote \cup {f} \subseteq Fields
  BY DEF Around, Attributes
<1>2. Key(f) \in [markup[f].remote \cup {f} -> Lengths]
  BY <1>1 DEF Key, Around
<1>3. Key(f) \in Keys
  <2> DEFINE fs == markup[f].remote \cup {f}
  <2>1. Key(f) \in [fs -> Lengths] /\ fs \in SUBSET Fields
    BY <1>1, <1>2
  <2> HIDE DEF fs
  <2>2. QED
    BY <2>1 DEF Keys
<1>4. f \in DOMAIN Key(f)
  BY DEF Key
<1>5. DOMAIN None = {}
  BY DEF None
<1>6. QED
  BY <1>3, <1>4, <1>5

\* Asking keeps the types and the bookkeeping.
LEMMA StartGood ==
  ASSUME Around, NEW w \in Validator, Good(w), NEW fs \in SUBSET Fields
  PROVE  /\ StartRequests(w, fs) \in Validator
         /\ Good(StartRequests(w, fs))
         /\ StartRequests(w, fs).pending = w.pending \cup fs
<1> DEFINE c == StartRequests(w, fs)
<1>1. /\ c.previous = [f \in Fields |-> IF f \in fs THEN [w.previous[f] EXCEPT !.old = Key(f)]
                                        ELSE w.previous[f]]
      /\ c.wire = [f \in Fields |-> IF f \in fs THEN Key(f) ELSE w.wire[f]]
      /\ c.live = w.live \cup fs /\ c.pending = w.pending \cup fs
      /\ c.pendingRequest = w.pendingRequest + Cardinality(fs \ w.pending)
  BY DEF StartRequests, Validator
<1>2. w.pending \subseteq Fields /\ w.live \subseteq Fields /\ w.pendingRequest \in Nat
  BY DEF Validator
<1>3. w.previous \in [Fields -> [old : Keys, valid : BOOLEAN]] /\ w.wire \in [Fields -> Keys]
  BY DEF Validator
<1>4. /\ IsFiniteSet(w.pending) /\ IsFiniteSet(fs) /\ IsFiniteSet(fs \ w.pending)
      /\ IsFiniteSet(w.pending \cup fs)
  BY <1>2, FieldsAssumption, FS_Subset
<1>5. c.pendingRequest = Cardinality(c.pending) /\ c.pendingRequest \in Nat
  <2>1. w.pending \cap (fs \ w.pending) = {} /\ w.pending \cup (fs \ w.pending) = w.pending \cup fs
    OBVIOUS
  <2>2. Cardinality({}) = 0
    BY FS_EmptySet
  <2>3. /\ Cardinality(w.pending) \in Nat /\ Cardinality(fs \ w.pending) \in Nat
    BY <1>4, FS_CardinalityType
  <2>4. Cardinality(w.pending \cup (fs \ w.pending))
          = Cardinality(w.pending) + Cardinality(fs \ w.pending)
            - Cardinality(w.pending \cap (fs \ w.pending))
    BY <1>4, FS_Union
  <2>5. w.pendingRequest = Cardinality(w.pending)
    BY DEF Good
  <2>6. Cardinality(w.pending \cap (fs \ w.pending)) = 0
    BY <2>1, <2>2
  <2>7. Cardinality(w.pending \cup fs) = Cardinality(w.pending \cup (fs \ w.pending))
    BY <2>1, Zenon
  <2> HIDE DEF c
  <2>8. QED
    BY <1>1, <2>3, <2>4, <2>5, <2>6, <2>7
<1>6. c.previous \in [Fields -> [old : Keys, valid : BOOLEAN]]
  <2>1. \A f \in Fields : [w.previous[f] EXCEPT !.old = Key(f)] \in [old : Keys, valid : BOOLEAN]
    BY <1>3, KeyTyped
  <2> HIDE DEF c
  <2>2. QED
    BY <1>1, <1>3, <2>1
<1>7. c.wire \in [Fields -> Keys]
  <2> HIDE DEF c
  <2> QED BY <1>1, <1>3, KeyTyped
<1>8. c \in Validator
  <2>1. c = [w EXCEPT !.previous = c.previous, !.wire = c.wire, !.live = c.live,
                      !.pending = c.pending, !.pendingRequest = c.pendingRequest]
    BY DEF StartRequests, Validator
  <2>2. c.live \in SUBSET Fields /\ c.pending \in SUBSET Fields
    BY <1>1, <1>2
  <2> HIDE DEF c
  <2>3. QED
    BY <2>1, <2>2, <1>5, <1>6, <1>7 DEF Validator
<1>9. Good(c)
  <2> SUFFICES ASSUME NEW f \in Fields
      PROVE /\ c.wire[f] # None => f \in c.pending
            /\ f \in c.live => c.previous[f].old = c.wire[f]
            /\ c.wire[f] # None /\ f \notin c.live => c.previous[f].old = None
            /\ c.previous[f].old = None => c.previous[f].valid
            /\ f \notin c.pending => Verdict(c, f)
    BY <1>5 DEF Good
  <2> HIDE DEF c
  <2>1. CASE f \in fs
    BY <2>1, <1>1, <1>3, KeyTyped
  <2>2. CASE f \notin fs
    BY <2>2, <1>1 DEF Good, Verdict
  <2>3. QED
    BY <2>1, <2>2
<1>10. QED
  BY <1>1, <1>8, <1>9

-----------------------------------------------------------------------------
(* Each function on the validator keeps its types and the bookkeeping.      *)

LEMMA CheckGood ==
  ASSUME Around, NEW w \in Validator, Good(w), NEW fs \in SUBSET Fields
  PROVE  /\ Check(w, fs) \in Validator
         /\ Good(Check(w, fs))
         /\ Check(w, fs).pending = w.pending \cup Asking(w, fs)
         /\ Check(w, fs).errorMap = Failed(w, fs)
         /\ Check(w, fs).sent = w.sent /\ Check(w, fs).formSubmitted = w.formSubmitted
<1> DEFINE failed == Failed(w, fs)
           passed == {f \in fs \ (failed \cup Asking(w, fs)) : enforced[f] # {}}
           s == StartRequests(w, Asking(w, fs))
           c == Check(w, fs)
<1>1. failed \subseteq Fields /\ Asking(w, fs) \subseteq Fields
  BY DEF Failed, Asking
<1>2. /\ s \in Validator /\ Good(s) /\ s.pending = w.pending \cup Asking(w, fs)
  BY <1>1, StartGood
<1>3. s.sent = w.sent /\ s.formSubmitted = w.formSubmitted
  BY DEF StartRequests, Validator
<1>4. c = [s EXCEPT !.errorMap = failed, !.submitted = @ \cup failed,
                    !.bound = @ \cup {f \in fs : Binds(f)},
                    !.shown = onSuccess(onError(@, failed), passed)]
  BY DEF Check
<1>5. {f \in fs : Binds(f)} \subseteq Fields
  OBVIOUS
<1> HIDE DEF failed, passed, s, c
<1>6. onSuccess(onError(s.shown, failed), passed) \subseteq Fields
  BY <1>1, <1>2 DEF onSuccess, onError, Validator
<1>7. c \in Validator /\ Core(c) = Core(s)
  BY <1>1, <1>2, <1>4, <1>5, <1>6 DEF Validator, Core
<1>8. /\ c.pending = s.pending /\ c.errorMap = failed /\ c.sent = s.sent
      /\ c.formSubmitted = s.formSubmitted
  BY <1>2, <1>4 DEF Validator
<1>9. QED
  BY <1>2, <1>3, <1>7, <1>8, CoreDecides DEF failed, c

Elements == {f \in page : enforced[f] # {}}

LEMMA FormGood ==
  ASSUME Around, NEW w \in Validator, Good(w)
  PROVE  /\ Form(w) \in Validator
         /\ Good(Form(w))
         /\ Form(w).pending = w.pending \cup Asking(w, Elements)
         /\ Form(w).errorMap = Failed(w, Elements)
         /\ Form(w).sent = w.sent /\ Form(w).formSubmitted = w.formSubmitted
<1> DEFINE c == Check(w, Elements)
           verdicts == [f \in Fields |-> IF f \in c.errorMap THEN "true" ELSE "none"]
<1>1. Elements \in SUBSET Fields
  BY DEF Elements, Around
<1>2. /\ c \in Validator /\ Good(c) /\ c.pending = w.pending \cup Asking(w, Elements)
      /\ c.errorMap = Failed(w, Elements) /\ c.sent = w.sent
      /\ c.formSubmitted = w.formSubmitted
  BY <1>1, CheckGood
<1>3. Form(w) = [c EXCEPT !.invalid = verdicts]
  BY DEF Form, Elements
<1>4. verdicts \in [Fields -> {"none", "false", "true"}]
  OBVIOUS
<1> HIDE DEF c, verdicts
<1>5. Form(w) \in Validator /\ Core(Form(w)) = Core(c)
  BY <1>2, <1>3, <1>4 DEF Validator, Core
<1>6. /\ Form(w).pending = c.pending /\ Form(w).errorMap = c.errorMap /\ Form(w).sent = c.sent
      /\ Form(w).formSubmitted = c.formSubmitted
  BY <1>2, <1>3 DEF Validator
<1>7. QED
  BY <1>2, <1>5, <1>6, CoreDecides

LEMMA ElementGood ==
  ASSUME Around, NEW w \in Validator, Good(w), NEW f \in Fields
  PROVE  /\ Element(w, f) \in Validator /\ Good(Element(w, f)) /\ Element(w, f).sent = w.sent
         /\ Element(w, f).formSubmitted = w.formSubmitted
<1> DEFINE c == Check(w, {f})
           verdict == IF f \in c.errorMap THEN "true" ELSE "false"
<1>1. c \in Validator /\ Good(c) /\ c.sent = w.sent /\ c.formSubmitted = w.formSubmitted
  BY CheckGood
<1> DEFINE verdicts == [c.invalid EXCEPT ![f] = verdict]
<1>2. Element(w, f) = [c EXCEPT !.invalid = verdicts]
  BY DEF Element
<1>3. verdicts \in [Fields -> {"none", "false", "true"}]
  <2>1. c.invalid \in [Fields -> {"none", "false", "true"}]
    BY <1>1 DEF Validator
  <2> HIDE DEF c
  <2>2. QED
    BY <2>1
<1> HIDE DEF c, verdict, verdicts
<1>4. /\ Element(w, f) \in Validator /\ Core(Element(w, f)) = Core(c)
      /\ Element(w, f).sent = c.sent /\ Element(w, f).formSubmitted = c.formSubmitted
  BY <1>1, <1>2, <1>3 DEF Validator, Core
<1>5. QED
  BY <1>1, <1>4, CoreDecides

-----------------------------------------------------------------------------
(* What is sent                                                             *)

\* A field's rules say what its attributes say.
Faithful(rules) ==
  \A f \in Fields : rules[f] # {} =>
    /\ MinMax(markup[f].min, markup[f].max) \subseteq rules[f]
    /\ markup[f].required => <<"required", 0>> \in rules[f]
    /\ markup[f].remote # {} => <<"remote", 0>> \in rules[f]
    /\ \A g \in markup[f].equalto \cap Static : <<"equalTo", g>> \in rules[f]

Legal == \A f \in page : enforced[f] # {} => LegalField(f, Static)

\* A form without errors that waits for nothing is legal.
LEMMA ValidIsLegal ==
  ASSUME Around, Faithful(enforced), NEW w \in Validator, Good(w),
         Failed(w, Elements) = {}, w.pending \cup Asking(w, Elements) = {}
  PROVE  Legal
<1> SUFFICES ASSUME NEW f \in page, enforced[f] # {}
    PROVE LegalField(f, Static)
  BY DEF Legal
<1>1. f \in Fields /\ f \in Elements
  BY DEF Around, Elements
<1>2. Local(f)
  BY <1>1 DEF Failed
<1>3. markup[f].required => value[f] > 0
  <2> SUFFICES ASSUME markup[f].required PROVE value[f] > 0
    OBVIOUS
  <2>1. Passes(<<"required", 0>>, f)
    BY <1>1, <1>2 DEF Faithful, Local
  <2>2. QED
    BY <2>1 DEF Passes
<1>4. value[f] \in Nat /\ markup[f].min \in Nat /\ markup[f].max \in Nat
  BY <1>1, LengthAssumption, MarkupsAssumption DEF Around, Attributes, Lengths
<1>5. ASSUME value[f] > 0
      PROVE  /\ markup[f].min # 0 => value[f] >= markup[f].min
             /\ markup[f].max # 0 => value[f] <= markup[f].max
  <2> DEFINE min == markup[f].min
             max == markup[f].max
  <2>1. \A r \in MinMax(min, max) : Passes(r, f)
    BY <1>1, <1>2 DEF Faithful, Local
  <2>2. CASE min # 0 /\ max # 0
    <3>1. Passes(<<"rangelength", <<min, max>>>>, f)
      BY <2>1, <2>2 DEF MinMax
    <3>2. value[f] \in min..max
      BY <1>5, <3>1, <1>4 DEF Passes
    <3>3. QED
      BY <3>2, <1>4
  <2>3. CASE min # 0 /\ max = 0
    <3>1. Passes(<<"minlength", min>>, f)
      BY <2>1, <2>3 DEF MinMax
    <3>2. QED
      BY <1>4, <1>5, <2>3, <3>1 DEF Passes
  <2>4. CASE min = 0 /\ max # 0
    <3>1. Passes(<<"maxlength", max>>, f)
      BY <2>1, <2>4 DEF MinMax
    <3>2. QED
      BY <1>4, <1>5, <2>4, <3>1 DEF Passes
  <2>5. CASE min = 0 /\ max = 0
    BY <2>5
  <2>6. QED
    BY <2>2, <2>3, <2>4, <2>5
<1>6. ASSUME value[f] > 0, markup[f].remote # {}
      PROVE  Key(f) \in Accepts
  <2>1. AsksServer(f)
    BY <1>1, <1>2, <1>6 DEF AsksServer, Faithful
  <2>2. w.previous[f].old = Key(f)
    BY <1>1, <2>1 DEF Asking
  <2>3. w.previous[f].valid
    BY <1>1, <2>1, <2>2 DEF Failed
  <2>4. w.previous[f].old \in Accepts \cup {None}
    BY <1>1, <2>3 DEF Good, Verdict
  <2>5. QED
    BY <1>1, <2>2, <2>4, KeyTyped
<1>7. ASSUME NEW g \in markup[f].equalto \cap Static
      PROVE  value[f] = value[g]
  <2>1. Passes(<<"equalTo", g>>, f)
    BY <1>1, <1>2 DEF Local, Faithful
  <2>2. QED
    BY <2>1 DEF Passes
<1>8. QED
  BY <1>3, <1>5, <1>6, <1>7 DEF LegalField

\* The submit handler sends a legal form or none.
LEMMA SubmitGood ==
  ASSUME Around, Faithful(enforced), NEW w \in Validator, Good(w), ~w.sent
  PROVE  /\ SubmitHandler(w) \in Validator
         /\ Good(SubmitHandler(w))
         /\ SubmitHandler(w).sent => Legal
<1> DEFINE c == Form(w)
<1>1. /\ c \in Validator /\ Good(c) /\ c.pending = w.pending \cup Asking(w, Elements)
      /\ c.errorMap = Failed(w, Elements) /\ ~c.sent
  BY FormGood
<1>2. SubmitHandler(w) = IF c.errorMap # {} THEN c
                         ELSE IF c.pendingRequest > 0 THEN [c EXCEPT !.formSubmitted = TRUE]
                         ELSE [c EXCEPT !.sent = TRUE]
  BY DEF SubmitHandler
<1> HIDE DEF c
<1>3. CASE c.errorMap # {}
  BY <1>1, <1>2, <1>3
<1>4. CASE c.errorMap = {} /\ c.pendingRequest > 0
  <2> DEFINE d == [c EXCEPT !.formSubmitted = TRUE]
  <2>1. SubmitHandler(w) = d
    BY <1>2, <1>4
  <2>2. d \in Validator /\ Core(d) = Core(c) /\ d.sent = c.sent
    BY <1>1 DEF Validator, Core
  <2> HIDE DEF d
  <2>3. QED
    BY <1>1, <2>1, <2>2, CoreDecides
<1>5. CASE c.errorMap = {} /\ ~(c.pendingRequest > 0)
  <2> DEFINE d == [c EXCEPT !.sent = TRUE]
  <2>1. SubmitHandler(w) = d
    BY <1>2, <1>5
  <2>2. d \in Validator /\ Core(d) = Core(c)
    BY <1>1 DEF Validator, Core
  <2>3. c.pending = {}
    <3>1. c.pendingRequest = 0 /\ c.pending \subseteq Fields
      BY <1>1, <1>5 DEF Validator
    <3>2. IsFiniteSet(c.pending) /\ Cardinality(c.pending) = 0
      BY <1>1, <3>1, FieldsAssumption, FS_Subset DEF Good
    <3>3. QED
      BY <3>2, FS_EmptySet
  <2>4. Legal
    BY <1>1, <1>5, <2>3, ValidIsLegal
  <2> HIDE DEF d
  <2>5. QED
    BY <1>1, <2>1, <2>2, <2>4, CoreDecides
<1>6. QED
  BY <1>3, <1>4, <1>5

TakeOff(w, f) ==
  [w EXCEPT !.pendingRequest = IF @ > 0 THEN @ - 1 ELSE 0, !.pending = @ \ {f}]

\* An answer takes its field off the count.
LEMMA TakeOffGood ==
  ASSUME NEW w \in Validator, Good(w), NEW f \in w.pending, w.wire[f] = None,
         Verdict(w, f)
  PROVE  /\ TakeOff(w, f) \in Validator /\ Good(TakeOff(w, f))
         /\ TakeOff(w, f).pending = w.pending \ {f} /\ TakeOff(w, f).sent = w.sent
         /\ TakeOff(w, f).pendingRequest \in Nat
<1> DEFINE s == TakeOff(w, f)
<1>1. f \in Fields /\ w.pending \subseteq Fields /\ w.pendingRequest \in Nat
  BY DEF Validator
<1>2. /\ Cardinality(w.pending) = w.pendingRequest
      /\ Cardinality(w.pending \ {f}) = Cardinality(w.pending) - 1
      /\ Cardinality(w.pending \ {f}) \in Nat
  <2>1. IsFiniteSet(w.pending)
    BY <1>1, FieldsAssumption, FS_Subset
  <2>2. Cardinality(w.pending \ {f}) = Cardinality(w.pending) - 1
    BY <2>1, FS_RemoveElement
  <2>3. Cardinality(w.pending \ {f}) \in Nat
    BY <2>1, FS_RemoveElement, FS_CardinalityType
  <2>4. QED
    BY <2>2, <2>3 DEF Good
<1>3. /\ s.pending = w.pending \ {f}
      /\ s.pendingRequest = IF w.pendingRequest > 0 THEN w.pendingRequest - 1 ELSE 0
      /\ s.previous = w.previous /\ s.wire = w.wire /\ s.live = w.live /\ s.sent = w.sent
  BY DEF Validator, TakeOff
<1>4. s.pendingRequest \in Nat /\ s.pendingRequest = Cardinality(s.pending)
  <2> HIDE DEF s
  <2>1. w.pendingRequest > 0 /\ s.pendingRequest = w.pendingRequest - 1
    BY <1>1, <1>2, <1>3
  <2>2. Cardinality(s.pending) = Cardinality(w.pending \ {f})
    BY <1>3, Zenon
  <2>3. QED
    BY <1>1, <1>2, <2>1, <2>2
<1>5. s \in Validator
  <2>1. s = [w EXCEPT !.pendingRequest = s.pendingRequest, !.pending = s.pending]
    BY DEF Validator, TakeOff
  <2>2. s.pending \in SUBSET Fields
    BY <1>1, <1>3
  <2> HIDE DEF s
  <2>3. QED
    BY <1>4, <2>1, <2>2 DEF Validator
<1>6. Good(s)
  <2> HIDE DEF s
  <2> SUFFICES ASSUME NEW g \in Fields
      PROVE /\ s.wire[g] # None => g \in s.pending
            /\ g \in s.live => s.previous[g].old = s.wire[g]
            /\ s.wire[g] # None /\ g \notin s.live => s.previous[g].old = None
            /\ s.previous[g].old = None => s.previous[g].valid
            /\ g \notin s.pending => Verdict(s, g)
    BY <1>4 DEF Good
  <2>1. CASE g = f
    BY <2>1, <1>3 DEF Good, Verdict
  <2>2. CASE g # f
    BY <2>2, <1>3 DEF Good, Verdict
  <2>3. QED
    BY <2>1, <2>2
<1>7. QED
  BY <1>3, <1>4, <1>5, <1>6

\* It may send the form.
LEMMA StopGood ==
  ASSUME Around, Faithful(enforced), NEW w \in Validator, Good(w), ~w.sent,
         NEW f \in w.pending, w.wire[f] = None, NEW valid \in BOOLEAN,
         Verdict(w, f)
  PROVE  /\ stopRequest(w, f, valid) \in Validator
         /\ Good(stopRequest(w, f, valid))
         /\ stopRequest(w, f, valid).sent => Legal
<1> DEFINE s == TakeOff(w, f)
<1>1. s \in Validator /\ Good(s) /\ ~s.sent /\ s.pendingRequest \in Nat
  BY TakeOffGood
<1>2. stopRequest(w, f, valid) =
        IF s.pendingRequest > 0 \/ ~s.formSubmitted THEN s
        ELSE IF valid THEN IF Form(s).errorMap # {} THEN Form(s)
                           ELSE [SubmitHandler(Form(s)) EXCEPT !.formSubmitted = FALSE]
        ELSE [s EXCEPT !.formSubmitted = FALSE]
  BY DEF stopRequest, TakeOff
<1> HIDE DEF s
<1>3. CASE s.pendingRequest > 0 \/ ~s.formSubmitted
  BY <1>1, <1>2, <1>3
<1>4. ASSUME s.pendingRequest <= 0, s.formSubmitted, valid
      PROVE  /\ stopRequest(w, f, valid) \in Validator
             /\ Good(stopRequest(w, f, valid))
             /\ stopRequest(w, f, valid).sent => Legal
  <2>1. Form(s) \in Validator /\ Good(Form(s)) /\ ~Form(s).sent
    BY <1>1, FormGood
  <2>2. CASE Form(s).errorMap # {}
    BY <1>1, <1>2, <1>4, <2>1, <2>2
  <2>3. CASE Form(s).errorMap = {}
    <3> DEFINE h == SubmitHandler(Form(s))
               d == [h EXCEPT !.formSubmitted = FALSE]
    <3>1. h \in Validator /\ Good(h) /\ (h.sent => Legal)
      BY <2>1, SubmitGood
    <3>2. stopRequest(w, f, valid) = d
      BY <1>1, <1>2, <1>4, <2>3
    <3> HIDE DEF h
    <3>3. d \in Validator /\ Core(d) = Core(h) /\ d.sent = h.sent
      BY <3>1 DEF Validator, Core
    <3> HIDE DEF d
    <3>4. QED
      BY <3>1, <3>2, <3>3, CoreDecides
  <2>4. QED
    BY <2>2, <2>3
<1>5. ASSUME s.pendingRequest <= 0, s.formSubmitted, ~valid
       PROVE  /\ stopRequest(w, f, valid) \in Validator
              /\ Good(stopRequest(w, f, valid))
              /\ stopRequest(w, f, valid).sent => Legal
  <2> DEFINE d == [s EXCEPT !.formSubmitted = FALSE]
  <2>1. stopRequest(w, f, valid) = d
    BY <1>1, <1>2, <1>5
  <2>2. d \in Validator /\ Core(d) = Core(s) /\ d.sent = s.sent
    BY <1>1 DEF Validator, Core
  <2> HIDE DEF d
  <2>3. QED
    BY <1>1, <2>1, <2>2, CoreDecides
<1>6. QED
  BY <1>1, <1>3, <1>4, <1>5

-----------------------------------------------------------------------------
(* The rules                                                                *)

LEMMA ParseFaithful ==
  ASSUME Around, Faithful(options), NEW fs \in SUBSET Fields
  PROVE  ParseRules(fs) \in [Fields -> SUBSET Rule] /\ Faithful(ParseRules(fs))
<1>1. ASSUME NEW f \in Fields PROVE Adapt(f) \cup {<<"dummy", 0>>} \subseteq Rule
  <2>1. /\ markup[f].min \in Lengths /\ markup[f].max \in Lengths
        /\ markup[f].equalto \subseteq Fields
    BY MarkupsAssumption DEF Around, Attributes
  <2>2. MinMax(markup[f].min, markup[f].max) \subseteq Rule
    BY <2>1 DEF MinMax, Rule
  <2>3. {<<"equalTo", g>> : g \in markup[f].equalto \cap page} \subseteq Rule
    BY <2>1 DEF Rule
  <2>4. {<<"dummy", 0>>, <<"required", 0>>, <<"remote", 0>>} \subseteq Rule
    BY DEF Rule
  <2>5. QED
    BY <2>2, <2>3, <2>4 DEF Adapt
<1>2. ParseRules(fs) \in [Fields -> SUBSET Rule]
  BY <1>1 DEF ParseRules, Around
<1>3. ASSUME NEW f \in fs
      PROVE  /\ MinMax(markup[f].min, markup[f].max) \subseteq ParseRules(fs)[f]
             /\ markup[f].required => <<"required", 0>> \in ParseRules(fs)[f]
             /\ markup[f].remote # {} => <<"remote", 0>> \in ParseRules(fs)[f]
             /\ \A g \in markup[f].equalto \cap Static : <<"equalTo", g>> \in ParseRules(fs)[f]
  BY DEF ParseRules, Adapt, Around
<1>4. ASSUME NEW f \in Fields, f \notin fs PROVE ParseRules(fs)[f] = options[f]
  BY <1>4 DEF ParseRules
<1>5. QED
  BY <1>2, <1>3, <1>4 DEF Faithful

-----------------------------------------------------------------------------
IInv == /\ TypeOK /\ Good(v) /\ Faithful(options) /\ Faithful(enforced)
        /\ v.sent => Legal
        /\ Static \subseteq page

\* What the steps that leave the rules alone have to show.
LEMMA ValidatorStep ==
  ASSUME IInv, UNCHANGED <<markup, page, options, enforced>>, value' \in [Fields -> Lengths],
         attached' \in BOOLEAN, open' \in BOOLEAN /\ asked' \in BOOLEAN,
         v' \in Validator, Good(v'), v'.sent => Legal'
  PROVE  IInv'
<1>1. TypeOK'
  BY DEF IInv, TypeOK
<1>2. Good(v)' /\ Faithful(options)' /\ Faithful(enforced)'
  BY DEF IInv, Good, Faithful
<1>3. QED
  BY <1>1, <1>2 DEF IInv

LEMMA Initial == Init => IInv
<1> SUFFICES ASSUME Init PROVE IInv
  OBVIOUS
<1>1. Around /\ Faithful(options) /\ Faithful(enforced)
  BY FieldsAssumption, LengthAssumption DEF Init, Around, Faithful, Lengths
<1>2. v \in Validator /\ ~v.sent
  <2>1. Unasked \in [old : Keys, valid : BOOLEAN] /\ None \in Keys
    BY DEF Unasked, Keys
  <2>2. QED
    BY <2>1 DEF Init, Validator
<1>3. Good(v)
  BY FS_EmptySet DEF Init, Good, Verdict, Unasked
<1>4. attached \in BOOLEAN
  BY Zenon DEF Init
<1>5. open \in BOOLEAN /\ asked \in BOOLEAN
  BY Zenon DEF Init
<1>6. QED
  BY <1>1, <1>2, <1>3, <1>4, <1>5 DEF IInv, TypeOK, Around

\* A step of the page's script.
LEMMA ScriptStep ==
  ASSUME IInv, parse \/ \E f \in Fields : AddField(f) \/ \E skip \in BOOLEAN : parseElement(f, skip)
  PROVE  IInv'
<1>1. Around /\ v \in Validator
  BY DEF IInv, TypeOK, Around
<1>2. ASSUME NEW f \in Fields, AddField(f) PROVE IInv'
  <2>1. /\ page' \subseteq Fields /\ ~v.sent
        /\ UNCHANGED <<markup, value, options, attached, enforced, v, open, asked>>
    BY <1>1, <1>2 DEF AddField, Here, Around
  <2>2. TypeOK'
    <3>1. /\ markup' = markup /\ value' = value /\ options' = options
          /\ enforced' = enforced /\ v' = v
      BY <2>1
    <3>2. attached' \in BOOLEAN /\ open' \in BOOLEAN /\ asked' \in BOOLEAN
      BY <2>1, Zenon DEF IInv, TypeOK
    <3> QED BY <2>1, <3>1, <3>2 DEF IInv, TypeOK
  <2>3. Static \subseteq page'
    BY <1>1, <1>2 DEF AddField, Around
  <2>4. QED
    BY <2>1, <2>2, <2>3 DEF IInv, Good, Faithful
<1>3. ASSUME NEW fs \in SUBSET Fields, options' = ParseRules(fs), ~v.sent,
             \/ attachValidation
             \/ UNCHANGED <<attached, enforced>>,
             UNCHANGED <<markup, page, value, v, open, asked>>
      PROVE  IInv'
  <2>1. options' \in [Fields -> SUBSET Rule] /\ Faithful(options)'
    BY <1>1, <1>3, ParseFaithful DEF IInv, Faithful
  <2>2. enforced' = enforced \/ enforced' = options'
    BY <1>3 DEF attachValidation
  <2>3. enforced' \in [Fields -> SUBSET Rule] /\ Faithful(enforced)'
    BY <1>1, <1>3, <2>1, <2>2 DEF Around, IInv, Faithful
  <2>4. attached' \in BOOLEAN
    <3>1. CASE attachValidation
      BY <3>1, Zenon DEF attachValidation
    <3>2. CASE UNCHANGED <<attached, enforced>>
      <4>1. attached' = attached
        BY <3>2
      <4>2. QED
        BY <4>1, Zenon DEF IInv, TypeOK
    <3>3. QED
      BY <1>3, <3>1, <3>2
  <2>5. open' \in BOOLEAN /\ asked' \in BOOLEAN
    BY <1>3, Zenon DEF IInv, TypeOK
  <2>6. TypeOK'
    BY <1>3, <2>1, <2>3, <2>4, <2>5 DEF IInv, TypeOK
  <2>7. QED
    BY <1>3, <2>1, <2>3, <2>6 DEF IInv, Good
<1>4. ASSUME parse PROVE IInv'
  BY <1>1, <1>3, <1>4 DEF parse, Here, Around
<1>5. ASSUME NEW f \in Fields, NEW skip \in BOOLEAN, parseElement(f, skip) PROVE IInv'
  <2>1. attachValidation \/ UNCHANGED <<attached, enforced>>
    BY <1>5 DEF parseElement
  <2>2. QED
    BY <1>3, <1>5, <2>1 DEF parseElement, Here
<1>6. QED
  BY <1>2, <1>4, <1>5

\* A step that only the validator and the observer take.
LEMMA ValidatorOnly ==
  ASSUME IInv, UNCHANGED <<markup, page, value, options, attached, enforced>>,
         open' \in BOOLEAN /\ asked' \in BOOLEAN, v' \in Validator, Good(v'), v'.sent => Legal
  PROVE  IInv'
<1>1. attached' \in BOOLEAN
  BY Zenon DEF IInv, TypeOK
<1>2. Legal => Legal'
  BY DEF Legal, LegalField, Key
<1>3. value' \in [Fields -> Lengths]
  BY DEF IInv, TypeOK
<1>4. QED
  BY <1>1, <1>2, <1>3, ValidatorStep

\* A step of the user.
LEMMA UserStep ==
  ASSUME IInv, Submit \/ Validate \/ onReset \/ \E f \in Fields : Edit(f) \/ Leave(f)
  PROVE  IInv'
<1>1. Around /\ v \in Validator /\ Good(v) /\ Faithful(enforced)
  BY DEF IInv, TypeOK, Around
<1>2. CASE Submit
  <2>1. /\ ~v.sent /\ v' = SubmitHandler(v)
        /\ UNCHANGED <<markup, page, value, options, attached, enforced>>
    BY <1>2 DEF Submit, Here
  <2>2. open' \in BOOLEAN /\ asked' \in BOOLEAN
    BY <1>2, Zenon DEF Submit
  <2>3. QED
    BY <1>1, <2>1, <2>2, SubmitGood, ValidatorOnly
<1>3. CASE Validate
  <2>1. /\ ~v.sent /\ v' = Form(v)
        /\ UNCHANGED <<markup, page, value, options, attached, enforced>>
    BY <1>3 DEF Validate, Here
  <2>2. open' \in BOOLEAN /\ asked' \in BOOLEAN
    BY <1>3, Zenon DEF Validate, StillOpen, IInv, TypeOK
  <2>3. QED
    BY <1>1, <2>1, <2>2, FormGood, ValidatorOnly
<1>4. ASSUME NEW f \in Fields, Leave(f) PROVE IInv'
  <2>1. /\ ~v.sent /\ v' = Element(v, f)
        /\ UNCHANGED <<markup, page, value, options, attached, enforced>>
    BY <1>4 DEF Leave, Here
  <2>2. open' \in BOOLEAN /\ asked' \in BOOLEAN
    BY <1>4, Zenon DEF Leave, StillOpen, IInv, TypeOK
  <2>3. QED
    BY <1>1, <2>1, <2>2, ElementGood, ValidatorOnly
<1>5. ASSUME NEW f \in Fields, Edit(f) PROVE IInv'
  <2>1. /\ ~v.sent /\ v' = v /\ value' \in [Fields -> Lengths]
        /\ UNCHANGED <<markup, page, options, enforced>>
    BY <1>1, <1>5 DEF Edit, Here, Around
  <2>2. attached' \in BOOLEAN
    BY <1>5, Zenon DEF Edit, IInv, TypeOK
  <2>3. open' \in BOOLEAN /\ asked' \in BOOLEAN
    BY <1>5, Zenon DEF Edit, IInv, TypeOK
  <2>4. QED
    BY <1>1, <2>1, <2>2, <2>3, ValidatorStep
<1>6. CASE onReset
  <2> DEFINE elements == {f \in page : enforced[f] # {}}
             previous == [f \in Fields |-> IF f \in elements THEN Unasked ELSE v.previous[f]]
             r == [v EXCEPT !.previous = previous, !.live = @ \ elements,
                            !.invalid = [f \in Fields |-> "none"], !.submitted = {},
                            !.errorMap = {}, !.shown = {}]
  <2>1. /\ ~v.sent /\ v' = IF ~attached THEN v ELSE r
        /\ UNCHANGED <<markup, page, options, enforced>>
    BY <1>6 DEF onReset, Here
  <2>2. value' \in [Fields -> Lengths]
    BY <1>6, LengthAssumption DEF onReset, Lengths
  <2>3. attached' \in BOOLEAN
    BY <1>6, Zenon DEF onReset, IInv, TypeOK
  <2>4. open' \in BOOLEAN /\ asked' \in BOOLEAN
    BY <1>6, Zenon DEF onReset, IInv, TypeOK
  <2>5. /\ r.previous = previous /\ r.live = v.live \ elements /\ r.wire = v.wire
        /\ r.pending = v.pending /\ r.pendingRequest = v.pendingRequest /\ r.sent = v.sent
    BY <1>1 DEF Validator
  <2>6. previous \in [Fields -> [old : Keys, valid : BOOLEAN]]
    BY <1>1 DEF Validator, Unasked, Keys
  <2> HIDE DEF previous
  <2>7. r \in Validator
    BY <1>1, <2>6 DEF Validator
  <2> HIDE DEF r
  <2>8. Good(r)
    <3> SUFFICES ASSUME NEW f \in Fields
        PROVE /\ r.wire[f] # None => f \in r.pending
              /\ f \in r.live => r.previous[f].old = r.wire[f]
              /\ r.wire[f] # None /\ f \notin r.live => r.previous[f].old = None
              /\ r.previous[f].old = None => r.previous[f].valid
              /\ f \notin r.pending => Verdict(r, f)
      BY <1>1, <2>5 DEF Good
    <3>1. CASE f \in elements
      BY <1>1, <2>5, <3>1 DEF Good, Verdict, previous, Unasked
    <3>2. CASE f \notin elements
      BY <1>1, <2>5, <3>2 DEF Good, Verdict, previous
    <3>3. QED
      BY <3>1, <3>2
  <2>9. v' \in Validator /\ Good(v') /\ ~v'.sent
    BY <1>1, <2>1, <2>5, <2>7, <2>8
  <2>10. QED
    BY <2>1, <2>2, <2>3, <2>4, <2>9, ValidatorStep
<1>7. QED
  BY <1>2, <1>3, <1>4, <1>5, <1>6

\* The verdict of an answer on its field; the callback then takes it off the count.
LEMMA AnswerJudges ==
  ASSUME IInv, NEW f \in Fields, Answer(f)
  PROVE  \E j \in Validator :
           /\ v' = stopRequest(j, f, v.wire[f] \in Accepts)
           /\ Good(j) /\ ~j.sent /\ j.wire[f] = None /\ f \in j.pending
           /\ Verdict(j, f)
           /\ j.pending = v.pending /\ j.formSubmitted = v.formSubmitted
           /\ j.shown = IF v.wire[f] \in Accepts THEN v.shown \ {f}
                        ELSE v.shown \cup v.errorMap \cup {f}
           /\ j.errorMap = IF v.wire[f] \in Accepts THEN {} ELSE v.errorMap \cup {f}
           /\ j.invalid = [v.invalid EXCEPT ![f] = IF v.wire[f] \in Accepts THEN "false" ELSE "true"]
<1>1. Around /\ v \in Validator /\ Good(v) /\ Faithful(enforced)
  BY DEF IInv, TypeOK, Around
<1>2. v.wire[f] # None /\ f \in v.pending /\ ~v.sent
  BY <1>1 DEF Answer, Here, Good
<1> DEFINE valid == v.wire[f] \in Accepts
           wire == [v.wire EXCEPT ![f] = None]
           verdict == IF f \in v.live THEN valid ELSE v.previous[f].valid
           previous == [v.previous EXCEPT ![f].valid = verdict]
           invalid == [v.invalid EXCEPT ![f] = IF valid THEN "false" ELSE "true"]
           errorMap == IF valid THEN {} ELSE v.errorMap \cup {f}
           shown == IF valid THEN onSuccess(v.shown, {f}) ELSE onError(v.shown, v.errorMap \cup {f})
           j == [v EXCEPT !.wire = wire, !.live = @ \ {f}, !.errorMap = errorMap,
                          !.invalid = invalid, !.shown = shown, !.previous = previous]
<1>3. v' = stopRequest(j, f, valid)
  BY <1>1 DEF Answer, Validator
<1>4. /\ wire \in [Fields -> Keys] /\ errorMap \in SUBSET Fields /\ shown \in SUBSET Fields
      /\ invalid \in [Fields -> {"none", "false", "true"}]
  BY <1>1 DEF Validator, Keys, onSuccess, onError
<1>5. valid \in BOOLEAN
  OBVIOUS
<1>6. verdict \in BOOLEAN
  <2>1. v.previous[f].valid \in BOOLEAN
    BY <1>1 DEF Validator
  <2> HIDE DEF valid
  <2>2. CASE f \in v.live
    BY <1>5, <2>2, Zenon
  <2>3. CASE f \notin v.live
    BY <2>1, <2>3, Zenon
  <2> QED BY <2>2, <2>3
<1>7. previous \in [Fields -> [old : Keys, valid : BOOLEAN]]
  <2> HIDE DEF verdict
  <2> QED BY <1>1, <1>6 DEF Validator
<1>8. /\ j.wire = wire /\ j.live = v.live \ {f} /\ j.previous = previous
      /\ j.pending = v.pending /\ j.pendingRequest = v.pendingRequest /\ j.sent = v.sent
  BY <1>1 DEF Validator
<1> HIDE DEF wire, previous, invalid, errorMap, shown
<1>9. j \in Validator
  BY <1>1, <1>4, <1>7 DEF Validator
<1>10. /\ j.shown = shown /\ j.errorMap = errorMap /\ j.invalid = invalid
       /\ j.formSubmitted = v.formSubmitted
  BY <1>1 DEF Validator
<1> HIDE DEF j
<1>11. /\ previous[f].old = v.previous[f].old
       /\ previous[f].valid <=> verdict
       /\ \A g \in Fields \ {f} : previous[g] = v.previous[g]
  <2> HIDE DEF verdict
  <2> QED BY <1>1, <1>6 DEF previous, Validator
<1>12. Good(j)
  <2> SUFFICES ASSUME NEW g \in Fields
      PROVE /\ j.wire[g] # None => g \in j.pending
            /\ g \in j.live => j.previous[g].old = j.wire[g]
            /\ j.wire[g] # None /\ g \notin j.live => j.previous[g].old = None
            /\ j.previous[g].old = None => j.previous[g].valid
            /\ g \notin j.pending => Verdict(j, g)
    BY <1>1, <1>8 DEF Good
  <2>1. CASE g = f
    BY <1>1, <1>2, <1>8, <1>11, <2>1 DEF Good, wire, Validator
  <2>2. CASE g # f
    BY <1>1, <1>2, <1>8, <1>11, <2>2 DEF Good, Verdict, wire, Validator
  <2> QED BY <2>1, <2>2
<1>13. Verdict(j, f)
  BY <1>1, <1>2, <1>8, <1>11 DEF Good, Verdict
<1>14. j.wire[f] = None
  BY <1>1, <1>8 DEF wire, Validator
<1>15. QED
  BY <1>2, <1>3, <1>8, <1>9, <1>12, <1>13, <1>14, <1>10
     DEF valid, shown, errorMap, invalid, onSuccess, onError

\* A request ends.
LEMMA ServerStep ==
  ASSUME IInv, NEW f \in Fields, Settle(f) PROVE IInv'
<1>1. Around /\ v \in Validator /\ Good(v) /\ Faithful(enforced)
  BY DEF IInv, TypeOK, Around
<1>2. v.wire[f] # None /\ f \in v.pending /\ ~v.sent
  BY <1>1 DEF Settle, Answer, Fail, Here, Good
<1>3. CASE Fail(f)
  <2> DEFINE wire == [v.wire EXCEPT ![f] = None]
             r == [v EXCEPT !.wire = wire, !.live = @ \ {f}]
  <2>1. /\ v' = r
        /\ UNCHANGED <<markup, page, value, options, attached, enforced, open, asked>>
    BY <1>3 DEF Fail
  <2>2. wire \in [Fields -> Keys]
    BY <1>1 DEF Validator, Keys
  <2>3. /\ r.wire = wire /\ r.live = v.live \ {f} /\ r.previous = v.previous
        /\ r.pending = v.pending /\ r.pendingRequest = v.pendingRequest /\ r.sent = v.sent
    BY <1>1 DEF Validator
  <2> HIDE DEF wire
  <2>4. r \in Validator
    BY <1>1, <2>2 DEF Validator
  <2> HIDE DEF r
  <2>5. Good(r)
    BY <1>1, <1>2, <2>3 DEF Good, Verdict, wire, Validator
  <2>6. open' \in BOOLEAN /\ asked' \in BOOLEAN
    BY <2>1, Zenon DEF IInv, TypeOK
  <2>7. QED
    BY <1>2, <2>1, <2>3, <2>4, <2>5, <2>6, ValidatorOnly
<1>4. CASE Answer(f)
  <2>1. UNCHANGED <<markup, page, value, options, attached, enforced>>
    BY <1>4 DEF Answer
  <2>2. open' \in BOOLEAN /\ asked' \in BOOLEAN
    BY <1>4, Zenon DEF Answer, StillOpen
  <2>3. PICK j \in Validator :
          /\ v' = stopRequest(j, f, v.wire[f] \in Accepts)
          /\ Good(j) /\ ~j.sent /\ j.wire[f] = None /\ f \in j.pending
          /\ Verdict(j, f)
    BY <1>4, AnswerJudges
  <2> DEFINE valid == v.wire[f] \in Accepts
  <2>4. valid \in BOOLEAN /\ v' = stopRequest(j, f, valid)
    BY <2>3
  <2> HIDE DEF valid
  <2>5. v' \in Validator /\ Good(v') /\ (v'.sent => Legal)
    BY <1>1, <2>3, <2>4, StopGood
  <2>6. QED
    BY <2>1, <2>2, <2>5, ValidatorOnly
<1>5. QED
  BY <1>3, <1>4 DEF Settle

LEMMA Inductive == Spec => []IInv
<1>1. Init => IInv
  BY Initial
<1>2. IInv /\ [Next]_vars => IInv'
  <2> SUFFICES ASSUME IInv, [Next]_vars PROVE IInv'
    OBVIOUS
  <2>1. CASE Next
    BY <2>1, ScriptStep, UserStep, ServerStep DEF Next
  <2>2. CASE UNCHANGED vars
    <3>1. UNCHANGED <<markup, page, value, options, attached, enforced, v, open, asked>>
      BY <2>2 DEF vars
    <3>2. open' \in BOOLEAN /\ asked' \in BOOLEAN
      BY <3>1, Zenon DEF IInv, TypeOK
    <3>3. QED
      BY <3>1, <3>2, ValidatorOnly DEF IInv, TypeOK, Good
  <2>3. QED
    BY <2>1, <2>2
<1>3. QED
  BY <1>1, <1>2, PTL DEF Spec

\* The state is well typed.
THEOREM TypeCorrect == Spec => []TypeOK
<1>1. IInv => TypeOK
  BY DEF IInv
<1>2. QED
  BY <1>1, Inductive, PTL

\* The counter of requests never gets out of step with the fields that wait.
THEOREM CounterInStep == Spec => []CountsPending
<1>1. IInv => CountsPending
  BY DEF IInv, Good, CountsPending
<1>2. QED
  BY <1>1, Inductive, PTL

\* Whatever the order of edits, answers, failures and resets, a form that is sent
\* obeys the attributes of every field that has rules, one that is to be repeated
\* and was there from the start included, and the server accepted exactly what is
\* sent.
THEOREM OnlyLegalIsSent == Spec => []SentIsLegal
<1>1. IInv => SentIsLegal
  BY DEF IInv, Legal, SentIsLegal
<1>2. QED
  BY <1>1, Inductive, PTL

-----------------------------------------------------------------------------
(* The messages                                                             *)

\* Only fields with rules wait or show a message, and a field shows one just
\* when it is judged invalid, unless it waits.
Follows(w) ==
  /\ w.shown \cup w.pending \subseteq Elements
  /\ w.errorMap \subseteq w.shown
  /\ \A f \in Fields : /\ w.invalid[f] = "true" => f \in w.shown
                       /\ f \in w.shown => w.invalid[f] = "true" \/ f \in w.pending

MessageInv == Follows(v) /\ (~attached => \A f \in Fields : enforced[f] = {})

Look(w) == <<w.shown, w.pending, w.errorMap, w.invalid>>

LEMMA LookDecides == ASSUME NEW w, NEW c, Follows(w), Look(c) = Look(w) PROVE Follows(c)
  BY DEF Follows, Look

\* A check changes the messages of the fields it judges, and of no other.
LEMMA CheckShows ==
  ASSUME Around, NEW w \in Validator, Good(w), NEW fs \in SUBSET page
  PROVE  LET c == Check(w, fs)
         IN  /\ c.shown = (w.shown \cup Failed(w, fs))
                            \ {f \in fs \ (Failed(w, fs) \cup Asking(w, fs)) : enforced[f] # {}}
             /\ c.invalid = w.invalid
             /\ c.pending = w.pending \cup Asking(w, fs)
             /\ c.errorMap = Failed(w, fs)
             /\ c \in Validator
             /\ Failed(w, fs) \cup Asking(w, fs) \subseteq fs \cap Elements
<1> DEFINE s == StartRequests(w, Asking(w, fs))
<1>1. fs \in SUBSET Fields
  BY DEF Around
<1>2. Asking(w, fs) \in SUBSET Fields
  BY <1>1 DEF Asking
<1>3. s \in Validator
  BY <1>2, StartGood
<1>4. s.shown = w.shown /\ s.invalid = w.invalid
  BY DEF StartRequests, Validator
<1>5. Failed(w, fs) \cup Asking(w, fs) \subseteq fs \cap Elements
  BY DEF Failed, Asking, AsksServer, Local, Elements
<1> HIDE DEF s
<1>6. Check(w, fs) =
        [s EXCEPT !.errorMap = Failed(w, fs), !.submitted = @ \cup Failed(w, fs),
                  !.bound = @ \cup {f \in fs : Binds(f)},
                  !.shown = onSuccess(onError(@, Failed(w, fs)),
                    {f \in fs \ (Failed(w, fs) \cup Asking(w, fs)) : enforced[f] # {}})]
  BY DEF Check, s
<1>7. /\ Check(w, fs).shown = onSuccess(onError(s.shown, Failed(w, fs)),
           {f \in fs \ (Failed(w, fs) \cup Asking(w, fs)) : enforced[f] # {}})
      /\ Check(w, fs).invalid = s.invalid
  BY <1>3, <1>6 DEF Validator
<1>8. QED
  BY <1>1, <1>4, <1>5, <1>7, CheckGood DEF onSuccess, onError

LEMMA FormFollows ==
  ASSUME Around, NEW w \in Validator, Good(w), Follows(w) PROVE Follows(Form(w))
<1> DEFINE c == Check(w, Elements)
           verdicts == [f \in Fields |-> IF f \in c.errorMap THEN "true" ELSE "none"]
<1>1. Elements \in SUBSET page
  BY DEF Elements
<1>2. /\ c.shown = (w.shown \cup Failed(w, Elements))
            \ {f \in Elements \ (Failed(w, Elements) \cup Asking(w, Elements)) : enforced[f] # {}}
      /\ c.pending = w.pending \cup Asking(w, Elements)
      /\ c.errorMap = Failed(w, Elements) /\ c \in Validator
      /\ Failed(w, Elements) \cup Asking(w, Elements) \subseteq Elements
  BY <1>1, CheckShows
<1>3. Form(w) = [c EXCEPT !.invalid = verdicts]
  BY DEF Form, Elements
<1> HIDE DEF c
<1>4. /\ Form(w).shown = c.shown /\ Form(w).pending = c.pending
      /\ Form(w).errorMap = c.errorMap /\ Form(w).invalid = verdicts
  BY <1>2, <1>3 DEF Validator
<1>5. \A f \in Elements : enforced[f] # {}
  BY DEF Elements
<1>6. QED
  BY <1>2, <1>4, <1>5 DEF Follows

LEMMA ElementFollows ==
  ASSUME Around, NEW w \in Validator, Good(w), Follows(w), NEW f \in page
  PROVE  Follows(Element(w, f))
<1> DEFINE c == Check(w, {f})
           verdicts == [c.invalid EXCEPT ![f] = IF f \in c.errorMap THEN "true" ELSE "false"]
<1>1. {f} \in SUBSET page /\ f \in Fields
  BY DEF Around
<1>2. /\ c.shown = (w.shown \cup Failed(w, {f}))
            \ {g \in {f} \ (Failed(w, {f}) \cup Asking(w, {f})) : enforced[g] # {}}
      /\ c.invalid = w.invalid
      /\ c.pending = w.pending \cup Asking(w, {f})
      /\ c.errorMap = Failed(w, {f}) /\ c \in Validator
      /\ Failed(w, {f}) \cup Asking(w, {f}) \subseteq {f} \cap Elements
  BY <1>1, CheckShows
<1>3. Element(w, f) = [c EXCEPT !.invalid = verdicts]
  BY DEF Element
<1> HIDE DEF c
<1>4. c.invalid \in [Fields -> {"none", "false", "true"}]
  BY <1>2 DEF Validator
<1>5. /\ verdicts[f] = IF f \in c.errorMap THEN "true" ELSE "false"
      /\ \A g \in Fields \ {f} : verdicts[g] = w.invalid[g]
  BY <1>1, <1>2, <1>4
<1> HIDE DEF verdicts
<1>6. /\ Element(w, f).shown = c.shown /\ Element(w, f).pending = c.pending
      /\ Element(w, f).errorMap = c.errorMap /\ Element(w, f).invalid = verdicts
  BY <1>2, <1>3 DEF Validator
<1>7. \A g \in Elements : enforced[g] # {}
  BY DEF Elements
<1>8. /\ c.shown \cup c.pending \subseteq Elements
      /\ c.errorMap \subseteq c.shown
  BY <1>2 DEF Follows
<1>9. ASSUME NEW g \in Fields
      PROVE  /\ verdicts[g] = "true" => g \in c.shown
             /\ g \in c.shown => verdicts[g] = "true" \/ g \in c.pending
  <2>1. CASE g = f
    BY <1>2, <1>5, <1>7, <1>8, <2>1 DEF Follows
  <2>2. CASE g # f
    BY <1>2, <1>5, <2>2 DEF Follows
  <2>3. QED
    BY <2>1, <2>2
<1>10. QED
  BY <1>6, <1>8, <1>9 DEF Follows

LEMMA SubmitFollows ==
  ASSUME Around, NEW w \in Validator, Good(w), Follows(w) PROVE Follows(SubmitHandler(w))
<1> DEFINE c == Form(w)
<1>1. c \in Validator /\ Follows(c)
  BY FormGood, FormFollows
<1>2. SubmitHandler(w) \in {c, [c EXCEPT !.formSubmitted = TRUE], [c EXCEPT !.sent = TRUE]}
  BY DEF SubmitHandler
<1> HIDE DEF c
<1>3. Look(SubmitHandler(w)) = Look(c)
  BY <1>1, <1>2 DEF Validator, Look
<1>4. QED
  BY <1>1, <1>3, LookDecides

\* The answer has judged its field, so the field may stop to wait.
LEMMA StopFollows ==
  ASSUME Around, Faithful(enforced), NEW w \in Validator, Good(w), ~w.sent, Follows(w),
         NEW f \in w.pending, w.wire[f] = None, NEW valid \in BOOLEAN,
         Verdict(w, f),
         f \in w.shown => w.invalid[f] = "true"
  PROVE  Follows(stopRequest(w, f, valid))

<1> DEFINE s == TakeOff(w, f)
           d(x) == [x EXCEPT !.formSubmitted = FALSE]
<1>1. s \in Validator /\ Good(s) /\ s.pendingRequest \in Nat /\ ~s.sent
  BY TakeOffGood
<1>2. /\ s.shown = w.shown /\ s.errorMap = w.errorMap /\ s.invalid = w.invalid
      /\ s.pending = w.pending \ {f}
  BY DEF Validator, TakeOff
<1>3. Follows(s)
  BY <1>2 DEF Follows
<1>4. stopRequest(w, f, valid) =
        IF s.pendingRequest > 0 \/ ~s.formSubmitted THEN s
        ELSE IF valid THEN IF Form(s).errorMap # {} THEN Form(s) ELSE d(SubmitHandler(Form(s)))
        ELSE d(s)
  BY DEF stopRequest, TakeOff
<1>5. Form(s) \in Validator /\ Good(Form(s)) /\ Follows(Form(s)) /\ ~Form(s).sent
  <2> HIDE DEF s
  <2> QED BY <1>1, <1>3, FormGood, FormFollows
<1>6. SubmitHandler(Form(s)) \in Validator /\ Follows(SubmitHandler(Form(s)))
  <2> HIDE DEF s
  <2> QED BY <1>5, SubmitGood, SubmitFollows
<1>7. \A x \in Validator : Look(d(x)) = Look(x)
  BY DEF Look, Validator
<1> HIDE DEF s, d
<1>8. Follows(d(s)) /\ Follows(d(SubmitHandler(Form(s))))
  BY <1>1, <1>3, <1>6, <1>7, LookDecides
<1>9. QED
  BY <1>3, <1>4, <1>5, <1>8

\* The step keeps the messages when it leaves the rules and the page alone.
LEMMA SameElements ==
  ASSUME MessageInv, UNCHANGED <<page, attached, enforced>>, Follows(v') PROVE MessageInv'
<1>1. Elements' = Elements
  BY DEF Elements
<1>2. QED
  BY <1>1 DEF MessageInv, Follows

\* The rules that are enforced change once, when there is no message yet.
LEMMA ScriptFollows ==
  ASSUME IInv, MessageInv,
         parse \/ \E f \in Fields : AddField(f) \/ \E skip \in BOOLEAN : parseElement(f, skip)
  PROVE  MessageInv'
<1>1. /\ v' = v /\ page \subseteq page'
      /\ \/ attached' = attached /\ enforced' = enforced
         \/ attached' = TRUE /\ (attached => enforced' = enforced)
  BY DEF parse, AddField, parseElement, attachValidation
<1>2. ~attached => Elements = {}
  BY DEF MessageInv, Elements, IInv, TypeOK
<1>3. Elements \subseteq Elements'
  <2>1. CASE enforced' = enforced
    BY <1>1, <2>1 DEF Elements
  <2>2. CASE enforced' # enforced
    BY <1>1, <1>2, <2>2
  <2>3. QED
    BY <2>1, <2>2
<1>4. Follows(v)'
  BY <1>1, <1>3 DEF MessageInv, Follows
<1>5. ~attached' => \A f \in Fields : enforced'[f] = {}
  BY <1>1 DEF MessageInv
<1>6. QED
  BY <1>4, <1>5 DEF MessageInv

LEMMA UserFollows ==
  ASSUME IInv, MessageInv, Submit \/ Validate \/ onReset \/ \E f \in Fields : Edit(f) \/ Leave(f)
  PROVE  MessageInv'
<1>1. Around /\ v \in Validator /\ Good(v) /\ Faithful(enforced) /\ Follows(v)
  BY DEF IInv, TypeOK, Around, MessageInv
<1>2. CASE Submit
  BY <1>1, <1>2, SubmitFollows, SameElements DEF Submit
<1>3. CASE Validate
  BY <1>1, <1>3, FormFollows, SameElements DEF Validate
<1>4. ASSUME NEW f \in Fields, Edit(f) PROVE MessageInv'
  BY <1>1, <1>4, SameElements DEF Edit
<1>5. ASSUME NEW f \in Fields, Leave(f) PROVE MessageInv'
  BY <1>1, <1>5, ElementFollows, SameElements DEF Leave
<1>6. CASE onReset
  <2>1. UNCHANGED <<page, attached, enforced>>
    BY <1>6 DEF onReset
  <2> DEFINE elements == {f \in page : enforced[f] # {}}
             previous == [f \in Fields |-> IF f \in elements THEN Unasked ELSE v.previous[f]]
             r == [v EXCEPT !.previous = previous, !.live = @ \ elements,
                            !.invalid = [f \in Fields |-> "none"], !.submitted = {},
                            !.errorMap = {}, !.shown = {}]
  <2>2. v' = v \/ v' = r
    BY <1>6 DEF onReset
  <2>3. /\ r.pending = v.pending /\ r.shown = {} /\ r.errorMap = {}
        /\ r.invalid = [f \in Fields |-> "none"]
    BY <1>1 DEF Validator
  <2> HIDE DEF r
  <2>4. Follows(v')
    BY <1>1, <2>2, <2>3 DEF Follows
  <2>5. QED
    BY <2>1, <2>4, SameElements
<1>7. QED
  BY <1>2, <1>3, <1>4, <1>5, <1>6

LEMMA ServerFollows ==
  ASSUME IInv, MessageInv, NEW f \in Fields, Settle(f) PROVE MessageInv'
<1>1. Around /\ v \in Validator /\ Good(v) /\ Faithful(enforced) /\ Follows(v)
  BY DEF IInv, TypeOK, Around, MessageInv
<1>2. CASE Fail(f)
  <2> DEFINE wire == [v.wire EXCEPT ![f] = None]
  <2>1. v' = [v EXCEPT !.wire = wire, !.live = @ \ {f}]
    BY <1>2 DEF Fail
  <2> HIDE DEF wire
  <2>2. Look(v') = Look(v)
    BY <1>1, <2>1 DEF Validator, Look
  <2>3. QED
    BY <1>1, <1>2, <2>2, LookDecides, SameElements DEF Fail
<1>3. CASE Answer(f)
  <2> DEFINE valid == v.wire[f] \in Accepts
  <2>1. PICK j \in Validator :
          /\ v' = stopRequest(j, f, valid)
          /\ Good(j) /\ ~j.sent /\ j.wire[f] = None /\ f \in j.pending
          /\ Verdict(j, f)
          /\ j.pending = v.pending
          /\ j.shown = IF valid THEN v.shown \ {f} ELSE v.shown \cup v.errorMap \cup {f}
          /\ j.errorMap = IF valid THEN {} ELSE v.errorMap \cup {f}
          /\ j.invalid = [v.invalid EXCEPT ![f] = IF valid THEN "false" ELSE "true"]
    BY <1>3, AnswerJudges
  <2>2. valid \in BOOLEAN
    OBVIOUS
  <2> HIDE DEF valid
  <2>3. /\ j.invalid[f] = IF valid THEN "false" ELSE "true"
        /\ \A g \in Fields \ {f} : j.invalid[g] = v.invalid[g]
    BY <1>1, <2>1 DEF Validator
  <2>4. f \in Elements /\ v.errorMap \subseteq v.shown
    BY <1>1, <2>1 DEF Follows
  <2>5. /\ j.shown \cup j.pending \subseteq Elements /\ j.errorMap \subseteq j.shown
        /\ f \in j.shown <=> ~valid
    BY <1>1, <2>1, <2>2, <2>4 DEF Follows
  <2>6. ASSUME NEW g \in Fields
        PROVE  /\ j.invalid[g] = "true" => g \in j.shown
               /\ g \in j.shown => j.invalid[g] = "true" \/ g \in j.pending
    <3>1. CASE g = f
      BY <2>2, <2>3, <2>5, <3>1
    <3>2. CASE g # f
      <4>1. g \in j.shown <=> g \in v.shown
        BY <1>1, <2>1, <2>4, <3>2
      <4>2. QED
        BY <1>1, <2>1, <2>3, <3>2, <4>1 DEF Follows
    <3>3. QED
      BY <3>1, <3>2
  <2>7. Follows(j)
    BY <2>5, <2>6 DEF Follows
  <2>8. f \in j.shown => j.invalid[f] = "true"
    BY <2>3, <2>5
  <2>9. Follows(v')
    BY <1>1, <2>1, <2>2, <2>7, <2>8, StopFollows
  <2>10. QED
    BY <1>3, <2>9, SameElements DEF Answer
<1>4. QED
  BY <1>2, <1>3 DEF Settle

\* A message stays exactly as long as the verdict it tells, except that a field
\* that waits for the server may keep the one it had.
THEOREM MessagesTellVerdicts == Spec => []MessagesFollowVerdicts
<1>1. Init => MessageInv
  BY DEF Init, MessageInv, Follows
<1>2. IInv /\ MessageInv /\ [Next]_vars => MessageInv'
  <2> SUFFICES ASSUME IInv, MessageInv, [Next]_vars PROVE MessageInv'
    OBVIOUS
  <2>1. CASE Next
    BY <2>1, ScriptFollows, UserFollows, ServerFollows DEF Next
  <2>2. CASE UNCHANGED vars
    BY <2>2, SameElements DEF vars, MessageInv
  <2>3. QED
    BY <2>1, <2>2
<1>3. MessageInv => MessagesFollowVerdicts
  BY DEF MessageInv, Follows, MessagesFollowVerdicts
<1>4. QED
  BY <1>1, <1>2, <1>3, Inductive, PTL DEF Spec

-----------------------------------------------------------------------------
\* stopRequest sends or keeps a held submission only, and drops it when the last
\* answer is a bad one.
LEMMA StopKeeps ==
  ASSUME NEW w \in Validator, Good(w), ~w.sent, NEW f \in w.pending, w.wire[f] = None,
         NEW valid \in BOOLEAN, Verdict(w, f)
  PROVE  LET r == stopRequest(w, f, valid)
         IN  r.formSubmitted \/ r.sent => w.formSubmitted /\ (valid \/ r.pending # {})
<1> DEFINE s == TakeOff(w, f)
           r == stopRequest(w, f, valid)
<1>1. s \in Validator /\ Good(s) /\ ~s.sent /\ s.pendingRequest \in Nat
  BY TakeOffGood
<1>2. s.formSubmitted = w.formSubmitted
  BY DEF TakeOff, Validator
<1>3. r = IF s.pendingRequest > 0 \/ ~s.formSubmitted THEN s
          ELSE IF valid THEN IF Form(s).errorMap # {} THEN Form(s)
                             ELSE [SubmitHandler(Form(s)) EXCEPT !.formSubmitted = FALSE]
          ELSE [s EXCEPT !.formSubmitted = FALSE]
  BY DEF stopRequest, TakeOff
<1> HIDE DEF s, r
<1>4. CASE s.pendingRequest > 0 /\ s.formSubmitted
  <2>1. Cardinality(s.pending) # Cardinality({})
    BY <1>1, <1>4, FS_EmptySet DEF Good
  <2>2. s.pending # {}
    BY <2>1, Zenon
  <2> QED BY <1>2, <1>3, <1>4, <2>2 DEF r
<1>5. CASE ~s.formSubmitted
  BY <1>1, <1>3, <1>5 DEF r
<1>6. CASE ~(s.pendingRequest > 0) /\ s.formSubmitted /\ valid
  BY <1>2, <1>6
<1>7. CASE ~(s.pendingRequest > 0) /\ s.formSubmitted /\ ~valid
  <2>1. r = [s EXCEPT !.formSubmitted = FALSE]
    BY <1>3, <1>7
  <2>2. ~r.formSubmitted /\ ~r.sent
    BY <1>1, <2>1 DEF Validator
  <2> QED BY <2>2 DEF r
<1> QED
  BY <1>4, <1>5, <1>6, <1>7

\* A submission is held, or the form sent, only at the user's request.
AskedInv == v.formSubmitted \/ v.sent => asked

LEMMA StepAsked == IInv /\ AskedInv /\ [Next]_vars => AskedInv'
<1> SUFFICES ASSUME IInv, AskedInv, [Next]_vars PROVE AskedInv'
  OBVIOUS
<1>1. Around /\ v \in Validator /\ Good(v)
  BY DEF IInv, TypeOK, Around
<1>2. CASE UNCHANGED <<v, asked>>
  BY <1>2 DEF AskedInv
<1>3. CASE Submit
  BY <1>3 DEF Submit, AskedInv
<1>4. ASSUME Validate PROVE AskedInv'
  BY <1>1, <1>4, FormGood DEF Validate, AskedInv
<1>5. ASSUME NEW f \in Fields, Leave(f) PROVE AskedInv'
  BY <1>1, <1>5, ElementGood DEF Leave, AskedInv
<1>6. CASE onReset
  <2>1. v'.formSubmitted = v.formSubmitted /\ v'.sent = v.sent
    BY <1>1, <1>6 DEF onReset, Validator
  <2> QED BY <1>6, <2>1 DEF onReset, AskedInv
<1>7. ASSUME NEW f \in Fields, Fail(f) PROVE AskedInv'
  <2>1. v'.formSubmitted = v.formSubmitted /\ v'.sent = v.sent
    BY <1>1, <1>7 DEF Fail, Validator
  <2> QED BY <1>7, <2>1 DEF Fail, AskedInv
<1>8. ASSUME NEW f \in Fields, Answer(f) PROVE AskedInv'
  <2> DEFINE valid == v.wire[f] \in Accepts
  <2>1. asked' = (asked /\ (valid \/ v'.pending # {}))
    BY <1>8 DEF Answer
  <2>2. PICK j \in Validator :
          /\ v' = stopRequest(j, f, valid)
          /\ Good(j) /\ ~j.sent /\ j.wire[f] = None /\ f \in j.pending
          /\ Verdict(j, f) /\ j.formSubmitted = v.formSubmitted
    BY <1>8, AnswerJudges
  <2>3. valid \in BOOLEAN
    OBVIOUS
  <2> HIDE DEF valid
  <2>4. v'.formSubmitted \/ v'.sent => v.formSubmitted /\ (valid \/ v'.pending # {})
    BY <2>2, <2>3, StopKeeps
  <2> QED BY <2>1, <2>4 DEF AskedInv
<1>9. ASSUME NEW f \in Fields, AddField(f) \/ Edit(f) PROVE AskedInv'
  BY <1>2, <1>9 DEF AddField, Edit
<1> QED
  BY <1>2, <1>3, <1>4, <1>5, <1>6, <1>7, <1>8, <1>9
     DEF Next, Settle, parse, parseElement, vars

\* The answers that blurs and keys asked for never send a form that was not
\* submitted, and none of them revives a submission that the server refused.
THEOREM SentAsAsked == Spec => []NothingSentUnasked
<1>1. Init => AskedInv
  BY DEF Init, AskedInv
<1>2. AskedInv => NothingSentUnasked
  BY DEF AskedInv, NothingSentUnasked
<1> QED
  BY <1>1, <1>2, StepAsked, Inductive, PTL DEF Spec

-----------------------------------------------------------------------------
(* What is refused                                                          *)

\* The rules that a field's attributes can give it.
Derived(f) ==
  MinMax(markup[f].min, markup[f].max) \cup {<<"equalTo", g>> : g \in markup[f].equalto}
    \cup (IF markup[f].required THEN {<<"required", 0>>} ELSE {})
    \cup (IF markup[f].remote # {} THEN {<<"remote", 0>>} ELSE {})
    \cup {<<"dummy", 0>>}

\* No rule comes from anywhere else.
Sober == \A f \in Fields : options[f] \subseteq Derived(f) /\ enforced[f] \subseteq Derived(f)

\* Parsing derives rules, and attaching copies them.
LEMMA StepSober == Around /\ Sober /\ [Next]_vars => Sober'
<1> SUFFICES ASSUME Around, Sober, [Next]_vars PROVE Sober'
  OBVIOUS
<1>1. markup' = markup
  BY DEF Next, parse, Submit, Validate, onReset, AddField, Edit, Leave, Settle, Answer, Fail,
     parseElement, vars
<1>2. \A f \in Fields : Derived(f)' = Derived(f)
  BY <1>1 DEF Derived
<1>3. ASSUME NEW fs \in SUBSET Fields, options' = ParseRules(fs),
             enforced' = enforced \/ enforced' = options'
      PROVE  Sober'
  <2>1. \A f \in Fields : Adapt(f) \cup {<<"dummy", 0>>} \subseteq Derived(f)
    BY DEF Adapt, Derived
  <2>2. \A f \in Fields : options'[f] \subseteq Derived(f)
    BY <1>3, <2>1 DEF ParseRules, Sober
  <2> QED BY <1>2, <1>3, <2>2 DEF Sober
<1>4. CASE parse
  BY <1>3, <1>4 DEF parse, attachValidation, Around
<1>5. ASSUME NEW f \in Fields, NEW skip \in BOOLEAN, parseElement(f, skip) PROVE Sober'
  <2>1. options' = ParseRules({f}) /\ (enforced' = enforced \/ enforced' = options')
    BY <1>5 DEF parseElement, attachValidation
  <2> QED BY <1>3, <2>1
<1>6. CASE UNCHANGED <<options, enforced>>
  BY <1>2, <1>6 DEF Sober
<1> QED
  BY <1>4, <1>5, <1>6 DEF Next, Submit, Validate, onReset, AddField, Edit, Leave, Settle,
     Answer, Fail, vars

\* A legal field passes every rule it has.
LEMMA LegalPasses ==
  ASSUME Around, Sober, NEW f \in Fields, LegalField(f, Fields), NEW r \in enforced[f]
  PROVE  Passes(r, f)
<1> DEFINE min == markup[f].min
           max == markup[f].max
<1>1. value[f] \in Nat /\ min \in Nat /\ max \in Nat
  BY LengthAssumption, MarkupsAssumption DEF Around, Attributes, Lengths
<1>2. /\ markup[f].required => value[f] > 0
      /\ value[f] > 0 /\ min # 0 => value[f] >= min
      /\ value[f] > 0 /\ max # 0 => value[f] <= max
  BY DEF LegalField
<1>3. r \in Derived(f)
  BY DEF Sober
<1>4. CASE r \in MinMax(min, max)
  <2> HIDE DEF min, max
  <2>1. CASE min # 0 /\ max # 0
    <3>1. r = <<"rangelength", <<min, max>>>>
      BY <1>4, <2>1 DEF MinMax
    <3>2. value[f] = 0 \/ value[f] \in min..max
      BY <1>1, <1>2, <2>1
    <3> QED BY <3>1, <3>2 DEF Passes
  <2>2. CASE min # 0 /\ max = 0
    <3>1. r = <<"minlength", min>>
      BY <1>4, <2>2 DEF MinMax
    <3> QED BY <1>1, <1>2, <2>2, <3>1 DEF Passes
  <2>3. CASE min = 0 /\ max # 0
    <3>1. r = <<"maxlength", max>>
      BY <1>4, <2>3 DEF MinMax
    <3> QED BY <1>1, <1>2, <2>3, <3>1 DEF Passes
  <2>4. CASE min = 0 /\ max = 0
    BY <1>4, <2>4 DEF MinMax
  <2> QED BY <1>1, <2>1, <2>2, <2>3, <2>4
<1>5. ASSUME NEW g \in markup[f].equalto, r = <<"equalTo", g>> PROVE Passes(r, f)
  <2>1. g \in Fields
    BY MarkupsAssumption DEF Around, Attributes
  <2>2. value[f] = value[g]
    BY <1>5, <2>1 DEF LegalField
  <2> QED BY <1>5, <2>2 DEF Passes
<1>6. CASE r = <<"required", 0>> /\ markup[f].required
  BY <1>2, <1>6 DEF Passes
<1>7. CASE r = <<"remote", 0>> \/ r = <<"dummy", 0>>
  BY <1>7 DEF Passes
<1> QED
  BY <1>3, <1>4, <1>5, <1>6, <1>7 DEF Derived

\* A field fails a check only for its value, or for a verdict it waits to have
\* replaced.
LEMMA FailedIsIllegal ==
  ASSUME Around, Sober, NEW w \in Validator, Good(w), NEW fs \in SUBSET Fields,
         NEW f \in Failed(w, fs) \ w.pending
  PROVE  ~LegalField(f, Fields)
<1> SUFFICES ASSUME LegalField(f, Fields) PROVE FALSE
  OBVIOUS
<1>1. f \in Fields
  BY DEF Failed
<1>2. Local(f)
  BY <1>1, LegalPasses DEF Local
<1>3. AsksServer(f) /\ w.previous[f].old = Key(f) /\ ~w.previous[f].valid
  BY <1>2 DEF Failed
<1>4. Key(f) \notin Accepts
  BY <1>1, <1>3 DEF Good, Verdict
<1>5. value[f] > 0 /\ <<"remote", 0>> \in Derived(f)
  BY <1>1, <1>3 DEF AsksServer, Sober
<1>6. markup[f].remote # {}
  BY <1>5 DEF Derived, MinMax
<1> QED
  BY <1>4, <1>5, <1>6 DEF LegalField

\* What the handlers of the user's events find wrong is what their check does.
LEMMA HandlersCheck ==
  ASSUME IInv, Submit \/ Validate \/ \E f \in Fields : Leave(f)
  PROVE  \E fs \in SUBSET Fields : v'.errorMap = Failed(v, fs)
<1>1. Around /\ v \in Validator /\ Good(v)
  BY DEF IInv, TypeOK, Around
<1>2. Elements \in SUBSET Fields
  BY <1>1 DEF Elements, Around
<1>3. Form(v) \in Validator /\ Form(v).errorMap = Failed(v, Elements)
  BY <1>1, FormGood
<1>4. CASE Submit
  <2> DEFINE c == Form(v)
  <2>1. v' \in {c, [c EXCEPT !.formSubmitted = TRUE], [c EXCEPT !.sent = TRUE]}
    BY <1>4 DEF Submit, SubmitHandler
  <2>2. c \in Validator /\ c.errorMap = Failed(v, Elements)
    BY <1>3
  <2> HIDE DEF c
  <2>3. v'.errorMap = c.errorMap
    BY <2>1, <2>2 DEF Validator
  <2> QED BY <1>2, <2>2, <2>3
<1>5. CASE Validate
  BY <1>2, <1>3, <1>5 DEF Validate
<1>6. ASSUME NEW f \in Fields, Leave(f) PROVE v'.errorMap = Failed(v, {f})
  <2> DEFINE c == Check(v, {f})
  <2>1. c \in Validator /\ c.errorMap = Failed(v, {f})
    BY <1>1, CheckGood
  <2>2. v' = [c EXCEPT !.invalid[f] = IF f \in c.errorMap THEN "true" ELSE "false"]
    BY <1>6 DEF Leave, Element
  <2> HIDE DEF c
  <2> QED BY <2>1, <2>2 DEF Validator
<1> QED
  BY <1>4, <1>5, <1>6

\* No legal field is refused on a verdict that is not, or no longer, its own.
THEOREM OnlyIllegalIsRefused == Spec => RefusedIsIllegal
<1>1. Init => Sober
  BY DEF Init, Sober
<1>2. IInv => Around
  BY DEF IInv, TypeOK, Around
<1>3. IInv /\ Sober /\ [Next]_vars =>
        [\A f \in v'.errorMap \ v.pending :
           LegalField(f, Fields) => ~(Submit \/ Validate \/ \E g \in Fields : Leave(g))]_vars
  <2> SUFFICES ASSUME IInv, Sober, NEW f \in v'.errorMap \ v.pending,
                      Submit \/ Validate \/ \E g \in Fields : Leave(g)
               PROVE  ~LegalField(f, Fields)
    OBVIOUS
  <2>1. PICK fs \in SUBSET Fields : v'.errorMap = Failed(v, fs)
    BY HandlersCheck
  <2>2. v \in Validator /\ Good(v)
    BY DEF IInv, TypeOK
  <2> QED BY <1>2, <2>1, <2>2, FailedIsIllegal
<1> QED
  BY <1>1, <1>2, <1>3, StepSober, Inductive, PTL DEF Spec, RefusedIsIllegal
=============================================================================
