--------------------------- MODULE FormValidation ---------------------------
(***************************************************************************)
(* The client-side form validation that the Kustomize web app ships        *)
(* (kustomize/app/wwwroot/lib): jquery.validate.unobtrusive, which turns   *)
(* data-val-* attributes into rules and shows messages, on top of the      *)
(* jquery.validate it drives, with its asynchronous "remote" rule.         *)
(*                                                                         *)
(* One form of one page.  JavaScript runs to completion: an action is one  *)
(* event handler (a user's event, an XHR callback, a call by the page).    *)
(* A value is told by its length, 0 is the empty one; a message by the     *)
(* class of the field's container, which also hides or shows its text.     *)
(***************************************************************************)
EXTENDS Naturals, FiniteSets

CONSTANTS Fields,     \* names of the fields the form may get
          Static,     \* those it has from the start
          MaxLength,  \* bounds the values
          Markups,    \* the forms: each field's data-val-* attributes
          Accepts     \* the questions of a remote rule the server says yes to

Lengths == 0..MaxLength

\* required, length-min and length-max (0: no such attribute), equalto-other
\* ({} or one field), remote-additionalfields ({}: no remote attribute).
Attributes == [required : BOOLEAN, min : Lengths, max : Lengths,
               equalto : SUBSET Fields, remote : SUBSET Fields]

ASSUME FieldsAssumption == IsFiniteSet(Fields) /\ Static \subseteq Fields
ASSUME LengthAssumption == MaxLength \in Nat
ASSUME MarkupsAssumption == Markups \subseteq [Fields -> Attributes]

VARIABLES
  markup,    \* the form's; never changes
  page,      \* the fields in the document
  value,     \* what they hold
  options,   \* validationInfo(form).options.rules
  attached,  \* the form has a validator
  enforced,  \* validator.settings.rules
  v,         \* the validator's other fields, the requests and the messages
  open,      \* observer: a submission is held, nothing edited and no error
             \* shown since
  asked      \* observer: the user submitted, and the server's last answer did
             \* not refuse that since

vars == <<markup, page, value, options, attached, enforced, v, open, asked>>

Rule == {<<"dummy", 0>>, <<"required", 0>>}
          \cup {"minlength", "maxlength"} \X Lengths
          \cup {"rangelength"} \X (Lengths \X Lengths)
          \cup {"equalTo"} \X Fields
          \cup {<<"remote", 0>>}

None == <<>>                         \* no question
Keys == {None} \cup UNION {[fs -> Lengths] : fs \in SUBSET Fields}

Unasked == [old |-> None, valid |-> TRUE]      \* previousValue()

Validator ==
  [previous : [Fields -> [old : Keys, valid : BOOLEAN]],  \* data("previousValue")
   wire : [Fields -> Keys],        \* the question of the request under way
   live : SUBSET Fields,           \* its answer will update the field's previous
   pending : SUBSET Fields, pendingRequest : Nat, formSubmitted : BOOLEAN,
   invalid : [Fields -> {"none", "false", "true"}],       \* "none": no such key
   submitted : SUBSET Fields, errorMap : SUBSET Fields,   \* their keys
   bound : SUBSET Fields,          \* checked again when what they repeat loses focus
   shown : SUBSET Fields,          \* containers of class field-validation-error
   sent : BOOLEAN]                 \* the browser sends the form

\* The types.
TypeOK ==
  /\ markup \in Markups /\ page \subseteq Fields /\ value \in [Fields -> Lengths]
  /\ options \in [Fields -> SUBSET Rule] /\ enforced \in [Fields -> SUBSET Rule]
  /\ v \in Validator
  /\ attached \in BOOLEAN /\ open \in BOOLEAN /\ asked \in BOOLEAN

-----------------------------------------------------------------------------
(* The adapters: what a field's attributes become                           *)

\* adapters.addMinMax("length", "minlength", "maxlength", "rangelength").
MinMax(min, max) ==
  IF min # 0 /\ max # 0 THEN {<<"rangelength", <<min, max>>>>}
  ELSE IF min # 0 THEN {<<"minlength", min>>}
  ELSE IF max # 0 THEN {<<"maxlength", max>>} ELSE {}

\* The element that equalto names is looked up when the field is parsed; the
\* rule is lost when it is not there (an undefined value is not copied).
Adapt(f) ==
  LET m == markup[f]
  IN  MinMax(m.min, m.max)
        \cup {<<"equalTo", g>> : g \in m.equalto \cap page}
        \cup (IF m.required THEN {<<"required", 0>>} ELSE {})
        \cup (IF m.remote # {} THEN {<<"remote", 0>>} ELSE {})

\* MUTANT: the rules of the other fields are forgotten.
ParseAlone(fs) == [f \in fs |-> Adapt(f) \cup {<<"dummy", 0>>}]

\* parseElement: the rules of a field are replaced, and never empty.
ParseRules(fs) == [f \in Fields |-> IF f \in fs THEN Adapt(f) \cup {<<"dummy", 0>>}
                                    ELSE options[f]]

-----------------------------------------------------------------------------
(* The messages of the library                                              *)

onError(shown, fs) == shown \cup fs

onSuccess(shown, fs) == shown \ fs

-----------------------------------------------------------------------------
(* jquery.validate: checks                                                  *)

\* An empty value passes what does not require one.
Passes(rule, f) ==
  /\ rule[1] = "required" => value[f] > 0
  /\ rule[1] = "minlength" => value[f] = 0 \/ value[f] >= rule[2]
  /\ rule[1] = "maxlength" => value[f] = 0 \/ value[f] <= rule[2]
  /\ rule[1] = "rangelength" => value[f] = 0 \/ value[f] \in rule[2][1]..rule[2][2]
  /\ rule[1] = "equalTo" => value[f] = value[rule[2]]

\* The rules are tried in turn: required first, remote last.
Local(f) == \A r \in enforced[f] : Passes(r, f)

\* What the remote rule sends, and remembers the verdict of.
Key(f) == [g \in markup[f].remote \cup {f} |-> value[g]]

AsksServer(f) == <<"remote", 0>> \in enforced[f] /\ Local(f) /\ value[f] > 0

Asking(w, fs) == {f \in fs : AsksServer(f) /\ w.previous[f].old # Key(f)}

\* MUTANT: a verdict is remembered for the field, not for its value.
FailedForGood(w, fs) ==
  {f \in fs : ~Local(f) \/ (AsksServer(f) /\ ~w.previous[f].valid)}

\* A value the server was last asked about is judged by the last verdict, though
\* that may still be the one on the value before.
Failed(w, fs) ==
  {f \in fs : ~Local(f) \/ (AsksServer(f) /\ w.previous[f].old = Key(f) /\ ~w.previous[f].valid)}

\* MUTANT: a request is counted although the field's last one is still pending.
StartAgain(w, fs) ==
  [w EXCEPT !.previous = [f \in Fields |-> IF f \in fs THEN [@[f] EXCEPT !.old = Key(f)] ELSE @[f]],
            !.wire = [f \in Fields |-> IF f \in fs THEN Key(f) ELSE @[f]],
            !.live = @ \cup fs, !.pending = @ \cup fs,
            !.pendingRequest = @ + Cardinality(fs)]

\* The remote rule asks: the field's request before this one is aborted.
StartRequests(w, fs) ==
  [w EXCEPT !.previous = [f \in Fields |-> IF f \in fs THEN [@[f] EXCEPT !.old = Key(f)] ELSE @[f]],
            !.wire = [f \in Fields |-> IF f \in fs THEN Key(f) ELSE @[f]],
            !.live = @ \cup fs, !.pending = @ \cup fs,
            !.pendingRequest = @ + Cardinality(fs \ w.pending)]

\* equalTo binds the blur of its target when it is first evaluated.
Binds(f) == /\ \E r \in enforced[f] : r[1] = "equalTo"
            /\ \A r \in enforced[f] : r[1] = "equalTo" \/ Passes(r, f)

\* check() of each field, then showErrors.  A field that waits for the server
\* keeps its message.
Check(w, fs) ==
  LET failed == Failed(w, fs)
      passed == {f \in fs \ (failed \cup Asking(w, fs)) : enforced[f] # {}}
  IN  [StartRequests(w, Asking(w, fs)) EXCEPT
         !.errorMap = failed, !.submitted = @ \cup failed,
         !.bound = @ \cup {f \in fs : Binds(f)},
         !.shown = onSuccess(onError(@, failed), passed)]

\* Validator.form()
Form(w) ==
  LET c == Check(w, {f \in page : enforced[f] # {}})
  IN  [c EXCEPT !.invalid = [f \in Fields |-> IF f \in c.errorMap THEN "true" ELSE "none"]]

\* Validator.element()
Element(w, f) ==
  LET c == Check(w, {f})
  IN  [c EXCEPT !.invalid[f] = IF f \in c.errorMap THEN "true" ELSE "false"]

\* MUTANT: a valid form is sent although answers are missing.
SubmitUnanswered(w) ==
  LET c == Form(w)
  IN  IF c.errorMap # {} THEN c ELSE [c EXCEPT !.sent = TRUE]

\* The submit handler.
SubmitHandler(w) ==
  LET c == Form(w)
  IN  IF c.errorMap # {} THEN c
      ELSE IF c.pendingRequest > 0 THEN [c EXCEPT !.formSubmitted = TRUE]
      ELSE [c EXCEPT !.sent = TRUE]

\* MUTANT: the last answer does not resume the submission.
StopOnly(w, f, valid) ==
  [w EXCEPT !.pendingRequest = IF @ > 0 THEN @ - 1 ELSE 0, !.pending = @ \ {f}]

\* MUTANT: a submission that the last answer refuses stays held.
StopStaysHeld(w, f, valid) ==
  LET s == [w EXCEPT !.pendingRequest = IF @ > 0 THEN @ - 1 ELSE 0, !.pending = @ \ {f}]
  IN  IF s.pendingRequest > 0 \/ ~s.formSubmitted \/ ~valid THEN s
      ELSE IF Form(s).errorMap # {} THEN Form(s)
      ELSE [SubmitHandler(Form(s)) EXCEPT !.formSubmitted = FALSE]

\* The last answer resumes a held submission, or refuses it.
stopRequest(w, f, valid) ==
  LET s == [w EXCEPT !.pendingRequest = IF @ > 0 THEN @ - 1 ELSE 0, !.pending = @ \ {f}]
  IN  IF s.pendingRequest > 0 \/ ~s.formSubmitted THEN s
      ELSE IF valid THEN IF Form(s).errorMap # {} THEN Form(s)
                         ELSE [SubmitHandler(Form(s)) EXCEPT !.formSubmitted = FALSE]
      ELSE [s EXCEPT !.formSubmitted = FALSE]

-----------------------------------------------------------------------------
Init ==
  /\ markup \in Markups
  /\ page = Static
  /\ value = [f \in Fields |-> 0]
  /\ options = [f \in Fields |-> {}] /\ enforced = [f \in Fields |-> {}]
  /\ attached = FALSE
  /\ v = [previous |-> [f \in Fields |-> Unasked],
          wire |-> [f \in Fields |-> None], live |-> {}, pending |-> {},
          pendingRequest |-> 0, invalid |-> [f \in Fields |-> "none"],
          submitted |-> {}, errorMap |-> {}, bound |-> {}, formSubmitted |-> FALSE,
          shown |-> {}, sent |-> FALSE]
  /\ open = FALSE /\ asked = FALSE

Here == ~v.sent    \* the page is left when the form is sent

\* open, unless the step sends the form or shows an error.
StillOpen == open' = (open /\ ~v'.sent /\ v'.errorMap = {})

-----------------------------------------------------------------------------
(* The page's script                                                        *)

AddField(f) ==
  /\ Here /\ f \notin page
  /\ page' = page \cup {f}
  /\ UNCHANGED <<markup, value, options, attached, enforced, v, open, asked>>

\* attachValidation: the first call copies the rules into the form's validator,
\* later ones find the validator there and leave it as it is.
attachValidation ==
  /\ attached' = TRUE
  /\ enforced' = IF attached THEN enforced ELSE options'

\* parse(document), at ready and whenever the page calls it.
parse ==
  /\ Here /\ page # {}
  /\ options' = ParseRules(page)
  /\ attachValidation
  /\ UNCHANGED <<markup, page, value, v, open, asked>>

parseElement(f, skipAttach) ==
  /\ Here /\ f \in page
  /\ options' = ParseRules({f})
  /\ IF skipAttach THEN UNCHANGED <<attached, enforced>> ELSE attachValidation
  /\ UNCHANGED <<markup, page, value, v, open, asked>>

-----------------------------------------------------------------------------
(* The user                                                                 *)

Edit(f) ==
  /\ Here /\ f \in page
  /\ \E x \in Lengths \ {value[f]} : value' = [value EXCEPT ![f] = x]
  /\ open' = FALSE
  /\ UNCHANGED <<markup, page, options, attached, enforced, v, asked>>

\* onfocusout, onkeyup, and the blur that equalTo binds.
Leave(f) ==
  /\ Here /\ attached /\ f \in page
  /\ \/ value[f] > 0 \/ f \in v.submitted \cup v.bound \/ v.invalid[f] # "none"
  /\ v' = Element(v, f) /\ StillOpen
  /\ UNCHANGED <<markup, page, value, options, attached, enforced, asked>>

\* The submit event.
Submit ==
  /\ Here /\ attached
  /\ v' = SubmitHandler(v)
  /\ open' = (~v'.sent /\ v'.errorMap = {}) /\ asked' = TRUE
  /\ UNCHANGED <<markup, page, value, options, attached, enforced>>

\* info.validate(), for the page's script.
Validate ==
  /\ Here /\ attached
  /\ v' = Form(v) /\ StillOpen
  /\ UNCHANGED <<markup, page, value, options, attached, enforced, asked>>

\* MUTANT: a reset leaves the validator's state.
ResetMessages ==
  /\ Here
  /\ v' = IF attached THEN [v EXCEPT !.errorMap = {}, !.shown = {}] ELSE v
  /\ value' = [f \in Fields |-> 0] /\ open' = FALSE
  /\ UNCHANGED <<markup, page, options, attached, enforced, asked>>

\* The reset event: onReset, then the browser empties the fields.  Requests are
\* not aborted, and a held submission stays held.
onReset ==
  /\ Here
  /\ LET elements == {f \in page : enforced[f] # {}}
     IN  v' = IF ~attached THEN v
              ELSE [v EXCEPT
                      !.previous = [f \in Fields |-> IF f \in elements THEN Unasked ELSE @[f]],
                      !.live = @ \ elements,
                      !.invalid = [f \in Fields |-> "none"], !.submitted = {},
                      !.errorMap = {}, !.shown = {}]
  /\ value' = [f \in Fields |-> 0] /\ open' = FALSE
  /\ UNCHANGED <<markup, page, options, attached, enforced, asked>>

-----------------------------------------------------------------------------
(* The answers of the server                                                *)

\* The remote rule's success callback: it judges the field, whatever it holds now.
Answer(f) ==
  /\ Here /\ v.wire[f] # None
  /\ LET valid == v.wire[f] \in Accepts
         judged == [v EXCEPT
           !.wire[f] = None, !.live = @ \ {f},
           !.errorMap = IF valid THEN {} ELSE @ \cup {f},
           !.invalid[f] = IF valid THEN "false" ELSE "true",
           !.shown = IF valid THEN onSuccess(@, {f}) ELSE onError(@, v.errorMap \cup {f}),
           !.previous[f].valid = IF f \in v.live THEN valid ELSE @]
     IN  /\ v' = stopRequest(judged, f, valid)
         /\ asked' = (asked /\ (valid \/ v'.pending # {}))
  /\ StillOpen
  /\ UNCHANGED <<markup, page, value, options, attached, enforced>>

\* A request that fails has no callback: the field stays pending.
Fail(f) ==
  /\ Here /\ v.wire[f] # None
  /\ v' = [v EXCEPT !.wire[f] = None, !.live = @ \ {f}]
  /\ UNCHANGED <<markup, page, value, options, attached, enforced, open, asked>>

-----------------------------------------------------------------------------
Settle(f) == Fail(f) \/ Answer(f)

Next ==
  \/ parse \/ Submit \/ Validate \/ onReset
  \/ \E f \in Fields :
       \/ AddField(f) \/ Edit(f) \/ Leave(f) \/ Settle(f)
       \/ \E skipAttach \in BOOLEAN : parseElement(f, skipAttach)

\* The browser ends every request; the user and the page owe nothing.
Spec == Init /\ [][Next]_vars /\ \A f \in Fields : WF_vars(Settle(f))

-----------------------------------------------------------------------------
\* A field obeys its attributes, as far as it is to repeat one of others, and the
\* server accepts it.
LegalField(f, others) ==
  LET m == markup[f]
  IN  /\ m.required => value[f] > 0
      /\ value[f] > 0 => /\ m.min # 0 => value[f] >= m.min
                         /\ m.max # 0 => value[f] <= m.max
                         /\ m.remote # {} => Key(f) \in Accepts
      /\ \A g \in m.equalto \cap others : value[f] = value[g]

\* A form sent through the validator obeys the attributes of every field that
\* has rules, and the server accepted exactly the values that are sent, although
\* its verdicts arrive late, for older values, or not at all.  (A field has none
\* when it was parsed after the validator was made, see ParseEnables; a field that
\* it is to repeat may come too late for its parse when it is added.)
SentIsLegal == v.sent => \A f \in page : enforced[f] # {} => LegalField(f, Static)

\* The other half: a submit, a blur or a key refuses no legal field, unless the
\* field still waits for the server.  A verdict that is remembered is one on the
\* value that the field holds, whatever edits, resets and aborted requests came
\* between.
RefusedIsIllegal ==
  [][\A f \in v'.errorMap \ v.pending :
       LegalField(f, Fields) => ~(Submit \/ Validate \/ \E g \in Fields : Leave(g))]_vars

\* "Sometimes synchronization fails, make sure pendingRequest is never < 0": the
\* counter is the number of fields that wait, aborted and failed requests,
\* resets and late answers included.
CountsPending ==
  /\ v.pendingRequest = Cardinality(v.pending)
  /\ \A f \in Fields : v.wire[f] # None => f \in v.pending

\* A field's message and the validator's verdict agree; only a field that waits
\* for the server may show an older message.
MessagesFollowVerdicts ==
  \A f \in Fields : /\ v.invalid[f] = "true" => f \in v.shown
                    /\ f \in v.shown => v.invalid[f] = "true" \/ f \in v.pending

\* Answers come for submissions, for blurs and for keys alike.  None of them sends
\* a form that the user has not submitted, and once the last one has refused a
\* submission no later one revives it: the user has to submit again.
NothingSentUnasked == v.sent => asked

\* A submission held for the server is sent in the end or an error is shown,
\* unless the user edits the form meanwhile or a request fails.
HeldIsDecided == open ~> ~open \/ \E f \in v.pending : v.wire[f] = None

\* parse "enables validation according to the data-val-* attribute values".
ParseEnables == [][parse => \A f \in page : enforced'[f] = options'[f]]_vars
=============================================================================
