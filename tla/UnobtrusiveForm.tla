---------------------------- MODULE UnobtrusiveForm ---------------------------
(***************************************************************************)
(* jquery.validate.unobtrusive on one form of a page: parsing, the cached  *)
(* validationInfo, the one reset handler, and what onError, onSuccess,     *)
(* onErrors and onReset show of the checks jquery.validate 1.17 makes.     *)
(*                                                                         *)
(* The browser runs one event at a time; depth and todo say that one is    *)
(* still running.  What the user types is left out: a check of a field may *)
(* find it in order or not, or wait for the server if it has a remote rule.*)
(* So is which fields page scripts have hidden or disabled by the time of a*)
(* check: any of them.                                                     *)
(***************************************************************************)
EXTENDS Naturals, FiniteSets, UnobtrusiveAdapters

CONSTANTS
  Field,
  Variants,    \* the elements a field may be as page scripts rewrite its attributes
  Msg,         \* its data-valmsg-for container: "replace", "keep" or "none"
  NotParsed, NoValidator,
  FormPlugin   \* jQuery Form is loaded: resetForm resets the form itself

ASSUME UnobtrusiveFormAssumption ==
  /\ Msg \in [Field -> {"replace", "keep", "none"}]
  /\ \A f \in Field : Variants[f] # {}
  /\ FormPlugin \in BOOLEAN

VARIABLES
  element,               \* the attributes of each field
  options,               \* validationInfo: rules and messages of each parsed field
  handlers,              \* reset handlers bound
  validator,             \* jquery.validate's own copy of the rules
  parsedAs, attachedAs,  \* history: the elements options and validator were made of
  container, label, summary, list,   \* what the page shows
  errorMap, successList, invalid,    \* jquery.validate: the last check, fields known invalid
  passedOver,            \* history: fields with rules left out of a check since their own last
  pending, inflight, formSubmitted,  \* jquery.validate: remote requests
  todo,                  \* stopRequest: what the answer of a request goes on to do
  depth, calling, resetting  \* activations of onReset, the newest one not begun, the flag

parsing == <<element, options, handlers, validator, parsedAs, attachedAs>>
view == <<container, label, summary, list>>
checks == <<errorMap, successList, invalid, passedOver>>
requests == <<pending, inflight, formSubmitted, todo>>
resets == <<depth, calling, resetting>>
vars == <<parsing, view, checks, requests, resets>>

WithRules == IF validator = NoValidator THEN {} ELSE {f \in Field : validator[f] # NotParsed}
Remote == {f \in WithRules : "remote" \in DOMAIN validator[f]}

\* What elements() may select: it leaves out submit, reset and image inputs, disabled
\* fields and those of settings.ignore, the hidden ones.
Selections == SUBSET WithRules

TypeOK ==
  /\ handlers \in Nat /\ (handlers > 0 <=> validator # NoValidator)
  /\ container \in [Field -> {"valid", "error"}]
  /\ label \in [Field -> {"none", "message"}]
  /\ summary \in {"valid", "error"} /\ list \subseteq Field
  /\ errorMap \subseteq WithRules /\ successList \subseteq WithRules
  /\ invalid \subseteq WithRules /\ passedOver \subseteq WithRules
  /\ errorMap \cap successList = {}
  /\ inflight \subseteq pending /\ pending \subseteq Remote
  /\ formSubmitted \in BOOLEAN /\ todo \in {"nothing", "check", "submit"}
  /\ depth \in Nat /\ calling \in BOOLEAN /\ resetting \in BOOLEAN

Init ==
  /\ element \in {e \in [Field -> UNION {Variants[f] : f \in Field}] :
                    \A f \in Field : e[f] \in Variants[f]}
  /\ options = [f \in Field |-> NotParsed]
  /\ handlers = 0 /\ validator = NoValidator
  /\ parsedAs = options /\ attachedAs = options
  /\ container = [f \in Field |-> "valid"] /\ label = [f \in Field |-> "none"]
  /\ summary = "valid" /\ list = {}
  /\ errorMap = {} /\ successList = {} /\ invalid = {} /\ passedOver = {}
  /\ pending = {} /\ inflight = {} /\ formSubmitted = FALSE /\ todo = "nothing"
  /\ depth = 0 /\ calling = FALSE /\ resetting = FALSE

Idle == depth = 0 /\ todo = "nothing"

-----------------------------------------------------------------------------
(* Parsing                                                                 *)

\* A page script rewrites the attributes of a field.
RewriteAttributes(f) ==
  /\ Idle
  /\ \E e \in Variants[f] : element' = [element EXCEPT ![f] = e]
  /\ UNCHANGED <<options, handlers, validator, parsedAs, attachedAs,
                 view, checks, requests, resets>>

RulesOf(opts) == [f \in Field |-> IF opts[f] = NotParsed THEN NotParsed ELSE opts[f].rules]

\* Mutant: "on" without "off".
AttachValidationAgain ==
  /\ handlers' = handlers + 1
  /\ validator' = IF validator = NoValidator THEN RulesOf(options') ELSE validator
  /\ attachedAs' = IF validator = NoValidator THEN parsedAs' ELSE attachedAs

\* Mutant: "on" before "off".
AttachValidationSwapped ==
  /\ handlers' = 0
  /\ validator' = IF validator = NoValidator THEN RulesOf(options') ELSE validator
  /\ attachedAs' = IF validator = NoValidator THEN parsedAs' ELSE attachedAs

\* "off" removes every proxy of onReset, which share a guid, then "on" binds one.
\* validate() keeps the validator the form already has and ignores its argument;
\* a new one copies the options deeply.  Its messages are left out: a remote check
\* exchanges them for what the server answers.
AttachValidation ==
  /\ handlers' = 1
  /\ validator' = IF validator = NoValidator THEN RulesOf(options') ELSE validator
  /\ attachedAs' = IF validator = NoValidator THEN parsedAs' ELSE attachedAs

\* parseElement for the fields F: their rules start again from nothing.
ParseElements(F) ==
  /\ options' = [f \in Field |-> IF f \in F THEN AdaptedOf(element[f]) ELSE options[f]]
  /\ parsedAs' = [f \in Field |-> IF f \in F THEN element[f] ELSE parsedAs[f]]
  /\ UNCHANGED element

\* A page script calls parseElement(f, skipAttach).
ParseElement(f, skipAttach) ==
  /\ Idle
  /\ ParseElements({f})
  /\ IF skipAttach THEN UNCHANGED <<handlers, validator, attachedAs>> ELSE AttachValidation
  /\ UNCHANGED <<view, checks, requests, resets>>

\* parse(document), when the document is ready and whenever a page script calls it.
Parse ==
  /\ Idle
  /\ ParseElements(Field)
  /\ AttachValidation
  /\ UNCHANGED <<view, checks, requests, resets>>

-----------------------------------------------------------------------------
(* What is shown.  A view is a record of the four variables.               *)

View == [container |-> container, label |-> label, summary |-> summary, list |-> list]
Show(v) ==
  /\ container' = v.container /\ label' = v.label
  /\ summary' = v.summary /\ list' = v.list

\* The label showLabel creates is put into the container with the error class taken
\* off it, so that errorsFor never finds it again and each result makes a new one.
OnError(v, F) ==
  [container |-> [f \in Field |-> IF f \in F /\ Msg[f] # "none" THEN "error" ELSE v.container[f]],
   label |-> [f \in Field |-> IF f \in F /\ Msg[f] = "replace" THEN "message" ELSE v.label[f]],
   summary |-> v.summary, list |-> v.list]

\* Mutant: only containers whose label is replaced are set back.
OnSuccessIfReplaced(v, F) ==
  [container |-> [f \in Field |-> IF f \in F /\ Msg[f] = "replace" THEN "valid" ELSE v.container[f]],
   label |-> [f \in Field |-> IF f \in F /\ Msg[f] = "replace" THEN "none" ELSE v.label[f]],
   summary |-> v.summary, list |-> v.list]

OnSuccess(v, F) ==
  [container |-> [f \in Field |-> IF f \in F THEN "valid" ELSE v.container[f]],
   label |-> [f \in Field |-> IF f \in F /\ Msg[f] = "replace" THEN "none" ELSE v.label[f]],
   summary |-> v.summary, list |-> v.list]

\* The summary, which nothing but a reset sets back.
OnErrors(v, F) == IF F = {} THEN v ELSE [v EXCEPT !.summary = "error", !.list = F]

\* defaultShowErrors: errorPlacement for every label, then success for those in order.
ShowErrors(v, errors, successes) == OnSuccess(OnError(v, errors \cup successes), successes)

-----------------------------------------------------------------------------
(* jquery.validate                                                         *)

Results(F) == {r \in [F -> {"ok", "error", "pending"}] :
                 \A f \in F : r[f] = "pending" => f \in Remote}
With(r, result) == {f \in DOMAIN r : r[f] = result}

StartRequests(F) == pending' = pending \cup F /\ inflight' = inflight \cup F

\* form(): the fields elements() selects; the summary before the labels.  What is known
\* invalid starts again from those fields: the others are forgotten, as they are shown.
CheckForm(r) ==
  LET errors == With(r, "error")
  IN  /\ errorMap' = errors /\ successList' = With(r, "ok") /\ invalid' = errors
      /\ passedOver' = WithRules \ DOMAIN r
      /\ Show(ShowErrors(OnErrors(View, errors), errors, With(r, "ok")))
      /\ StartRequests(With(r, "pending"))

\* element(f) of a field that is not hidden, on keyup, focusout or click, or as a page
\* script asks: a disabled one is checked too.  A field without rules has no result.
CheckElement(f) ==
  /\ Idle /\ validator # NoValidator
  /\ \E r \in Results({f} \cap WithRules) :
       /\ errorMap' = With(r, "error") /\ successList' = With(r, "ok")
       /\ invalid' = (invalid \ {f}) \cup With(r, "error")
       /\ passedOver' = passedOver \ {f}
       /\ Show(ShowErrors(View, With(r, "error"), With(r, "ok")))
       /\ StartRequests(With(r, "pending"))
  /\ UNCHANGED <<parsing, formSubmitted, todo, resets>>

\* element(f) of a hidden field, when the field that f is equal to loses the focus or a
\* page script asks: f is no longer known invalid, and nothing is shown.
PassOver(f) ==
  /\ Idle /\ f \in WithRules
  /\ invalid' = invalid \ {f} /\ passedOver' = passedOver \cup {f}
  /\ UNCHANGED <<parsing, view, errorMap, successList, requests, resets>>

\* validationInfo.validate, which unobtrusive Ajax calls.
Validate ==
  /\ Idle /\ validator # NoValidator
  /\ \E F \in Selections : \E r \in Results(F) : CheckForm(r)
  /\ UNCHANGED <<parsing, formSubmitted, todo, resets>>

\* The submit event: a valid form waits for the requests under way.
Submit ==
  /\ Idle /\ validator # NoValidator
  /\ \E F \in Selections : \E r \in Results(F) : CheckForm(r)
  /\ formSubmitted' = (formSubmitted \/ (errorMap' = {} /\ pending' # {}))
  /\ UNCHANGED <<parsing, todo, resets>>

\* The server accepts f.  The lists of the last check are dropped; the last answer
\* goes on to check and submit a form that waits.
AnswerValid(f) ==
  /\ Idle /\ f \in inflight
  /\ errorMap' = {} /\ successList' = {f} /\ invalid' = invalid \ {f}
  /\ passedOver' = passedOver \ {f}
  /\ Show(ShowErrors(View, {}, {f}))
  /\ pending' = pending \ {f} /\ inflight' = inflight \ {f}
  /\ todo' = IF pending' = {} /\ formSubmitted THEN "check" ELSE "nothing"
  /\ UNCHANGED <<parsing, formSubmitted, resets>>

\* The server rejects f, which joins the errors of the last check; all are shown again.
AnswerInvalid(f) ==
  /\ Idle /\ f \in inflight
  /\ errorMap' = errorMap \cup {f} /\ successList' = successList \ {f}
  /\ invalid' = invalid \cup {f} /\ passedOver' = passedOver \ {f}
  /\ pending' = pending \ {f} /\ inflight' = inflight \ {f}
  /\ LET shown == ShowErrors(View, errorMap', successList')
         ends == pending' = {} /\ formSubmitted
     IN  /\ Show(IF ends THEN OnErrors(shown, errorMap') ELSE shown)
         /\ formSubmitted' = (formSubmitted /\ ~ends)
  /\ UNCHANGED <<parsing, todo, resets>>

\* A request is lost: its field stays pending.
LoseRequest(f) ==
  /\ Idle /\ f \in inflight
  /\ inflight' = inflight \ {f}
  /\ UNCHANGED <<parsing, view, checks, pending, formSubmitted, todo, resets>>

\* stopRequest: form(), then the submit event, which checks the form once more.
Resubmit ==
  /\ todo # "nothing"
  /\ \E F \in Selections : \E r \in Results(F) : CheckForm(r)
  /\ todo' = IF todo = "check" /\ errorMap' = {} THEN "submit" ELSE "nothing"
  /\ formSubmitted' = (formSubmitted /\ todo = "check")
  /\ UNCHANGED <<parsing, resets>>

-----------------------------------------------------------------------------
(* onReset                                                                 *)

\* The form is reset: the browser calls the handler.
Reset ==
  /\ Idle /\ handlers > 0
  /\ depth' = 1 /\ calling' = TRUE
  /\ UNCHANGED <<parsing, view, checks, requests, resetting>>

\* Mutant: the flag is not looked at.
EnterResetAlways ==
  /\ calling
  /\ resetting' = TRUE
  /\ depth' = IF FormPlugin THEN depth + 1 ELSE depth
  /\ calling' = FormPlugin
  /\ UNCHANGED <<parsing, view, checks, requests>>

\* onReset up to and into resetForm, which with jQuery Form resets the form and so
\* calls the handler again, inside this call: the flag makes that one return.
EnterReset ==
  /\ calling
  /\ IF resetting
     THEN depth' = depth - 1 /\ calling' = FALSE /\ UNCHANGED resetting
     ELSE /\ resetting' = TRUE
          /\ depth' = IF FormPlugin THEN depth + 1 ELSE depth
          /\ calling' = FormPlugin
  /\ UNCHANGED <<parsing, view, checks, requests>>

\* The rest of resetForm and of onReset.  Requests under way are not aborted, and the
\* labels and the list stay in the page, under classes that do not show them.
FinishReset ==
  /\ depth > 0 /\ ~calling
  /\ depth' = depth - 1 /\ resetting' = FALSE
  /\ errorMap' = {} /\ successList' = {} /\ invalid' = {} /\ passedOver' = {}
  /\ container' = [f \in Field |-> "valid"] /\ summary' = "valid"
  /\ UNCHANGED <<parsing, label, list, requests, calling>>

Next ==
  \/ \E f \in Field : RewriteAttributes(f)
  \/ \E f \in Field, skipAttach \in BOOLEAN : ParseElement(f, skipAttach)
  \/ Parse
  \/ \E f \in Field : CheckElement(f) \/ PassOver(f)
  \/ Validate
  \/ Submit
  \/ \E f \in Field : AnswerValid(f) \/ AnswerInvalid(f) \/ LoseRequest(f)
  \/ Resubmit
  \/ Reset \/ EnterReset \/ FinishReset

Spec == Init /\ [][Next]_vars

-----------------------------------------------------------------------------
(* Properties.                                                             *)

\* What an element declares, read off its attributes: of the adapters that set a rule
\* the one registered last gives its value, and the last one with a message that.
DeclaredBy(el) ==
  LET alone(k) == Adapt(Adapters[k], el, [rules |-> <<>>, messages |-> <<>>,
                                          message |-> el.msg[Adapters[k].name]])
      present == {k \in DOMAIN Adapters : Adapters[k].name \in DOMAIN el.msg}
      last(K) == CHOOSE k \in K : \A j \in K : j <= k
      setters(r) == {k \in present : r \in DOMAIN alone(k).rules}
      speakers(r) == {k \in present : r \in DOMAIN alone(k).messages}
  IN  [rules |-> [r \in {"__dummy__"} \cup UNION {DOMAIN alone(k).rules : k \in present} |->
                    IF setters(r) = {} THEN TRUE ELSE alone(last(setters(r))).rules[r]],
       messages |-> [r \in UNION {DOMAIN alone(k).messages : k \in present} |->
                       alone(last(speakers(r))).messages[r]]]

\* The adapters, run one after the other, give every element of the page what its
\* attributes declare; neither is the value that stands for "not yet".
ElementsAreParsed ==
  \A f \in Field : \A el \in Variants[f] :
    /\ AdaptedOf(el) = DeclaredBy(el)
    /\ el # NotParsed /\ AdaptedOf(el) # NotParsed /\ AdaptedOf(el).rules # NotParsed

\* However often and in whatever order a page parses, the rules and messages of a field
\* are those its attributes declared when it was parsed last, with no trace of earlier
\* ones; the validator has the rules of its first attachment, and later parses do not
\* reach it.
RulesAreDeclared ==
  /\ \A f \in Field : IF parsedAs[f] = NotParsed THEN options[f] = NotParsed
                      ELSE options[f] = DeclaredBy(parsedAs[f])
  /\ validator # NoValidator => \A f \in Field :
       IF attachedAs[f] = NotParsed THEN validator[f] = NotParsed
       ELSE validator[f] = DeclaredBy(attachedAs[f]).rules

\* The page and jquery.validate agree through checks, resets, answers that arrive after
\* either, and fields hidden or disabled in between: a field known invalid is marked, with
\* its message where the container takes one, and a marked field is known invalid, waits
\* for an answer, or was passed over by a check since it was last checked itself.
ErrorsAreExplained ==
  \A f \in Field : Msg[f] # "none" =>
    /\ f \in invalid => container[f] = "error"
    /\ container[f] = "error" => f \in invalid \cup pending \cup passedOver
    /\ container[f] = "error" /\ Msg[f] = "replace" => label[f] = "message"

\* Parsed however often, a form has one reset handler, and a reset that calls itself
\* through jQuery Form ends at the second call.
ResetRunsOnce == handlers <= 1 /\ depth <= 2

=============================================================================
