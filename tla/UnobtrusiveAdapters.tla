------------------------- MODULE UnobtrusiveAdapters --------------------------
(***************************************************************************)
(* jquery.validate.unobtrusive: how the adapters turn the data-val-*       *)
(* attributes of an element into jQuery Validate rules and messages.       *)
(*                                                                         *)
(* An element is a record: its name (a path such as <<"Order", "Mail">>),  *)
(* whether it is a checkbox, msg (adapter -> message of data-val-adapter)  *)
(* and arg (adapter -> parameter -> value of data-val-adapter-parameter).  *)
(* A value is a token; Empty is the empty string.  Rules and messages are  *)
(* functions from rule names.                                              *)
(***************************************************************************)
EXTENDS Sequences, SequencesExt

CONSTANTS
  Empty,               \* "": a legal message, and a falsy value
  Undefined,
  HasExtensionMethod   \* the additional methods of jQuery Validate are loaded

ASSUME AdaptersAssumption == HasExtensionMethod \in BOOLEAN /\ Empty # Undefined

Truthy(v) == v \notin {Empty, Undefined}
Or(v, default) == IF Truthy(v) THEN v ELSE default

\* options.params: attributes that are not there are undefined.
Param(el, a, p) == IF p \in DOMAIN el.arg[a] THEN el.arg[a][p] ELSE Undefined

\* Mutant: a rule set before stays.
SetFirstValidationValues(opts, ruleName, value) ==
  IF ruleName \in DOMAIN opts.rules THEN opts
  ELSE [opts EXCEPT !.rules = (ruleName :> value) @@ @]

\* setValidationValues: a falsy message leaves the message of the rule alone.
SetValidationValues(opts, ruleName, value) ==
  [opts EXCEPT !.rules = (ruleName :> value) @@ @,
               !.messages = IF Truthy(opts.message) THEN (ruleName :> opts.message) @@ @
                            ELSE @]

\* getModelPrefix, appendModelPrefix: "*." stands for the path the element is in.
\* A reference to a field is [relative |-> BOOLEAN, path |-> sequence].
GetModelPrefix(name) == Front(name)
AppendModelPrefix(field, prefix) == IF field.relative THEN prefix \o field.path ELSE field.path

-----------------------------------------------------------------------------
(* The registered adapters.  An adapter is a record: its name, the kind of *)
(* its adapt function and what that function closes over.                  *)

AddBool(adapterName) == [name |-> adapterName, adapt |-> "bool", rule |-> adapterName]
AddSingleVal(adapterName, attribute, ruleName) ==
  [name |-> adapterName, adapt |-> "single", attribute |-> attribute, rule |-> ruleName]
AddMinMax(adapterName, minRule, maxRule, minMaxRule) ==
  [name |-> adapterName, adapt |-> "minMax",
   min |-> minRule, max |-> maxRule, minMax |-> minMaxRule]
Add(adapterName) == [name |-> adapterName, adapt |-> adapterName]

Adapters ==
  (IF HasExtensionMethod
   THEN <<AddSingleVal("accept", "mimtype", "accept"),
          AddSingleVal("extension", "extension", "extension")>>
   ELSE <<AddSingleVal("extension", "extension", "accept")>>) \o
  <<AddSingleVal("regex", "pattern", "regex"),
    AddBool("creditcard"), AddBool("date"), AddBool("digits"),
    AddBool("email"), AddBool("number"), AddBool("url"),
    AddMinMax("length", "minlength", "maxlength", "rangelength"),
    AddMinMax("range", "min", "max", "range"),
    AddMinMax("minlength", "minlength", "undefined", "undefined"),
    AddMinMax("maxlength", "minlength", "maxlength", "undefined"),
    Add("equalto"), Add("required"), Add("remote"), Add("password"),
    AddSingleVal("fileextensions", "extensions", "extension")>>

AdaptMinMax(a, el, opts) ==
  LET min == Param(el, a.name, "min")
      max == Param(el, a.name, "max")
  IN  IF Truthy(min) /\ Truthy(max) THEN SetValidationValues(opts, a.minMax, <<min, max>>)
      ELSE IF Truthy(min) THEN SetValidationValues(opts, a.min, min)
      ELSE IF Truthy(max) THEN SetValidationValues(opts, a.max, max)
      ELSE opts

\* The element the other name finds in the form; whether it exists is left out.
AdaptEqualTo(el, opts) ==
  SetValidationValues(opts, "equalTo",
    AppendModelPrefix(Param(el, "equalto", "other"), GetModelPrefix(el.name)))

\* "required" would mean "mandatory" for a checkbox.
AdaptRequired(el, opts) ==
  IF el.checkbox THEN opts ELSE SetValidationValues(opts, "required", TRUE)

\* splitAndTrim has made additionalfields a list of references; the values of the
\* fields are read when the request is made.  The element itself by default.
AdaptRemote(el, opts) ==
  LET additional == Param(el, "remote", "additionalfields")
      fields == IF Truthy(additional) THEN additional
                ELSE {[relative |-> FALSE, path |-> el.name]}
  IN  SetValidationValues(opts, "remote",
        [url |-> Param(el, "remote", "url"),
         type |-> Or(Param(el, "remote", "type"), "GET"),
         data |-> {AppendModelPrefix(f, GetModelPrefix(el.name)) : f \in fields}])

AdaptPassword(el, opts) ==
  LET set(o, param, rule) ==
        LET v == Param(el, "password", param)
        IN  IF Truthy(v) THEN SetValidationValues(o, rule, v) ELSE o
  IN  set(set(set(opts, "min", "minlength"), "nonalphamin", "nonalphamin"), "regex", "regex")

Adapt(a, el, opts) ==
  CASE a.adapt = "bool"     -> SetValidationValues(opts, a.rule, TRUE)
    [] a.adapt = "single"   -> SetValidationValues(opts, a.rule, Param(el, a.name, a.attribute))
    [] a.adapt = "minMax"   -> AdaptMinMax(a, el, opts)
    [] a.adapt = "equalto"  -> AdaptEqualTo(el, opts)
    [] a.adapt = "required" -> AdaptRequired(el, opts)
    [] a.adapt = "remote"   -> AdaptRemote(el, opts)
    [] a.adapt = "password" -> AdaptPassword(el, opts)

\* parseElement: the adapters run in the order of their registration, each that has
\* its attribute on the element; "__dummy__" makes the rules non-empty.  start is
\* what rules and messages are before.
AdaptedFrom(start, el) ==
  LET declared == SelectSeq(Adapters, LAMBDA a : a.name \in DOMAIN el.msg)
      step(opts, a) == Adapt(a, el, [opts EXCEPT !.message = el.msg[a.name]])
      result == FoldLeft(step, [rules |-> start.rules, messages |-> start.messages,
                                message |-> Undefined], declared)
  IN  [rules |-> ("__dummy__" :> TRUE) @@ result.rules, messages |-> result.messages]

NoRules == [rules |-> <<>>, messages |-> <<>>]
AdaptedOf(el) == AdaptedFrom(NoRules, el)

=============================================================================
