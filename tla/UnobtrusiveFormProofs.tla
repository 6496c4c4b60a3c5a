------------------------ MODULE UnobtrusiveFormProofs -------------------------
(***************************************************************************)
(* Proofs about UnobtrusiveForm, for any fields, attributes and containers,*)
(* with jQuery Form or without.                                            *)
(***************************************************************************)
EXTENDS UnobtrusiveForm, TLAPS

\* The activations of onReset that can be on the stack, the newest first: none; one
\* about to look at the flag; one that has set it; that one and another it has caused.
Activations ==
  /\ handlers \in {0, 1}
  /\ \/ depth = 0 /\ ~calling /\ ~resetting
     \/ depth = 1 /\ calling /\ ~resetting
     \/ depth = 1 /\ ~calling /\ resetting
     \/ depth = 2 /\ calling /\ resetting

LEMMA InitActivations == Init => Activations
  BY DEF Init, Activations

LEMMA NextActivations == Activations /\ [Next]_vars => Activations'
  <1> SUFFICES ASSUME Activations, [Next]_vars PROVE Activations'
    OBVIOUS
  <1> USE UnobtrusiveFormAssumption
  <1>1. CASE UNCHANGED resets
    <2>1. handlers' \in {handlers, 1}
      BY <1>1 DEF Next, vars, resets, parsing, RewriteAttributes, ParseElement,
            ParseElements, Parse, AttachValidation, CheckElement, PassOver, Validate, Submit,
            AnswerValid, AnswerInvalid, LoseRequest, Resubmit, Reset, EnterReset, FinishReset
    <2> QED
      BY <1>1, <2>1 DEF Activations, resets
  <1>2. CASE Reset \/ EnterReset \/ FinishReset
    BY <1>2 DEF Reset, EnterReset, FinishReset, Activations, parsing, Idle
  <1>3. UNCHANGED resets \/ Reset \/ EnterReset \/ FinishReset
    BY DEF Next, vars, RewriteAttributes, ParseElement, Parse, CheckElement, PassOver, Validate,
           Submit, AnswerValid, AnswerInvalid, LoseRequest, Resubmit
  <1> QED
    BY <1>1, <1>2, <1>3

\* A form has at most one reset handler, and a reset that causes itself stops at the
\* second activation.
THEOREM ResetEnds == Spec => []ResetRunsOnce
  <1>1. Activations => ResetRunsOnce
    BY DEF Activations, ResetRunsOnce
  <1> QED
    BY <1>1, InitActivations, NextActivations, PTL DEF Spec

-----------------------------------------------------------------------------
\* The parts of the state the next theorem needs to be well typed.
Types ==
  /\ container \in [Field -> {"valid", "error"}]
  /\ label \in [Field -> {"none", "message"}]
  /\ invalid \subseteq WithRules /\ passedOver \subseteq WithRules /\ pending \subseteq Field
  /\ errorMap \subseteq Field /\ successList \subseteq Field
  /\ inflight \subseteq WithRules

\* What jquery.validate knows of its last check: it is what it believes of the fields, but
\* for those that a call of element() has passed over since.
ListsAreKnown ==
  /\ errorMap \subseteq invalid \cup passedOver
  /\ successList \cap invalid = {} /\ errorMap \cap successList = {}

Inv == Types /\ ListsAreKnown /\ ErrorsAreExplained

\* The fields with rules: never fewer.
LEMMA WithRulesIsInField == WithRules \subseteq Field
  BY DEF WithRules

\* What the page shows once the results of some fields were shown: the success of a
\* field overrides its error, and no other field changes.
LEMMA Shown ==
  ASSUME Types, NEW E \in SUBSET Field, NEW S \in SUBSET Field,
         \E T : Show(ShowErrors(OnErrors(View, T), E, S))
                \/ Show(OnErrors(ShowErrors(View, E, S), T))
                \/ Show(ShowErrors(View, E, S))
  PROVE  /\ container' = [f \in Field |->
               IF f \in S THEN "valid"
               ELSE IF f \in E /\ Msg[f] # "none" THEN "error" ELSE container[f]]
         /\ label' = [f \in Field |->
               IF Msg[f] # "replace" THEN label[f]
               ELSE IF f \in S THEN "none" ELSE IF f \in E THEN "message" ELSE label[f]]
  <1> USE UnobtrusiveFormAssumption DEF Types
  <1> DEFINE V(su, li) == [container |-> container, label |-> label,
                           summary |-> su, list |-> li]
             C == [f \in Field |->
                     IF f \in S THEN "valid"
                     ELSE IF f \in E /\ Msg[f] # "none" THEN "error" ELSE container[f]]
             L == [f \in Field |->
                     IF Msg[f] # "replace" THEN label[f]
                     ELSE IF f \in S THEN "none" ELSE IF f \in E THEN "message" ELSE label[f]]
             W(su, li) == [container |-> C, label |-> L, summary |-> su, list |-> li]
  <1>1. ASSUME NEW su, NEW li PROVE ShowErrors(V(su, li), E, S) = W(su, li)
    <2> DEFINE c == [f \in Field |-> IF f \in E \cup S /\ Msg[f] # "none"
                                     THEN "error" ELSE container[f]]
               l == [f \in Field |-> IF f \in E \cup S /\ Msg[f] = "replace"
                                     THEN "message" ELSE label[f]]
               w == [container |-> c, label |-> l, summary |-> su, list |-> li]
    <2> HIDE DEF C, L, W
    <2>1. OnError(V(su, li), E \cup S) = w
      BY DEF OnError
    <2>2. OnSuccess(w, S)
            = [container |-> [f \in Field |-> IF f \in S THEN "valid" ELSE c[f]],
               label |-> [f \in Field |-> IF f \in S /\ Msg[f] = "replace"
                                          THEN "none" ELSE l[f]],
               summary |-> su, list |-> li]
      <3> HIDE DEF c, l, V
      <3> QED
        BY DEF OnSuccess
    <2>3. C = [f \in Field |-> IF f \in S THEN "valid" ELSE c[f]]
      BY DEF C
    <2>4. L = [f \in Field |-> IF f \in S /\ Msg[f] = "replace" THEN "none" ELSE l[f]]
      BY DEF L
    <2>5. OnSuccess(w, S) = W(su, li)
      BY <2>2, <2>3, <2>4 DEF W
    <2> HIDE DEF w, W, V
    <2> QED
      BY <2>1, <2>5 DEF ShowErrors
  <1>2. PICK T : Show(ShowErrors(OnErrors(View, T), E, S))
                 \/ Show(OnErrors(ShowErrors(View, E, S), T))
                 \/ Show(ShowErrors(View, E, S))
    OBVIOUS
  <1>3. View = V(summary, list)
    BY DEF View
  <1>4. OnErrors(View, T) = V(summary, list) \/ OnErrors(View, T) = V("error", T)
    BY DEF OnErrors, View
  <1> HIDE DEF C, L, V
  <1>5. CASE Show(ShowErrors(OnErrors(View, T), E, S))
    <2>1. PICK su, li : ShowErrors(OnErrors(View, T), E, S) = W(su, li)
      BY <1>1, <1>4
    <2>2. container' = C /\ label' = L
      BY <1>5, <2>1 DEF Show
    <2> QED
      BY <2>2 DEF C, L
  <1>6. CASE Show(OnErrors(ShowErrors(View, E, S), T)) \/ Show(ShowErrors(View, E, S))
    <2>1. ShowErrors(View, E, S) = W(summary, list)
      BY <1>1, <1>3
    <2>2. OnErrors(W(summary, list), T) = W(summary, list)
          \/ OnErrors(W(summary, list), T) = W("error", T)
      BY DEF OnErrors
    <2>3. container' = C /\ label' = L
      BY <1>6, <2>1, <2>2 DEF Show
    <2> QED
      BY <2>3 DEF C, L
  <1> QED
    BY <1>2, <1>5, <1>6

\* A check of the fields F whose results are then shown keeps the invariant, when the other
\* fields K known invalid are kept and those forgotten were passed over.
LEMMA ResultsShown ==
  ASSUME Inv, NEW F \in SUBSET WithRules, NEW r \in Results(F), UNCHANGED validator,
         errorMap' = With(r, "error"), successList' = With(r, "ok"),
         NEW K \in SUBSET (invalid \ F), invalid' = K \cup With(r, "error"),
         passedOver' \subseteq WithRules, invalid \ F \subseteq K \cup passedOver',
         passedOver \ F \subseteq passedOver',
         \E T : Show(ShowErrors(OnErrors(View, T), With(r, "error"), With(r, "ok")))
                \/ Show(ShowErrors(View, With(r, "error"), With(r, "ok"))),
         StartRequests(With(r, "pending"))
  PROVE  Inv'
  <1> DEFINE E == With(r, "error")
             S == With(r, "ok")
             P == With(r, "pending")
  <1>1. E \subseteq F /\ S \subseteq F /\ P \subseteq F /\ F \subseteq E \cup S \cup P
        /\ E \cap S = {} /\ F \subseteq Field /\ E \cap P = {} /\ S \cap P = {}
    BY WithRulesIsInField DEF With, Results
  <1>2. WithRules' = WithRules
    BY DEF WithRules
  <1>3. pending' = pending \cup P /\ inflight' = inflight \cup P
    BY DEF StartRequests
  <1>4. \E T : Show(ShowErrors(OnErrors(View, T), E, S))
               \/ Show(OnErrors(ShowErrors(View, E, S), T))
               \/ Show(ShowErrors(View, E, S))
    OBVIOUS
  <1>5. Types /\ E \in SUBSET Field /\ S \in SUBSET Field
    BY <1>1 DEF Inv
  <1>6. errorMap' = E /\ successList' = S /\ invalid' = K \cup E
    OBVIOUS
  <1> HIDE DEF E, S, P
  <1>7. /\ container' = [f \in Field |->
              IF f \in S THEN "valid"
              ELSE IF f \in E /\ Msg[f] # "none" THEN "error" ELSE container[f]]
        /\ label' = [f \in Field |->
              IF Msg[f] # "replace" THEN label[f]
              ELSE IF f \in S THEN "none" ELSE IF f \in E THEN "message" ELSE label[f]]
    BY <1>5, <1>4, Shown
  <1>8. Types'
    BY <1>1, <1>2, <1>3, <1>7, <1>6 DEF Inv, Types
  <1>9. ListsAreKnown'
    BY <1>1, <1>6 DEF ListsAreKnown
  <1>10. ErrorsAreExplained'
    BY <1>1, <1>3, <1>7, <1>6 DEF Inv, Types, ErrorsAreExplained
  <1> QED
    BY <1>8, <1>9, <1>10 DEF Inv

\* A check of the form: all it does not select is passed over, and nothing else is kept.
LEMMA FormShown ==
  ASSUME Inv, NEW F \in Selections, NEW r \in Results(F), CheckForm(r), UNCHANGED validator
  PROVE  Inv'
  <1>1. /\ invalid' = {} \cup With(r, "error") /\ {} \in SUBSET (invalid \ F)
        /\ F \in SUBSET WithRules
        /\ passedOver' \subseteq WithRules /\ invalid \ F \subseteq {} \cup passedOver'
        /\ passedOver \ F \subseteq passedOver'
    BY DEF CheckForm, Inv, Types, Results, Selections
  <1>2. /\ errorMap' = With(r, "error") /\ successList' = With(r, "ok")
        /\ \E T : Show(ShowErrors(OnErrors(View, T), With(r, "error"), With(r, "ok")))
        /\ StartRequests(With(r, "pending"))
    BY DEF CheckForm
  <1> QED
    BY <1>1, <1>2, ResultsShown

\* The server accepts a field.
LEMMA AcceptedShown == ASSUME Inv, NEW f \in Field, AnswerValid(f) PROVE Inv'
  <1> USE DEF AnswerValid, parsing
  <1>1. WithRules' = WithRules
    BY DEF WithRules
  <1>2. container' = [g \in Field |-> IF g = f THEN "valid" ELSE container[g]]
        /\ label' = [g \in Field |-> IF Msg[g] # "replace" THEN label[g]
                                     ELSE IF g = f THEN "none" ELSE label[g]]
    <2> DEFINE N == {}
               S == {f}
    <2>1. Types /\ N \in SUBSET Field /\ S \in SUBSET Field /\ Show(ShowErrors(View, N, S))
      BY DEF Inv
    <2> HIDE DEF N, S
    <2>2. /\ container' = [g \in Field |-> IF g \in S THEN "valid"
                ELSE IF g \in N /\ Msg[g] # "none" THEN "error" ELSE container[g]]
          /\ label' = [g \in Field |-> IF Msg[g] # "replace" THEN label[g]
                ELSE IF g \in S THEN "none" ELSE IF g \in N THEN "message" ELSE label[g]]
      BY <2>1, Shown
    <2> QED
      BY <2>2 DEF N, S
  <1>3. Types'
    BY <1>1, <1>2 DEF Inv, Types
  <1>4. ListsAreKnown'
    BY DEF ListsAreKnown
  <1>5. ErrorsAreExplained'
    BY <1>2 DEF Inv, Types, ErrorsAreExplained
  <1> QED
    BY <1>3, <1>4, <1>5 DEF Inv

\* The server rejects a field: the last check's errors are shown with it, all of them
\* fields still known invalid or passed over since.
LEMMA RejectedShown == ASSUME Inv, NEW f \in Field, AnswerInvalid(f) PROVE Inv'
  <1> DEFINE E == errorMap \cup {f}
             S == successList \ {f}
  <1>1. WithRules' = WithRules
    BY DEF WithRules, AnswerInvalid, parsing
  <1>2. errorMap' = E /\ successList' = S /\ invalid' = invalid \cup {f} /\ passedOver' = passedOver \ {f}
        /\ pending' = pending \ {f} /\ inflight' = inflight \ {f} /\ f \in inflight
    BY DEF AnswerInvalid
  <1>3. Types /\ E \in SUBSET Field /\ S \in SUBSET Field
    BY DEF Inv, Types
  <1>4. \E T : Show(ShowErrors(OnErrors(View, T), E, S))
               \/ Show(OnErrors(ShowErrors(View, E, S), T))
               \/ Show(ShowErrors(View, E, S))
    <2>1. CASE pending' = {} /\ formSubmitted
      BY <1>2, <2>1 DEF AnswerInvalid
    <2>2. CASE ~(pending' = {} /\ formSubmitted)
      BY <1>2, <2>2 DEF AnswerInvalid
    <2> QED
      BY <2>1, <2>2
  <1> HIDE DEF E, S
  <1>5. /\ container' = [g \in Field |->
              IF g \in S THEN "valid"
              ELSE IF g \in E /\ Msg[g] # "none" THEN "error" ELSE container[g]]
        /\ label' = [g \in Field |->
              IF Msg[g] # "replace" THEN label[g]
              ELSE IF g \in S THEN "none" ELSE IF g \in E THEN "message" ELSE label[g]]
    BY <1>3, <1>4, Shown
  <1>6. E \subseteq invalid' \cup passedOver' /\ S \cap invalid' = {} /\ E \cap S = {}
    BY <1>2 DEF E, S, Inv, ListsAreKnown
  <1>7. Types'
    BY <1>1, <1>2, <1>3, <1>5 DEF Inv, Types
  <1>8. ListsAreKnown'
    BY <1>2, <1>6 DEF ListsAreKnown
  <1>9. ErrorsAreExplained'
    <2>1. f \in E /\ f \notin S
      BY DEF E, S
    <2> QED
      BY <1>2, <1>5, <1>6, <2>1 DEF Inv, Types, ErrorsAreExplained
  <1> QED
    BY <1>7, <1>8, <1>9 DEF Inv

\* Parsing gives a form its validator once, and shows nothing.
LEMMA ParsedInv ==
  ASSUME Inv, UNCHANGED <<view, checks, requests>>,
         validator' = validator \/ validator = NoValidator
  PROVE  Inv'
  <1>1. WithRules \subseteq WithRules'
    BY DEF WithRules
  <1> QED
    BY <1>1 DEF Inv, Types, ListsAreKnown, ErrorsAreExplained, view, checks, requests

\* The page marks the fields jquery.validate knows invalid, and no others but those that
\* wait for the server or that a check passed over, hidden or disabled, after their own.
THEOREM ErrorsExplained == Spec => []ErrorsAreExplained
  <1>1. Init => Inv
    BY DEF Init, Inv, Types, ListsAreKnown, ErrorsAreExplained, WithRules
  <1>2. Inv /\ [Next]_vars => Inv'
    <2> SUFFICES ASSUME Inv, [Next]_vars PROVE Inv'
      OBVIOUS
    <2>1. CASE UNCHANGED vars
      BY <2>1, ParsedInv DEF vars, parsing
    <2>2. ASSUME NEW f \in Field, RewriteAttributes(f) PROVE Inv'
      BY <2>2, ParsedInv DEF RewriteAttributes
    <2>3. ASSUME NEW f \in Field, NEW skipAttach \in BOOLEAN, ParseElement(f, skipAttach)
          PROVE  Inv'
      BY <2>3, ParsedInv DEF ParseElement, AttachValidation
    <2>4. CASE Parse
      BY <2>4, ParsedInv DEF Parse, AttachValidation
    <2>5. ASSUME NEW f \in Field, CheckElement(f) PROVE Inv'
      <3> DEFINE F == {f} \cap WithRules
      <3>1. PICK r \in Results(F) :
              /\ errorMap' = With(r, "error") /\ successList' = With(r, "ok")
              /\ invalid' = (invalid \ {f}) \cup With(r, "error")
              /\ passedOver' = passedOver \ {f}
              /\ Show(ShowErrors(View, With(r, "error"), With(r, "ok")))
              /\ StartRequests(With(r, "pending"))
        BY <2>5 DEF CheckElement
      <3>2. F \in SUBSET WithRules /\ UNCHANGED validator
        BY <2>5 DEF CheckElement, parsing
      <3> DEFINE K == invalid \ {f}
      <3>3. /\ K \in SUBSET (invalid \ F) /\ invalid' = K \cup With(r, "error")
            /\ invalid \ F \subseteq K \cup passedOver'
            /\ passedOver' \subseteq WithRules /\ passedOver \ F \subseteq passedOver'
        BY <3>1 DEF Inv, Types
      <3> HIDE DEF F, K
      <3> QED
        BY <3>1, <3>2, <3>3, ResultsShown
    <2>10. ASSUME NEW f \in Field, PassOver(f) PROVE Inv'
      <3>1. WithRules' = WithRules
        BY <2>10 DEF PassOver, parsing, WithRules
      <3> QED
        BY <2>10, <3>1 DEF PassOver, Inv, Types, ListsAreKnown, ErrorsAreExplained,
                           view, requests
    <2>6. CASE Validate \/ Submit \/ Resubmit
      BY <2>6, FormShown DEF Validate, Submit, Resubmit, parsing
    <2>7. ASSUME NEW f \in Field, LoseRequest(f) PROVE Inv'
      <3>1. WithRules' = WithRules
        BY <2>7 DEF LoseRequest, parsing, WithRules
      <3> QED
        BY <2>7, <3>1 DEF LoseRequest, Inv, Types, ListsAreKnown, ErrorsAreExplained,
                          view, checks
    <2>8. CASE Reset \/ EnterReset
      BY <2>8, ParsedInv DEF Reset, EnterReset, parsing
    <2>9. CASE FinishReset
      <3>1. WithRules' = WithRules
        BY <2>9 DEF FinishReset, parsing, WithRules
      <3> QED
        BY <2>9, <3>1 DEF FinishReset, Inv, Types, ListsAreKnown, ErrorsAreExplained,
                          requests
    <2> QED
      BY <2>1, <2>2, <2>3, <2>4, <2>5, <2>6, <2>7, <2>8, <2>9, <2>10, AcceptedShown,
         RejectedShown
      DEF Next
  <1>3. Inv => ErrorsAreExplained
    BY DEF Inv
  <1> QED
    BY <1>1, <1>2, <1>3, PTL DEF Spec

-----------------------------------------------------------------------------
\* NoValidator is none of the rule sets a validator can have.
NoValidatorIsNone == \A S : NoValidator \notin [Field -> S]

\* What showing changes besides containers and labels.
LEMMA SummaryShown ==
  ASSUME TypeOK, NEW E, NEW S, NEW T \in SUBSET Field,
         \/ Show(ShowErrors(OnErrors(View, T), E, S))
         \/ Show(OnErrors(ShowErrors(View, E, S), T))
         \/ Show(ShowErrors(View, E, S))
  PROVE  summary' \in {"valid", "error"} /\ list' \in SUBSET Field
  <1>1. ASSUME NEW v
        PROVE  ShowErrors(v, E, S).summary = v.summary /\ ShowErrors(v, E, S).list = v.list
    BY DEF ShowErrors, OnError, OnSuccess
  <1>2. View.summary = summary /\ View.list = list
    BY DEF View
  <1>3. /\ OnErrors(View, T).summary \in {summary, "error"}
        /\ OnErrors(View, T).list \in {list, T}
    BY <1>2 DEF OnErrors, View
  <1>4. /\ OnErrors(ShowErrors(View, E, S), T).summary \in {summary, "error"}
        /\ OnErrors(ShowErrors(View, E, S), T).list \in {list, T}
    BY <1>1, <1>2 DEF OnErrors, ShowErrors, OnError, OnSuccess
  <1> QED
    BY <1>1, <1>2, <1>3, <1>4 DEF Show, TypeOK

\* The page after any results were shown.
LEMMA ShownTypes ==
  ASSUME TypeOK, NEW E \in SUBSET Field, NEW S \in SUBSET Field, NEW T \in SUBSET Field,
         \/ Show(ShowErrors(OnErrors(View, T), E, S))
         \/ Show(OnErrors(ShowErrors(View, E, S), T))
         \/ Show(ShowErrors(View, E, S))
  PROVE  /\ container' \in [Field -> {"valid", "error"}]
         /\ label' \in [Field -> {"none", "message"}]
         /\ summary' \in {"valid", "error"} /\ list' \subseteq Field
  <1>1. Types
    BY DEF TypeOK, Types, Remote, WithRules
  <1>2. summary' \in {"valid", "error"} /\ list' \in SUBSET Field
    BY SummaryShown
  <1>3. /\ container' = [f \in Field |->
               IF f \in S THEN "valid"
               ELSE IF f \in E /\ Msg[f] # "none" THEN "error" ELSE container[f]]
        /\ label' = [f \in Field |->
               IF Msg[f] # "replace" THEN label[f]
               ELSE IF f \in S THEN "none" ELSE IF f \in E THEN "message" ELSE label[f]]
    BY <1>1, Shown
  <1> QED
    BY <1>2, <1>3 DEF TypeOK

\* A check of fields with rules: those that wait for the server have a remote rule.
LEMMA CheckTypes ==
  ASSUME TypeOK, NEW F \in SUBSET WithRules, NEW r \in Results(F), UNCHANGED parsing,
         errorMap' = With(r, "error"), successList' = With(r, "ok"),
         invalid' \subseteq WithRules, passedOver' \subseteq WithRules,
         \/ Show(ShowErrors(OnErrors(View, With(r, "error")), With(r, "error"), With(r, "ok")))
         \/ Show(ShowErrors(View, With(r, "error"), With(r, "ok"))),
         StartRequests(With(r, "pending")),
         formSubmitted' \in BOOLEAN, todo' \in {"nothing", "check", "submit"},
         UNCHANGED resets
  PROVE  TypeOK'
  <1> DEFINE E == With(r, "error")
             S == With(r, "ok")
             P == With(r, "pending")
  <1>1. /\ E \subseteq F /\ S \subseteq F /\ P \subseteq F /\ E \cap S = {}
        /\ P \subseteq Remote /\ F \subseteq WithRules /\ WithRules \subseteq Field
    BY WithRulesIsInField DEF With, Results
  <1>2. WithRules' = WithRules /\ Remote' = Remote /\ handlers' = handlers
        /\ validator' = validator
    BY DEF WithRules, Remote, parsing
  <1>3. /\ errorMap' = E /\ successList' = S
        /\ pending' = pending \cup P /\ inflight' = inflight \cup P
    BY DEF StartRequests
  <1>4. \/ Show(ShowErrors(OnErrors(View, E), E, S))
        \/ Show(OnErrors(ShowErrors(View, E, S), E))
        \/ Show(ShowErrors(View, E, S))
    OBVIOUS
  <1> HIDE DEF E, S, P
  <1>5. E \in SUBSET Field /\ S \in SUBSET Field
    BY <1>1
  <1>6. /\ container' \in [Field -> {"valid", "error"}]
        /\ label' \in [Field -> {"none", "message"}]
        /\ summary' \in {"valid", "error"} /\ list' \subseteq Field
    BY <1>4, <1>5, ShownTypes
  <1>7. /\ errorMap' \subseteq WithRules' /\ successList' \subseteq WithRules'
        /\ invalid' \subseteq WithRules' /\ passedOver' \subseteq WithRules'
        /\ errorMap' \cap successList' = {}
        /\ inflight' \subseteq pending' /\ pending' \subseteq Remote'
    BY <1>1, <1>2, <1>3 DEF TypeOK
  <1>8. depth' \in Nat /\ calling' \in BOOLEAN /\ resetting' \in BOOLEAN
    BY DEF TypeOK, resets
  <1> QED
    BY <1>2, <1>6, <1>7, <1>8 DEF TypeOK

\* Parsing a form binds its handler and gives it a validator, in one step.
LEMMA ParsedTypes ==
  ASSUME TypeOK, NoValidatorIsNone, UNCHANGED <<view, checks, requests>>,
         \/ UNCHANGED <<handlers, validator>>
         \/ AttachValidation,
         UNCHANGED resets
  PROVE  TypeOK'
  <1>1. handlers' \in Nat /\ (handlers' > 0 <=> validator' # NoValidator)
    <2>1. CASE UNCHANGED <<handlers, validator>>
      BY <2>1 DEF TypeOK
    <2>2. CASE AttachValidation
      <3>1. RulesOf(options') # NoValidator
        <4>1. RulesOf(options') \in
                [Field -> {RulesOf(options')[f] : f \in Field}]
          BY DEF RulesOf
        <4> QED
          BY <4>1 DEF NoValidatorIsNone
      <3> QED
        BY <2>2, <3>1 DEF AttachValidation, TypeOK
    <2> QED
      BY <2>1, <2>2
  <1>2. validator' = validator \/ validator = NoValidator
    BY DEF AttachValidation
  <1>3. WithRules \subseteq WithRules' /\ Remote \subseteq Remote'
    BY <1>2 DEF WithRules, Remote
  <1> QED
    BY <1>1, <1>3 DEF TypeOK, view, checks, requests, resets

\* The answer of the server to one field.
LEMMA AnswerTypes ==
  ASSUME TypeOK, NEW f \in Field, AnswerValid(f) \/ AnswerInvalid(f)
  PROVE  TypeOK'
  <1>1. WithRules' = WithRules /\ Remote' = Remote /\ f \in Remote /\ Remote \subseteq WithRules
        /\ UNCHANGED <<handlers, validator>> /\ WithRules \subseteq Field
    BY WithRulesIsInField DEF TypeOK, AnswerValid, AnswerInvalid, parsing, WithRules, Remote
  <1>2. /\ container' \in [Field -> {"valid", "error"}]
        /\ label' \in [Field -> {"none", "message"}]
        /\ summary' \in {"valid", "error"} /\ list' \subseteq Field
    <2>1. CASE AnswerValid(f)
      <3> DEFINE N == {}
                 S == {f}
      <3>1. Show(ShowErrors(View, N, S))
        BY <2>1 DEF AnswerValid
      <3>2. N \in SUBSET Field /\ S \in SUBSET Field
        OBVIOUS
      <3> HIDE DEF N, S
      <3> QED
        BY <3>1, <3>2, ShownTypes
    <2>2. CASE AnswerInvalid(f)
      <3> DEFINE E == errorMap \cup {f}
                 S == successList \ {f}
      <3>1. errorMap' = E /\ successList' = S
        BY <2>2 DEF AnswerInvalid
      <3>2. E \in SUBSET Field /\ S \in SUBSET Field
        BY <1>1 DEF TypeOK
      <3> HIDE DEF E, S
      <3>3. Show(IF pending' = {} /\ formSubmitted
                 THEN OnErrors(ShowErrors(View, E, S), E) ELSE ShowErrors(View, E, S))
        BY <2>2, <3>1 DEF AnswerInvalid
      <3>4. Show(OnErrors(ShowErrors(View, E, S), E)) \/ Show(ShowErrors(View, E, S))
        BY <3>3
      <3> QED
        BY <3>2, <3>4, ShownTypes
    <2> QED
      BY <2>1, <2>2
  <1>3. /\ errorMap' \subseteq WithRules /\ successList' \subseteq WithRules
        /\ invalid' \subseteq WithRules /\ passedOver' \subseteq WithRules
        /\ errorMap' \cap successList' = {}
        /\ inflight' \subseteq pending' /\ pending' \subseteq Remote
    BY <1>1 DEF TypeOK, AnswerValid, AnswerInvalid
  <1>4. formSubmitted' \in BOOLEAN /\ todo' \in {"nothing", "check", "submit"}
    BY DEF TypeOK, AnswerValid, AnswerInvalid
  <1>5. depth' \in Nat /\ calling' \in BOOLEAN /\ resetting' \in BOOLEAN
    BY DEF TypeOK, AnswerValid, AnswerInvalid, resets
  <1> QED
    BY <1>1, <1>2, <1>3, <1>4, <1>5 DEF TypeOK

\* The state is well typed: in particular a form has its reset handler when it has a
\* validator, the fields of the last check, the known invalid and the waiting ones have
\* rules, and only fields with a remote rule wait for the server.
THEOREM FormTypes ==
  ASSUME NoValidatorIsNone
  PROVE  Spec => []TypeOK
  <1>1. Init => TypeOK /\ Activations
    <2> SUFFICES ASSUME Init PROVE TypeOK
      BY InitActivations
    <2>1. handlers \in Nat /\ (handlers > 0 <=> validator # NoValidator) /\ depth \in Nat
      BY DEF Init
    <2>2. formSubmitted \in BOOLEAN /\ calling \in BOOLEAN /\ resetting \in BOOLEAN
      BY Zenon DEF Init
    <2> QED
      BY <2>1, <2>2 DEF Init, TypeOK
  <1>2. TypeOK /\ Activations /\ [Next]_vars => TypeOK' /\ Activations'
    <2> SUFFICES ASSUME TypeOK, Activations, [Next]_vars PROVE TypeOK'
      BY NextActivations
    <2>1. CASE UNCHANGED vars
      BY <2>1, ParsedTypes DEF vars, parsing
    <2>2. ASSUME NEW f \in Field, RewriteAttributes(f) PROVE TypeOK'
      BY <2>2, ParsedTypes DEF RewriteAttributes
    <2>3. ASSUME NEW f \in Field, NEW skipAttach \in BOOLEAN, ParseElement(f, skipAttach)
          PROVE  TypeOK'
      BY <2>3, ParsedTypes DEF ParseElement
    <2>4. CASE Parse
      BY <2>4, ParsedTypes DEF Parse
    <2>5. ASSUME NEW f \in Field, CheckElement(f) PROVE TypeOK'
      <3> DEFINE F == {f} \cap WithRules
      <3>1. PICK r \in Results(F) :
              /\ errorMap' = With(r, "error") /\ successList' = With(r, "ok")
              /\ invalid' = (invalid \ {f}) \cup With(r, "error")
              /\ passedOver' = passedOver \ {f}
              /\ Show(ShowErrors(View, With(r, "error"), With(r, "ok")))
              /\ StartRequests(With(r, "pending"))
        BY <2>5 DEF CheckElement
      <3>2. F \in SUBSET WithRules
        OBVIOUS
      <3>3. /\ UNCHANGED parsing /\ UNCHANGED resets
            /\ formSubmitted' \in BOOLEAN /\ todo' \in {"nothing", "check", "submit"}
        BY <2>5 DEF CheckElement, TypeOK
      <3>4. invalid' \subseteq WithRules /\ passedOver' \subseteq WithRules
        BY <3>1 DEF TypeOK, With, Results
      <3> HIDE DEF F
      <3> QED
        BY <3>1, <3>2, <3>3, <3>4, CheckTypes
    <2>9. ASSUME NEW f \in Field, PassOver(f) PROVE TypeOK'
      BY <2>9 DEF PassOver, TypeOK, WithRules, Remote, parsing, view, requests, resets
    <2>6. CASE Validate \/ Submit \/ Resubmit
      <3>1. PICK F \in Selections : \E r \in Results(F) : CheckForm(r)
        BY <2>6 DEF Validate, Submit, Resubmit
      <3> PICK r \in Results(F) : CheckForm(r)
        BY <3>1
      <3>4. F \in SUBSET WithRules
        BY DEF Selections
      <3>2. /\ errorMap' = With(r, "error") /\ successList' = With(r, "ok")
            /\ invalid' \subseteq WithRules /\ passedOver' \subseteq WithRules
            /\ Show(ShowErrors(OnErrors(View, With(r, "error")), With(r, "error"),
                               With(r, "ok")))
            /\ StartRequests(With(r, "pending"))
        BY <3>4 DEF CheckForm, With, Results
      <3>3. /\ UNCHANGED parsing /\ UNCHANGED resets
            /\ formSubmitted' \in BOOLEAN /\ todo' \in {"nothing", "check", "submit"}
        BY <2>6 DEF Validate, Submit, Resubmit, TypeOK
      <3> QED
        BY <3>2, <3>3, <3>4, CheckTypes
    <2>7. ASSUME NEW f \in Field, LoseRequest(f) PROVE TypeOK'
      BY <2>7 DEF LoseRequest, TypeOK, WithRules, Remote, parsing, view, checks, resets
    <2>8. CASE Reset \/ EnterReset \/ FinishReset
      <3>1. WithRules' = WithRules /\ Remote' = Remote
        BY <2>8 DEF Reset, EnterReset, FinishReset, WithRules, Remote, parsing
      <3>2. depth' \in Nat
        BY NextActivations DEF Activations
      <3>3. calling' \in BOOLEAN /\ resetting' \in BOOLEAN
        BY <2>8, UnobtrusiveFormAssumption DEF TypeOK, Reset, EnterReset, FinishReset
      <3> QED
        BY <2>8, <3>1, <3>2, <3>3 DEF Reset, EnterReset, FinishReset, TypeOK, parsing, view,
                                     checks, requests
    <2> QED
      BY <2>1, <2>2, <2>3, <2>4, <2>5, <2>6, <2>7, <2>8, <2>9, AnswerTypes
      DEF Next
  <1> QED
    BY <1>1, <1>2, PTL DEF Spec

-----------------------------------------------------------------------------
\* What options and validator remember.
Remembered ==
  /\ \A f \in Field : element[f] \in Variants[f]
  /\ DOMAIN element = Field
  /\ DOMAIN options = Field /\ DOMAIN parsedAs = Field /\ DOMAIN attachedAs = Field
  /\ \A f \in Field : \/ parsedAs[f] = NotParsed /\ options[f] = NotParsed
                      \/ parsedAs[f] \in Variants[f] /\ options[f] = AdaptedOf(parsedAs[f])
  /\ validator # NoValidator => \A f \in Field :
       \/ attachedAs[f] = NotParsed /\ validator[f] = NotParsed
       \/ attachedAs[f] \in Variants[f] /\ validator[f] = AdaptedOf(attachedAs[f]).rules

\* One parse: the fields F from their attributes as they are, and the validator from
\* all the options if the form had none.
LEMMA ParseRemembered ==
  ASSUME ElementsAreParsed, Remembered, NEW F \in SUBSET Field, ParseElements(F),
         \/ UNCHANGED <<validator, attachedAs>>
         \/ AttachValidation
  PROVE  Remembered'
  <1>1. /\ \A f \in Field : \/ parsedAs'[f] = NotParsed /\ options'[f] = NotParsed
                            \/ /\ parsedAs'[f] \in Variants[f]
                               /\ options'[f] = AdaptedOf(parsedAs'[f])
        /\ element' = element /\ DOMAIN options' = Field /\ DOMAIN parsedAs' = Field
    BY DEF ParseElements, Remembered
  <1>2. ASSUME validator' = RulesOf(options'), attachedAs' = parsedAs', NEW f \in Field
        PROVE  \/ attachedAs'[f] = NotParsed /\ validator'[f] = NotParsed
               \/ /\ attachedAs'[f] \in Variants[f]
                  /\ validator'[f] = AdaptedOf(attachedAs'[f]).rules
    BY <1>1, <1>2 DEF RulesOf, ElementsAreParsed
  <1>3. \/ UNCHANGED <<validator, attachedAs>>
        \/ validator' = RulesOf(options') /\ attachedAs' = parsedAs'
    BY DEF AttachValidation
  <1> QED
    BY <1>1, <1>2, <1>3 DEF Remembered

\* However a page rewrites attributes, parses and attaches, the options of a field are
\* those of its last parse and the validator has those of its first attachment.  What
\* one parse makes of one element is a hypothesis.
THEOREM RulesDeclared ==
  ASSUME ElementsAreParsed
  PROVE  Spec => []RulesAreDeclared
  <1>1. Init => Remembered
    BY DEF Init, Remembered
  <1>2. Remembered /\ [Next]_vars => Remembered'
    <2> SUFFICES ASSUME Remembered, [Next]_vars PROVE Remembered'
      OBVIOUS
    <2>1. CASE UNCHANGED parsing
      BY <2>1 DEF parsing, Remembered
    <2>2. ASSUME NEW f \in Field, RewriteAttributes(f) PROVE Remembered'
      BY <2>2 DEF RewriteAttributes, Remembered
    <2>3. ASSUME NEW f \in Field, NEW skipAttach \in BOOLEAN, ParseElement(f, skipAttach)
          PROVE  Remembered'
      <3>1. {f} \in SUBSET Field /\ ParseElements({f})
            /\ (UNCHANGED <<validator, attachedAs>> \/ AttachValidation)
        BY <2>3 DEF ParseElement
      <3> QED
        BY <3>1, ParseRemembered
    <2>4. CASE Parse
      <3>1. Field \in SUBSET Field /\ ParseElements(Field) /\ AttachValidation
        BY <2>4 DEF Parse
      <3> QED
        BY <3>1, ParseRemembered
    <2> QED
      BY <2>1, <2>2, <2>3, <2>4 DEF Next, vars, CheckElement, PassOver, Validate, Submit, AnswerValid,
         AnswerInvalid, LoseRequest, Resubmit, Reset, EnterReset, FinishReset
  <1>3. Remembered => RulesAreDeclared
    BY DEF Remembered, RulesAreDeclared, ElementsAreParsed
  <1> QED
    BY <1>1, <1>2, <1>3, PTL DEF Spec

=============================================================================
