-------------------------- MODULE MCUnobtrusiveForm ---------------------------
(***************************************************************************)
(* Small instances of UnobtrusiveForm for TLC.                             *)
(***************************************************************************)
EXTENDS UnobtrusiveForm

CONSTANTS mail, code

\* mail is checked by the server and may gain or lose a length; code is declared a
\* required password with two lengths that set the same rule.
MCMail(withLength) ==
  [name |-> <<"Order", "Mail">>, checkbox |-> FALSE,
   msg |-> ("remote" :> Empty) @@
           (IF withLength THEN "maxlength" :> "too long" ELSE <<>>),
   arg |-> ("remote" :> ("url" :> "/free" @@ "additionalfields" :>
                           {[relative |-> TRUE, path |-> <<"Name">>]})) @@
           ("maxlength" :> ("max" :> "9"))]
MCCode ==
  [name |-> <<"Code">>, checkbox |-> FALSE,
   msg |-> ("length" :> "wrong length") @@ ("password" :> Empty) @@
           ("required" :> "missing") @@ ("equalto" :> "differs"),
   arg |-> ("length" :> ("min" :> "4")) @@ ("password" :> ("min" :> "6")) @@
           ("equalto" :> ("other" :> [relative |-> TRUE, path |-> <<"Repeat">>]))]

MCVariants == (mail :> {MCMail(TRUE), MCMail(FALSE)}) @@ (code :> {MCCode})
MCMsg == (mail :> "replace") @@ (code :> "keep")

=============================================================================
