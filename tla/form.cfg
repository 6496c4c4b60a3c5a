\* Two fields, one with a remote rule and changing attributes; jQuery Form loaded.
SPECIFICATION Spec
CONSTANTS
  mail = mail
  code = code
  Empty = Empty
  Undefined = Undefined
  NotParsed = NotParsed
  NoValidator = NoValidator
  HasExtensionMethod = FALSE
  FormPlugin = TRUE
  Field = {mail, code}
  Variants <- MCVariants
  Msg <- MCMsg
INVARIANTS TypeOK RulesAreDeclared ErrorsAreExplained ResetRunsOnce
