CONSTANTS
  Width = 10
  Unit = 2
  Enums <- ModelEnums
  Super <- ModelSuper
  Overloads <- ModelOverloads
SPECIFICATION LanguageSpec
INVARIANTS
    ComparisonsAgree
    OperatorLaws
    CastsReturn
    ReadsRight
    CodeMeans
    LoadsBack
    NativesKeep
CHECK_DEADLOCK FALSE
