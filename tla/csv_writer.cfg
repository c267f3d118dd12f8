SPECIFICATION Spec
CONSTANTS
  Char <- Characters
  Texts <- ShortTexts
  Numbers <- SomeNumbers
  MaxRows = 1
INVARIANTS
  RoundTrip
  FormulasAreEscaped
