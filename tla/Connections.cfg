\* A floating point and a generic output; a generic, an integer and a floating point
\* input, and a string input that refuses the floating point values.
CONSTANTS
  producer = producer
  generic = generic
  consumer = consumer
  real = real
  anyOut = anyOut
  anyIn = anyIn
  int = int
  realIn = realIn
  text = text
  FB = {producer, generic, consumer}
  Source = {real, anyOut}
  Input = {anyIn, int, realIn, text}
  NoConnection = NoConnection
  Owner <- MCOwner
  Declared <- MCDeclared
  SingleSource = TRUE
  DisconnectFirst = TRUE
SPECIFICATION Spec
INVARIANTS
  TypeOK
  EndsAgree
  ValuesConvert
