\* An input that has a source is offered another one.
CONSTANTS
  producer = producer
  generic = generic
  consumer = consumer
  real = real
  anyOut = anyOut
  anyIn = anyIn
  int = int
  realIn = realIn
  text = text
  FB = {producer, generic, consumer}
  Source = {real, anyOut}
  Input = {int, realIn}
  NoConnection = NoConnection
  Owner <- MCOwner
  Declared <- MCDeclared
  SingleSource = FALSE
  DisconnectFirst = TRUE
SPECIFICATION Spec
INVARIANT
  EndsAgree
