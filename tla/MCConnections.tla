---------------------------- MODULE MCConnections ----------------------------
(* Three function blocks for TLC: producer, consumer and a generic block   *)
(* between them.                                                           *)
EXTENDS Connections, TLC

CONSTANTS producer, generic, consumer,  \* blocks
          real,                         \* output of producer
          anyOut, anyIn,                \* output and input of generic
          int, realIn, text             \* inputs of consumer

MCOwner == [p \in Source \cup Input |->
              CASE p = real -> producer
                [] p \in {anyOut, anyIn} -> generic
                [] OTHER -> consumer]

MCDeclared == [p \in Source \cup Input |->
                 CASE p \in {real, realIn} -> "REAL"
                   [] p \in {anyOut, anyIn} -> "ANY"
                   [] p = int -> "INT"
                   [] p = text -> "STRING"]
=============================================================================
