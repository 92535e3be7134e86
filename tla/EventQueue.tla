----------------------------- MODULE EventQueue -----------------------------
(***************************************************************************)
(* What a resource's event chain execution thread promises to the sources  *)
(* of external events and to the function blocks (src/src/core/ecet.h):    *)
(* an event that was accepted stays in a first-in first-out order until    *)
(* its function block has executed, none is lost, none is delivered twice, *)
(* and the events a block sends while it executes queue up behind those    *)
(* already in the chain.  EventChain implements this with two ring         *)
(* buffers, a lock and a semaphore.                                        *)
(***************************************************************************)
EXTENDS Naturals, Sequences

CONSTANTS Event, ChainCapacity, ExternalCapacity

VARIABLES accepted,  \* external events not yet part of the chain
          chain,     \* the event chain; its head is the next to deliver
          executing  \* TRUE while the block the head event is for executes

queueVars == <<accepted, chain, executing>>

QueueInit == accepted = <<>> /\ chain = <<>> /\ executing = FALSE

Accept(e) ==
  /\ Len(accepted) < ExternalCapacity
  /\ accepted' = Append(accepted, e)
  /\ UNCHANGED <<chain, executing>>

(* External events enter the chain one after the other, in order, and only *)
(* between two executions.                                                 *)
Transfer ==
  /\ ~executing
  /\ accepted # <<>>
  /\ Len(chain) < ChainCapacity
  /\ chain' = Append(chain, Head(accepted))
  /\ accepted' = Tail(accepted)
  /\ UNCHANGED executing

BeginExecution ==
  /\ ~executing
  /\ chain # <<>>
  /\ executing' = TRUE
  /\ UNCHANGED <<accepted, chain>>

SendEvent(e) ==
  /\ executing
  /\ Len(chain) < ChainCapacity
  /\ chain' = Append(chain, e)
  /\ UNCHANGED <<accepted, executing>>

EndExecution ==
  /\ executing
  /\ chain' = Tail(chain)
  /\ executing' = FALSE
  /\ UNCHANGED accepted

QueueNext ==
  \/ \E e \in Event : Accept(e) \/ SendEvent(e)
  \/ Transfer \/ BeginExecution \/ EndExecution

QueueSpec == QueueInit /\ [][QueueNext]_queueVars
=============================================================================
