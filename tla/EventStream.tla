----------------------------- MODULE EventStream -----------------------------
(***************************************************************************)
(* The events of one contract on their way to an indexer that rebuilds the *)
(* contract's state from them.  The ledger keeps events in the order of    *)
(* their invocations; a rejected invocation publishes none.  The indexer   *)
(* is external: it applies events in order to a view it stores, saves its  *)
(* position now and then, and starts again from the saved position after a *)
(* crash, with the view as it is.  A live subscription may also miss one.  *)
(***************************************************************************)
EXTENDS Naturals, Sequences

CONSTANT MaxBacklog   \* bound: events kept after the saved position

ASSUME BacklogAssumption == MaxBacklog \in Nat \ {0}

VARIABLES
  pending,   \* the events after the saved position
  seen,      \* how many of them the indexer has got past
  view       \* what it has rebuilt

streamVars == <<pending, seen, view>>

StreamInit(empty) ==
  /\ pending = <<>>
  /\ seen = 0
  /\ view = empty

(* .publish(&env), by an invocation that succeeds *)
Publish(event) ==
  /\ Len(pending) < MaxBacklog
  /\ pending' = Append(pending, event)
  /\ UNCHANGED <<seen, view>>

Silent == UNCHANGED streamVars

Behind == seen < Len(pending)
NextEvent == pending[seen + 1]

Deliver(updated) ==
  /\ Behind
  /\ view' = updated
  /\ seen' = seen + 1
  /\ UNCHANGED pending

Miss ==
  /\ Behind
  /\ seen' = seen + 1
  /\ UNCHANGED <<pending, view>>

SavePosition ==
  /\ seen > 0
  /\ pending' = SubSeq(pending, seen + 1, Len(pending))
  /\ seen' = 0
  /\ UNCHANGED view

Restart ==
  /\ seen > 0
  /\ seen' = 0
  /\ UNCHANGED <<pending, view>>

CaughtUp == ~ Behind
===============================================================================
