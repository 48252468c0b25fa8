--------------------------- MODULE ClosableQueue ---------------------------
(***************************************************************************)
(* What BoundedQueue of ownership-sync-lab promises its callers: a first   *)
(* in, first out queue whose calls happen at one moment each, that takes   *)
(* nothing more once it is closed, hands out what it holds unless it is    *)
(* cancelled, and then lets every caller go.                               *)
(***************************************************************************)
EXTENDS Integers, Sequences

CONSTANTS Producers, Consumers, Capacity, Items

VARIABLES
  items,
  mode,       \* "open", "drain" or "cancel"
  blocked,    \* callers inside push_wait or pop
  result      \* what the last call of each caller returned

vars == <<items, mode, blocked, result>>

Returned(t, r) == blocked' = blocked \ {t} /\ result' = [result EXCEPT ![t] = r]

Init ==
  /\ items = <<>> /\ mode = "open" /\ blocked = {}
  /\ result = [t \in Producers \cup Consumers |-> <<"none">>]

Push(p) ==
  /\ mode = "open" /\ Len(items) < Capacity
  /\ \E i \in Items : items' = Append(items, i)
  /\ Returned(p, <<"accepted">>) /\ UNCHANGED mode

Refuse(p) ==
  /\ mode # "open" \/ (p \notin blocked /\ Len(items) = Capacity)
  /\ Returned(p, <<"refused">>) /\ UNCHANGED <<items, mode>>

Pop(c) ==
  /\ mode # "cancel" /\ items # <<>>
  /\ items' = Tail(items)
  /\ Returned(c, Head(items)) /\ UNCHANGED mode

End(c) ==
  /\ \/ mode = "cancel" /\ Returned(c, <<"cancelled">>)
     \/ mode = "drain" /\ items = <<>> /\ Returned(c, <<"closed">>)
  /\ UNCHANGED <<items, mode>>

Block(t) ==
  /\ mode = "open" /\ Len(items) = IF t \in Producers THEN Capacity ELSE 0
  /\ blocked' = blocked \cup {t} /\ UNCHANGED <<items, mode, result>>

Close ==
  /\ mode = "open"
  /\ \/ mode' = "drain" /\ UNCHANGED items
     \/ mode' = "cancel" /\ items' = <<>>
  /\ UNCHANGED <<blocked, result>>

Next ==
  \/ \E p \in Producers : Push(p) \/ Refuse(p) \/ Block(p)
  \/ \E c \in Consumers : Pop(c) \/ End(c) \/ Block(c)
  \/ Close

Spec == Init /\ [][Next]_vars
\* Nobody stays inside a call of a closed queue.
ReleasingSpec ==
  Spec /\ \A t \in Producers \cup Consumers : mode # "open" /\ t \in blocked ~> t \notin blocked
=============================================================================
