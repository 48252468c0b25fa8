---------------------------- MODULE InboxEffects ----------------------------
(***************************************************************************)
(* What a consumer behind an inbox promises, without saying how: the log   *)
(* only grows; each event takes effect once, in the order of the log and   *)
(* with the payload of its first record; and an offset is committed only   *)
(* when the effect of every record before it is there.  Crashes and        *)
(* redeliveries are invisible.                                             *)
(***************************************************************************)
EXTENDS Integers, Sequences, Functions

CONSTANT Records     \* the [id, payload] records a log can hold

VARIABLES log, effects, committed

vars == <<log, effects, committed>>

\* Every one of the first n records has its effect.
Covered(n) == \A i \in 1 .. n : log[i] \in Range(effects)

HasEffect(id) == \E e \in Range(effects) : e.id = id

Init ==
  /\ log = <<>>
  /\ effects = <<>>
  /\ committed = 0

Publish ==
  /\ \E r \in Records : log' = Append(log, r)
  /\ UNCHANGED <<effects, committed>>

Take ==
  /\ \E n \in DOMAIN log :
       /\ Covered(n - 1)
       /\ ~HasEffect(log[n].id)
       /\ effects' = Append(effects, log[n])
  /\ UNCHANGED <<log, committed>>

Commit ==
  /\ committed' \in committed .. Len(log)
  /\ Covered(committed')
  /\ UNCHANGED <<log, effects>>

Next == Publish \/ Take \/ Commit

Spec == Init /\ [][Next]_vars
=============================================================================
