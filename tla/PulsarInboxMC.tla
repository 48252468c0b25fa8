--------------------------- MODULE PulsarInboxMC ---------------------------
(* The constants of PulsarInbox.cfg that a configuration cannot spell.      *)
EXTENDS PulsarInbox

\* Two events, and a poison event that reuses the id of the first.
SampleEvents ==
  << [id |-> "evt-1", body |-> 1, poison |-> FALSE],
     [id |-> "evt-2", body |-> 1, poison |-> FALSE],
     [id |-> "evt-1", body |-> 2, poison |-> TRUE] >>
=============================================================================
