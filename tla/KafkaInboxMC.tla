---------------------------- MODULE KafkaInboxMC ----------------------------
(* The constants of KafkaInbox.cfg that a configuration cannot spell.       *)
EXTENDS KafkaInbox

\* evt-0 with a payload ProducerMain never sends.
ConflictingRecords == {[id |-> 0, payload |-> 9]}
=============================================================================
