---------------------------- MODULE QueueCounters ----------------------------
(***************************************************************************)
(* How the persistent queue's recovery reads the ids it finds in the store *)
(* (KVStoreQueue._recover_queue_state): whether they agree with the two    *)
(* counters, and what the counters become when they do not.                *)
(***************************************************************************)
EXTENDS Integers, FiniteSets, FiniteSetsExt

NextIdAfter_LastId(ids) == IF ids = {} THEN 0 ELSE Max(ids)
NextIdAfter(ids) == IF ids = {} THEN 0 ELSE Max(ids) + 1

Consistent_StartOnly(ids, next_id, size) == ids # {} /\ Min(ids) = next_id - size
Consistent(ids, next_id, size) ==
  IF ids = {} THEN size <= 0 /\ next_id <= 0
  ELSE Min(ids) = next_id - size /\ Cardinality(ids) = size
=============================================================================
