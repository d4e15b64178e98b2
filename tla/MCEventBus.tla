------------------------------ MODULE MCEventBus ------------------------------
(* Small instances of EventBus for TLC. *)
EXTENDS EventBus

CONSTANTS created, merged, obj, workers

\* A broadcast of all types, a group whose members want one of them
AllWanted ==
  {[types |-> {created, merged}, group |-> None],
   [types |-> {created}, group |-> workers]}

Broadcasts == {[types |-> {created}, group |-> None]}

Created == [type |-> created, key |-> obj]
Merged  == [type |-> merged, key |-> obj]

\* One event, or the two of a publish_many
AllBatches == {<<Created>>, <<Merged, Created>>}
OneEvent   == {<<Created>>}
===============================================================================
