---------------------------- MODULE MCSimThreads ----------------------------
(* Values for the constants of SimThreads.                                 *)
EXTENDS SimThreads

(* Loss, duplication and reordering together, without and with promotions. *)
SmallSimulations ==
  [count : {3}, loss_rate : {"sometimes"}, dup_rate : {"sometimes"},
   ooo_rate : {"sometimes"}, capacity : {1}, missing_k : {0, 1}]

SmallConfigs ==
  {[start_seq |-> 1, capacity |-> c.capacity, missing_k |-> c.missing_k]
     : c \in SmallSimulations}

=============================================================================
