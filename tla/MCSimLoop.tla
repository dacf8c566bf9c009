----------------------------- MODULE MCSimLoop -----------------------------
(* Values for the constants of SimLoop.                                    *)
EXTENDS SimLoop

(* Loss, duplication and reordering together, without and with promotions, *)
(* in a buffer that overflows and in one that does not.                    *)
SmallSimulations ==
  [count : {3, 4}, loss_rate : {"sometimes"}, dup_rate : {"sometimes"},
   ooo_rate : {"sometimes"}, capacity : {1, 3}, missing_k : {0, 2}]

SmallConfigs ==
  {[start_seq |-> 1, capacity |-> c.capacity, missing_k |-> c.missing_k]
     : c \in SmallSimulations}

=============================================================================
