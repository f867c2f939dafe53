---------------------------- MODULE ContractCycle ----------------------------
(***************************************************************************)
(* The life of a courier's contract with a store as the docs draw it: a    *)
(* courier asks, the store decides, either side ends it, and after an end  *)
(* or a refusal the courier may ask again.  A courier who takes an order   *)
(* from the pool before he ever asked gets a contract at once.             *)
(***************************************************************************)

CONSTANT Couriers

VARIABLE state

Init == state = [c \in Couriers |-> "none"]

Moves ==
  {<<"none", "PENDING">>, <<"none", "ACTIVE">>,
   <<"PENDING", "ACTIVE">>, <<"PENDING", "REJECTED">>, <<"PENDING", "REVOKED">>,
   <<"ACTIVE", "REVOKED">>,
   <<"REJECTED", "PENDING">>, <<"REVOKED", "PENDING">>}

Next ==
  \E c \in Couriers : \E m \in Moves :
    /\ state[c] = m[1]
    /\ state' = [state EXCEPT ![c] = m[2]]

Spec == Init /\ [][Next]_state

=============================================================================
