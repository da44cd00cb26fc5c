------------------------------- MODULE Mutex -------------------------------
(* What Scratchpad.withLock promises: one function at a time runs under the lock *)
CONSTANT Clients

VARIABLE holders   \* the clients whose function is running

Enter(c) ==
  /\ holders = {}
  /\ holders' = {c}

Leave(c) ==
  /\ c \in holders
  /\ holders' = holders \ {c}

Init == holders = {}

Next == \E c \in Clients : Enter(c) \/ Leave(c)

Spec == Init /\ [][Next]_holders
=============================================================================
