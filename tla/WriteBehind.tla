----------------------------- MODULE WriteBehind -----------------------------
(* What batched writes of WriteBatcher promise, key by key: the contents of a key *)
(* are numbered in the order of the write calls, the stored content never goes    *)
(* back to an earlier one, and a write whose promise was fulfilled is stored, or  *)
(* a later one is.                                                                *)
EXTENDS Naturals

CONSTANTS Keys, MaxWrites   \* bound: contents of one key

VARIABLES last,     \* the number of the last content of a key
          stored,   \* the content in the store, 0 if the file is missing
          outcome   \* of the promise of each write

Contents == 1..MaxWrites

Outcomes == {"none", "open", "resolved", "rejected"}

\* A call of write, refused if the batcher is closed
Submit(k) ==
  /\ last[k] < MaxWrites
  /\ last' = [last EXCEPT ![k] = @ + 1]
  /\ \E o \in {"open", "rejected"} : outcome' = [outcome EXCEPT ![k][last[k] + 1] = o]
  /\ UNCHANGED stored

Open(k) == {n \in Contents : outcome[k][n] = "open"}

Settled(k, W, o) ==
  outcome' = [outcome EXCEPT ![k] = [n \in Contents |-> IF n \in W THEN o ELSE @[n]]]

\* The writes W of key k are coalesced and the last of them stored
Persist(k, W, n) ==
  /\ n \in W /\ n > stored[k] /\ \A i \in W : i <= n
  /\ stored' = [stored EXCEPT ![k] = n]
  /\ Settled(k, W, "resolved")
  /\ UNCHANGED last

\* The writes W of key k are given up, and never stored later
Fail(k, W) ==
  /\ Settled(k, W, "rejected")
  /\ UNCHANGED <<last, stored>>

Init ==
  /\ last = [k \in Keys |-> 0]
  /\ stored = [k \in Keys |-> 0]
  /\ outcome = [k \in Keys |-> [n \in Contents |-> "none"]]

Next ==
  \E k \in Keys :
    \/ Submit(k)
    \/ \E W \in (SUBSET Open(k)) \ {{}} : Fail(k, W) \/ \E n \in W : Persist(k, W, n)

Spec == Init /\ [][Next]_<<last, stored, outcome>>
=============================================================================
