------------------------ MODULE MCStuckWorkerHandler ------------------------
(* Instances of StuckWorkerHandler for TLC *)
EXTENDS StuckWorkerHandler

CONSTANTS w1, w2, k1, k2

Config(workers, checks, handlers, failing, ending) ==
  [workers |-> workers, checks |-> checks, handlers |-> handlers, failing |-> failing,
   ending |-> ending]

\* Overlapping checks of one worker; two workers that hang in one check, with restarts that work
\* or may fail, and with a hand-over that may fail
MCConfigs ==
  { Config({w1}, {k1, k2}, Handlers, Handlers \ {"restart_worker"}, {w1}),
    Config({w1, w2}, {k1}, {"restart_worker"}, {}, {}),
    Config({w1, w2}, {k1}, {"restart_worker"}, {"restart_worker"}, {}),
    Config({w1, w2}, {k1}, {"restart_worker"}, HandOvers, {}) }
=============================================================================
