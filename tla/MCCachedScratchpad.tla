------------------------- MODULE MCCachedScratchpad -------------------------
(* Instances of CachedScratchpad for TLC *)
EXTENDS CachedScratchpad

CONSTANTS k1, k2, c1

Config(ops, batching, caching, detect, sequential) ==
  [ops |-> ops, batching |-> batching, caching |-> caching, detect |-> detect,
   sequential |-> sequential]

\* Only queued writes that may fail and a close; one caller with every kind of write;
\* concurrent callers with all the rest, with change detection and without; no batcher
MCConfigs ==
  { Config({"close", "fail"}, TRUE, FALSE, FALSE, FALSE),
    Config({"immediate", "direct", "fail"}, TRUE, TRUE, FALSE, TRUE),
    Config({"immediate", "delete", "close"}, TRUE, TRUE, FALSE, FALSE),
    Config({"external", "evict"}, TRUE, TRUE, TRUE, FALSE),
    Config({"direct"}, FALSE, TRUE, FALSE, FALSE) }
=============================================================================
