-------------------------- MODULE MCScratchpadLock --------------------------
(* Instances of ScratchpadLock for TLC *)
EXTENDS ScratchpadLock

CONSTANTS a, b, c

\* Three clients; where locks can expire, two of which one has heartbeats
MCConfigs ==
  [callers : {Clients}, expires : {"never"}, heartbeat : {Clients}, cooperative : {FALSE}]
  \cup [callers : {Clients}, expires : {"abandoned"}, heartbeat : {{}}, cooperative : BOOLEAN]
  \cup [callers : {{a, b}}, expires : {"abandoned"}, heartbeat : {{a}}, cooperative : {FALSE}]
  \cup [callers : {{a, b}}, expires : {"any"}, heartbeat : {{}}, cooperative : BOOLEAN]

\* Three clients of which one crashes
StealConfigs ==
  [callers : {Clients}, expires : {"abandoned"}, heartbeat : {{}}, cooperative : {FALSE}]
=============================================================================
