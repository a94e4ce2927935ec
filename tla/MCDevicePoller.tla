----------------------------- MODULE MCDevicePoller -----------------------------
(* Small instances of DevicePoller for TLC. *)
EXTENDS DevicePoller

\* A profile with a real-time group, due on every tick, and an information group.
const_groups == {"realtime", "info"}
const_every2  == [g \in const_groups |-> IF g = "realtime" THEN 1 ELSE 12]
\* Two groups that are not due on every tick; on some ticks none is.
const_slow    == {"default", "info"}
const_every8  == [g \in const_slow |-> IF g = "default" THEN 8 ELSE 12]
\* An information group that is due at every sixth poll.
const_hourly  == [g \in const_groups |-> IF g = "realtime" THEN 4 ELSE 24]
=============================================================================
