--------------------------- MODULE MCEventStream ---------------------------
(* Small instances of EventStream for TLC: every watcher watches job j1,   *)
(* and can have Slots requests in flight.                                  *)
EXTENDS EventStream

CONSTANTS j1, Slots

MCJob == {j1}
MCOnePercent == {100}
MCNoPercent == {}
MCWatches == [w \in Watcher |-> j1]
MCRequest == Watcher \X (1..Slots)
MCBy == [r \in Request |-> r[1]]
=============================================================================
