------------------------------ MODULE H2Stream ------------------------------
(* The stream state machine of lkh2 (StreamState, H2Stream).  "gone" is a  *)
(* stream that cleanup_closed_streams removed from the connection's map.   *)
EXTENDS Integers

KnownStates == {"open", "half_local", "half_remote", "closed"}
StreamStates == KnownStates \union {"idle", "gone"}

send_end_stream(st) ==
    CASE st = "open" -> "half_local"
      [] st = "half_remote" -> "closed"
      [] OTHER -> st

recv_end_stream(st) ==
    CASE st = "open" -> "half_remote"
      [] st = "half_local" -> "closed"
      [] OTHER -> st

can_receive(st) == st \in {"open", "half_local"}

cleanup_closed_streams(f) ==
    [s \in DOMAIN f |-> IF f[s] = "closed" THEN "gone" ELSE f[s]]
=============================================================================
