--------------------------- MODULE EdgeEvalSerial ---------------------------
(***************************************************************************)
(* EdgeEvalRedis, observing whether two requests have ever been under way  *)
(* at the same time: what the Redis store promises as long as none have.   *)
(***************************************************************************)
EXTENDS EdgeEvalRedis, EdgeEvalAtomic

VARIABLE serial      \* no two requests have overlapped so far

SerialInit == Init /\ serial = TRUE
SerialNext == RedisNext /\ serial' = (serial /\ OneAtATime')
SerialSpec == SerialInit /\ [][SerialNext]_<<vars, serial>>
-----------------------------------------------------------------------------
\* As long as requests do not overlap, the Redis store is as good as an atomic
\* one: through failing commands, lost replies, retries and crashes every write
\* is one evaluation of the row it found.
SerialImplements ==
  [][serial' => Detector!Next \/ UNCHANGED Detector!vars]_<<vars, serial>>

\* As long as requests do not overlap, the target is notified of nothing but
\* what that very request committed.
SerialAnnouncesCommitted == serial => AnnouncedIsCommitted
=============================================================================
