--------------------------- MODULE MCWatchStream ---------------------------
(* Bounds for WatchStream: three items, so the caller can hold a pointer  *)
(* while the goroutine receives the next one and one more is in flight.  *)
EXTENDS WatchStream
============================================================================
