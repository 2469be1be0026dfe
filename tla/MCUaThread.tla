------------------------------ MODULE MCUaThread ------------------------------
(* Two UaThreads and their owner on one semaphore whose counts have 3 bits. *)
EXTENDS UaThread

CONSTANTS t1, t2, main

MCThreads == {t1, t2}
MCCallers == {t1, t2, main}

\* One token, two tokens, and a count whose sum wraps.
MCReleases == {1, 2, 7}
=============================================================================
