------------------------- MODULE MCWorkerLifecycle -------------------------
EXTENDS WorkerLifecycle
=============================================================================
