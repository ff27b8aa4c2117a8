---------------------------- MODULE MCWorkerThread ----------------------------
\* Instances of the worker thread for TLC.
EXTENDS WorkerThread

=============================================================================
