----------------------------- MODULE MCThreadPool -----------------------------
\* The thread pool with one piece of work that throws.
EXTENDS ThreadPool

SecondFails == {2}

=============================================================================
