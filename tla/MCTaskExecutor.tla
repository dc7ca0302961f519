---------------------------- MODULE MCTaskExecutor ----------------------------
\* A small instance of TaskExecutor for TLC.
EXTENDS TaskExecutor
===============================================================================
