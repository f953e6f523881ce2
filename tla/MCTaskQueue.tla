----------------------------- MODULE MCTaskQueue -----------------------------
\* Small instances of TaskQueue for TLC.
EXTENDS TaskQueue

CONSTANTS w1, w2

TwoWorkers == {w1, w2}
OneTask == {1}
=============================================================================
