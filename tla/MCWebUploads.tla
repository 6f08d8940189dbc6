---------------------------- MODULE MCWebUploads ----------------------------
EXTENDS WebUploads
SameFile == [t \in Tasks |-> "file"]
TwoFiles == [t \in Tasks |-> t]
=============================================================================
