------------------------------ MODULE MCABTests ------------------------------
EXTENDS ABTests
MCBucket == [u \in Participants |-> (u - 1) % Grid]
=============================================================================
