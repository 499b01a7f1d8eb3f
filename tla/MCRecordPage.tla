---------------------------- MODULE MCRecordPage ----------------------------
EXTENDS RecordPage
=============================================================================
