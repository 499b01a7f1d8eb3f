---------------------------- MODULE MCIndexFile ----------------------------
EXTENDS IndexFile

MCNoLoad == {[insert |-> <<>>, delete |-> <<>>]}
=============================================================================
