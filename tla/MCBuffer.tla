------------------------------ MODULE MCBuffer ------------------------------
EXTENDS BoundedBuffer
=============================================================================
