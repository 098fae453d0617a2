--------------------------- MODULE MCNodeBinding ---------------------------
EXTENDS NodeBinding
=============================================================================
