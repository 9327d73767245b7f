------------------------------ MODULE MCWindow ------------------------------
EXTENDS WindowAPI

\* Numbers 0 (never valid) to 6: twice round a window of 3 and past its edges.
MCArgs == 0 .. 6
MCPkts == 1 .. 2
=============================================================================
