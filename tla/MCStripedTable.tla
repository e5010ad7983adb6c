---------------------------- MODULE MCStripedTable ----------------------------
EXTENDS StripedTable

\* All keys share a bucket until the table is resized; then two leave it for
\* the same new one.
MCHash == [k \in {0, 1, 2} |-> <<1, 3, 3>>[k + 1]]
=============================================================================
