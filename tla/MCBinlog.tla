------------------------------ MODULE MCBinlog ------------------------------
\* One key has two values, so that it is rewritten; another has one, so that
\* a batch erases two.
EXTENDS Binlog

CONSTANTS k1, k2, v1, v2

MCKey == {k1, k2}
MCValue == [k \in MCKey |-> IF k = k1 THEN {v1, v2} ELSE {v1}]
=============================================================================
