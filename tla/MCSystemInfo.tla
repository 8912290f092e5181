---------------------------- MODULE MCSystemInfo ----------------------------
EXTENDS SystemInfo, Integers

MCActual == [f \in {"granularity", "page"} |-> IF f = "page" THEN 4096 ELSE 65536]
=============================================================================
