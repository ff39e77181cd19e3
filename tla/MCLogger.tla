------------------------------ MODULE MCLogger ------------------------------
(* A small program for the runs about the logger.                          *)
EXTENDS Logger

TwoThreads == {"gui", "import"}
TwoSinks   == {"console", "file"}
=============================================================================
