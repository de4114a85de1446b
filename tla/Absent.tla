-------------------------------- MODULE Absent --------------------------------
(* A part of a payload, or a column, that has no value.                    *)
CONSTANT None

\* a ?? b
Else(a, b) == IF a = None THEN b ELSE a
===============================================================================
