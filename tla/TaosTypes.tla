----------------------------- MODULE TaosTypes ------------------------------
(***************************************************************************)
(* The data types of TDengine as the driver names them, and how their      *)
(* integers lie in memory.  taos.h declares the types; taosdef.h and       *)
(* ttype.h, copied into this repository, have the macros that read them.   *)
(***************************************************************************)
EXTENDS Integers

CONSTANT Half \* half the range of each integer type: 2^(width - 1)

SignedInts   == {"TINYINT", "SMALLINT", "INT", "BIGINT"}
UnsignedInts == {"UTINYINT", "USMALLINT", "UINT", "UBIGINT"}
Integral     == SignedInts \cup UnsignedInts
VarTypes     == {"BINARY", "VARBINARY", "NCHAR", "JSON", "BLOB", "MEDIUMBLOB", "MAX"}
Types        == Integral \cup VarTypes
                \cup {"NULL", "BOOL", "FLOAT", "DOUBLE", "TIMESTAMP", "DECIMAL"}

ASSUME HalfAssumption == Half \in [Integral -> Nat \ {0}]

\* The numbers an integer type has.
IntRange(t) ==
  IF t \in SignedInts THEN -Half[t] .. Half[t] - 1 ELSE 0 .. 2 * Half[t] - 1

\* Two's complement: what is stored for a number, and what a signed or an
\* unsigned read makes of it.
Stored(n, h) == IF n < 0 THEN n + 2 * h ELSE n
AsSigned(m, h) == IF m < h THEN m ELSE m - 2 * h
AsUnsigned(m, h) == m

\* GET_*_VAL and the casts of get_col, by type.
ReadAllSigned(t, m) == AsSigned(m, Half[t])
ReadInt(t, m) ==
  IF t \in SignedInts THEN AsSigned(m, Half[t]) ELSE AsUnsigned(m, Half[t])

=============================================================================
