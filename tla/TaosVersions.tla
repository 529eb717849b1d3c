---------------------------- MODULE TaosVersions ----------------------------
(***************************************************************************)
(* The four copies of the driver, one for each generation of PHP, and the  *)
(* choice the preprocessor makes between them in taos_driver.c and         *)
(* taos_statement.c.  The copies carry the number of the first PHP they    *)
(* are for.                                                                *)
(***************************************************************************)
EXTENDS Integers

CONSTANT Builds \* PHP_VERSION_ID of the PHPs the driver is built for

ASSUME BuildsAssumption == Builds \subseteq {b \in Nat : b >= 70000}

Copies == {"70000", "70300", "80000", "80100"}
Legacy == Copies \ {"80100"}

\* The copy a build compiles, in taos_statement.c and in taos_driver.c.
StatementCopyTooNew(b) ==
  IF b >= 80000 THEN "80100" ELSE IF b >= 70300 THEN "70300" ELSE "70000"
StatementCopy(b) ==
  IF b >= 80100 THEN "80100"
  ELSE IF b >= 80000 THEN "80000"
  ELSE IF b >= 70300 THEN "70300"
  ELSE "70000"
DriverCopyTooNew(b) ==
  IF b >= 80000 THEN "80100" ELSE IF b >= 70300 THEN "70300" ELSE "70000"
DriverCopy(b) ==
  IF b >= 80100 THEN "80100"
  ELSE IF b >= 80000 THEN "80000"
  ELSE IF b >= 70300 THEN "70300"
  ELSE "70000"

\* PHP 8.1 has get_col fill in a zval, and strings are passed as zend_string;
\* before, both were out-parameters and pointers with a length.
ZvalInterface(b) == b >= 80100

=============================================================================
