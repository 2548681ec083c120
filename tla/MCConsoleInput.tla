--------------------------- MODULE MCConsoleInput ---------------------------
(***************************************************************************)
(* A small instance: one decimal place, a uint64_t of 100, an int of       *)
(* -100..99 and a uint16_t of 8,  lines of up to 3 characters.  "100" is   *)
(* out of std::stoi's range and "10" overflows parseAmount (100 units);    *)
(* "1.0" is the longest fraction, "1.00" would need a fourth character,    *)
(* so "0.0" and ".00" reach the trailing-zero loop.                         *)
(***************************************************************************)
EXTENDS ConsoleInput

MCChars == {"0", "1", ".", ",", " ", "-"}
MCBalances == {0, 1, 5}
====
