------------------------------- MODULE Machine -------------------------------
(***************************************************************************)
(* The target machine (machine.h) and its integers: those of the compiler  *)
(* lie between -Half and Half - 1, and unsigned ones between 0 and         *)
(* 2 * Half - 1.                                                           *)
(***************************************************************************)
EXTENDS Integers

CONSTANT Half

ASSUME HalfIsPositive == Half \in Nat \ {0}

SIZEOF_CHAR == 1
SIZEOF_INT == 4
SIZEOF_PTR == 4
SIZEOF_REG == 4
SIZEOF_ARG == 4
STACK_ALIGNMENT == 16

InRange(x) == -Half <= x /\ x < Half

\* What is left of x when it is stored in an int, and in an unsigned.
Wrap(x) == IF InRange(x) THEN x ELSE ((x + Half) % (2 * Half)) - Half
Unsigned(x) == x % (2 * Half)
=============================================================================
