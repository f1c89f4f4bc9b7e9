------------------------------- MODULE Sizes -------------------------------
(* Arithmetic of sizes (pkg/util), shared by everything that sizes instances. *)
EXTENDS Integers

AlignBytes(bytes, step) ==
  IF step = 0 THEN bytes ELSE ((bytes + step - 1) \div step) * step

Smaller(a, b) == IF a < b THEN a ELSE b
Larger(a, b) == IF a > b THEN a ELSE b
=============================================================================
