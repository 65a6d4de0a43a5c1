-------------------------------- MODULE Text --------------------------------
(***************************************************************************)
(* The number conversions of userspace/lib/string.c (utoa, itoa) and of    *)
(* kernel/kernel.c's kprintf (print_uint, print_int).  A numeral is the    *)
(* sequence of its digits' values, led by Minus for a negative number.     *)
(***************************************************************************)
EXTENDS Integers, Sequences

CONSTANT UIntMod     \* 2^32

Words32 == 0..(UIntMod - 1)
Signed(n) == IF n < UIntMod \div 2 THEN n ELSE n - UIntMod
Minus == -1

\* Mutant: zero has no case of its own.
print_uint_empty(n, base) ==
  LET buf[k \in 0..n] == IF k = 0 THEN <<>> ELSE <<k % base>> \o buf[k \div base]
      i == Len(buf[n])
  IN [j \in 1..i |-> buf[n][i + 1 - j]]

\* The digits are stored from the last and read back from the first.
print_uint(n, base) ==
  LET buf[k \in 0..n] == IF k = 0 THEN <<>> ELSE <<k % base>> \o buf[k \div base]
      i == Len(buf[n])
  IN IF n = 0 THEN <<0>> ELSE [j \in 1..i |-> buf[n][i + 1 - j]]

\* (uint32_t)(-(n + 1)) + 1 for a negative n.
Magnitude(n) == (((0 - (n + 1)) % UIntMod) + 1) % UIntMod

print_int(n) == IF n < 0 THEN <<Minus>> \o print_uint(Magnitude(n), 10) ELSE print_uint(n, 10)

utoa(value, base) == print_uint(value, base)

itoa(value, base) ==
  IF value < 0 /\ base = 10 THEN <<Minus>> \o utoa(Magnitude(value), base)
  ELSE utoa(value % UIntMod, base)

\* kprintf's conversions of a 32-bit argument.
Conversion(c, n) ==
  CASE c = "d" -> print_int(Signed(n))
    [] c = "u" -> print_uint(n, 10)
    [] c \in {"x", "X", "p"} -> print_uint(n, 16)

\* What a reader takes a numeral for.
ValueOf(digits, base) ==
  LET v[k \in 0..Len(digits)] == IF k = 0 THEN 0 ELSE v[k - 1] * base + digits[k]
  IN v[Len(digits)]

\* The numeral of n: its value, proper digits, no leading zero.
Denotes(digits, base, n) ==
  /\ digits # <<>>
  /\ \A k \in DOMAIN digits : digits[k] \in 0..(base - 1)
  /\ digits[1] = 0 => Len(digits) = 1
  /\ ValueOf(digits, base) = n

DenotesSigned(digits, n) ==
  IF n < 0 THEN Head(digits) = Minus /\ Denotes(Tail(digits), 10, -n)
  ELSE Denotes(digits, 10, n)

\* Every conversion of the word n, as unsigned and as signed, is its numeral, and
\* none is longer than a word has bits, which is what the buffers of 32 hold.
ConvertsExactly(n) ==
  /\ \A base \in {2, 10, 16} :
       Denotes(utoa(n, base), base, n) /\ 2 ^ (Len(utoa(n, base)) - 1) <= UIntMod - 1
  /\ Denotes(Conversion("u", n), 10, n)
  /\ Denotes(Conversion("x", n), 16, n)
  /\ DenotesSigned(Conversion("d", n), Signed(n))
  /\ DenotesSigned(itoa(Signed(n), 10), Signed(n))
  /\ Denotes(itoa(Signed(n), 16), 16, n)
=============================================================================
