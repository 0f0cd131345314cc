---------------------------- MODULE BigFactorial ----------------------------
(***************************************************************************)
(* factorial.cpp: n! digit by digit, in C into a buffer that is made twice *)
(* as large when it is full, in C++ into a vector; and the quick one, with *)
(* a cache of 32 bit entries in C and 64 bits in C++.                      *)
(***************************************************************************)
EXTENDS Integers, Sequences

CONSTANTS
    MaxN,      \* bound on n
    Initial    \* digits the buffer has room for at first; 64

VARIABLES
    n, lang,
    x,         \* the loop has come to x!
    digits,    \* lowest first; <<>> when there is no result
    size,      \* room in the buffer
    over       \* "no"; "yes" if a digit was written behind it; "dead" of that

vars == <<n, lang, x, digits, size, over>>

Init ==
    /\ n \in 0..MaxN /\ lang \in {"C", "C++"}
    /\ x = 1 /\ digits = <<1>> /\ size = Initial /\ over = "no"

(* mutant of Carried: the digits of the last carry in the wrong order *)
CarriedTurned(d, c) ==
    LET more[k \in Nat] == IF k = 0 THEN <<>> ELSE Append(more[k \div 10], k % 10)
    IN  d \o more[c]

Carried(d, c) ==
    LET more[k \in Nat] == IF k = 0 THEN <<>> ELSE <<k % 10>> \o more[k \div 10]
    IN  d \o more[c]

(* Digit by digit in base b, with the carry that is left. *)
Multiplied(d, k, b) ==
    LET done[j \in 0..Len(d)] ==
            IF j = 0 THEN [out |-> <<>>, carry |-> 0]
            ELSE LET a == done[j - 1]
                     e == d[j] * k + a.carry
                 IN  [out |-> Append(a.out, e % b), carry |-> e \div b]
    IN  done[Len(d)]

multiply(d, k) == LET m == Multiplied(d, k, 10) IN Carried(m.out, m.carry)

(* The room is looked at when the digits have been written; there may be   *)
(* no memory for more, and no result then.                                 *)
Multiply ==
    /\ x < n /\ digits # <<>> /\ over # "dead"
    /\ x' = x + 1
    /\ LET d == multiply(digits, x')
           full == lang = "C" /\ Len(d) >= size
       IN  /\ over' \in IF full /\ Len(d) > size THEN {"yes", "dead"} ELSE {over}
           /\ digits' \in IF full THEN {d, <<>>} ELSE {d}
           /\ size' = IF full THEN 2 * size ELSE size
    /\ UNCHANGED <<n, lang>>
-----------------------------------------------------------------------------
(* Words of 16 bits, lowest first, as many as there were. *)
Times(w, k) == Multiplied(w, k, 65536).out

init_factorial_cache ==
    LET one == IF lang = "C" THEN <<1, 0>> ELSE <<1, 0, 0, 0>>
        cache[i \in 0..20] == IF i = 0 THEN one ELSE Times(cache[i - 1], i)
    IN  cache

(* A negative entry is a large size_t. *)
Widened(w) ==
    IF Len(w) = 4 THEN w
    ELSE w \o IF w[2] >= 32768 THEN <<65535, 65535>> ELSE <<0, 0>>

optimized_factorial(k) ==
    LET result[i \in Nat] ==
            IF i <= 20 THEN Widened(init_factorial_cache[i]) ELSE Times(result[i - 1], i)
    IN  result[k]
-----------------------------------------------------------------------------
(* What a number in base b leaves when it is divided by p. *)
Residue(w, b, p) ==
    LET r[j \in 1..(Len(w) + 1)] == IF j > Len(w) THEN 0 ELSE (r[j + 1] * b + w[j]) % p
    IN  r[1]

Factorial(k, p) ==
    LET f[i \in Nat] == IF i = 0 THEN 1 ELSE (i * f[i - 1]) % p IN f[k]

TypeOK ==
    /\ n \in 0..MaxN /\ lang \in {"C", "C++"} /\ x \in 1..(MaxN + 1)
    /\ size \in Nat /\ over \in {"no", "yes", "dead"}

(* What is written down are the digits of x!, as far as two moduli tell,   *)
(* with no zero in front.                                                  *)
DigitsOf ==
    /\ \A k \in DOMAIN digits : digits[k] \in 0..9
    /\ digits # <<>> =>
          /\ \A p \in {9973, 19937} : Residue(digits, 10, p) = Factorial(x, p)
          /\ digits[Len(digits)] # 0

(* The digits are those of x!.  The C version writes behind its buffer     *)
(* from 50! on: the room is looked at too late, and it never grows in      *)
(* time, 49! having one digit less than there is room for and 50! one      *)
(* more.  The quick one is right as long as x! fits.                       *)
DigitsRight ==
    /\ DigitsOf
    /\ over # "no" <=> lang = "C" /\ x >= 50
    /\ Residue(optimized_factorial(x), 65536, 9973) = Factorial(x, 9973)
          <=> x <= IF lang = "C" THEN 12 ELSE 20
=============================================================================
