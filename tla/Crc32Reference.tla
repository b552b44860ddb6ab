---------------------------- MODULE Crc32Reference ----------------------------
(***************************************************************************)
(* The textbook definition of CRC-32, against which Crc32, the shift-      *)
(* register form the tool relies on, is checked: the remainder of the      *)
(* augmented message polynomial, first 32 bits complemented, divided by    *)
(* G = 0x104C11DB7 over GF(2), bits of each byte taken least significant   *)
(* first, remainder complemented.                                          *)
(***************************************************************************)
EXTENDS Crc32

\* The coefficients of G, from x^32 down to x^0.
GenBits == <<1, 0, 0, 0, 0, 0, 1, 0, 0, 1, 1, 0, 0, 0, 0, 0, 1,
             0, 0, 0, 1, 1, 1, 0, 1, 1, 0, 1, 1, 0, 1, 1, 1>>

\* The message bits, highest-degree coefficient first.
MsgBits(m) == [i \in 1..(8 * Len(m)) |-> (m[(i - 1) \div 8 + 1] \div 2^((i - 1) % 8)) % 2]

\* Message times x^32, with the first 32 coefficients complemented.
Augmented(m) ==
    LET a == MsgBits(m) \o [i \in 1..32 |-> 0]
    IN  [i \in DOMAIN a |-> IF i <= 32 THEN 1 - a[i] ELSE a[i]]

\* Long division by G; the 32 coefficients that remain.
RECURSIVE PolyMod(_)
PolyMod(a) ==
    IF Len(a) <= 32 THEN a
    ELSE IF Head(a) = 0 THEN PolyMod(Tail(a))
    ELSE PolyMod(Tail([i \in DOMAIN a |-> IF i <= 33 THEN (a[i] + GenBits[i]) % 2
                                                       ELSE a[i]]))

\* Register bit i is the coefficient of x^(31 - i), complemented.
CrcReference(m) == {i \in 0..31 : PolyMod(Augmented(m))[i + 1] = 0}

\* Every message of up to n bytes over the byte values bs.
MessagesUpTo(bs, n) == UNION {[1..k -> bs] : k \in 0..n}

=============================================================================
