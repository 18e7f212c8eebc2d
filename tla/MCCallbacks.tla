----------------------------- MODULE MCCallbacks -----------------------------
(* A small instance of Callbacks for TLC: integers of two and three bits, words of
   two bytes, macs that fill the two bytes of the hmac, that do not, and that are too long. *)
EXTENDS Callbacks

TwoBytes == {<<1, 2>>}

SomeMacs == {<<1, 2>>, <<1>>, <<1, 2, 1>>}

\* A negative challenge, and one that an int does not hold.
SomeLongs == {-3, 2}

\* A plain code, the vendor base, a vendor code, and one that neither
\* a byte nor the vendor has.
SomeCodes == {0, 263, 1000, 1044}

=============================================================================
