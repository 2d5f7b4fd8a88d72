------------------------- MODULE PacketStreamProofs -------------------------
(***************************************************************************)
(* The rounds of on_received read back every packet as it was sent, for    *)
(* every width of a byte, every set of types, payloads and spoilt frames,  *)
(* and every way the stream is cut.                                        *)
(*                                                                         *)
(* The argument.  What a peer puts on the wire is Whole: it begins with a  *)
(* header that tells its length, and Understood says what becomes of it.   *)
(* A Stream is such packets one after the other.  The invariant: the bytes *)
(* read of the packet that is begun and those on the wire are the Stream   *)
(* of the packets not yet processed, and the one item that waits (Fills)   *)
(* holds what was read of it, in one of three rounds.  A header tells its  *)
(* packet's length in its own bytes, so the packet that a round completes  *)
(* is the first of the stream.                                             *)
(***************************************************************************)
EXTENDS PacketStream, SequenceTheorems, TLAPS

----------------------------------------------------------------------------
(* Numbers and their bytes.                                                *)

\* Shift is the function its definition asks for.
LEMMA ShiftIs == Shift = [n \in 0 .. 5 |-> IF n = 0 THEN 1 ELSE ByteBase * Shift[n - 1]]
<1> DEFINE b2 == ByteBase * ByteBase
           b3 == ByteBase * b2
           b4 == ByteBase * b3
           b5 == ByteBase * b4
           g == [n \in 0 .. 5 |-> IF n = 0 THEN 1 ELSE IF n = 1 THEN ByteBase ELSE IF n = 2 THEN b2
                                  ELSE IF n = 3 THEN b3 ELSE IF n = 4 THEN b4 ELSE b5]
           h == [n \in 0 .. 5 |-> IF n = 0 THEN 1 ELSE ByteBase * g[n - 1]]
<1>1. ByteBase \in Nat
  BY FramingAssumption
<1>2. ByteBase * 1 = ByteBase
  BY <1>1
<1>3. \A n \in 0 .. 5 : n \in {0, 1, 2, 3, 4, 5}
  OBVIOUS
<1>4. ASSUME NEW n \in 0 .. 5 PROVE g[n] = h[n]
  <2>1. n = 0 \/ n = 1 \/ n = 2 \/ n = 3 \/ n = 4 \/ n = 5
    OBVIOUS
  <2> HIDE DEF b2, b3, b4, b5
  <2>2. /\ g[0] = 1 /\ g[1] = ByteBase /\ g[2] = b2 /\ g[3] = b3 /\ g[4] = b4 /\ g[5] = b5
        /\ h[0] = 1 /\ h[1] = ByteBase * g[0] /\ h[2] = ByteBase * g[1] /\ h[3] = ByteBase * g[2]
        /\ h[4] = ByteBase * g[3] /\ h[5] = ByteBase * g[4]
    OBVIOUS
  <2> HIDE DEF g, h
  <2> QED  BY <1>2, <2>1, <2>2 DEF b2, b3, b4, b5
<1>5. g = h
  BY <1>4
<1> HIDE DEF g
<1>6. \E s : s = [n \in 0 .. 5 |-> IF n = 0 THEN 1 ELSE ByteBase * s[n - 1]]
  BY <1>5
<1> QED  BY <1>6, Zenon DEF Shift

\* Each shift is ByteBase times the last.
LEMMA Shifts ==
    /\ Shift[0] = 1 /\ Shift[1] = ByteBase /\ Shift[2] = ByteBase * ByteBase
    /\ Shift[3] = ByteBase * Shift[2] /\ Shift[4] = ByteBase * Shift[3] /\ Shift[5] = ByteBase * Shift[4]
    /\ \A n \in 0 .. 5 : Shift[n] \in Nat \ {0}
<1>1. /\ Shift[0] = 1 /\ Shift[1] = ByteBase * Shift[0] /\ Shift[2] = ByteBase * Shift[1]
      /\ Shift[3] = ByteBase * Shift[2] /\ Shift[4] = ByteBase * Shift[3] /\ Shift[5] = ByteBase * Shift[4]
  BY ShiftIs
<1>2. ByteBase \in Nat \ {0}
  BY FramingAssumption
<1>3. \A x \in Nat \ {0} : ByteBase * x \in Nat \ {0}
  BY <1>2
<1>4. Shift[1] = ByteBase /\ Shift[2] = ByteBase * ByteBase
  BY <1>1, <1>2
<1>5. /\ Shift[0] \in Nat \ {0} /\ Shift[1] \in Nat \ {0} /\ Shift[2] \in Nat \ {0}
      /\ Shift[3] \in Nat \ {0} /\ Shift[4] \in Nat \ {0} /\ Shift[5] \in Nat \ {0}
  BY <1>1, <1>3
<1>6. \A n \in 0 .. 5 : n = 0 \/ n = 1 \/ n = 2 \/ n = 3 \/ n = 4 \/ n = 5
  OBVIOUS
<1>7. \A n \in 0 .. 5 : Shift[n] \in Nat \ {0}
  BY <1>5, <1>6
<1> QED  BY <1>1, <1>4, <1>7

\* Quotient and remainder of a number that is given by both.
LEMMA DivMod ==
    ASSUME NEW b \in Nat \ {0}, NEW q \in Nat, NEW r \in 0 .. b - 1
    PROVE  (q * b + r) \div b = q /\ (q * b + r) % b = r
OBVIOUS

\* They give the number back.
LEMMA DivModBack ==
    ASSUME NEW b \in Nat \ {0}, NEW n \in Nat
    PROVE  \E q \in Nat, r \in 0 .. b - 1 : q = n \div b /\ r = n % b /\ n = q * b + r
<1>1. n \div b \in Nat
  OBVIOUS
<1>2. n % b \in 0 .. b - 1
  OBVIOUS
<1>3. PICK q \in Nat, r \in 0 .. b - 1 : q = n \div b /\ r = n % b
  BY <1>1, <1>2
<1>4. n = q * b + r
  BY <1>3, SMTT(60)
<1> QED  BY <1>3, <1>4

\* A quotient is below what the number was below.
LEMMA DivBelow ==
    ASSUME NEW b \in Nat \ {0}, NEW c \in Nat, NEW n \in Nat, n < b * c
    PROVE  n \div b < c
<1>1. PICK q \in Nat, r \in 0 .. b - 1 : q = n \div b /\ n = q * b + r
  BY DivModBack
<1>2. CASE q >= c
  <2>1. q * b >= c * b
    BY <1>1, <1>2
  <2> QED  BY <1>1, <2>1
<1> QED  BY <1>1, <1>2

\* Dividing twice divides by the product.
LEMMA DivTwice ==
    ASSUME NEW b \in Nat \ {0}, NEW c \in Nat \ {0}, NEW n \in Nat
    PROVE  n \div (b * c) = (n \div b) \div c
<1>1. PICK q \in Nat, r \in 0 .. b - 1 : q = n \div b /\ n = q * b + r
  BY DivModBack
<1>2. PICK x \in Nat, y \in 0 .. c - 1 : x = q \div c /\ q = x * c + y
  <2>1. ASSUME NEW k \in Nat PROVE \E x \in Nat, y \in 0 .. c - 1 : x = k \div c /\ k = x * c + y
    BY DivModBack
  <2> QED  BY <2>1
<1>3. n = x * (b * c) + (y * b + r)
  <2>1. (x * c + y) * b = (x * c) * b + y * b
    OBVIOUS
  <2>2. (x * c) * b = x * (b * c)
    OBVIOUS
  <2>3. n = (x * c + y) * b + r
    BY <1>1, <1>2
  <2> QED  BY <2>1, <2>2, <2>3
<1>4. y * b + r \in 0 .. b * c - 1
  <2>1. y * b + r <= y * b + (b - 1) /\ y * b + r >= 0 /\ y * b \in Nat
    BY <1>1, <1>2
  <2>2. y * b <= (c - 1) * b
    BY <1>2
  <2>3. (c - 1) * b = b * c - b
    OBVIOUS
  <2> QED  BY <1>1, <1>2, <2>1, <2>2, <2>3
<1>5. b * c \in Nat \ {0}
  OBVIOUS
<1>6. n \div (b * c) = x
  BY <1>2, <1>3, <1>4, <1>5, DivMod
<1> QED  BY <1>1, <1>2, <1>6

----------------------------------------------------------------------------
(* bytes_to_int and int_to_bytes.                                          *)

\* The function FoldRight chooses: the number in each set of the bytes.
Reads(g, bytes, D) ==
    g = [s \in SUBSET D |-> IF s = {} THEN 0 ELSE g[s \ {Min(s)}] * ByteBase + bytes[Min(s)]]

\* The number is that function of all the bytes: the fold unfolded.
LEMMA ToIntIs ==
    ASSUME NEW bytes
    PROVE  BytesToInt(bytes) = (CHOOSE g : Reads(g, bytes, DOMAIN bytes))[DOMAIN bytes]
BY DEF BytesToInt, FoldRight, MapThenFoldSet, Reads

\* FoldRight takes the first byte last, as the least index.
LEMMA FirstIsMin ==
    ASSUME NEW s \in SUBSET Nat, NEW k \in s, \A j \in s : k <= j
    PROVE  Min(s) = k
<1>1. Min(s) \in s /\ \A j \in s : Min(s) <= j
  BY Zenon DEF Min
<1>2. Min(s) <= k /\ k <= Min(s) /\ Min(s) \in Nat /\ k \in Nat
  BY <1>1
<1> QED  BY <1>2

\* It exists, for the few bytes there are.
LEMMA ReadsExists ==
    ASSUME NEW bytes, NEW D \in SUBSET (1 .. 4)
    PROVE  \E g : Reads(g, bytes, D)
<1> DEFINE v4(s) == IF 4 \in s THEN 0 * ByteBase + bytes[4] ELSE 0
           v3(s) == IF 3 \in s THEN v4(s) * ByteBase + bytes[3] ELSE v4(s)
           v2(s) == IF 2 \in s THEN v3(s) * ByteBase + bytes[2] ELSE v3(s)
           v1(s) == IF 1 \in s THEN v2(s) * ByteBase + bytes[1] ELSE v2(s)
           g == [s \in SUBSET D |-> v1(s)]
           e(s) == IF s = {} THEN 0 ELSE g[s \ {Min(s)}] * ByteBase + bytes[Min(s)]
<1>1. ASSUME NEW s \in SUBSET D PROVE g[s] = e(s)
  <2>0. s \ {Min(s)} \in SUBSET D
    OBVIOUS
  <2>1. g[s] = v1(s) /\ g[s \ {Min(s)}] = v1(s \ {Min(s)})
    BY <2>0
  <2> HIDE DEF g
  <2>2. CASE s = {}
    BY <2>1, <2>2
  <2>3. CASE 1 \in s
    <3>1. Min(s) = 1
      BY <2>3, FirstIsMin
    <3>2. v1(s) = v2(s) * ByteBase + bytes[1] /\ v1(s \ {1}) = v2(s \ {1}) /\ v2(s \ {1}) = v2(s)
      BY <2>3
    <3> HIDE DEF v1, v2
    <3> QED  BY <2>1, <2>3, <3>1, <3>2
  <2>4. CASE 1 \notin s /\ 2 \in s
    <3>1. Min(s) = 2
      BY <2>4, FirstIsMin
    <3>2. v1(s) = v3(s) * ByteBase + bytes[2] /\ v1(s \ {2}) = v3(s \ {2}) /\ v3(s \ {2}) = v3(s)
      BY <2>4
    <3> HIDE DEF v1, v2, v3
    <3> QED  BY <2>1, <2>4, <3>1, <3>2
  <2>5. CASE 1 \notin s /\ 2 \notin s /\ 3 \in s
    <3>1. Min(s) = 3
      BY <2>5, FirstIsMin
    <3>2. v1(s) = v4(s) * ByteBase + bytes[3] /\ v1(s \ {3}) = v4(s \ {3}) /\ v4(s \ {3}) = v4(s)
      BY <2>5
    <3> HIDE DEF v1, v2, v3, v4
    <3> QED  BY <2>1, <2>5, <3>1, <3>2
  <2>6. CASE s # {} /\ 1 \notin s /\ 2 \notin s /\ 3 \notin s
    <3>1. s = {4}
      <4>1. \A x \in s : x \in 1 .. 4 /\ x # 1 /\ x # 2 /\ x # 3
        BY <2>6
      <4>2. \A x \in 1 .. 4 : x = 1 \/ x = 2 \/ x = 3 \/ x = 4
        OBVIOUS
      <4>3. \A x \in s : x = 4
        BY <4>1, <4>2
      <4> QED  BY <2>6, <4>3
    <3>2. Min(s) = 4
      BY <3>1, FirstIsMin
    <3>3. v1(s) = 0 * ByteBase + bytes[4] /\ v1(s \ {4}) = 0
      BY <3>1
    <3> HIDE DEF v1
    <3> QED  BY <2>1, <2>6, <3>2, <3>3
  <2> QED  BY <2>2, <2>3, <2>4, <2>5, <2>6
<1>2. g = [s \in SUBSET D |-> e(s)]
  BY <1>1
<1> QED  BY <1>2, Zenon DEF Reads

\* The number in two bytes, and in four.
LEMMA ToInt ==
    ASSUME NEW bytes \in Seq(Byte)
    PROVE  /\ Len(bytes) = 2 => BytesToInt(bytes) = bytes[2] * ByteBase + bytes[1]
           /\ Len(bytes) = 4 =>
                BytesToInt(bytes) = ((bytes[4] * ByteBase + bytes[3]) * ByteBase + bytes[2]) * ByteBase + bytes[1]
<1> DEFINE D == DOMAIN bytes
           g == CHOOSE h : Reads(h, bytes, D)
<1>1. D = 1 .. Len(bytes) /\ ByteBase \in Nat /\ \A i \in D : bytes[i] \in Nat
  BY FramingAssumption DEF Byte
<1>2. ASSUME D \in SUBSET (1 .. 4), NEW s \in SUBSET D, s # {}
      PROVE  g[s] = g[s \ {Min(s)}] * ByteBase + bytes[Min(s)]
  <2>1. Reads(g, bytes, D)
    BY <1>2, ReadsExists, Zenon
  <2> HIDE DEF g, D
  <2> QED  BY <1>2, <2>1 DEF Reads
<1>3. ASSUME D \in SUBSET (1 .. 4) PROVE g[{}] = 0
  <2>1. Reads(g, bytes, D)
    BY <1>3, ReadsExists, Zenon
  <2> HIDE DEF g, D
  <2> QED  BY <1>3, <2>1 DEF Reads
<1>4. BytesToInt(bytes) = g[D]
  BY ToIntIs, Zenon
<1> HIDE DEF g
<1>5. ASSUME Len(bytes) = 2 PROVE g[D] = bytes[2] * ByteBase + bytes[1]
  <2>1. D = {1, 2}
    BY <1>1, <1>5
  <2> HIDE DEF D
  <2>2. Min({1, 2}) = 1 /\ Min({2}) = 2 /\ {1, 2} \ {1} = {2} /\ {2} \ {2} = {}
    BY FirstIsMin
  <2>3. \A s \in SUBSET {1, 2} : s # {} => g[s] = g[s \ {Min(s)}] * ByteBase + bytes[Min(s)]
    BY <1>2, <2>1
  <2>4. g[{1, 2}] = g[{1, 2} \ {1}] * ByteBase + bytes[1]
    BY <2>2, <2>3
  <2>5. g[{2}] = g[{2} \ {2}] * ByteBase + bytes[2]
    BY <2>2, <2>3
  <2>6. g[{}] = 0
    BY <1>3, <2>1
  <2>7. g[{2}] = bytes[2]
    <3>1. bytes[2] \in Nat
      BY <1>1, <2>1
    <3>2. 0 * ByteBase = 0
      BY <1>1
    <3>3. g[{2} \ {2}] = 0
      BY <2>2, <2>6
    <3> QED  BY <2>5, <3>1, <3>2, <3>3
  <2> QED  BY <2>1, <2>2, <2>4, <2>7
<1>6. ASSUME Len(bytes) = 4
      PROVE  g[D] = ((bytes[4] * ByteBase + bytes[3]) * ByteBase + bytes[2]) * ByteBase + bytes[1]
  <2>1. D = {1, 2, 3, 4}
    BY <1>1, <1>6
  <2> HIDE DEF D
  <2>2. /\ Min({1, 2, 3, 4}) = 1 /\ Min({2, 3, 4}) = 2 /\ Min({3, 4}) = 3 /\ Min({4}) = 4
        /\ {1, 2, 3, 4} \ {1} = {2, 3, 4} /\ {2, 3, 4} \ {2} = {3, 4} /\ {3, 4} \ {3} = {4} /\ {4} \ {4} = {}
    BY FirstIsMin
  <2>3. \A s \in SUBSET {1, 2, 3, 4} : s # {} => g[s] = g[s \ {Min(s)}] * ByteBase + bytes[Min(s)]
    BY <1>2, <2>1
  <2>4. g[{1, 2, 3, 4}] = g[{1, 2, 3, 4} \ {1}] * ByteBase + bytes[1]
    BY <2>2, <2>3
  <2>5. g[{2, 3, 4}] = g[{2, 3, 4} \ {2}] * ByteBase + bytes[2]
    BY <2>2, <2>3
  <2>6. g[{3, 4}] = g[{3, 4} \ {3}] * ByteBase + bytes[3]
    BY <2>2, <2>3
  <2>7. g[{4}] = g[{4} \ {4}] * ByteBase + bytes[4]
    BY <2>2, <2>3
  <2>8. g[{}] = 0
    BY <1>3, <2>1
  <2>9. g[{4}] = bytes[4]
    <3>1. bytes[4] \in Nat
      BY <1>1, <2>1
    <3>2. 0 * ByteBase = 0
      BY <1>1
    <3>3. g[{4} \ {4}] = 0
      BY <2>2, <2>8
    <3> QED  BY <2>7, <3>1, <3>2, <3>3
  <2> QED  BY <2>1, <2>2, <2>4, <2>5, <2>6, <2>9, ZenonT(60)
<1> QED  BY <1>4, <1>5, <1>6

\* A byte more has the quotient by its shift.
LEMMA Shifted ==
    ASSUME NEW n \in Nat, NEW k \in 0 .. 4
    PROVE  n \div Shift[k + 1] = (n \div Shift[k]) \div ByteBase /\ n \div Shift[k] \in Nat
<1>1. Shift[k + 1] = Shift[k] * ByteBase /\ Shift[k] \in Nat \ {0} /\ ByteBase \in Nat \ {0}
  <2>1. k = 0 \/ k = 1 \/ k = 2 \/ k = 3 \/ k = 4
    OBVIOUS
  <2>2. ByteBase \in Nat \ {0} /\ Shift[k] \in Nat \ {0}
    BY Shifts, FramingAssumption
  <2>3. Shift[k + 1] = ByteBase * Shift[k]
    <3>1. Shift[1] = ByteBase * Shift[0]
      BY <2>2, Shifts
    <3>2. Shift[2] = ByteBase * Shift[1]
      BY Shifts
    <3> QED  BY <2>1, <3>1, <3>2, Shifts
  <2> QED  BY <2>2, <2>3
<1>2. n \div (Shift[k] * ByteBase) = (n \div Shift[k]) \div ByteBase
  BY <1>1, DivTwice
<1>3. n \div Shift[k] \in Nat
  BY <1>1
<1> QED  BY <1>1, <1>2, <1>3

\* Any number's bytes are bytes.
LEMMA ToBytes ==
    ASSUME NEW n \in Nat, NEW size \in 0 .. 5
    PROVE  IntToBytes(n, size) \in Seq(Byte) /\ Len(IntToBytes(n, size)) = size
<1>1. \A i \in 1 .. size : (n \div Shift[i - 1]) % ByteBase \in Byte
  <2> SUFFICES ASSUME NEW i \in 1 .. size PROVE (n \div Shift[i - 1]) % ByteBase \in Byte
    OBVIOUS
  <2>1. i - 1 \in 0 .. 4 /\ ByteBase \in Nat \ {0}
    BY FramingAssumption
  <2>2. n \div Shift[i - 1] \in Nat
    BY <2>1, Shifted
  <2> QED  BY <2>1, <2>2 DEF Byte
<1> QED  BY <1>1 DEF IntToBytes

\* What fits its bytes is read back from them.
LEMMA ThereAndBack ==
    ASSUME NEW n \in Nat
    PROVE  /\ n < Shift[2] => BytesToInt(IntToBytes(n, 2)) = n
           /\ n < Shift[4] => BytesToInt(IntToBytes(n, 4)) = n
<1>1. ByteBase \in Nat \ {0}
  BY FramingAssumption
<1>2. \A k \in Nat : \E q \in Nat, r \in 0 .. ByteBase - 1 :
         q = k \div ByteBase /\ r = k % ByteBase /\ k = q * ByteBase + r
  BY <1>1, DivModBack
<1>3. PICK q1 \in Nat, r0 \in 0 .. ByteBase - 1 :
        q1 = n \div ByteBase /\ r0 = n % ByteBase /\ n = q1 * ByteBase + r0
  BY <1>2
<1>4. PICK q2 \in Nat, r1 \in 0 .. ByteBase - 1 :
        q2 = q1 \div ByteBase /\ r1 = q1 % ByteBase /\ q1 = q2 * ByteBase + r1
  BY <1>2
<1>5. PICK q3 \in Nat, r2 \in 0 .. ByteBase - 1 :
        q3 = q2 \div ByteBase /\ r2 = q2 % ByteBase /\ q2 = q3 * ByteBase + r2
  BY <1>2
<1>6. PICK q4 \in Nat, r3 \in 0 .. ByteBase - 1 :
        q4 = q3 \div ByteBase /\ r3 = q3 % ByteBase /\ q3 = q4 * ByteBase + r3
  BY <1>2
<1>7. /\ n \div Shift[0] = n /\ n \div Shift[1] = q1 /\ n \div Shift[2] = q2
      /\ n \div Shift[3] = q3 /\ n \div Shift[4] = q4
  <2>1. n \div 1 = n
    OBVIOUS
  <2>2. \A k \in 0 .. 4 : n \div Shift[k + 1] = (n \div Shift[k]) \div ByteBase
    BY Shifted
  <2>3. /\ n \div Shift[0 + 1] = (n \div Shift[0]) \div ByteBase
        /\ n \div Shift[1 + 1] = (n \div Shift[1]) \div ByteBase
        /\ n \div Shift[2 + 1] = (n \div Shift[2]) \div ByteBase
        /\ n \div Shift[3 + 1] = (n \div Shift[3]) \div ByteBase
    BY <2>2
  <2>4. 0 + 1 = 1 /\ 1 + 1 = 2 /\ 2 + 1 = 3 /\ 3 + 1 = 4
    OBVIOUS
  <2>5. Shift[0] = 1
    BY Shifts
  <2>6. n \div Shift[0] = n /\ n \div Shift[1] = n \div ByteBase
    BY <2>1, <2>3, <2>4, <2>5
  <2> QED  BY <2>3, <2>4, <2>6, <1>3, <1>4, <1>5, <1>6
<1>8. \A m \in Nat, k \in 0 .. 4 : n < Shift[k] /\ m = n \div Shift[k] => m = 0
  <2> SUFFICES ASSUME NEW k \in 0 .. 4, n < Shift[k] PROVE n \div Shift[k] = 0
    OBVIOUS
  <2>1. Shift[k] \in Nat \ {0}
    BY Shifts
  <2>2. n = 0 * Shift[k] + n /\ n \in 0 .. Shift[k] - 1
    BY <2>1
  <2> QED  BY <2>1, <2>2, DivMod
<1>9. ASSUME n < Shift[2] PROVE BytesToInt(IntToBytes(n, 2)) = n
  <2>1. q2 = 0
    BY <1>7, <1>8, <1>9
  <2>2. IntToBytes(n, 2)[1] = r0 /\ IntToBytes(n, 2)[2] = r1
    <3>1. /\ IntToBytes(n, 2)[1] = (n \div Shift[1 - 1]) % ByteBase
          /\ IntToBytes(n, 2)[2] = (n \div Shift[2 - 1]) % ByteBase
      BY DEF IntToBytes
    <3>2. 1 - 1 = 0 /\ 2 - 1 = 1
      OBVIOUS
    <3> QED  BY <1>3, <1>4, <1>7, <3>1, <3>2
  <2>3. q1 = r1
    BY <1>1, <1>4, <2>1
  <2>4. BytesToInt(IntToBytes(n, 2)) = q1 * ByteBase + r0
    <3>1. IntToBytes(n, 2) \in Seq(Byte) /\ Len(IntToBytes(n, 2)) = 2
      BY ToBytes
    <3> QED  BY <2>2, <2>3, <3>1, ToInt
  <2> QED  BY <1>3, <2>4
<1>10. ASSUME n < Shift[4] PROVE BytesToInt(IntToBytes(n, 4)) = n
  <2>1. q4 = 0
    BY <1>7, <1>8, <1>10
  <2>2. /\ IntToBytes(n, 4)[1] = r0 /\ IntToBytes(n, 4)[2] = r1
        /\ IntToBytes(n, 4)[3] = r2 /\ IntToBytes(n, 4)[4] = r3
    <3>1. /\ IntToBytes(n, 4)[1] = (n \div Shift[1 - 1]) % ByteBase
          /\ IntToBytes(n, 4)[2] = (n \div Shift[2 - 1]) % ByteBase
          /\ IntToBytes(n, 4)[3] = (n \div Shift[3 - 1]) % ByteBase
          /\ IntToBytes(n, 4)[4] = (n \div Shift[4 - 1]) % ByteBase
      BY DEF IntToBytes
    <3>2. 1 - 1 = 0 /\ 2 - 1 = 1 /\ 3 - 1 = 2 /\ 4 - 1 = 3
      OBVIOUS
    <3> QED  BY <1>3, <1>4, <1>5, <1>6, <1>7, <3>1, <3>2
  <2>3. q3 = r3
    BY <1>1, <1>6, <2>1
  <2>4. BytesToInt(IntToBytes(n, 4)) = ((q3 * ByteBase + r2) * ByteBase + r1) * ByteBase + r0
    <3>1. IntToBytes(n, 4) \in Seq(Byte) /\ Len(IntToBytes(n, 4)) = 4
      BY ToBytes
    <3> QED  BY <2>2, <2>3, <3>1, ToInt
  <2> QED  BY <1>3, <1>4, <1>5, <2>4
<1> QED  BY <1>9, <1>10

----------------------------------------------------------------------------
(* A packet as bytes.                                                      *)

\* What becomes of a packet, of its first byte and its payload.
Understood(d, w) == IF w = <<>> THEN Message(GetType(d), <<>>)
                    ELSE BufferGot(w, Merged(d, Len(w))).done[1]

\* The two forms of a header: its length, and that of the payload it announces.
HeadLen(b) == IF IsShort(b[1]) THEN 2 ELSE 5
BodyLen(b) == IF IsShort(b[1]) THEN b[2] ELSE BytesToInt(SubSeq(b, 2, 5))

\* b is a whole packet, to be understood as p.
Whole(b, p) ==
    /\ b \in Seq(Byte)
    /\ HeadLen(b) <= Len(b) /\ Len(b) = HeadLen(b) + BodyLen(b)
    /\ BodyLen(b) < Shift[4]
    /\ p = Understood(b[1], SubSeq(b, HeadLen(b) + 1, Len(b)))

\* The state of an item holds the first byte and the length apart.
LEMMA MergedApart ==
    ASSUME NEW d \in Byte, NEW n \in Nat, n < Shift[4]
    PROVE  /\ (Merged(d, n) \div Shift[4]) % ByteBase = d /\ Merged(d, n) % Shift[4] = n
           /\ Merged(d, n) \in 0 .. Shift[5] - 1
<1>1. Shift[4] \in Nat \ {0} /\ ByteBase \in Nat \ {0} /\ d \in 0 .. ByteBase - 1 /\ Shift[5] = ByteBase * Shift[4]
  BY Shifts, FramingAssumption DEF Byte
<1>2. d \in Nat /\ n \in 0 .. Shift[4] - 1
  BY <1>1
<1>3. (d * Shift[4] + n) \div Shift[4] = d /\ (d * Shift[4] + n) % Shift[4] = n
  BY <1>1, <1>2, DivMod
<1>4. d % ByteBase = d
  BY <1>1
<1>5. d * Shift[4] + n \in 0 .. Shift[5] - 1
  <2> DEFINE s == Shift[4]
  <2>1. s \in Nat \ {0} /\ Shift[5] = ByteBase * s
    BY <1>1
  <2> HIDE DEF s
  <2>2. d * s <= (ByteBase - 1) * s /\ d * s \in Nat
    BY <1>1, <2>1
  <2>3. (ByteBase - 1) * s = ByteBase * s - s
    BY <1>1, <2>1
  <2>4. n \in 0 .. s - 1
    BY <1>2 DEF s
  <2>5. d * s + n \in 0 .. ByteBase * s - 1
    BY <1>1, <2>1, <2>2, <2>3, <2>4
  <2> QED  BY <2>1, <2>5 DEF s
<1> QED  BY <1>3, <1>4, <1>5 DEF Merged

\* BUFFER_GOT processes or refuses the packet, and asks for the next.
LEMMA BufferGotIs ==
    ASSUME NEW w, NEW u
    PROVE  \E p : BufferGot(w, u) = [next |-> <<NewMessage>>, done |-> <<p>>]
<1> DEFINE data == (u \div Shift[4]) % ByteBase
<1>1. \A c : \E p : Refused(c) = [next |-> <<NewMessage>>, done |-> <<p>>]
  BY DEF Refused
<1>2. \A t, x : \E p : Processed(t, x) = [next |-> <<NewMessage>>, done |-> <<p>>]
  BY DEF Processed
<1> HIDE DEF data
<1>3. \/ \E t, x : BufferGot(w, u) = Processed(t, x)
      \/ \E c : BufferGot(w, u) = Refused(c)
  <2>1. CASE ~IsCompressed(data)
    BY <2>1, Zenon DEF BufferGot, data
  <2>2. CASE IsCompressed(data) /\ FrameSize(w) = 0
    <3>1. ~(FrameSize(w) > MaxDecompressed)
      BY <2>2, FramingAssumption
    <3> QED  BY <2>2, <3>1, Zenon DEF BufferGot, data
  <2>3. CASE IsCompressed(data) /\ ~(FrameSize(w) = 0) /\ FrameSize(w) > MaxDecompressed
    BY <2>3, Zenon DEF BufferGot, data
  <2>4. CASE IsCompressed(data) /\ ~(FrameSize(w) = 0) /\ ~(FrameSize(w) > MaxDecompressed)
    <3>1. BufferGot(w, u) = IF Decompresses(w) THEN Processed(GetType(data), Decompress(w))
                                               ELSE Refused("DECOMPRESSION_ERROR")
      BY <2>4, Zenon DEF BufferGot, data
    <3>2. CASE Decompresses(w)
      BY <3>1, <3>2, Zenon
    <3>3. CASE ~Decompresses(w)
      BY <3>1, <3>3, Zenon
    <3> QED  BY <3>2, <3>3
  <2> QED  BY <2>1, <2>2, <2>3, <2>4
<1> QED  BY <1>1, <1>2, <1>3, Zenon

\* A payload that is not compressed is taken as it is.
LEMMA UnderstoodPlain ==
    ASSUME NEW d \in Byte, NEW w \in Seq(Byte), Len(w) < Shift[4], ~IsCompressed(d)
    PROVE  Understood(d, w) = Message(GetType(d), w)
<1>1. CASE w = <<>>
  BY <1>1 DEF Understood
<1>2. CASE w # <<>>
  <2> DEFINE u == Merged(d, Len(w))
  <2>1. (u \div Shift[4]) % ByteBase = d /\ u % Shift[4] = Len(w)
    BY MergedApart
  <2> HIDE DEF u
  <2>2. BufferGot(w, u) = Processed(GetType(d), SubSeq(w, 1, Len(w)))
    BY <2>1, Zenon DEF BufferGot
  <2>3. SubSeq(w, 1, Len(w)) = w
    OBVIOUS
  <2>4. BufferGot(w, u).done[1] = Message(GetType(d), w)
    <3>1. \A t, x : Processed(t, x).done[1] = Message(t, x)
      BY DEF Processed
    <3> QED  BY <2>2, <2>3, <3>1
  <2> QED  BY <1>2, <2>4 DEF Understood, u
<1> QED  BY <1>1, <1>2

\* A frame is refused for its fault, or is what it decompresses to.
LEMMA UnderstoodFrame ==
    ASSUME NEW d \in Byte, NEW w \in Seq(Byte) \ {<<>>}, Len(w) < Shift[4], IsCompressed(d)
    PROVE  Understood(d, w) =
             IF FrameSize(w) # 0 /\ ~(FrameSize(w) > MaxDecompressed) /\ Decompresses(w)
             THEN Message(GetType(d), Decompress(w)) ELSE Refusal(
                IF FrameSize(w) # 0 /\ FrameSize(w) > MaxDecompressed THEN "TOO_LONG_BUFFER" ELSE "DECOMPRESSION_ERROR")
<1> DEFINE u == Merged(d, Len(w))
<1>1. (u \div Shift[4]) % ByteBase = d
  BY MergedApart
<1>2. Understood(d, w) = BufferGot(w, u).done[1]
  BY DEF Understood
<1> HIDE DEF u
<1>3. CASE FrameSize(w) = 0
  <2>0. ~(FrameSize(w) > MaxDecompressed)
    BY <1>3, FramingAssumption
  <2>1. BufferGot(w, u) = Refused("DECOMPRESSION_ERROR")
    BY <1>1, <1>3, <2>0, Zenon DEF BufferGot
  <2> QED  BY <1>2, <1>3, <2>1 DEF Refused
<1>4. CASE FrameSize(w) # 0 /\ FrameSize(w) > MaxDecompressed
  <2>1. BufferGot(w, u) = Refused("TOO_LONG_BUFFER")
    BY <1>1, <1>4, Zenon DEF BufferGot
  <2> QED  BY <1>2, <1>4, <2>1 DEF Refused
<1>5. CASE FrameSize(w) # 0 /\ ~(FrameSize(w) > MaxDecompressed) /\ Decompresses(w)
  <2>1. BufferGot(w, u) = Processed(GetType(d), Decompress(w))
    BY <1>1, <1>5, Zenon DEF BufferGot
  <2> QED  BY <1>2, <1>5, <2>1 DEF Processed
<1>6. CASE FrameSize(w) # 0 /\ ~(FrameSize(w) > MaxDecompressed) /\ ~Decompresses(w)
  <2>1. BufferGot(w, u) = Refused("DECOMPRESSION_ERROR")
    BY <1>1, <1>6, Zenon DEF BufferGot
  <2> QED  BY <1>2, <1>6, <2>1 DEF Refused
<1> QED  BY <1>3, <1>4, <1>5, <1>6

\* GROK_STORE_FLAGS keeps flags and type.
LEMMA FlagsKept ==
    ASSUME NEW t \in 0 .. GetType(ByteBase - 1), NEW f \in 0 .. 3
    PROVE  /\ StoreFlags(f, t) \in Byte
           /\ GetFlags(StoreFlags(f, t)) = f /\ GetType(StoreFlags(f, t)) = t
<1>1. ByteBase \in Nat /\ ByteBase >= 8 /\ ByteBase % 4 = 0
  BY FramingAssumption
<1>2. t \in Nat /\ t * 4 + f <= ByteBase - 1
  BY <1>1 DEF GetType
<1>3. StoreFlags(f, t) = t * 4 + f
  BY <1>1, <1>2 DEF StoreFlags
<1> QED  BY <1>1, <1>2, <1>3 DEF GetFlags, GetType, Byte

\* h and w one after the other are b.
Apart(b, h, w) ==
    /\ Len(b) = Len(h) + Len(w)
    /\ \A i \in 1 .. Len(h) : b[i] = h[i]
    /\ \A i \in 1 .. Len(w) : b[Len(h) + i] = w[i]
    /\ SubSeq(b, Len(h) + 1, Len(b)) = w /\ SubSeq(b, 1, Len(h)) = h

\* It is what their concatenation is.
LEMMA Joined ==
    ASSUME NEW S, NEW h \in Seq(S), NEW w \in Seq(S)
    PROVE  h \o w \in Seq(S) /\ Apart(h \o w, h, w)
<1>1. h \o w \in Seq(S) /\ Len(h \o w) = Len(h) + Len(w) /\ Len(h) \in Nat /\ Len(w) \in Nat
  OBVIOUS
<1>2. \A i \in 1 .. Len(h) : (h \o w)[i] = h[i]
  OBVIOUS
<1>3. \A i \in 1 .. Len(w) : (h \o w)[Len(h) + i] = w[i]
  OBVIOUS
<1>4. ASSUME NEW b \in Seq(S), Len(b) = Len(h) + Len(w), \A i \in 1 .. Len(h) : b[i] = h[i],
             \A i \in 1 .. Len(w) : b[Len(h) + i] = w[i]
      PROVE  SubSeq(b, Len(h) + 1, Len(b)) = w /\ SubSeq(b, 1, Len(h)) = h
  <2>1. /\ SubSeq(b, Len(h) + 1, Len(b)) \in Seq(S) /\ Len(SubSeq(b, Len(h) + 1, Len(b))) = Len(w)
        /\ \A i \in 1 .. Len(w) : SubSeq(b, Len(h) + 1, Len(b))[i] = b[Len(h) + i]
    BY <1>1, <1>4
  <2>2. SubSeq(b, Len(h) + 1, Len(b)) = w
    BY <1>4, <2>1
  <2>3. /\ SubSeq(b, 1, Len(h)) \in Seq(S) /\ Len(SubSeq(b, 1, Len(h))) = Len(h)
        /\ \A i \in 1 .. Len(h) : SubSeq(b, 1, Len(h))[i] = b[i]
    BY <1>1, <1>4
  <2>4. SubSeq(b, 1, Len(h)) = h
    BY <1>4, <2>3
  <2> QED  BY <2>2, <2>4
<1> QED  BY <1>1, <1>2, <1>3, <1>4, Zenon DEF Apart

\* A header and a payload make a whole packet.
LEMMA FramedIsWhole ==
    ASSUME NEW t \in 0 .. GetType(ByteBase - 1), NEW c \in BOOLEAN, NEW w \in Seq(Byte), Len(w) < Shift[4], NEW h,
           \/ h = LongHeader(t, Len(w), c)
           \/ h = Header(t, Len(w), c)
    PROVE  \E d \in Byte : GetType(d) = t /\ (IsCompressed(d) <=> c) /\ Whole(h \o w, Understood(d, w))
<1> DEFINE n == Len(w)
           fl == IF c THEN 1 ELSE 0
<1>1. n \in Nat /\ ByteBase \in Nat \ {0} /\ fl \in 0 .. 1
  BY FramingAssumption
<1>2. CASE h = LongHeader(t, n, c)
  <2> DEFINE d == StoreFlags(fl, t)
             l == IntToBytes(n, 4)
             b == h \o w
  <2>1. d \in Byte /\ GetFlags(d) = fl /\ GetType(d) = t
    BY <1>1, FlagsKept
  <2>2. ~IsShort(d) /\ (IsCompressed(d) <=> c)
    BY <1>1, <2>1 DEF IsShort, IsCompressed
  <2>3. l \in Seq(Byte) /\ Len(l) = 4 /\ BytesToInt(l) = n
    BY <1>1, ToBytes, ThereAndBack
  <2>4. h = <<d>> \o l
    BY <1>2 DEF LongHeader
  <2> HIDE DEF d, l, b, n
  <2>5. h \in Seq(Byte) /\ Len(h) = 5 /\ h[1] = d /\ \A i \in 1 .. 4 : h[i + 1] = l[i]
    <3>1. PICK x : x = <<d>>
      OBVIOUS
    <3>2. x \in Seq(Byte) /\ Len(x) = 1 /\ x[1] = d
      BY <2>1, <3>1
    <3>3. h \in Seq(Byte) /\ Apart(h, x, l)
      BY <2>3, <2>4, <3>1, <3>2, Joined
    <3> QED  BY <2>3, <3>2, <3>3 DEF Apart
  <2>6. b \in Seq(Byte) /\ Len(b) = 5 + n /\ b[1] = d /\ (\A i \in 1 .. 5 : b[i] = h[i]) /\ SubSeq(b, 6, Len(b)) = w
    <3>1. b \in Seq(Byte) /\ Apart(b, h, w)
      BY <2>5, Joined DEF b
    <3> QED  BY <2>5, <3>1 DEF Apart, n
  <2>7. SubSeq(b, 2, 5) = l
    <3>1. SubSeq(b, 2, 5) \in Seq(Byte) /\ Len(SubSeq(b, 2, 5)) = 4
      BY <1>1, <2>6
    <3>2. \A i \in 1 .. 4 : SubSeq(b, 2, 5)[i] = b[i + 1]
      BY <1>1, <2>6
    <3>3. \A i \in 1 .. 4 : b[i + 1] = h[i + 1]
      BY <2>6
    <3> QED  BY <2>3, <2>5, <3>1, <3>2, <3>3
  <2>8. HeadLen(b) = 5 /\ BodyLen(b) = n
    BY <2>2, <2>3, <2>6, <2>7 DEF HeadLen, BodyLen
  <2>9. Whole(b, Understood(d, w))
    <3>1. n < Shift[4]
      BY DEF n
    <3>2. HeadLen(b) + 1 \in {3, 6} /\ SubSeq(b, HeadLen(b) + 1, Len(b)) = w
      BY <2>6, <2>8
    <3>3. HeadLen(b) <= Len(b) /\ Len(b) = HeadLen(b) + BodyLen(b) /\ BodyLen(b) < Shift[4]
      BY <1>1, <2>6, <2>8, <3>1
    <3>4. Understood(d, w) = Understood(b[1], SubSeq(b, HeadLen(b) + 1, Len(b)))
      BY <2>6, <3>2
    <3> QED  BY <2>6, <3>3, <3>4, Zenon DEF Whole
  <2> QED  BY <2>1, <2>2, <2>9 DEF b
<1>3. CASE h = ShortHeader(t, n, c) /\ FitsShort(n)
  <2> DEFINE d == StoreFlags(fl + 2, t)
             b == h \o w
  <2>1. d \in Byte /\ GetFlags(d) = fl + 2 /\ GetType(d) = t
    BY <1>1, FlagsKept
  <2>2. IsShort(d) /\ (IsCompressed(d) <=> c)
    BY <1>1, <2>1 DEF IsShort, IsCompressed
  <2>3. n % ByteBase = n /\ n \in Byte
    <3>1. n \in 0 .. ByteBase - 1 /\ n = 0 * ByteBase + n
      BY <1>1, <1>3 DEF FitsShort
    <3> HIDE DEF n
    <3> QED  BY <1>1, <3>1, DivMod DEF Byte
  <2>4. h = <<d, n>>
    BY <1>3, <2>3 DEF ShortHeader
  <2> HIDE DEF d, b, n
  <2>5. h \in Seq(Byte) /\ Len(h) = 2 /\ h[1] = d /\ h[2] = n
    BY <2>1, <2>3, <2>4
  <2>6. b \in Seq(Byte) /\ Len(b) = 2 + n /\ b[1] = d /\ b[2] = n /\ SubSeq(b, 3, Len(b)) = w
    <3>1. b \in Seq(Byte) /\ Apart(b, h, w)
      BY <2>5, Joined DEF b
    <3> QED  BY <2>5, <3>1 DEF Apart, n
  <2>8. HeadLen(b) = 2 /\ BodyLen(b) = n
    BY <2>2, <2>6 DEF HeadLen, BodyLen
  <2>9. Whole(b, Understood(d, w))
    <3>1. n < Shift[4]
      BY DEF n
    <3>2. HeadLen(b) + 1 \in {3, 6} /\ SubSeq(b, HeadLen(b) + 1, Len(b)) = w
      BY <2>6, <2>8
    <3>3. HeadLen(b) <= Len(b) /\ Len(b) = HeadLen(b) + BodyLen(b) /\ BodyLen(b) < Shift[4]
      BY <1>1, <2>6, <2>8, <3>1
    <3>4. Understood(d, w) = Understood(b[1], SubSeq(b, HeadLen(b) + 1, Len(b)))
      BY <2>6, <3>2
    <3> QED  BY <2>6, <3>3, <3>4, Zenon DEF Whole
  <2> QED  BY <2>1, <2>2, <2>9 DEF b
<1>4. CASE h = Header(t, n, c)
  BY <1>2, <1>3, <1>4 DEF Header
<1> QED  BY <1>2, <1>4

\* What compresses is a run, and is its length in two bytes and its byte.
LEMMA Compressed ==
    ASSUME NEW p \in Payloads, p # <<>>, Compress(p) # p
    PROVE  /\ Compress(p) \in Seq(Byte) /\ Len(Compress(p)) = 3
           /\ FrameSize(Compress(p)) = Len(p) /\ Len(p) # 0 /\ ~(Len(p) > MaxDecompressed)
           /\ Decompresses(Compress(p)) /\ Decompress(Compress(p)) = p
<1> DEFINE l == IntToBytes(Len(p), 2)
           z == Compress(p)
<1>1. p \in Seq(Byte) /\ Len(p) \in Nat /\ Len(p) < Shift[2] /\ Len(p) <= MaxDecompressed /\ MaxDecompressed \in Nat
  BY PayloadsFit, StreamAssumption, FramingAssumption
<1>2. l \in Seq(Byte) /\ Len(l) = 2 /\ BytesToInt(l) = Len(p)
  <2>1. ASSUME NEW n \in Nat, n < Shift[2]
        PROVE  IntToBytes(n, 2) \in Seq(Byte) /\ Len(IntToBytes(n, 2)) = 2 /\ BytesToInt(IntToBytes(n, 2)) = n
    BY <2>1, ToBytes, ThereAndBack
  <2> QED  BY <1>1, <2>1
<1>3. (\E b \in Byte : \A i \in DOMAIN p : p[i] = b) /\ z = l \o <<p[1]>>
  BY Zenon DEF Compress
<1>4. 1 \in DOMAIN p /\ p[1] \in Byte /\ Len(p) # 0
  BY <1>1
<1>5. \A i \in 1 .. Len(p) : p[i] = p[1]
  BY <1>1, <1>3, <1>4
<1> HIDE DEF z, l
<1>6. PICK x : x = <<p[1]>>
  OBVIOUS
<1>7. z \in Seq(Byte) /\ Len(z) = 3 /\ z[3] = p[1] /\ SubSeq(z, 1, 2) = l
  <2>1. x \in Seq(Byte) /\ Len(x) = 1 /\ x[1] = p[1]
    BY <1>4, <1>6
  <2>2. z \in Seq(Byte) /\ Apart(z, l, x)
    BY <1>2, <1>3, <1>6, <2>1, Joined
  <2> QED  BY <1>2, <2>1, <2>2 DEF Apart
<1>8. FrameSize(z) = Len(p)
  <2>1. ~(Len(z) < 2)
    BY <1>7
  <2> QED  BY <1>2, <1>7, <2>1, Zenon DEF FrameSize
<1>9. Decompress(z) = p
  BY <1>1, <1>5, <1>7, <1>8 DEF Decompress
<1> QED  BY <1>1, <1>4, <1>7, <1>8, <1>9 DEF z, Decompresses

\* What has elements is not empty.
LEMMA NotEmpty == ASSUME NEW S, NEW x \in Seq(S), Len(x) = 3 PROVE x # <<>>
OBVIOUS

\* A length in one byte, and that of a frame here, fit four.
LEMMA ByteFits == 3 < Shift[4] /\ ByteBase - 1 < Shift[4]
<1>1. ByteBase \in Nat /\ ByteBase >= 8 /\ Shift[3] \in Nat \ {0} /\ Shift[4] = ByteBase * Shift[3]
  BY Shifts, FramingAssumption
<1>2. ASSUME NEW x \in Nat \ {0} PROVE ByteBase * x >= ByteBase
  BY <1>1
<1>3. Shift[4] >= ByteBase /\ Shift[4] \in Nat
  BY <1>1, <1>2, Shifts
<1> QED  BY <1>1, <1>3

\* A frame is understood as what was compressed.
LEMMA UnderstoodZipped ==
    ASSUME NEW d \in Byte, IsCompressed(d), NEW p \in Payloads, p # <<>>, Compress(p) # p
    PROVE  Understood(d, Compress(p)) = Message(GetType(d), p)
<1>1. Compress(p) \in Seq(Byte) /\ Len(Compress(p)) = 3
  BY Compressed
<1>2. Compress(p) \in Seq(Byte) \ {<<>>}
  BY <1>1, NotEmpty
<1>3. Len(Compress(p)) < Shift[4]
  BY <1>1, ByteFits
<1> QED  BY <1>2, <1>3, UnderstoodFrame, Compressed

\* A bad frame is understood as its refusal.
LEMMA UnderstoodBad ==
    ASSUME NEW d \in Byte, IsCompressed(d), NEW f \in BadFrames
    PROVE  Understood(d, f) = Refusal(Fault(f))
<1>1. f \in Seq(Byte) \ {<<>>} /\ Len(f) < Shift[4] /\ ~(FrameSize(f) \in 1 .. MaxDecompressed /\ Decompresses(f))
  BY PayloadsFit, StreamAssumption
<1>2. FrameSize(f) \in Nat
  <2>1. CASE Len(f) < 2
    BY <2>1 DEF FrameSize
  <2>2. CASE ~(Len(f) < 2)
    <3>1. SubSeq(f, 1, 2) \in Seq(Byte) /\ Len(SubSeq(f, 1, 2)) = 2
      BY <1>1, <2>2
    <3>2. \A i \in 1 .. 2 : SubSeq(f, 1, 2)[i] \in Nat
      BY <3>1 DEF Byte
    <3>3. BytesToInt(SubSeq(f, 1, 2)) = SubSeq(f, 1, 2)[2] * ByteBase + SubSeq(f, 1, 2)[1]
      BY <3>1, ToInt
    <3>4. ByteBase \in Nat
      BY FramingAssumption
    <3>5. \A x, y \in Nat : x * ByteBase + y \in Nat
      BY <3>4
    <3>6. SubSeq(f, 1, 2)[1] \in Nat /\ SubSeq(f, 1, 2)[2] \in Nat
      BY <3>2
    <3>7. BytesToInt(SubSeq(f, 1, 2)) \in Nat
      BY <3>3, <3>5, <3>6, Zenon
    <3> QED  BY <2>2, <3>7 DEF FrameSize
  <2> QED  BY <2>1, <2>2
<1>3. MaxDecompressed \in Nat
  BY FramingAssumption
<1>4. CASE FrameSize(f) # 0 /\ FrameSize(f) > MaxDecompressed
  <2>1. Understood(d, f) = Refusal("TOO_LONG_BUFFER")
    BY <1>1, <1>4, UnderstoodFrame
  <2> QED  BY <1>4, <2>1 DEF Fault
<1>5. CASE ~(FrameSize(f) # 0 /\ FrameSize(f) > MaxDecompressed)
  <2>1. ~(FrameSize(f) > MaxDecompressed) /\ ~(FrameSize(f) # 0 /\ Decompresses(f))
    BY <1>1, <1>2, <1>3, <1>5
  <2>2. Understood(d, f) = Refusal("DECOMPRESSION_ERROR")
    BY <1>1, <1>5, <2>1, UnderstoodFrame
  <2> QED  BY <2>1, <2>2 DEF Fault
<1> QED  BY <1>4, <1>5

\* FStreamer::send makes one whole packet of what it is given.
LEMMA EncodeIsWhole ==
    ASSUME NEW t \in Types, NEW p \in Payloads
    PROVE  Whole(Encode(t, p), Message(t, p))
<1>1. t \in 0 .. GetType(ByteBase - 1) /\ p \in Seq(Byte) /\ Len(p) < Shift[4]
  BY PayloadsFit, StreamAssumption
<1>2. CASE p # <<>> /\ Len(p) >= CompressMin /\ Len(Compress(p)) < Len(p)
  <2> DEFINE z == Compress(p)
             h == Header(t, Len(z), TRUE)
  <2>1. Encode(t, p) = h \o z
    BY <1>2, Zenon DEF Encode
  <2>2. Compress(p) # p
    <3>1. Compress(p) = p => Len(Compress(p)) = Len(p)
      OBVIOUS
    <3>2. Len(p) \in Nat
      BY <1>1
    <3> QED  BY <1>2, <3>1, <3>2
  <2>3. z \in Seq(Byte) /\ Len(z) < Shift[4]
    BY <1>2, <2>2, Compressed, ByteFits
  <2>4. h = Header(t, Len(z), TRUE)
    OBVIOUS
  <2> HIDE DEF h, z
  <2>5. PICK d \in Byte : GetType(d) = t /\ (IsCompressed(d) <=> TRUE) /\ Whole(h \o z, Understood(d, z))
    BY <1>1, <2>3, <2>4, FramedIsWhole
  <2>6. Understood(d, z) = Message(GetType(d), p)
    BY <1>2, <2>2, <2>5, UnderstoodZipped DEF z
  <2> QED  BY <2>1, <2>5, <2>6
<1>3. CASE ~(p # <<>> /\ Len(p) >= CompressMin /\ Len(Compress(p)) < Len(p))
  <2> DEFINE h == Header(t, Len(p), FALSE)
  <2>1. Encode(t, p) = h \o p
    BY <1>3, Zenon DEF Encode
  <2>2. h = Header(t, Len(p), FALSE)
    OBVIOUS
  <2> HIDE DEF h
  <2>3. PICK d \in Byte : GetType(d) = t /\ (IsCompressed(d) <=> FALSE) /\ Whole(h \o p, Understood(d, p))
    BY <1>1, <2>2, FramedIsWhole
  <2>4. Understood(d, p) = Message(GetType(d), p)
    BY <1>1, <2>3, UnderstoodPlain
  <2> QED  BY <2>1, <2>3, <2>4
<1> QED  BY <1>2, <1>3

\* So do the other forms of the protocol.
LEMMA OtherwiseIsWhole ==
    ASSUME NEW t \in Types, NEW p \in Payloads
    PROVE  /\ Whole(LongHeader(t, Len(p), FALSE) \o p, Message(t, p))
           /\ p # <<>> /\ Compress(p) # p =>
                Whole(LongHeader(t, Len(Compress(p)), TRUE) \o Compress(p), Message(t, p))
<1>1. t \in 0 .. GetType(ByteBase - 1) /\ p \in Seq(Byte) /\ Len(p) < Shift[4]
  BY PayloadsFit, StreamAssumption
<1>2. Whole(LongHeader(t, Len(p), FALSE) \o p, Message(t, p))
  <2> DEFINE h == LongHeader(t, Len(p), FALSE)
  <2>1. PICK d \in Byte : GetType(d) = t /\ (IsCompressed(d) <=> FALSE) /\ Whole(h \o p, Understood(d, p))
    BY <1>1, FramedIsWhole
  <2>2. Understood(d, p) = Message(GetType(d), p)
    BY <1>1, <2>1, UnderstoodPlain
  <2> QED  BY <2>1, <2>2
<1>3. ASSUME p # <<>>, Compress(p) # p
      PROVE  Whole(LongHeader(t, Len(Compress(p)), TRUE) \o Compress(p), Message(t, p))
  <2> DEFINE z == Compress(p)
             h == LongHeader(t, Len(z), TRUE)
  <2>1. z \in Seq(Byte) /\ Len(z) < Shift[4]
    BY <1>3, Compressed, ByteFits
  <2> HIDE DEF z
  <2>2. PICK d \in Byte : GetType(d) = t /\ (IsCompressed(d) <=> TRUE) /\ Whole(h \o z, Understood(d, z))
    BY <1>1, <2>1, FramedIsWhole
  <2>3. Understood(d, z) = Message(GetType(d), p)
    BY <1>3, <2>2, UnderstoodZipped DEF z
  <2> QED  BY <2>2, <2>3 DEF z
<1> QED  BY <1>2, <1>3

\* And a spoilt payload is one whole packet, to be refused.
LEMMA BadIsWhole ==
    ASSUME NEW t \in Types, NEW f \in BadFrames
    PROVE  Whole(Header(t, Len(f), TRUE) \o f, Refusal(Fault(f)))
<1> DEFINE h == Header(t, Len(f), TRUE)
<1>1. t \in 0 .. GetType(ByteBase - 1) /\ f \in Seq(Byte) /\ Len(f) < Shift[4]
  BY PayloadsFit, StreamAssumption
<1>2. h = Header(t, Len(f), TRUE)
  OBVIOUS
<1> HIDE DEF h
<1>3. PICK d \in Byte : GetType(d) = t /\ (IsCompressed(d) <=> TRUE) /\ Whole(h \o f, Understood(d, f))
  BY <1>1, <1>2, FramedIsWhole
<1>4. Understood(d, f) = Refusal(Fault(f))
  BY <1>3, UnderstoodBad
<1> QED  BY <1>3, <1>4 DEF h

\* What a peer does: it puts a whole packet on the wire.
PutsWhole == \E b : \E p \in Packets : Whole(b, p) /\ Put(b, p)

\* Whichever form a peer takes.
LEMMA PeersPutWhole ==
    ASSUME \/ \E type \in Types, payload \in Payloads : Send(type, payload) \/ SendOtherwise(type, payload)
           \/ \E type \in Types, frame \in BadFrames : SendBad(type, frame)
    PROVE  PutsWhole
<1>1. ASSUME NEW t \in Types, NEW p \in Payloads, Send(t, p)
      PROVE  PutsWhole
  <2>1. Message(t, p) \in Packets
    BY DEF Packets
  <2> QED  BY <1>1, <2>1, EncodeIsWhole, Zenon DEF Send, PutsWhole
<1>2. ASSUME NEW t \in Types, NEW p \in Payloads, SendOtherwise(t, p)
      PROVE  PutsWhole
  <2>1. Message(t, p) \in Packets
    BY DEF Packets
  <2> QED  BY <1>2, <2>1, OtherwiseIsWhole, Zenon DEF SendOtherwise, PutsWhole
<1>3. ASSUME NEW t \in Types, NEW f \in BadFrames, SendBad(t, f)
      PROVE  PutsWhole
  <2>1. Refusal(Fault(f)) \in Packets
    BY DEF Packets
  <2> QED  BY <1>3, <2>1, BadIsWhole, Zenon DEF SendBad, PutsWhole
<1> QED  BY <1>1, <1>2, <1>3

----------------------------------------------------------------------------
(* The rounds of on_received.                                              *)

\* Bytes are bytes.
LEMMA ByteOf == ASSUME NEW bytes \in Seq(Byte), NEW i \in 1 .. Len(bytes) PROVE bytes[i] \in Byte
OBVIOUS

\* A number in four bytes is below 2^32.
LEMMA ToIntBound ==
    ASSUME NEW bytes \in Seq(Byte), Len(bytes) = 4
    PROVE  BytesToInt(bytes) \in 0 .. Shift[4] - 1
<1> DEFINE F(m) == 0 .. m - 1
<1>1. ByteBase \in Nat \ {0}
  BY FramingAssumption
<1>2. ASSUME NEW m \in Nat, NEW a \in 0 .. m - 1, NEW x \in 0 .. ByteBase - 1
      PROVE  a * ByteBase + x \in 0 .. ByteBase * m - 1
  <2>1. a * ByteBase <= (m - 1) * ByteBase /\ a * ByteBase \in Nat
    BY <1>1
  <2>2. (m - 1) * ByteBase = ByteBase * m - ByteBase
    BY <1>1
  <2>3. ByteBase * m \in Nat
    BY <1>1
  <2> QED  BY <1>1, <2>1, <2>2, <2>3
<1>3. \A m \in Nat : \A a \in F(m), x \in F(ByteBase) : a * ByteBase + x \in F(ByteBase * m)
  BY <1>2
<1>4. bytes[1] \in F(ByteBase) /\ bytes[2] \in F(ByteBase) /\ bytes[3] \in F(ByteBase) /\ bytes[4] \in F(ByteBase)
  <2>1. \A i \in 1 .. Len(bytes) : bytes[i] \in F(ByteBase)
    BY ByteOf DEF Byte
  <2> HIDE DEF F
  <2> QED  BY <2>1
<1>5. /\ Shift[1] = ByteBase /\ Shift[2] = ByteBase * Shift[1] /\ Shift[3] = ByteBase * Shift[2]
      /\ Shift[4] = ByteBase * Shift[3]
      /\ Shift[1] \in Nat /\ Shift[2] \in Nat /\ Shift[3] \in Nat
  BY Shifts
<1>6. BytesToInt(bytes) = ((bytes[4] * ByteBase + bytes[3]) * ByteBase + bytes[2]) * ByteBase + bytes[1]
  BY ToInt
<1> HIDE DEF F
<1>7. PICK y \in F(Shift[2]) : y = bytes[4] * ByteBase + bytes[3]
  BY <1>3, <1>4, <1>5
<1>8. PICK z \in F(Shift[3]) : z = y * ByteBase + bytes[2]
  BY <1>3, <1>4, <1>5
<1>9. z * ByteBase + bytes[1] \in F(Shift[4])
  BY <1>3, <1>4, <1>5
<1> QED  BY <1>6, <1>7, <1>8, <1>9 DEF F

\* An item whose buffer holds some of what it asks for.
Item(length, state, u64, buffer) ==
    [length |-> length, state |-> state, u64 |-> u64, buffer |-> buffer]

\* The item of each round, when pre is what was read of the packet.
TypeItem(pre) == Item(2, "TYPE_GOT", 0, pre)
HeaderItem(pre) == Item(3, "HEADER_GOT", pre[1] * ByteBase + pre[2], SubSeq(pre, 3, Len(pre)))
PayloadItem(pre) ==
    Item(BodyLen(pre), "BUFFER_GOT", Merged(pre[1], BodyLen(pre)), SubSeq(pre, HeadLen(pre) + 1, Len(pre)))

\* r is the item of one of the rounds, with pre read.
Fills(pre, r) ==
    /\ pre \in Seq(Byte)
    /\ \/ r = TypeItem(pre)
       \/ Len(pre) >= 2 /\ ~IsShort(pre[1]) /\ r = HeaderItem(pre)
       \/ Len(pre) >= HeadLen(pre) /\ BodyLen(pre) \in 1 .. Shift[4] - 1 /\ r = PayloadItem(pre)

\* And asks for more.
Begun(pre, r) == Fills(pre, r) /\ Len(r.buffer) < r.length

\* An item with more in its buffer.
More(item, x) == [item EXCEPT !.buffer = @ \o x]

\* It is the item with what was there and what comes.
LEMMA Filled ==
    \A l, st, u, w, x : More(Item(l, st, u, w), x) = Item(l, st, u, w \o x)
BY DEF More, Item

\* A part of a sequence has its elements.
LEMMA PartIs ==
    ASSUME NEW S, NEW s \in Seq(S), NEW m \in 1 .. Len(s) + 1, NEW n \in m - 1 .. Len(s)
    PROVE  /\ SubSeq(s, m, n) \in Seq(S) /\ Len(SubSeq(s, m, n)) = n - m + 1
           /\ \A i \in 1 .. n - m + 1 : SubSeq(s, m, n)[i] = s[m + i - 1]
OBVIOUS

\* A part of what was there is a part of what is there now.
LEMMA PartStays ==
    ASSUME NEW S, NEW h \in Seq(S), NEW w \in Seq(S), NEW b \in Seq(S), Apart(b, h, w),
           NEW m \in 1 .. Len(h) + 1, NEW n \in m - 1 .. Len(h)
    PROVE  SubSeq(b, m, n) = SubSeq(h, m, n)
<1>1. Len(b) = Len(h) + Len(w) /\ \A i \in 1 .. Len(h) : b[i] = h[i]
  BY DEF Apart
<1>2. Len(h) \in Nat /\ Len(w) \in Nat
  OBVIOUS
<1>3. m \in 1 .. Len(b) + 1 /\ n \in m - 1 .. Len(b)
  BY <1>1, <1>2
<1>4. /\ SubSeq(b, m, n) \in Seq(S) /\ Len(SubSeq(b, m, n)) = n - m + 1
      /\ \A i \in 1 .. n - m + 1 : SubSeq(b, m, n)[i] = b[m + i - 1]
  BY <1>3, PartIs
<1>5. /\ SubSeq(h, m, n) \in Seq(S) /\ Len(SubSeq(h, m, n)) = n - m + 1
      /\ \A i \in 1 .. n - m + 1 : SubSeq(h, m, n)[i] = h[m + i - 1]
  BY PartIs
<1>6. \A i \in 1 .. n - m + 1 : b[m + i - 1] = h[m + i - 1]
  BY <1>1, <1>2, SMTT(30)
<1> QED  BY <1>4, <1>5, <1>6, SeqEqual

\* The lengths of the header and of what it announces are in its first bytes.
LEMMA HeadStays ==
    ASSUME NEW pre \in Seq(Byte), NEW x \in Seq(Byte), Len(pre) >= 2, NEW b \in Seq(Byte), Apart(b, pre, x)
    PROVE  /\ b[1] = pre[1] /\ b[2] = pre[2] /\ HeadLen(b) = HeadLen(pre) /\ HeadLen(pre) \in {2, 5}
           /\ Len(pre) >= HeadLen(pre) => BodyLen(b) = BodyLen(pre)
<1>1. Len(b) = Len(pre) + Len(x) /\ b[1] = pre[1] /\ b[2] = pre[2]
  BY DEF Apart
<1>2. HeadLen(b) = HeadLen(pre) /\ HeadLen(pre) \in {2, 5} /\ (~IsShort(pre[1]) => HeadLen(pre) = 5)
  BY <1>1 DEF HeadLen
<1>3. ASSUME Len(pre) >= 5 PROVE SubSeq(b, 2, 5) = SubSeq(pre, 2, 5)
  BY <1>3, PartStays
<1>4. ASSUME Len(pre) >= HeadLen(pre) PROVE BodyLen(b) = BodyLen(pre)
  BY <1>1, <1>2, <1>3, <1>4 DEF BodyLen
<1> QED  BY <1>1, <1>2, <1>4

\* What is behind the first n elements goes on with what comes.
LEMMA RestGrows ==
    ASSUME NEW S, NEW pre \in Seq(S), NEW x \in Seq(S), NEW n \in 0 .. Len(pre), NEW b \in Seq(S), Apart(b, pre, x)
    PROVE  SubSeq(b, n + 1, Len(b)) = SubSeq(pre, n + 1, Len(pre)) \o x
<1>1. PICK s : s = SubSeq(pre, n + 1, Len(pre))
  OBVIOUS
<1>2. PICK v : v = s \o x
  OBVIOUS
<1>3. PICK u : u = SubSeq(b, n + 1, Len(b))
  OBVIOUS
<1>4. Len(b) = Len(pre) + Len(x) /\ Len(x) \in Nat /\ Len(pre) \in Nat
      /\ (\A i \in 1 .. Len(pre) : b[i] = pre[i]) /\ (\A i \in 1 .. Len(x) : b[Len(pre) + i] = x[i])
  BY DEF Apart
<1>5. s \in Seq(S) /\ Len(s) = Len(pre) - n /\ \A i \in 1 .. Len(pre) - n : s[i] = pre[n + i]
  BY <1>1
<1>6. u \in Seq(S) /\ Len(u) = Len(b) - n /\ \A i \in 1 .. Len(b) - n : u[i] = b[n + i]
  BY <1>3, <1>4
<1>7. v \in Seq(S) /\ Apart(v, s, x)
  BY <1>2, <1>5, Joined
<1>8. Len(v) = Len(s) + Len(x) /\ (\A i \in 1 .. Len(s) : v[i] = s[i]) /\ (\A i \in 1 .. Len(x) : v[Len(s) + i] = x[i])
  BY <1>7 DEF Apart
<1>9. ASSUME NEW i \in 1 .. Len(u) PROVE u[i] = v[i]
  <2>1. CASE i <= Len(pre) - n
    <3>1. i \in 1 .. Len(s) /\ i \in 1 .. Len(pre) - n /\ n + i \in 1 .. Len(pre) /\ i \in 1 .. Len(b) - n
      BY <1>4, <1>5, <1>6, <2>1
    <3> QED  BY <1>4, <1>5, <1>6, <1>8, <3>1
  <2>2. CASE ~(i <= Len(pre) - n)
    <3>1. PICK j \in 1 .. Len(x) : j = i - (Len(pre) - n)
      <4>1. Len(u) = Len(pre) + Len(x) - n
        BY <1>4, <1>6
      <4>2. i - (Len(pre) - n) \in 1 .. Len(x)
        BY <1>4, <2>2, <4>1
      <4> QED  BY <4>2
    <3>2. Len(pre) + j = n + i /\ Len(s) + j = i /\ i \in 1 .. Len(b) - n
      BY <1>4, <1>5, <1>6, <3>1
    <3>3. u[i] = b[n + i] /\ b[Len(pre) + j] = x[j] /\ v[Len(s) + j] = x[j]
      BY <1>4, <1>6, <1>8, <3>2
    <3> QED  BY <3>2, <3>3
  <2> QED  BY <2>1, <2>2
<1>10. Len(u) = Len(v)
  BY <1>4, <1>5, <1>6, <1>8
<1> QED  BY <1>1, <1>2, <1>3, <1>6, <1>7, <1>9, <1>10, SeqEqual

\* Bytes that come fill the item that waits for them.
LEMMA FillsOn ==
    ASSUME NEW pre, NEW r, Fills(pre, r), NEW x \in Seq(Byte)
    PROVE  Fills(pre \o x, More(r, x))
<1>1. PICK b : b = pre \o x
  OBVIOUS
<1>2. pre \in Seq(Byte) /\ b \in Seq(Byte) /\ Apart(b, pre, x)
  BY <1>1, Joined DEF Fills
<1>3. Len(b) = Len(pre) + Len(x) /\ Len(pre) \in Nat /\ Len(x) \in Nat
  BY <1>2 DEF Apart
<1>4. CASE r = TypeItem(pre)
  <2>1. More(r, x) = TypeItem(b)
    BY <1>1, <1>4, Filled DEF TypeItem
  <2> QED  BY <1>1, <1>2, <2>1 DEF Fills
<1>5. CASE Len(pre) >= 2 /\ ~IsShort(pre[1]) /\ r = HeaderItem(pre)
  <2>1. b[1] = pre[1] /\ b[2] = pre[2]
    BY <1>2, <1>5, HeadStays
  <2>2. SubSeq(b, 3, Len(b)) = SubSeq(pre, 3, Len(pre)) \o x
    <3>1. 2 \in 0 .. Len(pre) /\ 2 + 1 = 3
      BY <1>3, <1>5
    <3>2. SubSeq(b, 2 + 1, Len(b)) = SubSeq(pre, 2 + 1, Len(pre)) \o x
      BY <1>2, <3>1, RestGrows
    <3> QED  BY <3>1, <3>2
  <2>3. More(r, x) = HeaderItem(b)
    <3>1. PICK s, u : s = SubSeq(pre, 3, Len(pre)) /\ u = pre[1] * ByteBase + pre[2]
      OBVIOUS
    <3>2. r = Item(3, "HEADER_GOT", u, s) /\ HeaderItem(b) = Item(3, "HEADER_GOT", u, s \o x)
      BY <1>5, <2>1, <2>2, <3>1 DEF HeaderItem
    <3> QED  BY <3>2, Filled
  <2>4. Len(b) >= 2
    BY <1>3, <1>5
  <2> QED  BY <1>1, <1>2, <1>5, <2>1, <2>3, <2>4 DEF Fills
<1>6. CASE Len(pre) >= HeadLen(pre) /\ BodyLen(pre) \in 1 .. Shift[4] - 1 /\ r = PayloadItem(pre)
  <2>1. HeadLen(pre) \in {2, 5}
    BY DEF HeadLen
  <2>2. b[1] = pre[1] /\ HeadLen(b) = HeadLen(pre) /\ BodyLen(b) = BodyLen(pre)
    <3>1. Len(pre) >= 2
      BY <1>3, <1>6, <2>1
    <3> QED  BY <1>2, <1>6, <2>1, <3>1, HeadStays
  <2>3. SubSeq(b, HeadLen(pre) + 1, Len(b)) = SubSeq(pre, HeadLen(pre) + 1, Len(pre)) \o x
    <3>1. HeadLen(pre) \in 0 .. Len(pre)
      BY <1>3, <1>6, <2>1
    <3> QED  BY <1>2, <3>1, RestGrows
  <2>4. More(r, x) = PayloadItem(b)
    <3>1. PICK s, l, u : s = SubSeq(pre, HeadLen(pre) + 1, Len(pre)) /\ l = BodyLen(pre) /\ u = Merged(pre[1], l)
      OBVIOUS
    <3>2. r = Item(l, "BUFFER_GOT", u, s) /\ PayloadItem(b) = Item(l, "BUFFER_GOT", u, s \o x)
      BY <1>6, <2>2, <2>3, <3>1 DEF PayloadItem
    <3> QED  BY <3>2, Filled
  <2>5. Len(b) >= HeadLen(b)
    BY <1>3, <1>6, <2>1, <2>2
  <2> QED  BY <1>1, <1>2, <1>6, <2>2, <2>4, <2>5 DEF Fills
<1> QED  BY <1>4, <1>5, <1>6 DEF Fills

\* The fields of an item, and the item that is queued.
LEMMA ItemIs ==
    \A l, st, u, w : /\ Item(l, st, u, w).length = l /\ Item(l, st, u, w).state = st
                     /\ Item(l, st, u, w).u64 = u /\ Item(l, st, u, w).buffer = w
                     /\ ReadItem(l, st, u) = Item(l, st, u, <<>>)
BY DEF Item, ReadItem

\* Four bytes hold some number.
LEMMA FourBytes == Shift[4] \in Nat \ {0}
<1>1. 4 \in 0 .. 5
  OBVIOUS
<1> QED  BY <1>1, Shifts

\* A round that is complete begins the next one of the packet, or ends it.
Continues(pre, got) == \E r : got = Awaits(r) /\ Begun(pre, r)
Finishes(pre, got) == \E p : got = [next |-> <<NewMessage>>, done |-> <<p>>] /\ Whole(pre, p)

\* Behind all of it there is nothing.
LEMMA NoneBehind == ASSUME NEW S, NEW s \in Seq(S) PROVE SubSeq(s, Len(s) + 1, Len(s)) = <<>>
OBVIOUS

\* What on_received does once the header is read.
HeadRead(pre) ==
    IF BodyLen(pre) = 0
    THEN Processed(GetType(pre[1]), <<>>)
    ELSE Awaits(ReadItem(BodyLen(pre), "BUFFER_GOT", Merged(pre[1], BodyLen(pre))))

\* Either way the packet goes on or is whole.
LEMMA HeadReadGoesOn ==
    ASSUME NEW pre \in Seq(Byte), Len(pre) = HeadLen(pre), BodyLen(pre) \in 0 .. Shift[4] - 1
    PROVE  Continues(pre, HeadRead(pre)) \/ Finishes(pre, HeadRead(pre))
<1>1. SubSeq(pre, HeadLen(pre) + 1, Len(pre)) = <<>> /\ Len(pre) \in Nat
  BY NoneBehind
<1>2. CASE BodyLen(pre) = 0
  <2>1. PICK p : p = Message(GetType(pre[1]), <<>>)
    OBVIOUS
  <2>2. HeadRead(pre) = [next |-> <<NewMessage>>, done |-> <<p>>]
    BY <1>2, <2>1 DEF HeadRead, Processed
  <2>3. p = Understood(pre[1], SubSeq(pre, HeadLen(pre) + 1, Len(pre)))
    BY <1>1, <2>1 DEF Understood
  <2>4. HeadLen(pre) <= Len(pre) /\ Len(pre) = HeadLen(pre) + BodyLen(pre) /\ BodyLen(pre) < Shift[4]
    BY <1>1, <1>2, FourBytes
  <2>5. Whole(pre, p)
    BY <2>3, <2>4, Zenon DEF Whole
  <2> QED  BY <2>2, <2>5 DEF Finishes
<1>3. CASE BodyLen(pre) # 0
  <2>1. PICK r : r = PayloadItem(pre)
    OBVIOUS
  <2>2. r = Item(BodyLen(pre), "BUFFER_GOT", Merged(pre[1], BodyLen(pre)), <<>>)
    BY <1>1, <2>1, Zenon DEF PayloadItem
  <2>3. HeadRead(pre) = Awaits(r)
    BY <1>3, <2>2, ItemIs DEF HeadRead
  <2>4. r.buffer = <<>> /\ r.length = BodyLen(pre)
    BY <2>2, ItemIs
  <2>5. BodyLen(pre) \in 1 .. Shift[4] - 1 /\ Len(r.buffer) < r.length /\ Len(pre) >= HeadLen(pre)
    <3>1. Len(r.buffer) = 0
      BY <2>4
    <3>2. BodyLen(pre) \in 1 .. Shift[4] - 1
      BY <1>3, FourBytes
    <3>3. Len(r.buffer) < r.length
      BY <2>4, <3>1, <3>2, FourBytes
    <3> QED  BY <1>1, <3>2, <3>3
  <2>6. Begun(pre, r)
    BY <2>1, <2>5 DEF Begun, Fills
  <2> QED  BY <2>3, <2>6 DEF Continues
<1> QED  BY <1>2, <1>3

\* The first round: the type, and the length if it is short.
LEMMA TypeRound ==
    ASSUME NEW pre \in Seq(Byte), Len(pre) = 2
    PROVE  Continues(pre, TypeGot(pre)) \/ Finishes(pre, TypeGot(pre))
<1>1. pre[1] \in Byte /\ pre[2] \in Byte
  BY ByteOf
<1>2. CASE IsShort(pre[1])
  <2>1. HeadLen(pre) = 2 /\ BodyLen(pre) = pre[2]
    BY <1>2 DEF HeadLen, BodyLen
  <2>2. BodyLen(pre) \in 0 .. Shift[4] - 1
    <3>1. ByteBase \in Nat /\ Shift[4] \in Nat
      BY FramingAssumption, Shifts
    <3> QED  BY <1>1, <2>1, <3>1, ByteFits DEF Byte
  <2>3. TypeGot(pre) = HeadRead(pre)
    BY <1>2, <2>1 DEF TypeGot, HeadRead
  <2> QED  BY <2>1, <2>2, <2>3, HeadReadGoesOn
<1>3. CASE ~IsShort(pre[1])
  <2>1. PICK r : r = HeaderItem(pre)
    OBVIOUS
  <2>2. SubSeq(pre, 3, Len(pre)) = <<>>
    BY NoneBehind
  <2>3. r = Item(3, "HEADER_GOT", pre[1] * ByteBase + pre[2], <<>>)
    BY <2>1, <2>2, Zenon DEF HeaderItem
  <2>4. TypeGot(pre) = Awaits(r)
    BY <1>3, <2>3, ItemIs DEF TypeGot
  <2>5. r.buffer = <<>> /\ r.length = 3
    BY <2>3, ItemIs
  <2>6. Len(r.buffer) < r.length /\ Len(pre) >= 2
    BY <2>5
  <2>7. Begun(pre, r)
    BY <1>3, <2>1, <2>6 DEF Begun, Fills
  <2> QED  BY <2>4, <2>7 DEF Continues
<1> QED  BY <1>2, <1>3

\* Two bytes kept in an item's state are read back.
LEMMA TwoBytes ==
    ASSUME NEW d \in Nat, NEW n \in 0 .. ByteBase - 1, d <= ByteBase - 1, NEW u, u = d * ByteBase + n
    PROVE  u \div ByteBase = d /\ u % ByteBase = n /\ u % Shift[2] = u
<1>1. ByteBase \in Nat \ {0} /\ Shift[2] = ByteBase * ByteBase
  BY Shifts, FramingAssumption
<1>2. d * ByteBase <= (ByteBase - 1) * ByteBase /\ d * ByteBase \in Nat
  BY <1>1
<1>3. (ByteBase - 1) * ByteBase = ByteBase * ByteBase - ByteBase /\ ByteBase * ByteBase \in Nat \ {0}
  BY <1>1
<1>4. u \in 0 .. Shift[2] - 1 /\ Shift[2] \in Nat \ {0}
  BY <1>1, <1>2, <1>3
<1>5. (0 * Shift[2] + u) % Shift[2] = u /\ 0 * Shift[2] + u = u
  BY <1>4, DivMod
<1>6. u \div ByteBase = d /\ u % ByteBase = n
  BY <1>1, DivMod
<1> QED  BY <1>5, <1>6

\* The second: the other bytes of a long length.
LEMMA HeaderRound ==
    ASSUME NEW pre \in Seq(Byte), Len(pre) = 5, ~IsShort(pre[1]), NEW w, w = SubSeq(pre, 3, 5),
           NEW u, u = pre[1] * ByteBase + pre[2]
    PROVE  Continues(pre, HeaderGot(w, u)) \/ Finishes(pre, HeaderGot(w, u))
<1>1. pre[1] \in Byte /\ pre[2] \in Byte
  BY 1 \in 1 .. Len(pre), 2 \in 1 .. Len(pre), ByteOf
<1>2. PICK d \in Nat, n \in 0 .. ByteBase - 1 : d = pre[1] /\ n = pre[2] /\ d <= ByteBase - 1 /\ ByteBase \in Nat \ {0}
  BY <1>1, FramingAssumption DEF Byte
<1>3. u \div ByteBase = d /\ u % ByteBase = n /\ u % Shift[2] = u
  BY <1>2, TwoBytes
<1>4. <<pre[2]>> \o w = SubSeq(pre, 2, 5)
  <2>1. PICK x : x = <<pre[2]>>
    OBVIOUS
  <2>2. PICK v : v = x \o w
    OBVIOUS
  <2>3. x \in Seq(Byte) /\ Len(x) = 1 /\ x[1] = pre[2]
    BY <1>1, <2>1
  <2>4. w \in Seq(Byte) /\ Len(w) = 3 /\ \A i \in 1 .. 3 : w[i] = pre[2 + i]
    <3>1. /\ SubSeq(pre, 3, 5) \in Seq(Byte) /\ Len(SubSeq(pre, 3, 5)) = 5 - 3 + 1
          /\ \A i \in 1 .. 5 - 3 + 1 : SubSeq(pre, 3, 5)[i] = pre[3 + i - 1]
      BY 3 \in 1 .. Len(pre) + 1, 5 \in 3 - 1 .. Len(pre), PartIs
    <3> QED  BY <3>1
  <2>5. v \in Seq(Byte) /\ Apart(v, x, w)
    BY <2>2, <2>3, <2>4, Joined
  <2>6. Len(v) = 4 /\ v[1] = pre[2] /\ \A i \in 1 .. 3 : v[1 + i] = pre[2 + i]
    BY <2>3, <2>4, <2>5 DEF Apart
  <2>7. /\ SubSeq(pre, 2, 5) \in Seq(Byte) /\ Len(SubSeq(pre, 2, 5)) = 5 - 2 + 1
        /\ \A i \in 1 .. 5 - 2 + 1 : SubSeq(pre, 2, 5)[i] = pre[2 + i - 1]
    BY 2 \in 1 .. Len(pre) + 1, 5 \in 2 - 1 .. Len(pre), PartIs
  <2>8. \A i \in 1 .. 4 : v[i] = SubSeq(pre, 2, 5)[i]
    <3>1. v[1 + 1] = pre[2 + 1] /\ v[1 + 2] = pre[2 + 2] /\ v[1 + 3] = pre[2 + 3]
      BY <2>6
    <3>2. \A i \in 1 .. 4 : i = 1 \/ i = 2 \/ i = 3 \/ i = 4
      OBVIOUS
    <3>3. v[1] = pre[2] /\ v[2] = pre[3] /\ v[3] = pre[4] /\ v[4] = pre[5]
      BY <2>6, <3>1
    <3>4. \A i \in 1 .. 4 : v[i] = pre[i + 1]
      BY <3>2, <3>3
    <3>5. \A i \in 1 .. 4 : SubSeq(pre, 2, 5)[i] = pre[i + 1]
      BY <2>7
    <3> QED  BY <3>4, <3>5
  <2>9. Len(v) = Len(SubSeq(pre, 2, 5)) /\ Len(v) = 4
    BY <2>6, <2>7
  <2>10. v = SubSeq(pre, 2, 5)
    BY <2>5, <2>7, <2>8, <2>9, SeqEqual
  <2> QED  BY <2>1, <2>2, <2>10
<1>5. HeadLen(pre) = 5 /\ BodyLen(pre) = BytesToInt(SubSeq(pre, 2, 5))
  BY DEF HeadLen, BodyLen
<1>6. BodyLen(pre) \in 0 .. Shift[4] - 1
  <2>1. SubSeq(pre, 2, 5) \in Seq(Byte) /\ Len(SubSeq(pre, 2, 5)) = 5 - 2 + 1
    BY 2 \in 1 .. Len(pre) + 1, 5 \in 2 - 1 .. Len(pre), PartIs
  <2>2. Len(SubSeq(pre, 2, 5)) = 4
    BY <2>1
  <2> QED  BY <1>5, <2>1, <2>2, ToIntBound
<1>7. HeaderGot(w, u) = HeadRead(pre)
  <2>1. HeaderLength(w, pre[2]) = BodyLen(pre)
    BY <1>4, <1>5, Zenon DEF HeaderLength
  <2> QED  BY <1>2, <1>3, <2>1 DEF HeaderGot, HeadRead
<1> QED  BY <1>5, <1>6, <1>7, HeadReadGoesOn

\* The third: the payload.
LEMMA PayloadRound ==
    ASSUME NEW pre \in Seq(Byte), Len(pre) = HeadLen(pre) + BodyLen(pre), BodyLen(pre) \in 1 .. Shift[4] - 1,
           NEW w, w = SubSeq(pre, HeadLen(pre) + 1, Len(pre)), NEW u, u = Merged(pre[1], BodyLen(pre))
    PROVE  Finishes(pre, BufferGot(w, u))
<1>1. PICK p : BufferGot(w, u) = [next |-> <<NewMessage>>, done |-> <<p>>]
  BY BufferGotIs
<1>2. BufferGot(w, u).done[1] = p
  BY <1>1
<1>3. HeadLen(pre) \in Nat /\ Len(pre) \in Nat /\ BodyLen(pre) \in Nat \ {0} /\ Shift[4] \in Nat
  <2>1. HeadLen(pre) \in {2, 5}
    BY DEF HeadLen
  <2> QED  BY <2>1, FourBytes
<1>4. HeadLen(pre) <= Len(pre) /\ BodyLen(pre) < Shift[4]
  BY <1>3
<1>5. Len(w) = BodyLen(pre) /\ w # <<>>
  <2>1. HeadLen(pre) + 1 \in 1 .. Len(pre) + 1 /\ Len(pre) \in HeadLen(pre) + 1 - 1 .. Len(pre)
    BY <1>3, <1>4
  <2>2. Len(w) = Len(pre) - (HeadLen(pre) + 1) + 1
    BY <2>1, PartIs
  <2>3. Len(w) = BodyLen(pre)
    BY <1>3, <2>2
  <2> QED  BY <1>3, <2>3
<1>6. Understood(pre[1], w) = p
  BY <1>2, <1>5 DEF Understood
<1>7. Whole(pre, p)
  BY <1>4, <1>6, Zenon DEF Whole
<1> QED  BY <1>1, <1>7 DEF Finishes

\* on_received of an item that is complete.
LEMMA RoundEnds ==
    ASSUME NEW pre, NEW r, Fills(pre, r), Len(r.buffer) = r.length
    PROVE  Continues(pre, OnReceived(r)) \/ Finishes(pre, OnReceived(r))
<1>1. pre \in Seq(Byte) /\ Len(pre) \in Nat
  BY DEF Fills
<1>2. CASE r = TypeItem(pre)
  <2>1. r.length = 2 /\ r.buffer = pre /\ r.state = "TYPE_GOT"
    BY <1>2, ItemIs DEF TypeItem
  <2>2. OnReceived(r) = TypeGot(pre)
    BY <2>1 DEF OnReceived
  <2> QED  BY <1>1, <2>1, <2>2, TypeRound
<1>3. CASE Len(pre) >= 2 /\ ~IsShort(pre[1]) /\ r = HeaderItem(pre)
  <2>1. PICK w, u : w = SubSeq(pre, 3, Len(pre)) /\ u = pre[1] * ByteBase + pre[2]
    OBVIOUS
  <2>2. r.length = 3 /\ r.buffer = w /\ r.state = "HEADER_GOT" /\ r.u64 = u
    <3>1. r = Item(3, "HEADER_GOT", u, w)
      BY <1>3, <2>1 DEF HeaderItem
    <3> QED  BY <3>1, ItemIs
  <2>3. OnReceived(r) = HeaderGot(w, u)
    BY <2>2 DEF OnReceived
  <2>4. Len(pre) = 5
    <3>1. 3 \in 1 .. Len(pre) + 1 /\ Len(pre) \in 3 - 1 .. Len(pre)
      BY <1>1, <1>3
    <3>2. Len(w) = Len(pre) - 3 + 1
      BY <1>1, <2>1, <3>1, PartIs
    <3>3. Len(w) = 3
      BY <2>2
    <3>4. \A k \in Nat : 3 = k - 3 + 1 => k = 5
      OBVIOUS
    <3> QED  BY <1>1, <3>2, <3>3, <3>4
  <2> QED  BY <1>1, <1>3, <2>1, <2>3, <2>4, HeaderRound
<1>4. CASE Len(pre) >= HeadLen(pre) /\ BodyLen(pre) \in 1 .. Shift[4] - 1 /\ r = PayloadItem(pre)
  <2>1. PICK w, u, l : w = SubSeq(pre, HeadLen(pre) + 1, Len(pre)) /\ l = BodyLen(pre) /\ u = Merged(pre[1], l)
    OBVIOUS
  <2>2. r.length = l /\ r.buffer = w /\ r.state = "BUFFER_GOT" /\ r.u64 = u
    <3>1. r = Item(l, "BUFFER_GOT", u, w)
      BY <1>4, <2>1 DEF PayloadItem
    <3> QED  BY <3>1, ItemIs
  <2>3. OnReceived(r) = BufferGot(w, u)
    BY <2>2 DEF OnReceived
  <2>4. Len(pre) = HeadLen(pre) + BodyLen(pre)
    <3>1. HeadLen(pre) \in {2, 5}
      BY DEF HeadLen
    <3>2. HeadLen(pre) + 1 \in 1 .. Len(pre) + 1 /\ Len(pre) \in HeadLen(pre) + 1 - 1 .. Len(pre)
      BY <1>1, <1>4, <3>1
    <3>3. Len(w) = Len(pre) - (HeadLen(pre) + 1) + 1
      BY <1>1, <2>1, <3>2, PartIs
    <3>4. l \in Nat
      BY <1>4, <2>1, FourBytes
    <3> QED  BY <1>1, <2>1, <2>2, <3>1, <3>3, <3>4
  <2> QED  BY <1>1, <1>4, <2>1, <2>3, <2>4, PayloadRound
<1> QED  BY <1>2, <1>3, <1>4 DEF Fills

----------------------------------------------------------------------------
(* A stream of whole packets.                                              *)

\* cut tells where in s each of the packets ps ends.
Cuts(cut, s, ps) ==
    /\ cut \in [0 .. Len(ps) -> 0 .. Len(s)]
    /\ cut[0] = 0 /\ cut[Len(ps)] = Len(s)
    /\ \A i, j \in 0 .. Len(ps) : i < j => cut[i] < cut[j]
    /\ \A i \in 1 .. Len(ps) : Whole(SubSeq(s, cut[i - 1] + 1, cut[i]), ps[i])

\* s is the packets ps one after the other.
Stream(s, ps) == \E cut : Cuts(cut, s, ps)

\* A sequence falls apart at each of its places.
LEMMA Split ==
    ASSUME NEW S, NEW s \in Seq(S), NEW n \in 0 .. Len(s)
    PROVE  /\ SubSeq(s, 1, n) \in Seq(S) /\ SubSeq(s, n + 1, Len(s)) \in Seq(S) /\ Len(SubSeq(s, 1, n)) = n
           /\ Apart(s, SubSeq(s, 1, n), SubSeq(s, n + 1, Len(s)))
           /\ s = SubSeq(s, 1, n) \o SubSeq(s, n + 1, Len(s))
<1>0. PICK h, w : h = SubSeq(s, 1, n) /\ w = SubSeq(s, n + 1, Len(s))
  OBVIOUS
<1>1. n \in Nat /\ Len(s) \in Nat /\ n <= Len(s)
  OBVIOUS
<1>2. h \in Seq(S) /\ Len(h) = n /\ \A i \in 1 .. n : h[i] = s[i]
  <2>1. 1 \in 1 .. Len(s) + 1 /\ n \in 1 - 1 .. Len(s)
    BY <1>1
  <2>2. /\ SubSeq(s, 1, n) \in Seq(S) /\ Len(SubSeq(s, 1, n)) = n - 1 + 1
        /\ \A i \in 1 .. n - 1 + 1 : SubSeq(s, 1, n)[i] = s[1 + i - 1]
    BY <2>1, PartIs
  <2> QED  BY <1>0, <1>1, <2>2
<1>3. w \in Seq(S) /\ Len(w) = Len(s) - n /\ \A i \in 1 .. Len(s) - n : w[i] = s[n + i]
  <2>1. n + 1 \in 1 .. Len(s) + 1 /\ Len(s) \in n + 1 - 1 .. Len(s)
    BY <1>1
  <2>2. /\ SubSeq(s, n + 1, Len(s)) \in Seq(S) /\ Len(SubSeq(s, n + 1, Len(s))) = Len(s) - (n + 1) + 1
        /\ \A i \in 1 .. Len(s) - (n + 1) + 1 : SubSeq(s, n + 1, Len(s))[i] = s[n + 1 + i - 1]
    BY <2>1, PartIs
  <2>3. Len(s) - (n + 1) + 1 = Len(s) - n /\ \A i \in 1 .. Len(s) - n : n + 1 + i - 1 = n + i
    BY <1>1
  <2> QED  BY <1>0, <2>2, <2>3
<1>4. Apart(s, h, w)
  <2>0. Len(h) = n /\ Len(w) = Len(s) - n
    BY <1>2, <1>3
  <2>1. Len(s) = Len(h) + Len(w)
    <3>1. \A k, l : k = n /\ l = Len(s) - n => Len(s) = k + l
      BY <1>1
    <3> QED  BY <2>0, <3>1
  <2>2. \A i \in 1 .. Len(h) : s[i] = h[i]
    BY <1>2
  <2>3. ASSUME NEW i \in 1 .. Len(w) PROVE s[Len(h) + i] = w[i]
    <3>1. i \in 1 .. Len(s) - n
      BY <2>0
    <3> QED  BY <1>3, <2>0, <3>1
  <2>4. SubSeq(s, Len(h) + 1, Len(s)) = w /\ SubSeq(s, 1, Len(h)) = h
    BY <1>0, <1>2
  <2> QED  BY <2>1, <2>2, <2>3, <2>4, Zenon DEF Apart
<1>5. s = h \o w
  <2>1. 1 \in 1 .. Len(s) + 1 /\ n \in 1 - 1 .. Len(s) /\ Len(s) \in n .. Len(s)
    BY <1>1
  <2>2. SubSeq(s, 1, n) \o SubSeq(s, n + 1, Len(s)) = SubSeq(s, 1, Len(s))
    BY <2>1, ConcatAdjacentSubSeq
  <2> QED  BY <1>0, <2>2, SubSeqFull
<1> QED  BY <1>0, <1>2, <1>3, <1>4, <1>5

\* A part of the second half is a part of the whole.
LEMMA PartShifts ==
    ASSUME NEW S, NEW h \in Seq(S), NEW w \in Seq(S), NEW b \in Seq(S), Apart(b, h, w),
           NEW m \in 1 .. Len(w) + 1, NEW n \in m - 1 .. Len(w)
    PROVE  SubSeq(w, m, n) = SubSeq(b, Len(h) + m, Len(h) + n)
<1>1. Len(b) = Len(h) + Len(w) /\ Len(h) \in Nat /\ Len(w) \in Nat /\ \A i \in 1 .. Len(w) : b[Len(h) + i] = w[i]
  BY DEF Apart
<1>2. PICK x, y \in Nat : x = Len(h) + m /\ y = Len(h) + n
  BY <1>1
<1>3. x \in 1 .. Len(b) + 1 /\ y \in x - 1 .. Len(b)
  BY <1>1, <1>2
<1>4. /\ SubSeq(b, x, y) \in Seq(S) /\ Len(SubSeq(b, x, y)) = y - x + 1
      /\ \A i \in 1 .. y - x + 1 : SubSeq(b, x, y)[i] = b[x + i - 1]
  BY <1>3, PartIs
<1>5. /\ SubSeq(w, m, n) \in Seq(S) /\ Len(SubSeq(w, m, n)) = n - m + 1
      /\ \A i \in 1 .. n - m + 1 : SubSeq(w, m, n)[i] = w[m + i - 1]
  BY PartIs
<1>6. y - x + 1 = n - m + 1
  BY <1>1, <1>2
<1>7. ASSUME NEW i \in 1 .. n - m + 1 PROVE SubSeq(b, x, y)[i] = SubSeq(w, m, n)[i]
  <2>1. PICK j \in 1 .. Len(w) : j = m + i - 1
    BY <1>1
  <2>2. x + i - 1 = Len(h) + j
    BY <1>1, <1>2, <2>1
  <2>3. SubSeq(b, x, y)[i] = b[x + i - 1] /\ SubSeq(w, m, n)[i] = w[j]
    BY <1>4, <1>5, <1>6, <2>1
  <2> QED  BY <1>1, <2>2, <2>3
<1>8. SubSeq(b, x, y) = SubSeq(w, m, n)
  BY <1>4, <1>5, <1>6, <1>7, SeqEqual
<1> QED  BY <1>2, <1>8

\* Nothing is a stream of no packets, and of no others.
LEMMA StreamNone == Stream(<<>>, <<>>)
<1>1. Cuts([i \in 0 .. 0 |-> 0], <<>>, <<>>)
  BY DEF Cuts
<1> QED  BY <1>1 DEF Stream

\* And a stream is nothing only when it has no packets.
LEMMA StreamEnds ==
    ASSUME NEW S, NEW T, NEW s \in Seq(S), NEW ps \in Seq(T), Stream(s, ps)
    PROVE  s = <<>> <=> ps = <<>>
<1>1. PICK cut : Cuts(cut, s, ps)
  BY DEF Stream
<1>2. Len(s) \in Nat /\ Len(ps) \in Nat /\ (s = <<>> <=> Len(s) = 0) /\ (ps = <<>> <=> Len(ps) = 0)
  OBVIOUS
<1>3. cut[0] = 0 /\ cut[Len(ps)] = Len(s) /\ (0 < Len(ps) => cut[0] < cut[Len(ps)])
  BY <1>1, <1>2 DEF Cuts
<1> QED  BY <1>2, <1>3

\* A packet more.
LEMMA StreamPut ==
    ASSUME NEW T, NEW s \in Seq(Byte), NEW ps \in Seq(T), NEW b, NEW p \in T, Stream(s, ps), Whole(b, p)
    PROVE  Stream(s \o b, Append(ps, p))
<1>1. PICK cut : Cuts(cut, s, ps)
  BY DEF Stream
<1>2. PICK v, qs : v = s \o b /\ qs = Append(ps, p)
  OBVIOUS
<1>3. b \in Seq(Byte) /\ Len(b) >= 2 /\ Len(b) \in Nat /\ Len(s) \in Nat
  <2>1. HeadLen(b) \in {2, 5}
    BY DEF HeadLen
  <2> QED  BY <2>1 DEF Whole
<1>4. v \in Seq(Byte) /\ Apart(v, s, b)
  BY <1>2, <1>3, Joined
<1>5. Len(v) = Len(s) + Len(b) /\ SubSeq(v, Len(s) + 1, Len(v)) = b
  BY <1>4 DEF Apart
<1>6. PICK n \in Nat : n = Len(ps)
  OBVIOUS
<1>7. Len(qs) = n + 1 /\ qs[n + 1] = p /\ \A i \in 1 .. n : qs[i] = ps[i]
  BY <1>2, <1>6
<1>8. /\ cut \in [0 .. n -> 0 .. Len(s)] /\ cut[0] = 0 /\ cut[n] = Len(s)
      /\ \A i, j \in 0 .. n : i < j => cut[i] < cut[j]
      /\ \A i \in 1 .. n : Whole(SubSeq(s, cut[i - 1] + 1, cut[i]), ps[i])
  BY <1>1, <1>6 DEF Cuts
<1>9. PICK new : new = [i \in 0 .. n + 1 |-> IF i <= n THEN cut[i] ELSE Len(v)]
  OBVIOUS
<1>10. new[n + 1] = Len(v) /\ \A i \in 0 .. n : new[i] = cut[i]
  BY <1>9
<1>11. \A i \in 0 .. n : cut[i] \in 0 .. Len(s)
  BY <1>8
<1>12. new \in [0 .. n + 1 -> 0 .. Len(v)]
  <2>1. \A i \in 0 .. n : cut[i] \in 0 .. Len(v)
    BY <1>3, <1>5, <1>11
  <2>2. Len(v) \in 0 .. Len(v)
    BY <1>3, <1>5
  <2> QED  BY <1>9, <2>1, <2>2
<1>13. new[0] = 0
  BY <1>8, <1>10
<1>14. ASSUME NEW i \in 0 .. n + 1, NEW j \in 0 .. n + 1, i < j PROVE new[i] < new[j]
  <2>1. i \in 0 .. n
    BY <1>14
  <2>2. CASE j \in 0 .. n
    BY <1>8, <1>10, <1>14, <2>1, <2>2
  <2>3. CASE j = n + 1
    <3>1. cut[i] \in 0 .. Len(s)
      BY <1>11, <2>1
    <3> QED  BY <1>3, <1>5, <1>10, <2>1, <2>3, <3>1
  <2> QED  BY <2>2, <2>3
<1>15. ASSUME NEW i \in 1 .. n + 1 PROVE Whole(SubSeq(v, new[i - 1] + 1, new[i]), qs[i])
  <2>1. CASE i \in 1 .. n
    <3>1. i - 1 \in 0 .. n /\ i \in 0 .. n /\ i - 1 < i
      BY <2>1
    <3>2. PICK x, y \in 0 .. Len(s) : x = cut[i - 1] /\ y = cut[i] /\ x < y
      BY <1>8, <1>11, <3>1
    <3>3. Whole(SubSeq(s, x + 1, y), ps[i])
      BY <1>8, <2>1, <3>2
    <3>4. x + 1 \in 1 .. Len(s) + 1 /\ y \in x + 1 - 1 .. Len(s)
      BY <1>3, <3>2
    <3>5. SubSeq(v, x + 1, y) = SubSeq(s, x + 1, y)
      BY <1>3, <1>4, <3>4, PartStays
    <3> QED  BY <1>7, <1>10, <2>1, <3>1, <3>2, <3>3, <3>5
  <2>2. CASE i = n + 1
    <3>1. i - 1 = n /\ n \in 0 .. n
      BY <2>2
    <3>2. new[i - 1] = Len(s) /\ new[i] = Len(v) /\ qs[i] = p
      BY <1>7, <1>8, <1>10, <2>2, <3>1
    <3> QED  BY <1>5, <3>2
  <2> QED  BY <2>1, <2>2
<1>16. Cuts(new, v, qs)
  <2>1. new \in [0 .. Len(qs) -> 0 .. Len(v)]
    BY <1>7, <1>12
  <2>2. new[0] = 0 /\ new[Len(qs)] = Len(v)
    BY <1>7, <1>10, <1>13
  <2>3. \A i, j \in 0 .. Len(qs) : i < j => new[i] < new[j]
    BY <1>7, <1>14
  <2>4. \A i \in 1 .. Len(qs) : Whole(SubSeq(v, new[i - 1] + 1, new[i]), qs[i])
    BY <1>7, <1>15
  <2> QED  BY <2>1, <2>2, <2>3, <2>4 DEF Cuts
<1> QED  BY <1>2, <1>16 DEF Stream

\* Two packets at the head of a stream are as long as each other: what ends one is
\* in its own header.
LEMMA OneLength ==
    ASSUME NEW s \in Seq(Byte), NEW b \in Seq(Byte), NEW x \in Seq(Byte), Apart(s, b, x), NEW p, Whole(b, p)
    PROVE  Len(b) = HeadLen(s) + BodyLen(s)
<1>1. HeadLen(b) \in {2, 5} /\ HeadLen(b) <= Len(b) /\ Len(b) = HeadLen(b) + BodyLen(b) /\ Len(b) \in Nat
  BY DEF Whole, HeadLen
<1>2. Len(b) >= 2 /\ Len(b) >= HeadLen(b)
  BY <1>1
<1>3. HeadLen(s) = HeadLen(b) /\ BodyLen(s) = BodyLen(b)
  BY <1>2, HeadStays
<1> QED  BY <1>1, <1>3

\* So a whole packet at the head of a stream is the stream's first.
LEMMA FirstOf ==
    ASSUME NEW T, NEW s \in Seq(Byte), NEW ps \in Seq(T), Stream(s, ps),
           NEW b \in Seq(Byte), NEW w \in Seq(Byte), Apart(s, b, w), NEW p, Whole(b, p)
    PROVE  ps # <<>> /\ ps[1] = p /\ Stream(w, Tail(ps))
<1>1. PICK cut : Cuts(cut, s, ps)
  BY DEF Stream
<1>2. Len(b) \in Nat /\ Len(w) \in Nat /\ Len(b) >= 2 /\ Len(s) = Len(b) + Len(w)
  <2>1. HeadLen(b) \in {2, 5}
    BY DEF HeadLen
  <2> QED  BY <2>1 DEF Whole, Apart
<1>3. ps # <<>>
  <2>1. s # <<>>
    BY <1>2
  <2> QED  BY <2>1, StreamEnds
<1>4. PICK n \in Nat \ {0} : n = Len(ps)
  BY <1>3
<1>5. /\ cut \in [0 .. n -> 0 .. Len(s)] /\ cut[0] = 0 /\ cut[n] = Len(s)
      /\ \A i, j \in 0 .. n : i < j => cut[i] < cut[j]
      /\ \A i \in 1 .. n : Whole(SubSeq(s, cut[i - 1] + 1, cut[i]), ps[i])
  BY <1>1, <1>4 DEF Cuts
<1>6. PICK c \in 0 .. Len(s) : c = cut[1]
  <2>1. 1 \in 0 .. n
    BY <1>4
  <2> QED  BY <1>5, <2>1
<1>7. Whole(SubSeq(s, 1, c), ps[1])
  <2>1. 1 \in 1 .. n /\ 1 - 1 = 0 /\ 0 + 1 = 1
    BY <1>4
  <2>2. Whole(SubSeq(s, cut[1 - 1] + 1, cut[1]), ps[1])
    BY <1>5, <2>1
  <2> QED  BY <1>5, <1>6, <2>1, <2>2
<1>8. c = Len(b)
  <2>1. PICK f, x : f = SubSeq(s, 1, c) /\ x = SubSeq(s, c + 1, Len(s))
    OBVIOUS
  <2>2. f \in Seq(Byte) /\ x \in Seq(Byte) /\ Len(f) = c /\ Apart(s, f, x)
    <3>1. /\ SubSeq(s, 1, c) \in Seq(Byte) /\ SubSeq(s, c + 1, Len(s)) \in Seq(Byte) /\ Len(SubSeq(s, 1, c)) = c
          /\ Apart(s, SubSeq(s, 1, c), SubSeq(s, c + 1, Len(s)))
      BY <1>6, Split
    <3> QED  BY <2>1, <3>1
  <2>3. Len(f) = HeadLen(s) + BodyLen(s)
    BY <1>7, <2>1, <2>2, OneLength
  <2>4. Len(b) = HeadLen(s) + BodyLen(s)
    BY OneLength
  <2> QED  BY <2>2, <2>3, <2>4
<1>9. ps[1] = p
  <2>1. SubSeq(s, 1, c) = b
    BY <1>8 DEF Apart
  <2> QED  BY <1>7, <2>1 DEF Whole
<1>10. PICK qs : qs = Tail(ps)
  OBVIOUS
<1>11. Len(qs) = n - 1 /\ \A i \in 1 .. n - 1 : qs[i] = ps[i + 1]
  BY <1>3, <1>4, <1>10
<1>12. ASSUME NEW i \in 0 .. n - 1 PROVE cut[i + 1] - c \in 0 .. Len(w) /\ cut[i + 1] \in Nat
  <2>1. i + 1 \in 0 .. n /\ 1 \in 0 .. n
    BY <1>4
  <2>2. PICK x \in 0 .. Len(s) : x = cut[i + 1]
    BY <1>5, <2>1
  <2>3. x >= c
    <3>1. CASE i = 0
      BY <1>6, <2>2, <3>1
    <3>2. CASE i # 0
      <4>1. 1 < i + 1
        BY <3>2
      <4>2. cut[1] < cut[i + 1]
        BY <1>5, <2>1, <4>1
      <4> QED  BY <1>2, <1>6, <2>2, <4>2
    <3> QED  BY <3>1, <3>2
  <2> QED  BY <1>2, <1>8, <2>2, <2>3
<1>13. PICK new : new = [i \in 0 .. n - 1 |-> cut[i + 1] - c]
  OBVIOUS
<1>14. new \in [0 .. n - 1 -> 0 .. Len(w)] /\ \A i \in 0 .. n - 1 : new[i] = cut[i + 1] - c
  BY <1>12, <1>13
<1>15. new[0] = 0 /\ new[n - 1] = Len(w)
  <2>1. 0 \in 0 .. n - 1 /\ n - 1 \in 0 .. n - 1 /\ 0 + 1 = 1 /\ n - 1 + 1 = n
    BY <1>4
  <2>2. new[0] = cut[0 + 1] - c /\ new[n - 1] = cut[n - 1 + 1] - c
    BY <1>14, <2>1
  <2>3. new[0] = c - c /\ new[n - 1] = Len(s) - c
    BY <1>5, <1>6, <2>1, <2>2
  <2> QED  BY <1>2, <1>8, <2>3
<1>16. ASSUME NEW i \in 0 .. n - 1, NEW j \in 0 .. n - 1, i < j PROVE new[i] < new[j]
  <2>1. i + 1 \in 0 .. n /\ j + 1 \in 0 .. n /\ i + 1 < j + 1
    BY <1>4, <1>16
  <2>2. cut[i + 1] < cut[j + 1]
    BY <1>5, <2>1
  <2>3. cut[i + 1] \in Nat /\ cut[j + 1] \in Nat
    BY <1>12
  <2>4. new[i] = cut[i + 1] - c /\ new[j] = cut[j + 1] - c
    BY <1>14, <1>16
  <2>5. c \in Nat
    BY <1>2, <1>8
  <2> QED  BY <2>2, <2>3, <2>4, <2>5
<1>17. ASSUME NEW i \in 1 .. n - 1 PROVE Whole(SubSeq(w, new[i - 1] + 1, new[i]), qs[i])
  <2>1. i - 1 \in 0 .. n - 1 /\ i \in 0 .. n - 1 /\ i + 1 \in 1 .. n /\ i - 1 + 1 = i /\ i + 1 - 1 = i /\ i - 1 < i
    BY <1>4
  <2>2. PICK x, y \in 0 .. Len(w) : x = new[i - 1] /\ y = new[i] /\ x < y
    BY <1>14, <1>16, <2>1
  <2>3. Whole(SubSeq(s, cut[i] + 1, cut[i + 1]), ps[i + 1])
    <3>1. Whole(SubSeq(s, cut[i + 1 - 1] + 1, cut[i + 1]), ps[i + 1])
      BY <1>5, <2>1
    <3> QED  BY <2>1, <3>1
  <2>4. cut[i] = c + x /\ cut[i + 1] = c + y
    <3>1. new[i - 1] = cut[i - 1 + 1] - c /\ new[i] = cut[i + 1] - c
      BY <1>14, <2>1
    <3>2. cut[i - 1 + 1] \in Nat /\ cut[i + 1] \in Nat
      BY <1>12, <2>1
    <3>3. x = cut[i] - c /\ cut[i] \in Nat
      BY <2>1, <2>2, <3>1, <3>2
    <3> QED  BY <1>2, <1>8, <2>2, <3>1, <3>2, <3>3, SMTT(30)
  <2>5. x + 1 \in 1 .. Len(w) + 1 /\ y \in x + 1 - 1 .. Len(w)
    BY <1>2, <2>2
  <2>6. SubSeq(w, x + 1, y) = SubSeq(s, c + (x + 1), c + y)
    <3>1. PICK z : z = x + 1
      OBVIOUS
    <3>2. z \in 1 .. Len(w) + 1 /\ y \in z - 1 .. Len(w)
      BY <2>5, <3>1
    <3>3. SubSeq(w, z, y) = SubSeq(s, Len(b) + z, Len(b) + y)
      BY <3>2, PartShifts
    <3> QED  BY <1>8, <3>1, <3>3
  <2>7. c + (x + 1) = cut[i] + 1
    BY <1>2, <1>8, <2>2, <2>4
  <2> QED  BY <1>11, <2>2, <2>3, <2>4, <2>6, <2>7
<1>18. Cuts(new, w, qs)
  <2>1. new \in [0 .. Len(qs) -> 0 .. Len(w)]
    BY <1>11, <1>14
  <2>2. new[0] = 0 /\ new[Len(qs)] = Len(w)
    BY <1>11, <1>15
  <2>3. \A i, j \in 0 .. Len(qs) : i < j => new[i] < new[j]
    BY <1>11, <1>16
  <2>4. \A i \in 1 .. Len(qs) : Whole(SubSeq(w, new[i - 1] + 1, new[i]), qs[i])
    BY <1>11, <1>17
  <2> QED  BY <2>1, <2>2, <2>3, <2>4 DEF Cuts
<1> QED  BY <1>3, <1>9, <1>10, <1>18 DEF Stream

----------------------------------------------------------------------------
(* A read on the stream.                                                   *)

\* Two bytes fit the state of an item.
LEMMA TwoBytesFit ==
    ASSUME NEW d \in Byte, NEW n \in Byte
    PROVE  d * ByteBase + n \in 0 .. Shift[5] - 1
<1>1. ByteBase \in Nat \ {0} /\ d \in 0 .. ByteBase - 1 /\ n \in 0 .. ByteBase - 1
  BY FramingAssumption DEF Byte
<1>2. n < Shift[4]
  BY <1>1, ByteFits, FourBytes
<1>3. Merged(d, n) \in 0 .. Shift[5] - 1
  BY <1>1, <1>2, MergedApart
<1>4. ByteBase <= Shift[4]
  BY <1>1, ByteFits, FourBytes
<1>5. PICK s \in Nat : s = Shift[4] /\ ByteBase <= s
  BY <1>4, FourBytes
<1>6. d * ByteBase <= d * s /\ d * ByteBase \in Nat /\ d * s \in Nat
  BY <1>1, <1>5
<1>7. d * s + n \in 0 .. Shift[5] - 1
  BY <1>3, <1>5 DEF Merged
<1>8. PICK a, e \in Nat : a = d * ByteBase /\ e = d * s /\ a <= e
  BY <1>6
<1>9. Shift[5] \in Nat
  BY 5 \in 0 .. 5, Shifts
<1>10. e + n \in 0 .. Shift[5] - 1 /\ n \in Nat
  BY <1>1, <1>7, <1>8
<1>11. a + n \in 0 .. Shift[5] - 1
  BY <1>8, <1>9, <1>10
<1> QED  BY <1>8, <1>11

\* In what order the parts are put together does not matter.
LEMMA OneAfterOther ==
    ASSUME NEW a \in Seq(Byte), NEW b \in Seq(Byte), NEW c \in Seq(Byte)
    PROVE  (a \o b) \o c = a \o (b \o c)
BY ConcatAssociative

\* An item has its types, and its state the 40 bits of u64.
LEMMA ItemTypes ==
    ASSUME NEW pre, NEW r, Fills(pre, r)
    PROVE  \E l \in Nat, st \in {"TYPE_GOT", "HEADER_GOT", "BUFFER_GOT"}, u \in 0 .. Shift[5] - 1, w \in Seq(Byte) :
              r = Item(l, st, u, w)
<1>1. pre \in Seq(Byte) /\ Len(pre) \in Nat
  BY DEF Fills
<1>2. CASE r = TypeItem(pre)
  <2>1. 0 \in 0 .. Shift[5] - 1
    <3>1. 5 \in 0 .. 5
      OBVIOUS
    <3>2. Shift[5] \in Nat \ {0}
      BY <3>1, Shifts
    <3> QED  BY <3>2
  <2> QED  BY <1>1, <1>2, <2>1 DEF TypeItem
<1>3. CASE Len(pre) >= 2 /\ ~IsShort(pre[1]) /\ r = HeaderItem(pre)
  <2>1. pre[1] \in Byte /\ pre[2] \in Byte
    BY <1>1, <1>3, 1 \in 1 .. Len(pre), 2 \in 1 .. Len(pre), ByteOf
  <2>2. SubSeq(pre, 3, Len(pre)) \in Seq(Byte)
    BY <1>1, <1>3, 3 \in 1 .. Len(pre) + 1, Len(pre) \in 3 - 1 .. Len(pre), PartIs
  <2>3. pre[1] * ByteBase + pre[2] \in 0 .. Shift[5] - 1
    BY <2>1, TwoBytesFit
  <2> QED  BY <1>3, <2>2, <2>3 DEF HeaderItem
<1>4. CASE Len(pre) >= HeadLen(pre) /\ BodyLen(pre) \in 1 .. Shift[4] - 1 /\ r = PayloadItem(pre)
  <2>1. HeadLen(pre) \in {2, 5}
    BY DEF HeadLen
  <2>2. SubSeq(pre, HeadLen(pre) + 1, Len(pre)) \in Seq(Byte)
    <3>1. HeadLen(pre) + 1 \in 1 .. Len(pre) + 1 /\ Len(pre) \in HeadLen(pre) + 1 - 1 .. Len(pre)
      BY <1>1, <1>4, <2>1
    <3> QED  BY <1>1, <3>1, PartIs
  <2>3. pre[1] \in Byte
    <3>1. 1 \in 1 .. Len(pre)
      BY <1>1, <1>4, <2>1
    <3> QED  BY <1>1, <3>1, ByteOf
  <2>4. BodyLen(pre) \in Nat /\ BodyLen(pre) < Shift[4]
    BY <1>4, FourBytes
  <2>5. Merged(pre[1], BodyLen(pre)) \in 0 .. Shift[5] - 1
    BY <2>3, <2>4, MergedApart
  <2> QED  BY <1>4, <2>2, <2>4, <2>5 DEF PayloadItem
<1> QED  BY <1>2, <1>3, <1>4 DEF Fills

\* The item of a packet of which nothing is read.
LEMMA NewIs ==
    /\ Begun(<<>>, NewMessage)
    /\ \A pre, r : Begun(pre, r) /\ (pre = <<>> \/ r = NewMessage) => pre = <<>> /\ r = NewMessage
<1>1. NewMessage = TypeItem(<<>>) /\ NewMessage = Item(2, "TYPE_GOT", 0, <<>>)
  BY ItemIs DEF NewMessage, TypeItem
<1>2. Begun(<<>>, NewMessage)
  <2>1. NewMessage.buffer = <<>> /\ NewMessage.length = 2
    BY <1>1, ItemIs
  <2>2. <<>> \in Seq(Byte) /\ Len(NewMessage.buffer) < NewMessage.length
    BY <2>1
  <2> QED  BY <1>1, <2>2 DEF Begun, Fills
<1>3. ASSUME NEW pre, NEW r, Begun(pre, r), pre = <<>> PROVE r = NewMessage
  <2>1. Len(pre) = 0 /\ HeadLen(pre) \in {2, 5}
    BY <1>3 DEF HeadLen
  <2>2. ~(Len(pre) >= 2) /\ ~(Len(pre) >= HeadLen(pre))
    BY <2>1
  <2> QED  BY <1>1, <1>3, <2>2 DEF Begun, Fills
<1>4. ASSUME NEW pre, NEW r, Begun(pre, r), r = NewMessage PROVE pre = <<>>
  <2>1. r.state = "TYPE_GOT" /\ r.buffer = <<>>
    BY <1>1, <1>4, ItemIs
  <2>2. r # HeaderItem(pre) /\ r # PayloadItem(pre)
    <3>1. HeaderItem(pre).state = "HEADER_GOT" /\ PayloadItem(pre).state = "BUFFER_GOT"
      BY ItemIs DEF HeaderItem, PayloadItem
    <3> QED  BY <2>1, <3>1
  <2>3. r = TypeItem(pre)
    BY <1>4, <2>2 DEF Begun, Fills
  <2>4. r.buffer = pre
    BY <2>3, ItemIs DEF TypeItem
  <2> QED  BY <2>1, <2>4
<1> QED  BY <1>2, <1>3, <1>4

\* What a read makes of the item, of what of its packet is read and of the packets to come.
StillBegun(pre, item, w, ps) ==
    Len(item.buffer) < item.length /\ Begun(pre, item) /\ Stream(pre \o w, ps)
RoundOn(pre, item, w, ps) ==
    /\ ~(Len(item.buffer) < item.length)
    /\ \E r : OnReceived(item) = Awaits(r) /\ Begun(pre, r) /\ Stream(pre \o w, ps)
RoundLast(item, w, ps) ==
    /\ ~(Len(item.buffer) < item.length) /\ ps # <<>>
    /\ OnReceived(item) = [next |-> <<NewMessage>>, done |-> <<ps[1]>>] /\ Stream(w, Tail(ps))

\* A read takes bytes from the stream to the item, and a complete packet from it.
LEMMA ReadAdvances ==
    ASSUME NEW pre, NEW r, Begun(pre, r), NEW x \in Seq(Byte), NEW w \in Seq(Byte), Len(x) <= r.length - Len(r.buffer),
           NEW T, NEW ps \in Seq(T), Stream(pre \o (x \o w), ps)
    PROVE  \/ StillBegun(pre \o x, More(r, x), w, ps)
           \/ RoundOn(pre \o x, More(r, x), w, ps)
           \/ RoundLast(More(r, x), w, ps)
<1>1. PICK l \in Nat, st \in {"TYPE_GOT", "HEADER_GOT", "BUFFER_GOT"}, u \in 0 .. Shift[5] - 1, b \in Seq(Byte) :
        r = Item(l, st, u, b)
  BY ItemTypes DEF Begun
<1>2. PICK item, c, got : item = More(r, x) /\ c = pre \o x /\ got = OnReceived(item)
  OBVIOUS
<1>3. item.length = r.length /\ item.buffer = r.buffer \o x /\ r.length = l /\ r.buffer = b
  <2>1. PICK z : z = b \o x
    OBVIOUS
  <2>2. item = Item(l, st, u, z)
    BY <1>1, <1>2, <2>1, Filled
  <2>3. r.length = l /\ r.buffer = b
    BY <1>1, ItemIs
  <2>4. item.length = l /\ item.buffer = z
    BY <2>2, ItemIs
  <2> QED  BY <2>1, <2>3, <2>4
<1>4. Len(item.buffer) = Len(b) + Len(x) /\ Len(b) \in Nat /\ Len(x) \in Nat
  <2>1. Len(b \o x) = Len(b) + Len(x)
    OBVIOUS
  <2> QED  BY <1>3, <2>1
<1>5. pre \in Seq(Byte) /\ c \in Seq(Byte) /\ Fills(c, item)
  <2>1. Fills(c, item)
    BY <1>2, FillsOn DEF Begun
  <2> QED  BY <2>1 DEF Begun, Fills
<1>6. Stream(c \o w, ps)
  <2>1. (pre \o x) \o w = pre \o (x \o w)
    <3>1. pre \in Seq(Byte)
      BY <1>5
    <3> QED  BY <3>1, OneAfterOther
  <2> QED  BY <1>2, <2>1
<1>7. CASE Len(item.buffer) < item.length
  BY <1>2, <1>5, <1>6, <1>7 DEF StillBegun, Begun
<1>8. CASE ~(Len(item.buffer) < item.length)
  <2>1. Len(item.buffer) = item.length
    <3>1. Len(x) <= l - Len(b)
      BY <1>3
    <3>2. ~(Len(b) + Len(x) < l)
      BY <1>3, <1>4, <1>8
    <3>3. Len(b) + Len(x) = l
      BY <1>1, <1>4, <3>1, <3>2
    <3> QED  BY <1>3, <1>4, <3>3
  <2>2. Continues(c, got) \/ Finishes(c, got)
    BY <1>2, <1>5, <2>1, RoundEnds
  <2>3. CASE Continues(c, got)
    BY <1>2, <1>6, <1>8, <2>3 DEF Continues, RoundOn
  <2>4. CASE Finishes(c, got)
    <3>1. PICK p : got = [next |-> <<NewMessage>>, done |-> <<p>>] /\ Whole(c, p)
      BY <2>4 DEF Finishes
    <3>2. PICK s : s = c \o w
      OBVIOUS
    <3>3. s \in Seq(Byte) /\ Apart(s, c, w)
      BY <1>5, <3>2, Joined
    <3>4. Stream(s, ps)
      BY <1>6, <3>2
    <3>5. ps # <<>> /\ ps[1] = p /\ Stream(w, Tail(ps))
      BY <1>5, <3>1, <3>3, <3>4, FirstOf
    <3> QED  BY <1>2, <1>8, <3>1, <3>5 DEF RoundLast
  <2> QED  BY <2>2, <2>3, <2>4
<1> QED  BY <1>7, <1>8

----------------------------------------------------------------------------
(* The rounds and the stream.                                              *)

\* Packet is opaque to what follows.
LEMMA PacketsSent == ASSUME NEW p \in Packets, NEW s \in Seq(Packets) PROVE Append(s, p) \in Seq(Packets)
OBVIOUS

\* A packet more is the last of them.
LEMMA AppendLast ==
    ASSUME NEW d \in Seq(Packets), NEW q \in Seq(Packets), NEW p \in Packets
    PROVE  Append(d \o q, p) = d \o Append(q, p)
<1>1. PICK x : x = <<p>>
  OBVIOUS
<1>2. x \in Seq(Packets)
  BY <1>1
<1>3. d \o q \in Seq(Packets)
  BY ConcatProperties
<1>4. Append(d \o q, p) = (d \o q) \o x /\ Append(q, p) = q \o x
  BY <1>1, <1>3, AppendIsConcat
<1> QED  BY <1>2, <1>4, ConcatAssociative

\* The first of what is left comes next.
LEMMA NextIs ==
    ASSUME NEW S, NEW d \in Seq(S), NEW q \in Seq(S), q # <<>>
    PROVE  /\ q[1] \in S /\ Tail(q) \in Seq(S) /\ d \o q = Append(d, q[1]) \o Tail(q)
           /\ Len(d) < Len(d \o q) /\ q[1] = (d \o q)[Len(d) + 1]
<1>1. PICK p, t, x : p = q[1] /\ t = Tail(q) /\ x = <<p>>
  OBVIOUS
<1>2. Len(q) \in Nat \ {0} /\ Len(d) \in Nat
  OBVIOUS
<1>3. p \in S /\ t \in Seq(S) /\ x \in Seq(S)
  BY <1>1, <1>2
<1>4. q = x \o t
  <2>1. SubSeq(q, 1, Len(q)) = <<q[1]>> \o SubSeq(q, 1 + 1, Len(q))
    BY 1 \in 1 .. Len(q), Len(q) \in 1 .. Len(q), SubSeqRecursiveFirst
  <2>2. SubSeq(q, 1, Len(q)) = q
    BY SubSeqFull
  <2>3. t = SubSeq(q, 2, Len(q)) /\ 1 + 1 = 2
    BY <1>1, TailIsSubSeq
  <2> QED  BY <1>1, <2>1, <2>2, <2>3
<1>5. (d \o x) \o t = d \o (x \o t)
  BY <1>3, ConcatAssociative, SMTT(30)
<1>6. Append(d, p) = d \o x
  BY <1>1, <1>3, AppendIsConcat
<1>7. d \o q = Append(d, p) \o t
  BY <1>4, <1>5, <1>6
<1>8. PICK b : b = d \o q
  OBVIOUS
<1>9. b \in Seq(S) /\ Apart(b, d, q)
  BY <1>8, Joined
<1>10. Len(b) = Len(d) + Len(q) /\ b[Len(d) + 1] = q[1]
  BY <1>2, <1>9 DEF Apart
<1>11. Len(d) < Len(b)
  BY <1>2, <1>10
<1> QED  BY <1>1, <1>3, <1>7, <1>8, <1>10, <1>11

\* Two parts are nothing when neither is anything.
LEMMA NothingOfBoth ==
    ASSUME NEW S, NEW d \in Seq(S), NEW q \in Seq(S)
    PROVE  d \o q \in Seq(S) /\ (d \o q = <<>> <=> d = <<>> /\ q = <<>>)
<1>1. d \o q \in Seq(S) /\ Len(d \o q) = Len(d) + Len(q)
  BY ConcatProperties
<1>2. \A x \in Seq(S) : x = <<>> <=> Len(x) = 0
  OBVIOUS
<1>3. Len(d) \in Nat /\ Len(q) \in Nat
  OBVIOUS
<1> QED  BY <1>1, <1>2, <1>3

\* None is left when as many are done as there are.
LEMMA NoneMore ==
    ASSUME NEW S, NEW d \in Seq(S), NEW q \in Seq(S)
    PROVE  q = <<>> <=> Len(d) = Len(d \o q)
<1>1. Len(d \o q) = Len(d) + Len(q)
  BY ConcatProperties
<1>2. q = <<>> <=> Len(q) = 0
  OBVIOUS
<1>3. Len(d) \in Nat /\ Len(q) \in Nat
  OBVIOUS
<1> QED  BY <1>1, <1>2, <1>3

\* What is on its way: the packets ps still to be processed are the bytes of the packet
\* that is begun and those on the wire, and one item waits for the rest of that packet.
Coming(ps) == \E pre, r : readq = <<r>> /\ Begun(pre, r) /\ Stream(pre \o wire, ps)

\* The packets sent are those processed and those on their way.
InvFor(ps) == /\ sent = decoded \o ps
              /\ broken => readq = <<>>
              /\ ~broken => Coming(ps)

\* The inductive invariant.
IInv == /\ wire \in Seq(Byte) /\ broken \in BOOLEAN
        /\ decoded \in Seq(Packets)
        /\ \E ps \in Seq(Packets) : InvFor(ps)

\* It holds at first.
LEMMA InvStarts == ASSUME Init PROVE IInv
<1>1. <<>> \o <<>> = <<>>
  OBVIOUS
<1>2. Coming(<<>>)
  BY <1>1, NewIs, StreamNone DEF Init, Coming
<1>3. InvFor(<<>>)
  BY <1>1, <1>2 DEF Init, InvFor
<1>4. wire \in Seq(Byte) /\ broken \in BOOLEAN /\ decoded \in Seq(Packets) /\ <<>> \in Seq(Packets)
  <2>1. <<>> \in Seq(Packets) /\ <<>> \in Seq(Byte) /\ FALSE \in BOOLEAN
    OBVIOUS
  <2> QED  BY <2>1, Zenon DEF Init
<1> QED  BY <1>3, <1>4 DEF IInv

\* A peer sends.
LEMMA PutKeeps ==
    ASSUME IInv, PutsWhole
    PROVE  IInv' /\ \E p \in Packets : sent' = Append(sent, p) /\ decoded' = decoded
<1>1. PICK b : \E p \in Packets : Whole(b, p) /\ Put(b, p)
  BY DEF PutsWhole
<1>2. PICK p \in Packets : Whole(b, p) /\ Put(b, p)
  BY <1>1
<1>3. b \in Seq(Byte)
  BY <1>2 DEF Whole
<1>4. wire' = wire \o b /\ sent' = Append(sent, p) /\ readq' = readq /\ broken' = broken /\ decoded' = decoded
  BY <1>2 DEF Put
<1>5. PICK ps \in Seq(Packets) : InvFor(ps)
  BY DEF IInv
<1>6. PICK qs : qs = Append(ps, p)
  OBVIOUS
<1>7. qs \in Seq(Packets)
  BY <1>6, PacketsSent
<1>8. sent' = decoded' \o qs
  <2>1. decoded \in Seq(Packets) /\ sent = decoded \o ps
    BY <1>5 DEF IInv, InvFor
  <2>2. Append(decoded \o ps, p) = decoded \o Append(ps, p)
    <3>1. PICK d \in Seq(Packets) : d = decoded
      BY <2>1
    <3>2. Append(d \o ps, p) = d \o Append(ps, p)
      BY AppendLast
    <3> QED  BY <3>1, <3>2
  <2> QED  BY <1>4, <1>6, <2>1, <2>2
<1>9. ASSUME ~broken' PROVE Coming(qs)'
  <2>1. Coming(ps)
    BY <1>4, <1>5, <1>9 DEF InvFor
  <2>2. PICK pre, r : readq = <<r>> /\ Begun(pre, r) /\ Stream(pre \o wire, ps)
    BY <2>1 DEF Coming
  <2>3. pre \in Seq(Byte) /\ wire \in Seq(Byte)
    BY <2>2 DEF Begun, Fills, IInv
  <2>4. PICK s : s = pre \o wire
    OBVIOUS
  <2>5. s \in Seq(Byte) /\ Stream(s, ps)
    BY <2>2, <2>3, <2>4
  <2>6. Stream(s \o b, qs)
    BY <1>2, <1>6, <2>5, StreamPut
  <2>7. s \o b = pre \o wire'
    BY <1>3, <1>4, <2>3, <2>4, OneAfterOther
  <2>8. readq' = <<r>> /\ Begun(pre, r) /\ Stream(pre \o wire', qs)
    BY <1>4, <2>2, <2>6, <2>7
  <2> QED  BY <2>8 DEF Coming
<1>10. InvFor(qs)'
  BY <1>4, <1>5, <1>8, <1>9 DEF InvFor
<1>11. wire' \in Seq(Byte) /\ broken' \in BOOLEAN /\ decoded' \in Seq(Packets)
  BY <1>3, <1>4 DEF IInv
<1>12. IInv'
  BY <1>7, <1>10, <1>11 DEF IInv
<1> QED  BY <1>2, <1>4, <1>12

\* A recv fails.
LEMMA FailKeeps ==
    ASSUME IInv, ReadFails
    PROVE  IInv' /\ UNCHANGED <<sent, decoded>>
<1>1. PICK ps \in Seq(Packets) : InvFor(ps)
  BY DEF IInv
<1>2. broken' = TRUE /\ readq' = <<>> /\ wire' = wire /\ sent' = sent /\ decoded' = decoded
  BY DEF ReadFails
<1>3. InvFor(ps)'
  BY <1>1, <1>2 DEF InvFor
<1> QED  BY <1>2, <1>3 DEF IInv

\* A recv returns bytes: nothing, or the next packet is processed.
LEMMA ReadKeeps ==
    ASSUME IInv, NEW k \in 1 .. Len(wire), Read(k)
    PROVE  IInv' /\ (UNCHANGED <<sent, decoded>> \/ Channel!Process)
<1>1. PICK ps \in Seq(Packets) : InvFor(ps)
  BY DEF IInv
<1>2. wire \in Seq(Byte) /\ broken \in BOOLEAN /\ decoded \in Seq(Packets) /\ ~broken /\ sent = decoded \o ps
  BY <1>1 DEF IInv, Read, InvFor
<1>3. PICK pre, r : readq = <<r>> /\ Begun(pre, r) /\ Stream(pre \o wire, ps)
  BY <1>1, <1>2 DEF InvFor, Coming
<1>4. PICK x, w : x = SubSeq(wire, 1, k) /\ w = SubSeq(wire, k + 1, Len(wire))
  OBVIOUS
<1>5. x \in Seq(Byte) /\ w \in Seq(Byte) /\ Len(x) = k /\ wire = x \o w
  <2>1. k \in 0 .. Len(wire)
    OBVIOUS
  <2>2. /\ SubSeq(wire, 1, k) \in Seq(Byte) /\ SubSeq(wire, k + 1, Len(wire)) \in Seq(Byte) /\ Len(SubSeq(wire, 1, k)) = k
        /\ wire = SubSeq(wire, 1, k) \o SubSeq(wire, k + 1, Len(wire))
    BY <1>2, <2>1, Split
  <2> QED  BY <1>4, <2>2
<1>6. PICK item, got : item = More(r, x) /\ got = OnReceived(item)
  OBVIOUS
<1>7. /\ k <= r.length - Len(r.buffer)
      /\ IF Len(item.buffer) < item.length
         THEN readq' = <<item>> \o Tail(readq) /\ decoded' = decoded
         ELSE readq' = Tail(readq) \o got.next /\ decoded' = decoded \o got.done
      /\ wire' = w /\ broken' = broken /\ sent' = sent
  <2>1. readq[1] = r
    BY <1>3
  <2>2. [readq[1] EXCEPT !.buffer = @ \o SubSeq(wire, 1, k)] = item
    BY <1>4, <1>6, <2>1 DEF More
  <2> QED  BY <1>4, <1>6, <2>1, <2>2 DEF Read
<1>8. Tail(readq) = <<>>
  BY <1>3
<1>9. PICK c : c = pre \o x
  OBVIOUS
<1>10. Stream(pre \o (x \o w), ps) /\ Len(x) <= r.length - Len(r.buffer)
  BY <1>3, <1>5, <1>7
<1>11. StillBegun(c, item, w, ps) \/ RoundOn(c, item, w, ps) \/ RoundLast(item, w, ps)
  BY <1>3, <1>5, <1>6, <1>9, <1>10, ReadAdvances
<1>12. wire' \in Seq(Byte) /\ broken' \in BOOLEAN
  BY <1>2, <1>5, <1>7
<1>13. CASE StillBegun(c, item, w, ps)
  <2>1. readq' = <<item>> /\ decoded' = decoded
    <3>1. readq' = <<item>> \o <<>> /\ decoded' = decoded
      BY <1>7, <1>8, <1>13 DEF StillBegun
    <3> QED  BY <3>1
  <2>2. Coming(ps)'
    BY <1>7, <1>13, <2>1 DEF StillBegun, Coming
  <2>3. InvFor(ps)'
    BY <1>2, <1>7, <2>1, <2>2 DEF InvFor
  <2> QED  BY <1>2, <1>7, <1>12, <2>1, <2>3 DEF IInv
<1>14. CASE RoundOn(c, item, w, ps)
  <2>1. PICK q : got = Awaits(q) /\ Begun(c, q) /\ Stream(c \o w, ps)
    BY <1>6, <1>14 DEF RoundOn
  <2>2. readq' = <<q>> /\ decoded' = decoded
    <3>1. got.next = <<q>> /\ got.done = <<>>
      BY <2>1 DEF Awaits
    <3>2. readq' = <<>> \o <<q>> /\ decoded' = decoded \o <<>>
      BY <1>7, <1>8, <1>14, <3>1 DEF RoundOn
    <3>3. decoded \o <<>> = decoded
      BY <1>2
    <3> QED  BY <3>2, <3>3
  <2>3. Coming(ps)'
    BY <1>7, <2>1, <2>2 DEF Coming
  <2>4. InvFor(ps)'
    BY <1>2, <1>7, <2>2, <2>3 DEF InvFor
  <2> QED  BY <1>2, <1>7, <1>12, <2>2, <2>4 DEF IInv
<1>15. CASE RoundLast(item, w, ps)
  <2>1. PICK p, qs : p = ps[1] /\ qs = Tail(ps)
    OBVIOUS
  <2>2. ps # <<>> /\ got = [next |-> <<NewMessage>>, done |-> <<p>>] /\ Stream(w, qs)
    BY <1>6, <1>15, <2>1 DEF RoundLast
  <2>3. p \in Packets /\ qs \in Seq(Packets) /\ decoded \o ps = Append(decoded, p) \o qs
        /\ Len(decoded) < Len(decoded \o ps) /\ p = (decoded \o ps)[Len(decoded) + 1]
    BY <1>2, <2>1, <2>2, NextIs
  <2>4. readq' = <<NewMessage>> /\ decoded' = Append(decoded, p)
    <3>1. got.next = <<NewMessage>> /\ got.done = <<p>>
      BY <2>2
    <3>2. readq' = <<>> \o <<NewMessage>> /\ decoded' = decoded \o <<p>>
      BY <1>7, <1>8, <1>15, <3>1 DEF RoundLast
    <3>3. decoded \o <<p>> = Append(decoded, p)
      BY <1>2
    <3> QED  BY <3>2, <3>3
  <2>5. Coming(qs)'
    <3>1. <<>> \o w = w
      BY <1>5
    <3>2. Begun(<<>>, NewMessage) /\ Stream(<<>> \o wire', qs)
      BY <1>7, <2>2, <3>1, NewIs
    <3> QED  BY <2>4, <3>2 DEF Coming
  <2>6. InvFor(qs)'
    BY <1>2, <1>7, <2>3, <2>4, <2>5 DEF InvFor
  <2>7. decoded' \in Seq(Packets)
    BY <1>2, <2>3, <2>4, PacketsSent
  <2>8. Channel!Process
    BY <1>2, <1>7, <2>3, <2>4 DEF Channel!Process
  <2> QED  BY <1>12, <2>3, <2>6, <2>7, <2>8 DEF IInv
<1> QED  BY <1>11, <1>13, <1>14, <1>15

\* Each step keeps the invariant, and is a step of the channel or none.
LEMMA InvKeeps ==
    ASSUME IInv, [Next]_streamVars
    PROVE  IInv' /\ [Channel!Send \/ Channel!Process]_<<sent, decoded>>
<1>1. CASE ServerReads
  BY <1>1, ReadKeeps DEF ServerReads
<1>2. CASE ReadFails
  BY <1>2, FailKeeps
<1>3. CASE \/ \E type \in Types, payload \in Payloads : Send(type, payload) \/ SendOtherwise(type, payload)
           \/ \E type \in Types, frame \in BadFrames : SendBad(type, frame)
  <2>1. PICK p \in Packets : IInv' /\ sent' = Append(sent, p) /\ decoded' = decoded
    BY <1>3, PeersPutWhole, PutKeeps
  <2>2. Channel!Send
    BY <2>1 DEF Channel!Send
  <2> QED  BY <2>1, <2>2
<1>4. CASE UNCHANGED streamVars
  <2>1. IInv'
    BY <1>4 DEF streamVars, IInv, InvFor, Coming
  <2> QED  BY <1>4, <2>1 DEF streamVars
<1> QED  BY <1>1, <1>2, <1>3, <1>4 DEF Next

\* So it holds always.
LEMMA InvAlways == Spec => []IInv
BY InvStarts, InvKeeps, PTL DEF Spec

\* What the invariant says of the item that waits.
LEMMA InvTypes == ASSUME IInv PROVE TypeOK /\ OneRound
<1>1. PICK ps \in Seq(Packets) : InvFor(ps)
  BY DEF IInv
<1>2. CASE broken
  BY <1>1, <1>2 DEF IInv, InvFor, TypeOK, OneRound
<1>3. CASE ~broken
  <2>1. PICK pre, r : readq = <<r>> /\ Begun(pre, r)
    BY <1>1, <1>3 DEF InvFor, Coming
  <2>2. PICK l \in Nat, st \in {"TYPE_GOT", "HEADER_GOT", "BUFFER_GOT"}, u \in 0 .. Shift[5] - 1, b \in Seq(Byte) :
          r = Item(l, st, u, b)
    BY <2>1, ItemTypes DEF Begun
  <2>3. r.length = l /\ r.state = st /\ r.u64 = u /\ r.buffer = b /\ Len(r.buffer) < r.length
    BY <2>1, <2>2, ItemIs DEF Begun
  <2>4. DOMAIN readq = {1} /\ Len(readq) = 1 /\ readq[1] = r
    BY <2>1
  <2> QED  BY <2>2, <2>3, <2>4 DEF IInv, TypeOK, OneRound
<1> QED  BY <1>2, <1>3

\* And of the stream when it is at rest.
LEMMA InvStep == ASSUME IInv PROVE InStep
<1> SUFFICES ASSUME ~broken PROVE AtRest <=> Len(decoded) = Len(sent)
  BY DEF InStep
<1>1. PICK ps \in Seq(Packets) : InvFor(ps)
  BY DEF IInv
<1>2. PICK pre, r : readq = <<r>> /\ Begun(pre, r) /\ Stream(pre \o wire, ps)
  BY <1>1 DEF InvFor, Coming
<1>3. pre \in Seq(Byte) /\ wire \in Seq(Byte) /\ decoded \in Seq(Packets) /\ sent = decoded \o ps
  BY <1>1, <1>2 DEF Begun, Fills, IInv, InvFor
<1>4. PICK s : s = pre \o wire
  OBVIOUS
<1>5. s \in Seq(Byte) /\ (s = <<>> <=> pre = <<>> /\ wire = <<>>)
  BY <1>3, <1>4, NothingOfBoth
<1>6. s = <<>> <=> ps = <<>>
  BY <1>2, <1>4, <1>5, StreamEnds
<1>7. ps = <<>> <=> Len(decoded) = Len(sent)
  BY <1>3, NoneMore
<1>8. AtRest <=> pre = <<>> /\ wire = <<>>
  <2>1. readq = <<NewMessage>> <=> r = NewMessage
    BY <1>2
  <2> QED  BY <1>2, <2>1, NewIs DEF AtRest
<1> QED  BY <1>5, <1>6, <1>7, <1>8

----------------------------------------------------------------------------
(* The theorems, for every width of a byte and every set of payloads.      *)

\* The state is well-typed: no item is queued complete, and u64 keeps its 40 bits.
THEOREM TypeCorrect == Spec => []TypeOK
<1>1. IInv => TypeOK
  BY InvTypes
<1> QED  BY <1>1, InvAlways, PTL

\* While a connection lives, exactly one round of one packet is awaited.
THEOREM OneRoundAwaited == Spec => []OneRound
<1>1. IInv => OneRound
  BY InvTypes
<1> QED  BY <1>1, InvAlways, PTL

\* The server is between two packets exactly when all those sent were processed or
\* refused: neither a cut of the stream nor a refused packet takes it out of step.
THEOREM StaysInStep == Spec => []InStep
<1>1. IInv => InStep
  BY InvStep
<1> QED  BY <1>1, InvAlways, PTL

\* The framing implements the channel: each packet is processed as it was sent, once
\* and in order, however its bytes are cut.
THEOREM ImplementsChannel == Spec => ChannelSpec
<1>1. Init => Channel!Init
  BY DEF Init, Channel!Init
<1>2. IInv /\ [Next]_streamVars => [Channel!Send \/ Channel!Process]_Channel!channelVars
  BY InvKeeps DEF Channel!channelVars
<1> QED  BY <1>1, <1>2, InvAlways, PTL DEF Spec, ChannelSpec, Channel!Spec
=============================================================================
