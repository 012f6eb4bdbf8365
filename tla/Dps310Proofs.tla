---------------------------- MODULE Dps310Proofs ----------------------------
(***************************************************************************)
(* Machine-checked lemmas about the registers of Dps310: reading a bit     *)
(* field after writing one, for every content of the registers and every   *)
(* setting of the sensor.                                                  *)
(***************************************************************************)
EXTENDS Dps310, TLAPS

(***************************************************************************)
(* Bit fields.  A byte is taken apart at the boundaries of its fields.     *)
(***************************************************************************)

Byte(a, b, c, e, d) == 128 * a + 16 * b + 8 * c + 4 * e + d

\* What the driver sees of the byte.
HasParts(n, a, b, c, e, d) ==
  /\ n \in 0 .. 255
  /\ n \div 128 = a /\ (n \div 128) % 2 = a /\ (n \div 16) % 8 = b
  /\ (n \div 8) % 2 = c /\ (n \div 4) % 2 = e /\ n % 8 = 4 * e + d

LEMMA PartsOf ==
  \A a \in 0 .. 1, b \in 0 .. 7, c \in 0 .. 1, e \in 0 .. 1, d \in 0 .. 3 :
    HasParts(Byte(a, b, c, e, d), a, b, c, e, d)
<1> SUFFICES ASSUME NEW a \in 0 .. 1, NEW b \in 0 .. 7, NEW c \in 0 .. 1, NEW e \in 0 .. 1,
                    NEW d \in 0 .. 3
             PROVE  HasParts(Byte(a, b, c, e, d), a, b, c, e, d)
  OBVIOUS
<1> DEFINE n == 128 * a + 16 * b + 8 * c + 4 * e + d
<1>1. n \in 0 .. 255
  OBVIOUS
<1>2. n \div 128 = a /\ n \div 16 = 8 * a + b
  OBVIOUS
<1>3. n \div 8 = 16 * a + 2 * b + c /\ n \div 4 = 32 * a + 4 * b + 2 * c + e
  OBVIOUS
<1>4. a % 2 = a /\ (8 * a + b) % 8 = b
  OBVIOUS
<1>5. (16 * a + 2 * b + c) % 2 = c /\ (32 * a + 4 * b + 2 * c + e) % 2 = e
  OBVIOUS
<1>6. n % 8 = 4 * e + d
  OBVIOUS
<1>7. n = Byte(a, b, c, e, d)
  BY DEF Byte
<1> HIDE DEF n
<1>8. (n \div 128) % 2 = a /\ (n \div 16) % 8 = b
  BY <1>2, <1>4, Zenon
<1>9. (n \div 8) % 2 = c /\ (n \div 4) % 2 = e
  BY <1>3, <1>5, Zenon
<1> QED BY <1>1, <1>2, <1>6, <1>7, <1>8, <1>9, Zenon DEF HasParts

\* ... and every byte has them.
LEMMA ByteParts ==
  ASSUME NEW n \in 0 .. 255
  PROVE  \E a \in 0 .. 1, b \in 0 .. 7, c \in 0 .. 1, e \in 0 .. 1, d \in 0 .. 3 :
           n = Byte(a, b, c, e, d)
<1>1. \E x \in 0 .. 15, y \in 0 .. 15 : n = 16 * x + y
  <2> WITNESS n \div 16 \in 0 .. 15, n % 16 \in 0 .. 15
  <2> QED OBVIOUS
<1>2. PICK x \in 0 .. 15, y \in 0 .. 15 : n = 16 * x + y
  BY <1>1
<1>3. \E a \in 0 .. 1, b \in 0 .. 7 : x = 8 * a + b
  <2> WITNESS x \div 8 \in 0 .. 1, x % 8 \in 0 .. 7
  <2> QED OBVIOUS
<1>4. \E c \in 0 .. 1, e \in 0 .. 1, d \in 0 .. 3 : y = 8 * c + 4 * e + d
  <2> WITNESS y \div 8 \in 0 .. 1, (y % 8) \div 4 \in 0 .. 1, y % 4 \in 0 .. 3
  <2> QED OBVIOUS
<1>5. PICK a \in 0 .. 1, b \in 0 .. 7 : x = 8 * a + b
  BY <1>3
<1>6. PICK c \in 0 .. 1, e \in 0 .. 1, d \in 0 .. 3 : y = 8 * c + 4 * e + d
  BY <1>4
<1> QED BY <1>2, <1>5, <1>6 DEF Byte

\* Replacing bits 6 to 4.
HighSet(n, v) == n + (v - ((n \div 16) % 8)) * 16

IsHighSet(n, v, m) ==
  /\ m \in 0 .. 255 /\ (m \div 16) % 8 = v
  /\ m % 8 = n % 8 /\ m \div 128 = n \div 128

LEMMA HighField ==
  ASSUME NEW n \in 0 .. 255, NEW v \in 0 .. 7
  PROVE  IsHighSet(n, v, HighSet(n, v))
<1> DEFINE m == HighSet(n, v)
<1>1. PICK a \in 0 .. 1, b \in 0 .. 7, c \in 0 .. 1, e \in 0 .. 1, d \in 0 .. 3 :
        n = Byte(a, b, c, e, d)
  BY ByteParts
<1>2. HasParts(n, a, b, c, e, d)
  BY <1>1, PartsOf
<1>3. m = Byte(a, v, c, e, d)
  BY <1>1, <1>2 DEF HighSet, HasParts, Byte
<1>4. HasParts(m, a, v, c, e, d)
  BY <1>3, PartsOf
<1> QED BY <1>2, <1>4 DEF IsHighSet, HasParts

\* Replacing bits 2 to 0.
LowSet(n, v) == n + (v - (n % 8))

IsLowSet(n, v, m) ==
  /\ m \in 0 .. 255 /\ m % 8 = v
  /\ (m \div 16) % 8 = (n \div 16) % 8 /\ m \div 128 = n \div 128

LEMMA LowField ==
  ASSUME NEW n \in 0 .. 255, NEW v \in 0 .. 7
  PROVE  IsLowSet(n, v, LowSet(n, v))
<1> DEFINE m == LowSet(n, v)
<1>1. PICK a \in 0 .. 1, b \in 0 .. 7, c \in 0 .. 1, e \in 0 .. 1, d \in 0 .. 3 :
        n = Byte(a, b, c, e, d)
  BY ByteParts
<1>2. HasParts(n, a, b, c, e, d)
  BY <1>1, PartsOf
<1>3. \E f \in 0 .. 1, g \in 0 .. 3 : v = 4 * f + g
  <2> WITNESS v \div 4 \in 0 .. 1, v % 4 \in 0 .. 3
  <2> QED OBVIOUS
<1>4. PICK f \in 0 .. 1, g \in 0 .. 3 : v = 4 * f + g
  BY <1>3
<1>5. m = Byte(a, b, c, f, g)
  BY <1>1, <1>2, <1>4 DEF LowSet, HasParts, Byte
<1>6. HasParts(m, a, b, c, f, g)
  BY <1>5, <1>4, PartsOf
<1> QED BY <1>2, <1>4, <1>6 DEF IsLowSet, HasParts

\* Replacing bit 7.
TopSet(n, v) == n + (v - ((n \div 128) % 2)) * 128

IsTopSet(n, v, m) ==
  /\ m \in 0 .. 255 /\ (m \div 128) % 2 = v

LEMMA TopField ==
  ASSUME NEW n \in 0 .. 255, NEW v \in 0 .. 1
  PROVE  IsTopSet(n, v, TopSet(n, v))
<1> DEFINE m == TopSet(n, v)
<1>1. PICK a \in 0 .. 1, b \in 0 .. 7, c \in 0 .. 1, e \in 0 .. 1, d \in 0 .. 3 :
        n = Byte(a, b, c, e, d)
  BY ByteParts
<1>2. HasParts(n, a, b, c, e, d)
  BY <1>1, PartsOf
<1>3. m = Byte(v, b, c, e, d)
  BY <1>1, <1>2 DEF TopSet, HasParts, Byte
<1>4. HasParts(m, v, b, c, e, d)
  BY <1>3, PartsOf
<1> QED BY <1>2, <1>4 DEF IsTopSet, HasParts

\* Replacing bit 3.
FirstSet(n, v) == n + (v - ((n \div 8) % 2)) * 8

IsFirstSet(n, v, m) ==
  /\ m \in 0 .. 255 /\ (m \div 8) % 2 = v /\ (m \div 4) % 2 = (n \div 4) % 2

LEMMA FirstShift ==
  ASSUME NEW n \in 0 .. 255, NEW v \in 0 .. 1
  PROVE  IsFirstSet(n, v, FirstSet(n, v))
<1> DEFINE m == FirstSet(n, v)
<1>1. PICK a \in 0 .. 1, b \in 0 .. 7, c \in 0 .. 1, e \in 0 .. 1, d \in 0 .. 3 :
        n = Byte(a, b, c, e, d)
  BY ByteParts
<1>2. HasParts(n, a, b, c, e, d)
  BY <1>1, PartsOf
<1>3. m = Byte(a, b, v, e, d)
  BY <1>1, <1>2 DEF FirstSet, HasParts, Byte
<1>4. HasParts(m, a, b, v, e, d)
  BY <1>3, PartsOf
<1> QED BY <1>2, <1>4 DEF IsFirstSet, HasParts

\* Replacing bit 2.
SecondSet(n, v) == n + (v - ((n \div 4) % 2)) * 4

IsSecondSet(n, v, m) ==
  /\ m \in 0 .. 255 /\ (m \div 4) % 2 = v /\ (m \div 8) % 2 = (n \div 8) % 2

LEMMA SecondShift ==
  ASSUME NEW n \in 0 .. 255, NEW v \in 0 .. 1
  PROVE  IsSecondSet(n, v, SecondSet(n, v))
<1> DEFINE m == SecondSet(n, v)
<1>1. PICK a \in 0 .. 1, b \in 0 .. 7, c \in 0 .. 1, e \in 0 .. 1, d \in 0 .. 3 :
        n = Byte(a, b, c, e, d)
  BY ByteParts
<1>2. HasParts(n, a, b, c, e, d)
  BY <1>1, PartsOf
<1>3. m = Byte(a, b, c, v, d)
  BY <1>1, <1>2 DEF SecondSet, HasParts, Byte
<1>4. HasParts(m, a, b, c, v, d)
  BY <1>3, PartsOf
<1> QED BY <1>2, <1>4 DEF IsSecondSet, HasParts
-----------------------------------------------------------------------------
(***************************************************************************)
(* The sensor's registers.                                                 *)
(***************************************************************************)
Regs == [6 .. 9 -> 0 .. 255]

\* The fields of the registers, with their powers of two computed.
LEMMA FieldsAre ==
  ASSUME NEW r \in Regs
  PROVE  /\ Field(r, TEMP_MR) = (r[7] \div 16) % 8 /\ Field(r, TEMP_OSR) = r[7] % 8
         /\ Field(r, PRS_MR) = (r[6] \div 16) % 8 /\ Field(r, PRS_OSR) = r[6] % 8
         /\ Field(r, MSR_CTRL) = r[8] % 8 /\ Field(r, TEMP_SENSOR) = (r[7] \div 128) % 2
         /\ Field(r, TEMP_SHIFT) = (r[9] \div 8) % 2 /\ Field(r, PRS_SHIFT) = (r[9] \div 4) % 2
<1> USE DEF Regs, Field
<1>1. Field(r, TEMP_MR) = (r[7] \div 16) % 8 /\ Field(r, TEMP_OSR) = r[7] % 8
  BY DEF TEMP_MR, TEMP_OSR
<1>2. Field(r, PRS_MR) = (r[6] \div 16) % 8 /\ Field(r, PRS_OSR) = r[6] % 8
  BY DEF PRS_MR, PRS_OSR
<1>3. Field(r, MSR_CTRL) = r[8] % 8 /\ Field(r, TEMP_SENSOR) = (r[7] \div 128) % 2
  BY DEF MSR_CTRL, TEMP_SENSOR
<1>4. Field(r, TEMP_SHIFT) = (r[9] \div 8) % 2 /\ Field(r, PRS_SHIFT) = (r[9] \div 4) % 2
  BY DEF TEMP_SHIFT, PRS_SHIFT
<1> QED BY <1>1, <1>2, <1>3, <1>4

\* Writing each of the fields.
LEMMA WriteTempRate ==
  ASSUME NEW r \in Regs, NEW v \in 0 .. 7, NEW w, w = With(r, TEMP_MR, v)
  PROVE  /\ w \in Regs /\ Field(w, TEMP_MR) = v
         /\ \A a \in (6 .. 9) \ {7} : w[a] = r[a]
         /\ Field(w, TEMP_OSR) = Field(r, TEMP_OSR) /\ Field(w, TEMP_SENSOR) = Field(r, TEMP_SENSOR)
<1>1. r[7] \in 0 .. 255
  BY DEF Regs
<1>2. /\ v % 8 = v /\ 2^3 = 8 /\ 2^4 = 16
  BY <1>1
<1>3. w = [r EXCEPT ![7] = r[7] + (v - ((r[7] \div 16) % 8)) * 16]
  BY <1>1, <1>2, FieldsAre DEF With, TEMP_MR, Regs
<1>4. w[7] = HighSet(r[7], v)
  BY <1>3 DEF Regs, HighSet
<1>5. IsHighSet(r[7], v, w[7])
  BY <1>1, <1>4, HighField
<1>6. w \in Regs /\ \A a \in (6 .. 9) \ {7} : w[a] = r[a]
  BY <1>3, <1>4, <1>5 DEF Regs, IsHighSet
<1> QED BY <1>5, <1>6, FieldsAre DEF IsHighSet

\* The precision of temperature, bits 2 to 0 of register 7.
LEMMA WriteTempPrecision ==
  ASSUME NEW r \in Regs, NEW v \in 0 .. 7, NEW w, w = With(r, TEMP_OSR, v)
  PROVE  /\ w \in Regs /\ Field(w, TEMP_OSR) = v
         /\ \A a \in (6 .. 9) \ {7} : w[a] = r[a]
         /\ Field(w, TEMP_MR) = Field(r, TEMP_MR) /\ Field(w, TEMP_SENSOR) = Field(r, TEMP_SENSOR)
<1>1. r[7] \in 0 .. 255
  BY DEF Regs
<1>2. /\ v % 8 = v /\ 2^3 = 8 /\ 2^0 = 1
      /\ (v - (r[7] % 8)) * 1 = v - (r[7] % 8)
  BY <1>1
<1>3. w = [r EXCEPT ![7] = r[7] + (v - (r[7] % 8))]
  BY <1>1, <1>2, FieldsAre DEF With, TEMP_OSR, Regs
<1>4. w[7] = LowSet(r[7], v)
  BY <1>3 DEF Regs, LowSet
<1>5. IsLowSet(r[7], v, w[7])
  BY <1>1, <1>4, LowField
<1>6. w \in Regs /\ \A a \in (6 .. 9) \ {7} : w[a] = r[a]
  BY <1>3, <1>4, <1>5 DEF Regs, IsLowSet
<1> QED BY <1>5, <1>6, FieldsAre DEF IsLowSet

\* The rate of pressure, bits 6 to 4 of register 6.
LEMMA WritePressureRate ==
  ASSUME NEW r \in Regs, NEW v \in 0 .. 7, NEW w, w = With(r, PRS_MR, v)
  PROVE  /\ w \in Regs /\ Field(w, PRS_MR) = v
         /\ \A a \in (6 .. 9) \ {6} : w[a] = r[a]
         /\ Field(w, PRS_OSR) = Field(r, PRS_OSR)
<1>1. r[6] \in 0 .. 255
  BY DEF Regs
<1>2. /\ v % 8 = v /\ 2^3 = 8 /\ 2^4 = 16
  BY <1>1
<1>3. w = [r EXCEPT ![6] = r[6] + (v - ((r[6] \div 16) % 8)) * 16]
  BY <1>1, <1>2, FieldsAre DEF With, PRS_MR, Regs
<1>4. w[6] = HighSet(r[6], v)
  BY <1>3 DEF Regs, HighSet
<1>5. IsHighSet(r[6], v, w[6])
  BY <1>1, <1>4, HighField
<1>6. w \in Regs /\ \A a \in (6 .. 9) \ {6} : w[a] = r[a]
  BY <1>3, <1>4, <1>5 DEF Regs, IsHighSet
<1> QED BY <1>5, <1>6, FieldsAre DEF IsHighSet

\* The precision of pressure, bits 2 to 0 of register 6.
LEMMA WritePressurePrecision ==
  ASSUME NEW r \in Regs, NEW v \in 0 .. 7, NEW w, w = With(r, PRS_OSR, v)
  PROVE  /\ w \in Regs /\ Field(w, PRS_OSR) = v
         /\ \A a \in (6 .. 9) \ {6} : w[a] = r[a]
         /\ Field(w, PRS_MR) = Field(r, PRS_MR)
<1>1. r[6] \in 0 .. 255
  BY DEF Regs
<1>2. /\ v % 8 = v /\ 2^3 = 8 /\ 2^0 = 1
      /\ (v - (r[6] % 8)) * 1 = v - (r[6] % 8)
  BY <1>1
<1>3. w = [r EXCEPT ![6] = r[6] + (v - (r[6] % 8))]
  BY <1>1, <1>2, FieldsAre DEF With, PRS_OSR, Regs
<1>4. w[6] = LowSet(r[6], v)
  BY <1>3 DEF Regs, LowSet
<1>5. IsLowSet(r[6], v, w[6])
  BY <1>1, <1>4, LowField
<1>6. w \in Regs /\ \A a \in (6 .. 9) \ {6} : w[a] = r[a]
  BY <1>3, <1>4, <1>5 DEF Regs, IsLowSet
<1> QED BY <1>5, <1>6, FieldsAre DEF IsLowSet

\* The mode, bits 2 to 0 of register 8.
LEMMA WriteMode ==
  ASSUME NEW r \in Regs, NEW v \in 0 .. 7, NEW w, w = With(r, MSR_CTRL, v)
  PROVE  /\ w \in Regs /\ Field(w, MSR_CTRL) = v
         /\ \A a \in (6 .. 9) \ {8} : w[a] = r[a]
<1>1. r[8] \in 0 .. 255
  BY DEF Regs
<1>2. /\ v % 8 = v /\ 2^3 = 8 /\ 2^0 = 1
      /\ (v - (r[8] % 8)) * 1 = v - (r[8] % 8)
  BY <1>1
<1>3. w = [r EXCEPT ![8] = r[8] + (v - (r[8] % 8))]
  BY <1>1, <1>2, FieldsAre DEF With, MSR_CTRL, Regs
<1>4. w[8] = LowSet(r[8], v)
  BY <1>3 DEF Regs, LowSet
<1>5. IsLowSet(r[8], v, w[8])
  BY <1>1, <1>4, LowField
<1>6. w \in Regs /\ \A a \in (6 .. 9) \ {8} : w[a] = r[a]
  BY <1>3, <1>4, <1>5 DEF Regs, IsLowSet
<1> QED BY <1>5, <1>6, FieldsAre DEF IsLowSet

\* The choice of the temperature sensor, bit 7 of register 7.
LEMMA WriteSource ==
  ASSUME NEW r \in Regs, NEW v \in 0 .. 1, NEW w, w = With(r, TEMP_SENSOR, v)
  PROVE  /\ w \in Regs /\ Field(w, TEMP_SENSOR) = v
         /\ \A a \in (6 .. 9) \ {7} : w[a] = r[a]
<1>1. r[7] \in 0 .. 255
  BY DEF Regs
<1>2. /\ v % 2 = v /\ 2^1 = 2 /\ 2^7 = 128
  BY <1>1
<1>3. w = [r EXCEPT ![7] = r[7] + (v - ((r[7] \div 128) % 2)) * 128]
  BY <1>1, <1>2, FieldsAre DEF With, TEMP_SENSOR, Regs
<1>4. w[7] = TopSet(r[7], v)
  BY <1>3 DEF Regs, TopSet
<1>5. IsTopSet(r[7], v, w[7])
  BY <1>1, <1>4, TopField
<1>6. w \in Regs /\ \A a \in (6 .. 9) \ {7} : w[a] = r[a]
  BY <1>3, <1>4, <1>5 DEF Regs, IsTopSet
<1> QED BY <1>5, <1>6, FieldsAre DEF IsTopSet

\* The shift of temperature results, bit 3 of register 9.
LEMMA WriteTempShift ==
  ASSUME NEW r \in Regs, NEW v \in 0 .. 1, NEW w, w = With(r, TEMP_SHIFT, v)
  PROVE  /\ w \in Regs /\ Field(w, TEMP_SHIFT) = v
         /\ \A a \in (6 .. 9) \ {9} : w[a] = r[a]
         /\ Field(w, PRS_SHIFT) = Field(r, PRS_SHIFT)
<1>1. r[9] \in 0 .. 255
  BY DEF Regs
<1>2. /\ v % 2 = v /\ 2^1 = 2 /\ 2^3 = 8
  BY <1>1
<1>3. w = [r EXCEPT ![9] = r[9] + (v - ((r[9] \div 8) % 2)) * 8]
  BY <1>1, <1>2, FieldsAre DEF With, TEMP_SHIFT, Regs
<1>4. w[9] = FirstSet(r[9], v)
  BY <1>3 DEF Regs, FirstSet
<1>5. IsFirstSet(r[9], v, w[9])
  BY <1>1, <1>4, FirstShift
<1>6. w \in Regs /\ \A a \in (6 .. 9) \ {9} : w[a] = r[a]
  BY <1>3, <1>4, <1>5 DEF Regs, IsFirstSet
<1> QED BY <1>5, <1>6, FieldsAre DEF IsFirstSet

\* The shift of pressure results, bit 2 of register 9.
LEMMA WritePressureShift ==
  ASSUME NEW r \in Regs, NEW v \in 0 .. 1, NEW w, w = With(r, PRS_SHIFT, v)
  PROVE  /\ w \in Regs /\ Field(w, PRS_SHIFT) = v
         /\ \A a \in (6 .. 9) \ {9} : w[a] = r[a]
         /\ Field(w, TEMP_SHIFT) = Field(r, TEMP_SHIFT)
<1>1. r[9] \in 0 .. 255
  BY DEF Regs
<1>2. /\ v % 2 = v /\ 2^1 = 2 /\ 2^2 = 4
  BY <1>1
<1>3. w = [r EXCEPT ![9] = r[9] + (v - ((r[9] \div 4) % 2)) * 4]
  BY <1>1, <1>2, FieldsAre DEF With, PRS_SHIFT, Regs
<1>4. w[9] = SecondSet(r[9], v)
  BY <1>3 DEF Regs, SecondSet
<1>5. IsSecondSet(r[9], v, w[9])
  BY <1>1, <1>4, SecondShift
<1>6. w \in Regs /\ \A a \in (6 .. 9) \ {9} : w[a] = r[a]
  BY <1>3, <1>4, <1>5 DEF Regs, IsSecondSet
<1> QED BY <1>5, <1>6, FieldsAre DEF IsSecondSet

\* Fields of registers that are not written.
LEMMA SameFields ==
  ASSUME NEW r \in Regs, NEW w \in Regs
  PROVE  /\ w[6] = r[6] => /\ Field(w, PRS_MR) = Field(r, PRS_MR)
                          /\ Field(w, PRS_OSR) = Field(r, PRS_OSR)
         /\ w[7] = r[7] => /\ Field(w, TEMP_MR) = Field(r, TEMP_MR)
                          /\ Field(w, TEMP_OSR) = Field(r, TEMP_OSR)
                          /\ Field(w, TEMP_SENSOR) = Field(r, TEMP_SENSOR)
         /\ w[9] = r[9] => /\ Field(w, TEMP_SHIFT) = Field(r, TEMP_SHIFT)
                          /\ Field(w, PRS_SHIFT) = Field(r, PRS_SHIFT)
  BY FieldsAre

Shift(osr) == IF osr > 3 THEN 1 ELSE 0

\* dps310_start_measure_both_cont sets all the fields it means to, and no other.
LEMMA Configured ==
  ASSUME NEW r \in Regs, NEW w,
         w = With(ConfigurePressure(ConfigureTemp(r)), MSR_CTRL, CONT_BOTH)
  PROVE  /\ w \in Regs
         /\ Field(w, MSR_CTRL) = CONT_BOTH /\ Field(w, TEMP_SENSOR) = Field(r, TEMP_SENSOR)
         /\ Field(w, TEMP_MR) = TempMr /\ Field(w, TEMP_OSR) = TempOsr
         /\ Field(w, PRS_MR) = PrsMr /\ Field(w, PRS_OSR) = PrsOsr
         /\ Field(w, TEMP_SHIFT) = Shift(TempOsr) /\ Field(w, PRS_SHIFT) = Shift(PrsOsr)
<1> DEFINE r1 == With(r, TEMP_MR, TempMr)
           r2 == With(r1, TEMP_OSR, TempOsr)
           r3 == With(r2, TEMP_SHIFT, Shift(TempOsr))
           r4 == With(r3, PRS_MR, PrsMr)
           r5 == With(r4, PRS_OSR, PrsOsr)
           r6 == With(r5, PRS_SHIFT, Shift(PrsOsr))
<1>0. /\ TempMr \in 0 .. 7 /\ TempOsr \in 0 .. 7 /\ PrsMr \in 0 .. 7 /\ PrsOsr \in 0 .. 7
      /\ Shift(TempOsr) \in 0 .. 1 /\ Shift(PrsOsr) \in 0 .. 1 /\ CONT_BOTH \in 0 .. 7
  BY SettingsAssumption DEF Shift, CONT_BOTH
<1>w. w = With(r6, MSR_CTRL, CONT_BOTH)
  BY DEF ConfigurePressure, ConfigureTemp, Shift
<1> HIDE DEF r1, r2, r3, r4, r5, r6
<1>1. /\ r1 \in Regs /\ Field(r1, TEMP_MR) = TempMr
      /\ Field(r1, TEMP_SENSOR) = Field(r, TEMP_SENSOR)
  BY <1>0, WriteTempRate DEF r1
<1>2. /\ r2 \in Regs /\ Field(r2, TEMP_MR) = TempMr /\ Field(r2, TEMP_OSR) = TempOsr
      /\ Field(r2, TEMP_SENSOR) = Field(r, TEMP_SENSOR)
  BY <1>0, <1>1, WriteTempPrecision DEF r2
<1>3. /\ r3 \in Regs /\ Field(r3, TEMP_SHIFT) = Shift(TempOsr)
      /\ r3[7] = r2[7]
  BY <1>0, <1>2, WriteTempShift DEF r3
<1>4. /\ r4 \in Regs /\ Field(r4, PRS_MR) = PrsMr
      /\ r4[7] = r3[7] /\ r4[9] = r3[9]
  BY <1>0, <1>3, WritePressureRate DEF r4
<1>5. /\ r5 \in Regs /\ Field(r5, PRS_MR) = PrsMr /\ Field(r5, PRS_OSR) = PrsOsr
      /\ r5[7] = r4[7] /\ r5[9] = r4[9]
  BY <1>0, <1>4, WritePressurePrecision DEF r5
<1>6. /\ r6 \in Regs /\ Field(r6, PRS_SHIFT) = Shift(PrsOsr)
      /\ Field(r6, TEMP_SHIFT) = Field(r5, TEMP_SHIFT)
      /\ r6[7] = r5[7] /\ r6[6] = r5[6]
  BY <1>0, <1>5, WritePressureShift DEF r6
<1>7. /\ w \in Regs /\ Field(w, MSR_CTRL) = CONT_BOTH
      /\ w[6] = r6[6] /\ w[7] = r6[7] /\ w[9] = r6[9]
  BY <1>0, <1>6, <1>w, WriteMode
<1>8. /\ Field(w, TEMP_MR) = TempMr /\ Field(w, TEMP_OSR) = TempOsr
      /\ Field(w, TEMP_SENSOR) = Field(r, TEMP_SENSOR)
  <2>1. w[7] = r2[7]
    BY <1>3, <1>4, <1>5, <1>6, <1>7
  <2> QED BY <1>2, <1>7, <2>1, SameFields
<1>9. Field(w, PRS_MR) = PrsMr /\ Field(w, PRS_OSR) = PrsOsr
  <2>1. w[6] = r5[6]
    BY <1>6, <1>7
  <2> QED BY <1>5, <1>7, <2>1, SameFields
<1>10. Field(w, TEMP_SHIFT) = Shift(TempOsr) /\ Field(w, PRS_SHIFT) = Shift(PrsOsr)
  <2>1. r5[9] = r3[9]
    BY <1>4, <1>5
  <2>2. Field(r5, TEMP_SHIFT) = Field(r3, TEMP_SHIFT)
    BY <1>3, <1>5, <2>1, SameFields
  <2>3. /\ Field(w, TEMP_SHIFT) = Field(r6, TEMP_SHIFT)
        /\ Field(w, PRS_SHIFT) = Field(r6, PRS_SHIFT)
    BY <1>6, <1>7, SameFields
  <2> QED BY <1>3, <1>6, <2>2, <2>3
<1> QED BY <1>7, <1>8, <1>9, <1>10

\* The mode is in a register of its own.
LEMMA IdleRegisters ==
  ASSUME NEW r \in Regs, NEW w, w = With(r, MSR_CTRL, IDLE)
  PROVE  w \in Regs /\ Field(w, MSR_CTRL) = IDLE /\ Field(w, TEMP_SENSOR) = Field(r, TEMP_SENSOR)
<1>1. IDLE \in 0 .. 7
  BY DEF IDLE
<1>2. w \in Regs /\ Field(w, MSR_CTRL) = IDLE /\ w[7] = r[7]
  BY <1>1, WriteMode
<1> QED BY <1>2, SameFields

\* dps310_init selects the temperature sensor before the single measurement.
LEMMA BootRegisters ==
  ASSUME NEW r \in Regs, NEW w,
         w = With(With(r, TEMP_SENSOR, Recommended), MSR_CTRL, CMD_TEMP)
  PROVE  /\ w \in Regs /\ Field(w, MSR_CTRL) = CMD_TEMP
         /\ Field(w, TEMP_SENSOR) = Recommended
<1> DEFINE r1 == With(r, TEMP_SENSOR, Recommended)
<1>1. CMD_TEMP \in 0 .. 7 /\ Recommended \in 0 .. 1
  BY SettingsAssumption DEF CMD_TEMP
<1> HIDE DEF r1
<1>2. r1 \in Regs /\ Field(r1, TEMP_SENSOR) = Recommended
  BY <1>1, WriteSource DEF r1
<1>3. w \in Regs /\ Field(w, MSR_CTRL) = CMD_TEMP /\ w[7] = r1[7]
  BY <1>1, <1>2, WriteMode DEF r1
<1> QED BY <1>2, <1>3, SameFields
=============================================================================
