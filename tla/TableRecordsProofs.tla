------------------------- MODULE TableRecordsProofs -------------------------
(***************************************************************************)
(* The invariants of TableRecords, for every schema that tables.h allows,  *)
(* all values and all expressions: bytes of integers and strings, places   *)
(* of attributes, records, the schema page, expressions, and the inductive *)
(* invariant.                                                              *)
(***************************************************************************)
EXTENDS TableRecords, FiniteSetTheorems, WellFoundedInduction, TLAPS

-----------------------------------------------------------------------------
(***************************************************************************)
(* Bytes.                                                                  *)
(***************************************************************************)

\* A set of natural numbers has a smallest one: induction over loops starts
\* from it.
LEMMA Smallest ==
  ASSUME NEW S \in SUBSET Nat, S # {}
  PROVE  \E x \in S : \A y \in S : x <= y
<1> DEFINE R == {ss \in Nat \X Nat : ss[1] < ss[2]}
<1>1. IsWellFoundedOn(R, Nat)
  BY NatLessThanWellFounded, Zenon DEF OpToRel
<1>2. PICK x \in S : \A y \in S : ~ (<<y, x>> \in R)
  BY <1>1, WFMin, Zenon
<1>3. \A y \in S : ~ (y < x)
  BY <1>2
<1> QED
  BY <1>3

\* A remainder by 256 is a byte.
LEMMA Bytes ==
  /\ \A i \in Int : i % 256 \in Byte
  /\ \A b \in Byte : b \in Int /\ 0 <= b /\ b < 256
  /\ \A c \in Char : c \in Byte /\ c # 0
  /\ 0 \in Byte
  BY DEF Byte, Char

\* The four bytes of an integer are bytes, and give an int back, the sign
\* included.
LEMMA IntBytes ==
  ASSUME NEW i \in Int
  PROVE  /\ ToBytes(SizeOfInt, i) \in [1 .. 4 -> Byte]
         /\ i \in Int32 => FromBytes(ToBytes(SizeOfInt, i)) = i
<1> DEFINE b == ToBytes(SizeOfInt, i)
<1>1. b = [k \in 1 .. 4 |-> (i \div Weight[k]) % 256]
  BY DEF ToBytes, SizeOfInt
<1>2. i \in Int32 => -2147483648 <= i /\ i <= 2147483647
  BY SMT DEF Int32, MaxInt
<1>3. /\ b[1] = i % 256
      /\ b[2] = (i \div 256) % 256
      /\ b[3] = (i \div 65536) % 256
      /\ b[4] = (i \div 16777216) % 256
  BY SMT, <1>1 DEF Weight
<1>4. b \in [1 .. 4 -> Byte]
  BY SMT, <1>1, <1>3, Bytes
<1>5. Len(b) = 4
  BY <1>4
<1> HIDE DEF b
<1>6. FromBytes(b) = b[1] + 256 * b[2] + 65536 * b[3]
                       + 16777216 * (IF b[4] < 128 THEN b[4] ELSE b[4] - 256)
  BY SMT, <1>5 DEF FromBytes, SizeOfBool
<1>7. i \in Int32 => FromBytes(b) = i
  BY SMT, <1>2, <1>3, <1>6
<1> QED
  BY <1>4, <1>7 DEF b

\* The two bytes of a boolean give the short back.
LEMMA BoolBytes ==
  ASSUME NEW i \in Short
  PROVE  /\ ToBytes(SizeOfBool, i) \in [1 .. 2 -> Byte]
         /\ FromBytes(ToBytes(SizeOfBool, i)) = i
<1> DEFINE b == ToBytes(SizeOfBool, i)
<1>1. b = [k \in 1 .. 2 |-> (i \div Weight[k]) % 256]
  BY DEF ToBytes, SizeOfBool
<1>2. i \in Int /\ -32768 <= i /\ i <= 32767
  BY DEF Short
<1>3. b[1] = i % 256 /\ b[2] = (i \div 256) % 256
  BY <1>1, <1>2 DEF Weight
<1>4. b \in [1 .. 2 -> Byte]
  BY <1>1, <1>2, <1>3, Bytes
<1>5. Len(b) = 2
  BY <1>4
<1> HIDE DEF b
<1>6. FromBytes(b) = b[1] + 256 * (IF b[2] < 128 THEN b[2] ELSE b[2] - 256)
  BY <1>5 DEF FromBytes, SizeOfBool
<1>7. FromBytes(b) = i
  BY <1>2, <1>3, <1>6
<1> QED
  BY <1>4, <1>7 DEF b

\* A string ends at the first NUL, or where the bytes do.
LEMMA StringEnds ==
  ASSUME NEW bytes \in Seq(Byte), NEW n \in 0 .. Len(bytes),
         \A k \in 1 .. n : bytes[k] # 0,
         n < Len(bytes) => bytes[n + 1] = 0
  PROVE  strlen(bytes) = n /\ CString(bytes) = SubSeq(bytes, 1, n)
<1> DEFINE Ends(x) == /\ \A k \in 1 .. x : bytes[k] # 0
                      /\ x < Len(bytes) => bytes[x + 1] = 0
<1>1. Ends(n)
  OBVIOUS
<1>2. ASSUME NEW x \in 0 .. Len(bytes), Ends(x)
      PROVE  x = n
  <2>1. Len(bytes) \in Nat
    OBVIOUS
  <2>2. ~ (x < n)
    BY <1>2, <2>1
  <2>3. ~ (n < x)
    BY <1>2, <2>1
  <2> QED
    BY <2>1, <2>2, <2>3
<1>3. strlen(bytes) = n
  BY <1>1, <1>2 DEF strlen
<1>4. CString(bytes) = SubSeq(bytes, 0 + 1, 0 + n)
  BY <1>3 DEF CString, At
<1>5. 0 + 1 = 1 /\ 0 + n = n
  OBVIOUS
<1> QED
  BY <1>3, <1>4, <1>5

\* What strncpy leaves in n bytes is read back as the first n characters.
LEMMA StrncpyBytes ==
  ASSUME NEW s \in Seq(Char), NEW n \in Nat
  PROVE  /\ Strncpy(s, n) \in [1 .. n -> Byte]
         /\ CString(Strncpy(s, n)) = IF Len(s) > n THEN At(s, 0, n) ELSE s
<1> DEFINE b == Strncpy(s, n)
<1>1. b = [k \in 1 .. n |-> IF k <= Len(s) THEN s[k] ELSE 0]
  BY DEF Strncpy
<1>2. Len(s) \in Nat /\ \A k \in 1 .. Len(s) : s[k] \in Byte /\ s[k] # 0
  BY Bytes
<1>3. b \in [1 .. n -> Byte]
  BY <1>1, <1>2, Bytes
<1>4. b \in Seq(Byte) /\ Len(b) = n
  BY <1>3
<1>5. CASE Len(s) > n
  <2>1. \A k \in 1 .. n : b[k] # 0 /\ b[k] = s[k]
    BY <1>1, <1>2, <1>5
  <2> HIDE DEF b
  <2>2. CString(b) = SubSeq(b, 1, n)
    BY <1>4, <2>1, StringEnds
  <2>3. SubSeq(b, 1, n) = SubSeq(s, 0 + 1, 0 + n)
    BY <1>2, <1>4, <1>5, <2>1
  <2> QED
    BY <1>3, <1>5, <2>2, <2>3 DEF At, b
<1>6. CASE ~ (Len(s) > n)
  <2>1. \A k \in 1 .. Len(s) : b[k] # 0 /\ b[k] = s[k]
    BY <1>1, <1>2, <1>6
  <2>2. Len(s) < n => b[Len(s) + 1] = 0
    BY <1>1, <1>2
  <2> HIDE DEF b
  <2>3. CString(b) = SubSeq(b, 1, Len(s))
    BY <1>2, <1>4, <1>6, <2>1, <2>2, StringEnds
  <2>4. SubSeq(b, 1, Len(s)) = s
    BY <1>2, <1>4, <1>6, <2>1
  <2> QED
    BY <1>3, <1>6, <2>3, <2>4 DEF b
<1> QED
  BY <1>5, <1>6

-----------------------------------------------------------------------------
(***************************************************************************)
(* Records.                                                                *)
(***************************************************************************)

\* f has the values of a variable in a loop of n turns.
Looped(n, S, start, turn) ==
  \E f \in [0 .. n -> S] :
    f[0] = start /\ \A j \in 1 .. n : f[j] = turn[j][f[j - 1]]

\* Every loop over a variable with values in S gives it such values: what the
\* recursive functions of RecordLayout rest on.
LEMMA Loop ==
  ASSUME NEW n \in Nat, NEW S, NEW start \in S,
         NEW turn \in [1 .. n -> [S -> S]]
  PROVE  Looped(n, S, start, turn)
<1> DEFINE Runs(m, f) ==
             f[0] = start /\ \A j \in 1 .. m : f[j] = turn[j][f[j - 1]]
           Has(m) == \E f \in [0 .. m -> S] : Runs(m, f)
           Bad == {m \in Nat : m <= n /\ ~ Has(m)}
<1>1. Has(0)
  <2>1. Runs(0, [j \in 0 .. 0 |-> start])
    OBVIOUS
  <2>2. [j \in 0 .. 0 |-> start] \in [0 .. 0 -> S]
    OBVIOUS
  <2> QED
    BY <2>1, <2>2
<1>2. ASSUME NEW m \in Nat, m < n, Has(m)
      PROVE  Has(m + 1)
  <2>1. PICK f \in [0 .. m -> S] : Runs(m, f)
    BY <1>2
  <2> DEFINE x == turn[m + 1][f[m]]
             g == [j \in 0 .. m + 1 |-> IF j = m + 1 THEN x ELSE f[j]]
  <2>2. m + 1 \in 1 .. n /\ f[m] \in S
    BY <1>2
  <2>3. x \in S
    BY <2>2
  <2> HIDE DEF x
  <2>4. g \in [0 .. m + 1 -> S]
    BY <2>3
  <2>5. g[0] = start /\ g[m + 1] = x /\ \A j \in 0 .. m : g[j] = f[j]
    BY <2>1
  <2>6. ASSUME NEW j \in 1 .. m + 1 PROVE g[j] = turn[j][g[j - 1]]
    <3> HIDE DEF g
    <3>1. CASE j = m + 1
      <4>1. j - 1 = m
        BY <3>1
      <4> QED
        BY <2>5, <3>1, <4>1 DEF x
    <3>2. CASE j # m + 1
      <4>1. j \in 1 .. m /\ j \in 0 .. m /\ j - 1 \in 0 .. m
        BY <2>6, <3>2
      <4> QED
        BY <2>1, <2>5, <4>1
    <3> QED
      BY <3>1, <3>2
  <2>7. Runs(m + 1, g)
    <3> HIDE DEF g
    <3> QED
      BY <2>5, <2>6
  <2> QED
    BY <2>4, <2>7
<1> HIDE DEF Has
<1>3. ASSUME Bad # {} PROVE FALSE
  <2>1. PICK m \in Bad : \A x \in Bad : m <= x
    BY <1>3, Smallest
  <2>2. m # 0
    BY <1>1, <2>1
  <2>3. m \in Nat /\ m - 1 \in Nat /\ (m - 1) + 1 = m /\ m - 1 < n /\ ~ (m <= m - 1)
    BY <2>1, <2>2
  <2>4. Has(m - 1)
    BY <2>1, <2>3
  <2> QED
    BY <1>2, <2>1, <2>3, <2>4
<1>4. n \notin Bad
  BY <1>3
<1>5. Has(n)
  BY <1>4
<1> QED
  BY <1>5 DEF Has, Looped

\* Sums over the first j of n numbers.
LEMMA Sums ==
  ASSUME NEW n \in Nat, NEW w \in [1 .. n -> Nat]
  PROVE  \E f \in [0 .. n -> Nat] :
           f[0] = 0 /\ \A j \in 1 .. n : f[j] = f[j - 1] + w[j]
<1> DEFINE turn == [j \in 1 .. n |-> [x \in Nat |-> x + w[j]]]
<1>1. turn \in [1 .. n -> [Nat -> Nat]]
  OBVIOUS
<1>2. \A j \in 1 .. n, x \in Nat : turn[j][x] = x + w[j]
  OBVIOUS
<1> HIDE DEF turn
<1>3. 0 \in Nat
  OBVIOUS
<1>4. Looped(n, Nat, 0, turn)
  BY <1>1, <1>3, Loop
<1>5. PICK f \in [0 .. n -> Nat] :
        f[0] = 0 /\ \A j \in 1 .. n : f[j] = turn[j][f[j - 1]]
  BY <1>4 DEF Looped
<1>6. ASSUME NEW j \in 1 .. n PROVE f[j] = f[j - 1] + w[j]
  <2>1. f[j - 1] \in Nat
    OBVIOUS
  <2>2. f[j] = turn[j][f[j - 1]]
    BY <1>5
  <2> QED
    BY <1>2, <2>1, <2>2
<1> QED
  BY <1>5, <1>6

\* The attributes of a schema, their types and their widths.
LEMMA Attributes ==
  ASSUME NEW s, IsSchema(s)
  PROVE  /\ numAttr(s) \in Nat
         /\ \A i \in Attrs(s) :
              /\ i \in Nat /\ i + 1 \in 1 .. numAttr(s)
              /\ AttrType(s)[i] = s.dataTypes[i + 1]
              /\ AttrType(s)[i] \in DataType
              /\ Width(s, i) \in Nat
              /\ AttrType(s)[i] = "DT_STRING" => Width(s, i) = s.typeLength[i + 1]
              /\ AttrType(s)[i] = "DT_BOOL" => Width(s, i) = SizeOfBool
              /\ AttrType(s)[i] \in {"DT_INT", "DT_FLOAT"} => Width(s, i) = SizeOfInt
<1>1. /\ s.dataTypes \in Seq(DataType)
      /\ s.typeLength \in Seq(0 .. MaxInt)
      /\ Len(s.typeLength) = numAttr(s)
  BY DEF IsSchema, SchemaType
<1>2. numAttr(s) \in Nat
  BY <1>1 DEF numAttr
<1>3. ASSUME NEW i \in Attrs(s)
      PROVE  /\ i \in Nat /\ i + 1 \in 1 .. numAttr(s)
             /\ AttrType(s)[i] = s.dataTypes[i + 1]
             /\ AttrType(s)[i] \in DataType
             /\ s.typeLength[i + 1] \in Nat
  <2>1. i \in 0 .. numAttr(s) - 1
    BY <1>3 DEF Attrs
  <2>2. i \in Nat /\ i + 1 \in 1 .. numAttr(s)
    BY <1>2, <2>1
  <2>3. AttrType(s)[i] = s.dataTypes[i + 1]
    BY <1>3 DEF AttrType
  <2>4. s.dataTypes[i + 1] \in DataType
    BY <1>1, <2>2 DEF numAttr
  <2>5. s.typeLength[i + 1] \in Nat
    <3> DEFINE Lengths == 0 .. MaxInt
    <3>1. \A x \in Lengths : x \in Nat
      OBVIOUS
    <3>2. s.typeLength \in Seq(Lengths)
      BY <1>1
    <3> HIDE DEF Lengths
    <3>3. s.typeLength[i + 1] \in Lengths
      BY <1>1, <2>2, <3>2
    <3> QED
      BY <3>1, <3>3
  <2> QED
    BY <2>2, <2>3, <2>4, <2>5
<1>4. SizeOfInt \in Nat /\ SizeOfBool \in Nat
  BY DEF SizeOfInt, SizeOfBool
<1> QED
  BY <1>2, <1>3, <1>4 DEF Width, DataType

\* The loops over the attributes before i add their widths; the serializer's is
\* the same.
LEMMA Offsets ==
  ASSUME NEW s, IsSchema(s)
  PROVE  /\ Offset(s, 0) = 0
         /\ \A i \in 0 .. numAttr(s) :
              Offset(s, i) \in Nat /\ attrOffset(s, i) = Offset(s, i)
         /\ \A i \in Attrs(s) : Offset(s, i + 1) = Offset(s, i) + Width(s, i)
<1> DEFINE n == numAttr(s)
           w == [j \in 1 .. n |-> Width(s, j - 1)]
           offset[j \in 0 .. n] ==
             IF j = 0 THEN 0 ELSE offset[j - 1] + Width(s, j - 1)
<1>1. n \in Nat /\ \A j \in 1 .. n : j - 1 \in Attrs(s) /\ Width(s, j - 1) \in Nat
  BY Attributes DEF Attrs
<1>2. w \in [1 .. n -> Nat]
  BY <1>1
<1>3. PICK f \in [0 .. n -> Nat] : f[0] = 0 /\ \A j \in 1 .. n : f[j] = f[j - 1] + w[j]
  BY <1>1, <1>2, Sums
<1>4. f = [j \in 0 .. n |-> IF j = 0 THEN 0 ELSE f[j - 1] + Width(s, j - 1)]
  BY <1>1, <1>3
<1>5. offset = [j \in 0 .. n |-> IF j = 0 THEN 0 ELSE offset[j - 1] + Width(s, j - 1)]
  BY <1>4
<1>6. \A i : Offset(s, i) = offset[i] /\ attrOffset(s, i) = offset[i]
  BY DEF Offset, attrOffset
<1> HIDE DEF offset
<1>7. offset[0] = 0 /\ \A j \in 1 .. n : offset[j] = offset[j - 1] + Width(s, j - 1)
  BY <1>1, <1>5
<1> DEFINE Bad == {m \in Nat : m <= n /\ offset[m] \notin Nat}
<1>8. ASSUME Bad # {} PROVE FALSE
  <2>1. PICK m \in Bad : \A x \in Bad : m <= x
    BY <1>8, Smallest
  <2>2. m # 0 /\ m - 1 \in Nat /\ m - 1 \notin Bad /\ m \in 1 .. n
    BY <1>1, <1>7, <2>1
  <2>3. offset[m - 1] \in Nat /\ Width(s, m - 1) \in Nat
    BY <1>1, <2>2
  <2> QED
    BY <1>7, <2>1, <2>2, <2>3
<1>9. \A i \in 0 .. n : offset[i] \in Nat
  BY <1>1, <1>8
<1>10. \A i \in Attrs(s) : i + 1 \in 1 .. n /\ (i + 1) - 1 = i
  BY <1>1 DEF Attrs
<1> QED
  BY <1>6, <1>7, <1>9, <1>10

\* Attributes do not overlap, and lie in the record.
LEMMA OffsetsApart ==
  ASSUME NEW s, IsSchema(s), NEW i \in Attrs(s)
  PROVE  /\ \A j \in Attrs(s) : i < j => Offset(s, i) + Width(s, i) <= Offset(s, j)
         /\ Offset(s, i) + Width(s, i) <= getRecordSize(s)
<1> DEFINE n == numAttr(s)
           Bad == {m \in Nat : /\ m <= n /\ i < m
                               /\ ~ (Offset(s, i) + Width(s, i) <= Offset(s, m))}
<1>1. /\ n \in Nat /\ Attrs(s) = 0 .. n - 1 /\ i \in Nat /\ i < n
      /\ \A j \in Attrs(s) : Width(s, j) \in Nat
  BY Attributes DEF Attrs
<1>2. /\ \A j \in 0 .. n : Offset(s, j) \in Nat
      /\ \A j \in Attrs(s) : Offset(s, j + 1) = Offset(s, j) + Width(s, j)
  BY Offsets
<1>3. ASSUME Bad # {} PROVE FALSE
  <2>1. PICK m \in Bad : \A x \in Bad : m <= x
    BY <1>3, Smallest
  <2>2. m \in Nat /\ m - 1 \in Attrs(s) /\ m - 1 \in Nat /\ (m - 1) + 1 = m
    BY <1>1, <2>1
  <2>3. Offset(s, m) = Offset(s, m - 1) + Width(s, m - 1)
    BY <1>2, <2>2
  <2>4. m - 1 # i
    BY <1>1, <1>2, <2>1, <2>3
  <2>5. m - 1 \notin Bad /\ i < m - 1 /\ m - 1 <= n
    BY <1>1, <2>1, <2>2, <2>4
  <2>6. Offset(s, i) + Width(s, i) <= Offset(s, m - 1)
    BY <2>2, <2>5
  <2>7. Offset(s, m - 1) <= Offset(s, m)
    <3>1. Offset(s, m - 1) \in Nat /\ Width(s, m - 1) \in Nat
      BY <1>1, <1>2, <2>2
    <3> QED
      BY <2>3, <3>1
  <2>8. Offset(s, m) \in Nat /\ Offset(s, m - 1) \in Nat /\ Offset(s, i) + Width(s, i) \in Nat
    BY <1>1, <1>2, <2>1, <2>2
  <2> QED
    BY <2>1, <2>6, <2>7, <2>8
<1>4. \A m \in Nat : m <= n /\ i < m => Offset(s, i) + Width(s, i) <= Offset(s, m)
  BY <1>3
<1> QED
  BY <1>1, <1>4 DEF getRecordSize

\* The bytes at an offset.
LEMMA BytesAt ==
  ASSUME NEW memory \in Seq(Byte), NEW o \in Nat, NEW n \in Nat,
         o + n <= Len(memory)
  PROVE  /\ At(memory, o, n) \in [1 .. n -> Byte]
         /\ \A k \in 1 .. n : At(memory, o, n)[k] = memory[o + k]
         /\ At(memory, o, n) = [k \in 1 .. n |-> memory[o + k]]
<1> DEFINE a == At(memory, o, n)
<1>1. Len(memory) \in Nat
  OBVIOUS
<1>2. a = SubSeq(memory, o + 1, o + n)
  BY DEF At
<1>3. a = [k \in 1 .. n |-> memory[o + k]]
  <2>1. (o + n) - (o + 1) + 1 = n
    OBVIOUS
  <2>2. a \in Seq(Byte) /\ Len(a) = n
    BY <1>1, <1>2
  <2>3. ASSUME NEW k \in 1 .. n PROVE a[k] = memory[o + k]
    BY <1>1, <1>2, <2>3
  <2> QED
    BY <2>2, <2>3
<1>4. \A k \in 1 .. n : o + k \in 1 .. Len(memory)
  BY <1>1
<1>5. \A k \in 1 .. n : memory[o + k] \in Byte
  BY <1>4
<1> HIDE DEF a
<1>6. a \in [1 .. n -> Byte] /\ \A k \in 1 .. n : a[k] = memory[o + k]
  BY <1>3, <1>5
<1> QED
  BY <1>3, <1>6 DEF a

\* memcpy to an offset: the bytes are there, and what lies before or behind is
\* what it was.
LEMMA CopiedBytes ==
  ASSUME NEW memory \in Seq(Byte), NEW o \in Nat, NEW n \in Nat,
         NEW bytes \in [1 .. n -> Byte], o + n <= Len(memory)
  PROVE  /\ Copied_to(memory, o, bytes) \in Seq(Byte)
         /\ Len(Copied_to(memory, o, bytes)) = Len(memory)
         /\ At(Copied_to(memory, o, bytes), o, n) = bytes
         /\ \A p, m \in Nat :
              p + m <= Len(memory) /\ (p + m <= o \/ o + n <= p)
                => At(Copied_to(memory, o, bytes), p, m) = At(memory, p, m)
<1> DEFINE c == Copied_to(memory, o, bytes)
<1>1. Len(bytes) = n /\ Len(memory) \in Nat
  OBVIOUS
<1>2. c = [k \in 1 .. Len(memory) |->
             IF k - o \in 1 .. n THEN bytes[k - o] ELSE memory[k]]
  BY <1>1 DEF Copied_to
<1> HIDE DEF c
<1>3. \A k \in 1 .. Len(memory) : c[k] \in Byte
  BY <1>1, <1>2
<1>4. c \in [1 .. Len(memory) -> Byte]
  BY <1>2, <1>3
<1>5. c \in Seq(Byte) /\ Len(c) = Len(memory)
  BY <1>1, <1>4
<1>6. At(c, o, n) = bytes
  <2>1. At(c, o, n) = [k \in 1 .. n |-> c[o + k]]
    BY <1>5, BytesAt
  <2>2. \A k \in 1 .. n : c[o + k] = bytes[k]
    BY <1>1, <1>2
  <2> QED
    BY <2>1, <2>2
<1>7. ASSUME NEW p \in Nat, NEW m \in Nat, p + m <= Len(memory),
             p + m <= o \/ o + n <= p
      PROVE  At(c, p, m) = At(memory, p, m)
  <2>1. At(c, p, m) = [k \in 1 .. m |-> c[p + k]]
    BY <1>5, <1>7, BytesAt
  <2>2. At(memory, p, m) = [k \in 1 .. m |-> memory[p + k]]
    BY <1>7, BytesAt
  <2>3. \A k \in 1 .. m : c[p + k] = memory[p + k]
    BY <1>1, <1>2, <1>7
  <2> QED
    BY <2>1, <2>2, <2>3
<1> QED
  BY <1>5, <1>6, <1>7 DEF c

\* A value is a type, a number in its range and a string.
LEMMA Values ==
  ASSUME NEW x \in Value
  PROVE  /\ x.dt \in DataType
         /\ x = [dt |-> x.dt, v |-> x.v, s |-> x.s]
         /\ x.v \in Int
         /\ x.dt = "DT_STRING" => x.s \in Seq(Char) /\ x.v = 0
         /\ x.dt = "DT_BOOL" => x.v \in Short
         /\ x.dt \in {"DT_INT", "DT_FLOAT"} => x.v \in Int32
         /\ x.dt # "DT_STRING" => x.s = << >>
<1>1. MaxInt \in Int /\ -MaxInt - 1 <= 0
  BY SMT DEF MaxInt
<1>2. 0 .. MaxInt \subseteq Int32 /\ Int32 \subseteq Int /\ Short \subseteq Int
  BY <1>1, SMT DEF Int32, Short
<1>3. CASE x \in [dt : {"DT_INT"}, v : Int32, s : {<< >>}]
  BY <1>2, <1>3 DEF DataType
<1>4. CASE x \in [dt : {"DT_FLOAT"}, v : 0 .. MaxInt, s : {<< >>}]
  BY <1>2, <1>4 DEF DataType
<1>5. CASE x \in [dt : {"DT_STRING"}, v : {0}, s : Seq(Char)]
  BY <1>5 DEF DataType
<1>6. CASE x \in [dt : {"DT_BOOL"}, v : Short, s : {<< >>}]
  BY <1>2, <1>6 DEF DataType
<1> QED
  BY <1>3, <1>4, <1>5, <1>6 DEF Value

\* The low half of a short is the short.
LEMMA BoolVShort ==
  ASSUME NEW x, x.v \in Short
  PROVE  boolV(x) = x.v
<1>1. x.v \in Int /\ -32768 <= x.v /\ x.v <= 32767
  BY SMT DEF Short
<1>2. (x.v + 32768) % 65536 = x.v + 32768
  BY <1>1, SMT
<1> QED
  BY <1>1, <1>2, SMT DEF boolV

\* setAttr stores as many bytes as the attribute has, and getAttr makes of them
\* the value, or as much of a string as fits.
LEMMA StoredReads ==
  ASSUME NEW s, IsSchema(s), NEW i \in Attrs(s), NEW x \in Value,
         x.dt = AttrType(s)[i]
  PROVE  /\ Stored(s, i, x) \in [1 .. Width(s, i) -> Byte]
         /\ Read(s, i, Stored(s, i, x)) = Held(s, i, x)
<1>1. CASE x.dt = "DT_STRING"
  <2>1. Width(s, i) \in Nat /\ Width(s, i) = s.typeLength[i + 1]
    BY <1>1, Attributes
  <2>2. x.s \in Seq(Char) /\ x = [dt |-> "DT_STRING", v |-> 0, s |-> x.s]
    BY <1>1, Values
  <2>3. Stored(s, i, x) = Strncpy(x.s, Width(s, i))
    BY <1>1 DEF Stored
  <2>4. /\ Stored(s, i, x) \in [1 .. Width(s, i) -> Byte]
        /\ CString(Stored(s, i, x)) = IF Len(x.s) > Width(s, i)
                                      THEN At(x.s, 0, Width(s, i)) ELSE x.s
    BY <2>1, <2>2, <2>3, StrncpyBytes
  <2>5. Read(s, i, Stored(s, i, x))
          = [dt |-> "DT_STRING", v |-> 0, s |-> CString(Stored(s, i, x))]
    BY <1>1 DEF Read, StringValue
  <2>6. Held(s, i, x) = [dt |-> "DT_STRING", v |-> 0,
                         s |-> IF Len(x.s) > Width(s, i)
                               THEN At(x.s, 0, Width(s, i)) ELSE x.s]
    BY <1>1, <2>1, <2>2 DEF Held
  <2> QED
    BY <2>4, <2>5, <2>6
<1>2. CASE x.dt = "DT_BOOL"
  <2>1. Width(s, i) = 2
    BY <1>2, Attributes DEF SizeOfBool
  <2>2. x.v \in Short /\ x = [dt |-> "DT_BOOL", v |-> x.v, s |-> << >>]
    BY <1>2, Values
  <2>3. Stored(s, i, x) = ToBytes(SizeOfBool, x.v)
    BY <1>2, <2>2, BoolVShort DEF Stored
  <2>4. Read(s, i, Stored(s, i, x))
          = [dt |-> "DT_BOOL", v |-> FromBytes(Stored(s, i, x)), s |-> << >>]
    BY <1>2 DEF Read
  <2> QED
    BY <1>2, <2>1, <2>2, <2>3, <2>4, BoolBytes DEF Held
<1>3. CASE x.dt \in {"DT_INT", "DT_FLOAT"}
  <2>1. Width(s, i) = 4
    BY <1>3, Attributes DEF SizeOfInt
  <2>2. x.v \in Int32 /\ x = [dt |-> x.dt, v |-> x.v, s |-> << >>]
    BY <1>3, Values
  <2>3. Stored(s, i, x) = ToBytes(SizeOfInt, x.v)
    BY <1>3 DEF Stored
  <2>4. Read(s, i, Stored(s, i, x))
          = [dt |-> x.dt, v |-> FromBytes(Stored(s, i, x)), s |-> << >>]
    BY <1>3 DEF Read
  <2> QED
    BY <1>3, <2>1, <2>2, <2>3, <2>4, Values, IntBytes DEF Held
<1> QED
  BY <1>1, <1>2, <1>3, Values DEF DataType

\* What fits of a value is a value of its type.
LEMMA HeldValue ==
  ASSUME NEW s, IsSchema(s), NEW i \in Attrs(s), NEW x \in Value
  PROVE  Held(s, i, x) \in Value /\ Held(s, i, x).dt = x.dt
<1>1. CASE x.dt = "DT_STRING" /\ Len(x.s) > s.typeLength[i + 1]
       /\ s.typeLength[i + 1] \in Nat
  <2> DEFINE n == s.typeLength[i + 1]
  <2>1. x.s \in Seq(Char) /\ x = [dt |-> "DT_STRING", v |-> 0, s |-> x.s]
    BY <1>1, Values
  <2>2. At(x.s, 0, n) \in Seq(Char)
    BY <1>1, <2>1 DEF At
  <2>3. Held(s, i, x) = [dt |-> "DT_STRING", v |-> 0, s |-> At(x.s, 0, n)]
    BY <1>1, <2>1 DEF Held
  <2>4. Held(s, i, x) \in [dt : {"DT_STRING"}, v : {0}, s : Seq(Char)]
    BY <2>2, <2>3
  <2> QED
    BY <1>1, <2>3, <2>4 DEF Value
<1>2. CASE ~ (x.dt = "DT_STRING" /\ Len(x.s) > s.typeLength[i + 1])
  BY <1>2 DEF Held
<1>3. x.dt = "DT_STRING" => s.typeLength[i + 1] \in Nat
  <2>1. /\ s.typeLength \in Seq(0 .. MaxInt) /\ Len(s.typeLength) = numAttr(s)
        /\ i + 1 \in 1 .. numAttr(s)
    BY Attributes DEF IsSchema, SchemaType
  <2> DEFINE Lengths == 0 .. MaxInt
  <2>2. \A y \in Lengths : y \in Nat
    OBVIOUS
  <2>3. s.typeLength \in Seq(Lengths)
    BY <2>1
  <2> HIDE DEF Lengths
  <2>4. s.typeLength[i + 1] \in Lengths
    BY <2>1, <2>3
  <2> QED
    BY <2>2, <2>4
<1> QED
  BY <1>1, <1>2, <1>3

\* The zeros of a new record are read as the zeros of their types.
LEMMA ZerosRead ==
  ASSUME NEW s, IsSchema(s)
  PROVE  /\ NULs(getRecordSize(s)) \in Seq(Byte)
         /\ Len(NULs(getRecordSize(s))) = getRecordSize(s)
         /\ \A i \in Attrs(s) :
              /\ getAttr(NULs(getRecordSize(s)), s, i) = ZeroRow(s)[i]
              /\ ZeroRow(s)[i] \in Value /\ ZeroRow(s)[i].dt = AttrType(s)[i]
         /\ DOMAIN ZeroRow(s) = Attrs(s)
<1> DEFINE n == getRecordSize(s)
           d == NULs(n)
<1>1. n \in Nat
  BY Offsets, Attributes DEF getRecordSize
<1> HIDE DEF n
<1>2. d \in Seq(Byte) /\ Len(d) = n /\ \A k \in 1 .. n : d[k] = 0
  BY <1>1, Bytes DEF NULs
<1> HIDE DEF d
<1>3. ASSUME NEW i \in Attrs(s)
      PROVE  /\ getAttr(d, s, i) = ZeroRow(s)[i]
             /\ ZeroRow(s)[i] \in Value /\ ZeroRow(s)[i].dt = AttrType(s)[i]
  <2> DEFINE w == Width(s, i)
             o == Offset(s, i)
             b == At(d, o, w)
  <2>1. w \in Nat /\ o \in Nat /\ o + w <= n /\ AttrType(s)[i] \in DataType
    <3>1. i \in 0 .. numAttr(s)
      BY Attributes DEF Attrs
    <3> QED
      BY <3>1, Attributes, Offsets, OffsetsApart DEF n
  <2>2. b \in [1 .. w -> Byte] /\ \A k \in 1 .. w : b[k] = d[o + k]
    <3> HIDE DEF w, o
    <3> QED
      BY <1>2, <2>1, BytesAt
  <2>3. \A k \in 1 .. w : b[k] = 0
    BY <1>1, <1>2, <2>1, <2>2
  <2>4. getAttr(d, s, i) = Read(s, i, b)
    BY DEF getAttr
  <2>5. ZeroRow(s)[i] = [dt |-> AttrType(s)[i], v |-> 0, s |-> << >>]
    BY <1>3 DEF ZeroRow
  <2> HIDE DEF b
  <2>6. b \in Seq(Byte) /\ Len(b) = w
    BY <2>1, <2>2
  <2>7. CASE AttrType(s)[i] = "DT_STRING"
    <3>1. CString(b) = SubSeq(b, 1, 0)
      <4>1. 0 \in 0 .. Len(b) /\ (0 < Len(b) => b[0 + 1] = 0)
        BY <2>1, <2>3, <2>6
      <4>2. \A k \in 1 .. 0 : b[k] # 0
        OBVIOUS
      <4> QED
        BY <2>6, <4>1, <4>2, StringEnds
    <3>2. SubSeq(b, 1, 0) = << >>
      BY <2>6
    <3>3. Read(s, i, b) = [dt |-> "DT_STRING", v |-> 0, s |-> << >>]
      BY <2>7, <3>1, <3>2 DEF Read, StringValue
    <3>4. << >> \in Seq(Char)
      OBVIOUS
    <3>5. ZeroRow(s)[i] \in [dt : {"DT_STRING"}, v : {0}, s : Seq(Char)]
      BY <2>5, <2>7, <3>4
    <3> QED
      BY <2>4, <2>5, <2>7, <3>3, <3>5 DEF Value
  <2>8. 0 \in Int32 /\ 0 \in Short /\ 0 \in 0 .. MaxInt
    <3>1. MaxInt \in Int /\ MaxInt >= 0
      BY SMT DEF MaxInt
    <3> QED
      BY <3>1, SMT DEF Int32, Short
  <2>9. CASE AttrType(s)[i] # "DT_STRING"
    <3>1. Read(s, i, b) = [dt |-> AttrType(s)[i], v |-> FromBytes(b), s |-> << >>]
      BY <2>9 DEF Read
    <3>2. w = 2 \/ w = 4
      BY <1>3, <2>1, <2>9, Attributes DEF DataType, SizeOfInt, SizeOfBool
    <3>3. FromBytes(b) = 0
      <4>1. CASE w = 2
        <5>1. Len(b) = 2 /\ b[1] = 0 /\ b[2] = 0
          BY <2>3, <2>6, <4>1
        <5> QED
          BY <5>1, SMT DEF FromBytes, SizeOfBool
      <4>2. CASE w = 4
        <5>1. Len(b) = 4 /\ b[1] = 0 /\ b[2] = 0 /\ b[3] = 0 /\ b[4] = 0
          BY <2>3, <2>6, <4>2
        <5> QED
          BY <5>1, SMT DEF FromBytes, SizeOfBool
      <4> QED
        BY <3>2, <4>1, <4>2
    <3>4. ZeroRow(s)[i] \in Value
      BY <2>1, <2>5, <2>8, <2>9 DEF Value, DataType
    <3> QED
      BY <2>4, <2>5, <3>1, <3>3, <3>4
  <2> QED
    BY <2>7, <2>9
<1>4. DOMAIN ZeroRow(s) = Attrs(s)
  BY DEF ZeroRow
<1> QED
  BY <1>2, <1>3, <1>4 DEF d, n

\* setAttr changes the attribute it is asked to and no other.
LEMMA SetAttrReads ==
  ASSUME NEW s, IsSchema(s), NEW data \in Seq(Byte), Len(data) = getRecordSize(s),
         NEW i, NEW x \in Value
  PROVE  LET set == setAttr(data, s, i, x) IN
         /\ set.rc \in {"RC_OK", "RC_RM_INVALID_ATTRIBUTE",
                        "RC_RM_ATTRIBUTE_TYPE_MISMATCH"}
         /\ set.data \in Seq(Byte) /\ Len(set.data) = getRecordSize(s)
         /\ set.rc # "RC_OK" => set.data = data
         /\ set.rc = "RC_OK" =>
              /\ i \in Attrs(s) /\ x.dt = AttrType(s)[i]
              /\ getAttr(set.data, s, i) = Held(s, i, x)
              /\ \A j \in Attrs(s) \ {i} : getAttr(set.data, s, j) = getAttr(data, s, j)
<1> DEFINE set == setAttr(data, s, i, x)
           d == Copied_to(data, Offset(s, i), Stored(s, i, x))
<1>1. CASE i \notin Attrs(s)
  BY <1>1 DEF setAttr
<1>2. CASE i \in Attrs(s) /\ x.dt # AttrType(s)[i]
  BY <1>2 DEF setAttr
<1>3. CASE i \in Attrs(s) /\ x.dt = AttrType(s)[i]
  <2>1. set = [rc |-> "RC_OK", data |-> d]
    BY <1>3 DEF setAttr
  <2>2. \A j \in Attrs(s) :
          /\ Offset(s, j) \in Nat /\ Width(s, j) \in Nat /\ j \in Nat
          /\ Offset(s, j) + Width(s, j) <= Len(data)
    <3>1. \A j \in Attrs(s) : j \in 0 .. numAttr(s)
      BY Attributes DEF Attrs
    <3> QED
      BY <3>1, Attributes, Offsets, OffsetsApart
  <2>3. /\ Stored(s, i, x) \in [1 .. Width(s, i) -> Byte]
        /\ Read(s, i, Stored(s, i, x)) = Held(s, i, x)
    BY <1>3, StoredReads
  <2>4. /\ d \in Seq(Byte) /\ Len(d) = Len(data)
        /\ At(d, Offset(s, i), Width(s, i)) = Stored(s, i, x)
        /\ \A p, m \in Nat :
             /\ p + m <= Len(data)
             /\ p + m <= Offset(s, i) \/ Offset(s, i) + Width(s, i) <= p
             => At(d, p, m) = At(data, p, m)
    <3> DEFINE o == Offset(s, i)
               w == Width(s, i)
               b == Stored(s, i, x)
    <3>1. o \in Nat /\ w \in Nat /\ o + w <= Len(data) /\ b \in [1 .. w -> Byte]
      BY <1>3, <2>2, <2>3
    <3> HIDE DEF o, w, b
    <3>2. /\ Copied_to(data, o, b) \in Seq(Byte)
          /\ Len(Copied_to(data, o, b)) = Len(data)
          /\ At(Copied_to(data, o, b), o, w) = b
          /\ \A p, m \in Nat :
               p + m <= Len(data) /\ (p + m <= o \/ o + w <= p)
                 => At(Copied_to(data, o, b), p, m) = At(data, p, m)
      BY <3>1, CopiedBytes
    <3>3. d = Copied_to(data, o, b)
      BY DEF o, b
    <3> HIDE DEF d
    <3>4. /\ d \in Seq(Byte) /\ Len(d) = Len(data) /\ At(d, o, w) = b
          /\ \A p, m \in Nat :
               p + m <= Len(data) /\ (p + m <= o \/ o + w <= p)
                 => At(d, p, m) = At(data, p, m)
      BY <3>2, <3>3
    <3> QED
      BY <3>4 DEF o, w, b
  <2>5. getAttr(d, s, i) = Held(s, i, x)
    <3> HIDE DEF d
    <3> QED
      BY <2>3, <2>4 DEF getAttr
  <2>6. ASSUME NEW j \in Attrs(s) \ {i}
        PROVE  getAttr(d, s, j) = getAttr(data, s, j)
    <3>1. \/ Offset(s, j) + Width(s, j) <= Offset(s, i)
          \/ Offset(s, i) + Width(s, i) <= Offset(s, j)
      <4>1. j < i \/ i < j
        BY <1>3, <2>2, <2>6
      <4> QED
        BY <1>3, <2>6, <4>1, OffsetsApart
    <3>2. At(d, Offset(s, j), Width(s, j)) = At(data, Offset(s, j), Width(s, j))
      <4> HIDE DEF d
      <4> QED
        BY <2>2, <2>4, <2>6, <3>1
    <3> HIDE DEF d
    <3> QED
      BY <3>2 DEF getAttr
  <2> HIDE DEF d
  <2> QED
    BY <1>3, <2>1, <2>4, <2>5, <2>6
<1> QED
  BY <1>1, <1>2, <1>3

\* The serializer finds what getAttr finds.
LEMMA SerializerReads ==
  ASSUME NEW s, IsSchema(s), NEW data
  PROVE  serializeRecord(data, s) = [i \in Attrs(s) |-> getAttr(data, s, i)]
<1>1. ASSUME NEW i \in Attrs(s)
      PROVE  serializeAttr(data, s, i) = getAttr(data, s, i)
  <2>1. i \in 0 .. numAttr(s)
    BY Attributes DEF Attrs
  <2>2. attrOffset(s, i) = Offset(s, i)
    BY <2>1, Offsets
  <2> QED
    BY <2>2 DEF serializeAttr, getAttr
<1> QED
  BY <1>1 DEF serializeRecord

-----------------------------------------------------------------------------
(***************************************************************************)
(* The schema page.                                                        *)
(***************************************************************************)

\* What createTable stores of integers.
LEMMA IntsBytes ==
  ASSUME NEW seq \in Seq(Int)
  PROVE  /\ Ints(seq) \in Seq(Byte) /\ Len(Ints(seq)) = 4 * Len(seq)
         /\ \A j \in 1 .. Len(seq), k \in 1 .. 4 :
              Ints(seq)[4 * (j - 1) + k] = ToBytes(SizeOfInt, seq[j])[k]
<1> DEFINE n == Len(seq)
           b == Ints(seq)
<1>1. n \in Nat
  OBVIOUS
<1>2. b = [k \in 1 .. 4 * n |->
             ToBytes(SizeOfInt, seq[((k - 1) \div 4) + 1])[((k - 1) % 4) + 1]]
  BY DEF Ints, SizeOfInt
<1>3. ASSUME NEW k \in 1 .. 4 * n PROVE b[k] \in Byte
  <2>1. ((k - 1) \div 4) + 1 \in 1 .. n /\ ((k - 1) % 4) + 1 \in 1 .. 4
    BY <1>1, <1>3
  <2>2. seq[((k - 1) \div 4) + 1] \in Int
    BY <2>1
  <2>3. ToBytes(SizeOfInt, seq[((k - 1) \div 4) + 1]) \in [1 .. 4 -> Byte]
    BY <2>2, IntBytes
  <2> HIDE DEF b
  <2> QED
    BY <1>2, <1>3, <2>1, <2>3
<1> HIDE DEF b
<1>4. b \in [1 .. 4 * n -> Byte]
  BY <1>2, <1>3
<1>5. b \in Seq(Byte) /\ Len(b) = 4 * n
  BY <1>1, <1>4
<1>6. ASSUME NEW j \in 1 .. n, NEW k \in 1 .. 4
      PROVE  b[4 * (j - 1) + k] = ToBytes(SizeOfInt, seq[j])[k]
  <2> DEFINE m == 4 * (j - 1) + k
  <2>1. m \in 1 .. 4 * n /\ ((m - 1) \div 4) + 1 = j /\ ((m - 1) % 4) + 1 = k
    BY <1>1
  <2> HIDE DEF m
  <2>2. b[m] = ToBytes(SizeOfInt, seq[j])[k]
    BY <1>2, <2>1
  <2> QED
    BY <2>2 DEF m
<1> QED
  BY <1>5, <1>6 DEF b

\* The bytes of integers lie in the page at an offset.
IntsLie(page, o, seq) ==
  /\ o + 4 * Len(seq) <= Len(page)
  /\ \A k \in 1 .. 4 * Len(seq) : page[o + k] = Ints(seq)[k]

\* openTable reads the integers back from where they lie.
LEMMA IntsRead ==
  ASSUME NEW seq \in Seq(Int32), NEW page \in Seq(Byte), NEW o \in Nat,
         IntsLie(page, o, seq)
  PROVE  IntsAt(page, o, Len(seq)) = seq
<1> USE DEF IntsLie
<1> SUFFICES ASSUME NEW j \in 1 .. Len(seq)
             PROVE  FromBytes(At(page, o + (j - 1) * SizeOfInt, SizeOfInt)) = seq[j]
  BY DEF IntsAt
<1> DEFINE p == o + (j - 1) * SizeOfInt
           a == At(page, p, SizeOfInt)
           b == ToBytes(SizeOfInt, seq[j])
<1>1. p \in Nat /\ p = o + 4 * (j - 1) /\ p + 4 <= Len(page) /\ Len(seq) \in Nat
  BY DEF SizeOfInt
<1> HIDE DEF p
<1>2. a \in [1 .. 4 -> Byte] /\ \A k \in 1 .. 4 : a[k] = page[p + k]
  <2>1. 4 \in Nat /\ a = At(page, p, 4)
    BY DEF SizeOfInt
  <2> HIDE DEF a
  <2>2. /\ At(page, p, 4) \in [1 .. 4 -> Byte]
        /\ \A k \in 1 .. 4 : At(page, p, 4)[k] = page[p + k]
    BY <1>1, <2>1, BytesAt
  <2> QED
    BY <2>1, <2>2
<1>3. b \in [1 .. 4 -> Byte] /\ FromBytes(b) = seq[j]
  <2>1. seq[j] \in Int32 /\ seq[j] \in Int
    <3>1. seq[j] \in Int32
      OBVIOUS
    <3> QED
      BY <3>1 DEF Int32
  <2> QED
    BY <2>1, IntBytes
<1> HIDE DEF a, b
<1>4. ASSUME NEW k \in 1 .. 4 PROVE a[k] = b[k]
  <2> DEFINE m == 4 * (j - 1) + k
  <2>1. m \in 1 .. 4 * Len(seq) /\ p + k = o + m
    BY <1>1
  <2>2. Ints(seq)[m] = b[k]
    <3>1. seq \in Seq(Int)
      <4>1. \A x \in Int32 : x \in Int
        BY DEF Int32
      <4> QED
        BY <4>1
    <3> QED
      BY <3>1, IntsBytes DEF b
  <2> HIDE DEF m
  <2>3. page[o + m] = Ints(seq)[m]
    BY <2>1
  <2> QED
    BY <1>2, <2>1, <2>2, <2>3
<1>5. a = b
  <2> DEFINE D == 1 .. 4
  <2>1. a \in [D -> Byte] /\ b \in [D -> Byte] /\ \A k \in D : a[k] = b[k]
    BY <1>2, <1>3, <1>4
  <2> HIDE DEF D
  <2> QED
    BY <2>1
<1> QED
  BY <1>3, <1>5 DEF a, p

\* The bytes of s and t one behind the other.
LEMMA Joined ==
  ASSUME NEW s \in Seq(Byte), NEW t \in Seq(Byte)
  PROVE  /\ s \o t \in Seq(Byte) /\ Len(s \o t) = Len(s) + Len(t)
         /\ \A k \in 1 .. Len(s) : (s \o t)[k] = s[k]
         /\ \A k \in 1 .. Len(t) : (s \o t)[Len(s) + k] = t[k]
  OBVIOUS

\* Each name lies in the bytes where the ones before it end, with a NUL behind
\* it.
NamesLie(names, bytes, start) ==
  /\ start \in [0 .. Len(names) -> Nat]
  /\ start[0] = 0 /\ start[Len(names)] = Len(bytes)
  /\ \A i \in 1 .. Len(names) :
       /\ names[i] \in Seq(Char)
       /\ start[i] = start[i - 1] + Len(names[i]) + 1
       /\ start[i] <= Len(bytes)
       /\ \A k \in 1 .. Len(names[i]) : bytes[start[i - 1] + k] = names[i][k]
       /\ bytes[start[i - 1] + Len(names[i]) + 1] = 0

\* What createTable stores of the names.
LEMMA NamesBytes ==
  ASSUME NEW names \in Seq(Seq(Char))
  PROVE  /\ Names(names) \in Seq(Byte)
         /\ \E start : NamesLie(names, Names(names), start)
<1> DEFINE n == Len(names)
           ended == [j \in 1 .. n |-> names[j] \o NULs(1)]
           turn == [j \in 1 .. n |-> [x \in Seq(Byte) |-> x \o ended[j]]]
           upTo[i \in 0 .. n] ==
             IF i = 0 THEN << >> ELSE upTo[i - 1] \o (names[i] \o NULs(1))
<1>1. n \in Nat
  OBVIOUS
<1>2. ASSUME NEW j \in 1 .. n
      PROVE  /\ names[j] \in Seq(Char)
             /\ ended[j] \in Seq(Byte) /\ Len(ended[j]) = Len(names[j]) + 1
             /\ \A k \in 1 .. Len(names[j]) : ended[j][k] = names[j][k]
             /\ ended[j][Len(names[j]) + 1] = 0
  <2>1. names[j] \in Seq(Char)
    OBVIOUS
  <2>2. names[j] \in Seq(Byte)
    BY <2>1, Bytes
  <2>3. NULs(1) \in Seq(Byte) /\ Len(NULs(1)) = 1 /\ NULs(1)[1] = 0
    BY Bytes DEF NULs
  <2>4. ended[j] = names[j] \o NULs(1)
    OBVIOUS
  <2> HIDE DEF ended
  <2>5. /\ ended[j] \in Seq(Byte) /\ Len(ended[j]) = Len(names[j]) + 1
        /\ \A k \in 1 .. Len(names[j]) : ended[j][k] = names[j][k]
    <3>1. /\ names[j] \o NULs(1) \in Seq(Byte)
          /\ Len(names[j] \o NULs(1)) = Len(names[j]) + Len(NULs(1))
          /\ \A k \in 1 .. Len(names[j]) : (names[j] \o NULs(1))[k] = names[j][k]
      BY <2>2, <2>3, Joined
    <3> QED
      BY <2>3, <2>4, <3>1
  <2>6. 1 \in 1 .. Len(NULs(1))
    BY <2>3
  <2>7. ended[j][Len(names[j]) + 1] = 0
    BY <2>2, <2>3, <2>4, <2>6, Joined
  <2> QED
    BY <2>1, <2>5, <2>7
<1>3. turn \in [1 .. n -> [Seq(Byte) -> Seq(Byte)]]
  BY <1>2
<1>4. \A j \in 1 .. n, x \in Seq(Byte) : turn[j][x] = x \o ended[j]
  OBVIOUS
<1>5. << >> \in Seq(Byte)
  OBVIOUS
<1>6. \A j \in 1 .. n : ended[j] = names[j] \o NULs(1)
  OBVIOUS
<1> HIDE DEF turn, ended
<1>7. Looped(n, Seq(Byte), << >>, turn)
  BY <1>1, <1>3, <1>5, Loop
<1>8. PICK f \in [0 .. n -> Seq(Byte)] :
        f[0] = << >> /\ \A j \in 1 .. n : f[j] = turn[j][f[j - 1]]
  BY <1>7 DEF Looped
<1>9. \A j \in 1 .. n : f[j - 1] \in Seq(Byte) /\ f[j] = f[j - 1] \o ended[j]
  <2>1. ASSUME NEW j \in 1 .. n PROVE f[j - 1] \in Seq(Byte)
    OBVIOUS
  <2> QED
    BY <1>4, <1>8, <2>1
<1>10. f = [i \in 0 .. n |-> IF i = 0 THEN << >> ELSE f[i - 1] \o (names[i] \o NULs(1))]
  <2>1. \A i \in 0 .. n : i # 0 => i \in 1 .. n
    OBVIOUS
  <2> QED
    BY <1>6, <1>8, <1>9, <2>1
<1>11. upTo = [i \in 0 .. n |-> IF i = 0 THEN << >>
                                ELSE upTo[i - 1] \o (names[i] \o NULs(1))]
  BY <1>10
<1>12. Names(names) = upTo[n]
  BY DEF Names
<1> HIDE DEF upTo, n
<1>13. upTo[0] = << >> /\ \A j \in 1 .. n : upTo[j] = upTo[j - 1] \o ended[j]
  <2>1. 0 \in 0 .. n /\ \A j \in 1 .. n : j \in 0 .. n /\ j # 0
    BY <1>1
  <2>2. upTo[0] = << >>
    BY <1>11, <2>1
  <2>3. \A j \in 1 .. n : upTo[j] = upTo[j - 1] \o (names[j] \o NULs(1))
    BY <1>11, <2>1
  <2> QED
    BY <1>6, <2>2, <2>3
<1>14. PICK start \in [0 .. n -> Nat] :
         /\ start[0] = 0
         /\ \A j \in 1 .. n : start[j] = start[j - 1] + (Len(names[j]) + 1)
  <2> DEFINE w == [j \in 1 .. n |-> Len(names[j]) + 1]
  <2>1. w \in [1 .. n -> Nat]
    BY <1>2
  <2>2. \A j \in 1 .. n : w[j] = Len(names[j]) + 1
    OBVIOUS
  <2> HIDE DEF w
  <2>3. PICK g \in [0 .. n -> Nat] :
          g[0] = 0 /\ \A j \in 1 .. n : g[j] = g[j - 1] + w[j]
    BY <1>1, <2>1, Sums
  <2> QED
    BY <2>2, <2>3
<1>15. ASSUME NEW i \in 1 .. n
       PROVE  /\ i \in 0 .. n /\ i - 1 \in 0 .. n
              /\ names[i] \in Seq(Char) /\ Len(names[i]) \in Nat
              /\ start[i] \in Nat /\ start[i - 1] \in Nat
              /\ start[i] = start[i - 1] + Len(names[i]) + 1
  <2>1. i \in 0 .. n /\ i - 1 \in 0 .. n
    BY <1>1
  <2>2. start[i] \in Nat /\ start[i - 1] \in Nat
    BY <2>1
  <2>3. names[i] \in Seq(Char) /\ Len(names[i]) \in Nat
    <3>1. names[i] \in Seq(Char)
      BY <1>2
    <3> QED
      BY <3>1
  <2> QED
    BY <1>14, <2>1, <2>2, <2>3
<1> DEFINE Placed(m, i) ==
             /\ start[i] <= start[m]
             /\ \A k \in 1 .. Len(names[i]) : upTo[m][start[i - 1] + k] = names[i][k]
             /\ upTo[m][start[i - 1] + Len(names[i]) + 1] = 0
           Good(m) == /\ upTo[m] \in Seq(Byte) /\ Len(upTo[m]) = start[m]
                      /\ \A i \in 1 .. m : Placed(m, i)
           Bad == {m \in Nat : m <= n /\ ~ Good(m)}
<1>16. Good(0)
  <2>1. upTo[0] \in Seq(Byte) /\ Len(upTo[0]) = 0
    BY <1>13
  <2> QED
    BY <1>14, <2>1
<1>17. ASSUME NEW m \in Nat, m < n, Good(m)
       PROVE  Good(m + 1)
  <2> DEFINE j == m + 1
             t == ended[j]
  <2>1. j \in 1 .. n /\ j - 1 = m /\ j \in 0 .. n /\ m \in 0 .. n
    BY <1>1, <1>17
  <2>2. /\ t \in Seq(Byte) /\ Len(t) = Len(names[j]) + 1
        /\ \A k \in 1 .. Len(names[j]) : t[k] = names[j][k]
        /\ t[Len(names[j]) + 1] = 0 /\ Len(names[j]) \in Nat
    BY <1>2, <2>1
  <2>3. upTo[j] = upTo[m] \o t
    BY <1>13, <2>1
  <2>4. start[j] = start[m] + (Len(names[j]) + 1) /\ start[j] \in Nat /\ start[m] \in Nat
    BY <1>14, <2>1
  <2> HIDE DEF j, t
  <2>5. upTo[m] \in Seq(Byte) /\ Len(upTo[m]) = start[m]
    BY <1>17
  <2>6. /\ upTo[m] \o t \in Seq(Byte) /\ Len(upTo[m] \o t) = Len(upTo[m]) + Len(t)
        /\ \A k \in 1 .. Len(upTo[m]) : (upTo[m] \o t)[k] = upTo[m][k]
        /\ \A k \in 1 .. Len(t) : (upTo[m] \o t)[Len(upTo[m]) + k] = t[k]
    BY <2>2, <2>5, Joined
  <2>7. /\ upTo[j] \in Seq(Byte) /\ Len(upTo[j]) = start[j]
        /\ \A k \in 1 .. start[m] : upTo[j][k] = upTo[m][k]
        /\ \A k \in 1 .. Len(t) : upTo[j][start[m] + k] = t[k]
    BY <2>2, <2>3, <2>4, <2>5, <2>6
  <2>8. ASSUME NEW i \in 1 .. m PROVE Placed(j, i)
    <3>1. Placed(m, i)
      BY <1>17
    <3>2. i \in 1 .. n /\ i \in 0 .. n /\ i - 1 \in 0 .. n
      BY <1>1, <1>17
    <3>3. /\ start[i] = start[i - 1] + Len(names[i]) + 1
          /\ start[i] \in Nat /\ start[i - 1] \in Nat /\ Len(names[i]) \in Nat
      BY <1>15, <3>2
    <3>4. \A k \in 1 .. Len(names[i]) + 1 : start[i - 1] + k \in 1 .. start[m]
      <4> DEFINE a == start[i - 1]
                 l == Len(names[i])
                 e == start[i]
                 z == start[m]
      <4>1. a \in Nat /\ l \in Nat /\ e \in Nat /\ z \in Nat /\ e = a + l + 1 /\ e <= z
        BY <2>4, <3>1, <3>3
      <4> HIDE DEF a, l, e, z
      <4>2. \A k \in 1 .. l + 1 : a + k \in 1 .. z
        BY <4>1
      <4> QED
        BY <4>2 DEF a, l, z
    <3>5. \A k \in 1 .. Len(names[i]) + 1 :
            upTo[j][start[i - 1] + k] = upTo[m][start[i - 1] + k]
      BY <2>7, <3>4
    <3>6. start[i] <= start[j]
      <4> DEFINE l == Len(names[j])
                 a == start[i]
                 b == start[m]
                 c == start[j]
      <4>1. l \in Nat /\ a \in Nat /\ b \in Nat /\ c \in Nat /\ c = b + (l + 1) /\ a <= b
        BY <2>2, <2>4, <3>1, <3>3
      <4> HIDE DEF l, a, b, c
      <4>2. a <= c
        BY <4>1
      <4> QED
        BY <4>2 DEF a, c
    <3>7. \A k \in 1 .. Len(names[i]) : k \in 1 .. Len(names[i]) + 1
      BY <3>3
    <3>8. /\ Len(names[i]) + 1 \in 1 .. Len(names[i]) + 1
          /\ start[i - 1] + (Len(names[i]) + 1) = start[i - 1] + Len(names[i]) + 1
      BY <3>3
    <3>9. upTo[j][start[i - 1] + Len(names[i]) + 1] = 0
      BY <3>1, <3>5, <3>8
    <3> QED
      BY <3>1, <3>5, <3>6, <3>7, <3>9
  <2>9. Placed(j, j)
    <3>1. j - 1 = m
      BY <2>1
    <3>2. \A k \in 1 .. Len(names[j]) : k \in 1 .. Len(t)
      BY <2>2
    <3>3. /\ Len(names[j]) + 1 \in 1 .. Len(t)
          /\ start[m] + (Len(names[j]) + 1) = start[m] + Len(names[j]) + 1
      BY <2>2, <2>4
    <3>4. upTo[j][start[m] + Len(names[j]) + 1] = 0
      BY <2>2, <2>7, <3>3
    <3>5. \A k \in 1 .. Len(names[j]) : upTo[j][start[m] + k] = names[j][k]
      BY <2>2, <2>7, <3>2
    <3>6. start[j] <= start[j]
      BY <2>4
    <3> QED
      BY <3>1, <3>4, <3>5, <3>6
  <2>10. \A i \in 1 .. j : i \in 1 .. m \/ i = j
    BY <1>17 DEF j
  <2>11. \A i \in 1 .. j : Placed(j, i)
    <3> HIDE DEF Placed
    <3> QED
      BY <2>8, <2>9, <2>10
  <2>12. Good(j)
    <3> HIDE DEF Placed
    <3> QED
      BY <2>7, <2>11
  <2> HIDE DEF Good
  <2> QED
    BY <2>12 DEF j
<1>18. Good(n)
  <2> HIDE DEF Good
  <2>1. ASSUME Bad # {} PROVE FALSE
    <3>1. PICK m \in Bad : \A x \in Bad : m <= x
      BY <2>1, Smallest
    <3>2. m # 0
      BY <1>16, <3>1
    <3>3. m \in Nat /\ m - 1 \in Nat /\ (m - 1) + 1 = m /\ m - 1 < n /\ ~ (m <= m - 1)
      BY <1>1, <3>1, <3>2
    <3>4. Good(m - 1)
      BY <1>1, <3>1, <3>3
    <3> QED
      BY <1>17, <3>1, <3>3, <3>4
  <2>2. n \in Nat /\ n <= n
    BY <1>1
  <2>3. n \notin Bad
    BY <2>1
  <2> QED
    BY <2>2, <2>3
<1> QED
  <2>1. Names(names) \in Seq(Byte) /\ start[n] = Len(Names(names))
    BY <1>12, <1>18
  <2>2. ASSUME NEW i \in 1 .. n
        PROVE  /\ names[i] \in Seq(Char)
               /\ start[i] = start[i - 1] + Len(names[i]) + 1
               /\ start[i] <= Len(Names(names))
               /\ \A k \in 1 .. Len(names[i]) :
                    Names(names)[start[i - 1] + k] = names[i][k]
               /\ Names(names)[start[i - 1] + Len(names[i]) + 1] = 0
    <3>1. Placed(n, i)
      BY <1>18
    <3> QED
      BY <1>12, <1>15, <2>1, <3>1
  <2> QED
    BY <1>14, <2>1, <2>2 DEF n, NamesLie

\* Where seven parts lie that are written one behind the other.
PartsLie(page, a, b, c, d, e, f, g) ==
  /\ page \in Seq(Byte)
  /\ Len(page) = Len(a) + Len(b) + Len(c) + Len(d) + Len(e) + Len(f) + Len(g)
  /\ \A k \in 1 .. Len(a) : page[k] = a[k]
  /\ \A k \in 1 .. Len(b) : page[Len(a) + k] = b[k]
  /\ \A k \in 1 .. Len(c) : page[Len(a) + Len(b) + k] = c[k]
  /\ \A k \in 1 .. Len(d) : page[Len(a) + Len(b) + Len(c) + k] = d[k]
  /\ \A k \in 1 .. Len(e) : page[Len(a) + Len(b) + Len(c) + Len(d) + k] = e[k]
  /\ \A k \in 1 .. Len(f) :
       page[Len(a) + Len(b) + Len(c) + Len(d) + Len(e) + k] = f[k]

\* The parts lie where they were written, whatever their lengths.
LEMMA Parts ==
  ASSUME NEW a \in Seq(Byte), NEW b \in Seq(Byte), NEW c \in Seq(Byte),
         NEW d \in Seq(Byte), NEW e \in Seq(Byte), NEW f \in Seq(Byte),
         NEW g \in Seq(Byte)
  PROVE  PartsLie(a \o b \o c \o d \o e \o f \o g, a, b, c, d, e, f, g)
<1> DEFINE page == a \o b \o c \o d \o e \o f \o g
<1> DEFINE b2 == a \o b
           c2 == b2 \o c
           d2 == c2 \o d
           e2 == d2 \o e
           f2 == e2 \o f
           A == Len(a)
           B == A + Len(b)
           C == B + Len(c)
           D == C + Len(d)
           E == D + Len(e)
           F == E + Len(f)
<1>1. page = f2 \o g
  OBVIOUS
<1>2. /\ A \in Nat /\ B \in Nat /\ C \in Nat /\ D \in Nat /\ E \in Nat /\ F \in Nat
      /\ A <= B /\ B <= C /\ C <= D /\ D <= E /\ E <= F
  OBVIOUS
<1>3. /\ b2 \in Seq(Byte) /\ Len(b2) = B
      /\ \A k \in 1 .. A : b2[k] = a[k]
      /\ \A k \in 1 .. Len(b) : b2[A + k] = b[k]
  BY Joined
<1> HIDE DEF b2, B
<1>4. /\ c2 \in Seq(Byte) /\ Len(c2) = C
      /\ \A k \in 1 .. B : c2[k] = b2[k]
      /\ \A k \in 1 .. Len(c) : c2[B + k] = c[k]
  <2>1. /\ b2 \o c \in Seq(Byte) /\ Len(b2 \o c) = Len(b2) + Len(c)
        /\ \A k \in 1 .. Len(b2) : (b2 \o c)[k] = b2[k]
        /\ \A k \in 1 .. Len(c) : (b2 \o c)[Len(b2) + k] = c[k]
    BY <1>3, Joined
  <2> QED
    BY <1>3, <2>1
<1> HIDE DEF c2, C
<1>5. /\ d2 \in Seq(Byte) /\ Len(d2) = D
      /\ \A k \in 1 .. C : d2[k] = c2[k]
      /\ \A k \in 1 .. Len(d) : d2[C + k] = d[k]
  <2>1. /\ c2 \o d \in Seq(Byte) /\ Len(c2 \o d) = Len(c2) + Len(d)
        /\ \A k \in 1 .. Len(c2) : (c2 \o d)[k] = c2[k]
        /\ \A k \in 1 .. Len(d) : (c2 \o d)[Len(c2) + k] = d[k]
    BY <1>4, Joined
  <2> QED
    BY <1>4, <2>1
<1> HIDE DEF d2, D
<1>6. /\ e2 \in Seq(Byte) /\ Len(e2) = E
      /\ \A k \in 1 .. D : e2[k] = d2[k]
      /\ \A k \in 1 .. Len(e) : e2[D + k] = e[k]
  <2>1. /\ d2 \o e \in Seq(Byte) /\ Len(d2 \o e) = Len(d2) + Len(e)
        /\ \A k \in 1 .. Len(d2) : (d2 \o e)[k] = d2[k]
        /\ \A k \in 1 .. Len(e) : (d2 \o e)[Len(d2) + k] = e[k]
    BY <1>5, Joined
  <2> QED
    BY <1>5, <2>1
<1> HIDE DEF e2, E
<1>7. /\ f2 \in Seq(Byte) /\ Len(f2) = F
      /\ \A k \in 1 .. E : f2[k] = e2[k]
      /\ \A k \in 1 .. Len(f) : f2[E + k] = f[k]
  <2>1. /\ e2 \o f \in Seq(Byte) /\ Len(e2 \o f) = Len(e2) + Len(f)
        /\ \A k \in 1 .. Len(e2) : (e2 \o f)[k] = e2[k]
        /\ \A k \in 1 .. Len(f) : (e2 \o f)[Len(e2) + k] = f[k]
    BY <1>6, Joined
  <2> QED
    BY <1>6, <2>1
<1> HIDE DEF f2, F, page
<1>8. /\ page \in Seq(Byte) /\ Len(page) = F + Len(g)
      /\ \A k \in 1 .. F : page[k] = f2[k]
  <2>1. /\ f2 \o g \in Seq(Byte) /\ Len(f2 \o g) = Len(f2) + Len(g)
        /\ \A k \in 1 .. Len(f2) : (f2 \o g)[k] = f2[k]
    BY <1>7, Joined
  <2> QED
    BY <1>1, <1>7, <2>1
<1> HIDE DEF A
<1>9. /\ \A k \in 1 .. E : page[k] = e2[k]
      /\ \A k \in 1 .. D : page[k] = d2[k]
      /\ \A k \in 1 .. C : page[k] = c2[k]
      /\ \A k \in 1 .. B : page[k] = b2[k]
      /\ \A k \in 1 .. A : page[k] = a[k]
  <2>1. /\ 1 .. E \subseteq 1 .. F /\ 1 .. D \subseteq 1 .. E
        /\ 1 .. C \subseteq 1 .. D /\ 1 .. B \subseteq 1 .. C
        /\ 1 .. A \subseteq 1 .. B
    BY <1>2
  <2>2. \A k \in 1 .. E : page[k] = e2[k]
    BY <1>7, <1>8, <2>1
  <2>3. \A k \in 1 .. D : page[k] = d2[k]
    BY <1>6, <2>2, <2>1
  <2>4. \A k \in 1 .. C : page[k] = c2[k]
    BY <1>5, <2>3, <2>1
  <2>5. \A k \in 1 .. B : page[k] = b2[k]
    BY <1>4, <2>4, <2>1
  <2>6. \A k \in 1 .. A : page[k] = a[k]
    BY <1>3, <2>1, <2>5
  <2> QED
    BY <2>2, <2>3, <2>4, <2>5, <2>6
<1>10. \A k \in 1 .. Len(b) : page[A + k] = b[k]
  <2>1. \A k \in 1 .. Len(b) : A + k \in 1 .. B
    BY <1>2 DEF B
  <2> QED
    BY <1>3, <1>9, <2>1
<1>11. \A k \in 1 .. Len(c) : page[B + k] = c[k]
  <2>1. \A k \in 1 .. Len(c) : B + k \in 1 .. C
    BY <1>2 DEF C
  <2> QED
    BY <1>4, <1>9, <2>1
<1>12. \A k \in 1 .. Len(d) : page[C + k] = d[k]
  <2>1. \A k \in 1 .. Len(d) : C + k \in 1 .. D
    BY <1>2 DEF D
  <2> QED
    BY <1>5, <1>9, <2>1
<1>13. \A k \in 1 .. Len(e) : page[D + k] = e[k]
  <2>1. \A k \in 1 .. Len(e) : D + k \in 1 .. E
    BY <1>2 DEF E
  <2> QED
    BY <1>6, <1>9, <2>1
<1>14. \A k \in 1 .. Len(f) : page[E + k] = f[k]
  <2>1. \A k \in 1 .. Len(f) : E + k \in 1 .. F
    BY <1>2 DEF F
  <2> QED
    BY <1>7, <1>8, <2>1
<1> QED
  BY <1>8, <1>9, <1>10, <1>11, <1>12, <1>13, <1>14
     DEF A, B, C, D, E, F, page, PartsLie

\* openTable reads from the page createTable wrote the schema it was given, if
\* the schema fits the page.
LEMMA SchemaRead ==
  ASSUME NEW s, IsSchema(s), Fits(s)
  PROVE  /\ SchemaPage(s) \in Seq(Byte) /\ Len(SchemaPage(s)) = PAGE_SIZE
         /\ SchemaOf(SchemaPage(s)) = s
<1> DEFINE n == numAttr(s)
           m == Len(s.keyAttrs)
           codes == [i \in 1 .. n |-> TypeCode(s.dataTypes[i])]
           b1 == Ints(<<n>>)
           b2 == Names(s.attrNames)
           b3 == Ints(codes)
           b4 == Ints(s.typeLength)
           b5 == Ints(<<m>>)
           b6 == Ints(s.keyAttrs)
           rest == NULs(PAGE_SIZE - Len(SchemaBytes(s)))
           page == SchemaPage(s)
           L == Len(b2)
<1>1. /\ s.attrNames \in Seq(Seq(Char)) /\ Len(s.attrNames) = n
      /\ s.dataTypes \in Seq(DataType) /\ Len(s.dataTypes) = n
      /\ s.typeLength \in Seq(0 .. MaxInt) /\ Len(s.typeLength) = n
      /\ s.keyAttrs \in Seq(Int32)
      /\ n \in Nat /\ m \in Nat
  BY DEF IsSchema, SchemaType, numAttr
<1>2. /\ MaxInt \in Nat /\ \A x \in 0 .. MaxInt : x \in Int32
      /\ \A x \in Int32 : x \in Int /\ PAGE_SIZE \in Nat /\ PAGE_SIZE <= MaxInt
      /\ \A x \in {0, 1, 2, 3} : x \in Int32
  <2>1. MaxInt \in Nat /\ 3 <= MaxInt
    BY SMT DEF MaxInt
  <2> QED
    BY <2>1, PageSizeAssumption DEF Int32
<1>3. s.typeLength \in Seq(Int32)
  <2> DEFINE Lengths == 0 .. MaxInt
  <2>1. s.typeLength \in Seq(Lengths) /\ \A x \in Lengths : x \in Int32
    BY <1>1, <1>2
  <2> HIDE DEF Lengths
  <2> QED
    BY <2>1
<1>4. \A i \in 1 .. n : s.dataTypes[i] \in DataType /\ codes[i] \in {0, 1, 2, 3}
  BY <1>1 DEF TypeCode, DataType
<1>5. codes \in Seq(Int32) /\ Len(codes) = n
  <2>1. codes \in [1 .. n -> Int32]
    BY <1>2, <1>4
  <2> HIDE DEF codes, n
  <2> QED
    BY <1>1, <2>1
<1>6. /\ <<n>> \in Seq(Int) /\ Len(<<n>>) = 1 /\ <<m>> \in Seq(Int) /\ Len(<<m>>) = 1
      /\ codes \in Seq(Int) /\ s.typeLength \in Seq(Int) /\ s.keyAttrs \in Seq(Int)
  BY <1>1, <1>2, <1>3, <1>5
<1>7. /\ b1 \in Seq(Byte) /\ Len(b1) = 4
      /\ b3 \in Seq(Byte) /\ Len(b3) = 4 * n
      /\ b4 \in Seq(Byte) /\ Len(b4) = 4 * n
      /\ b5 \in Seq(Byte) /\ Len(b5) = 4
      /\ b6 \in Seq(Byte) /\ Len(b6) = 4 * m
  <2>1. b1 \in Seq(Byte) /\ Len(b1) = 4 /\ b5 \in Seq(Byte) /\ Len(b5) = 4
    <3> DEFINE one == <<n>>
               two == <<m>>
    <3>1. one \in Seq(Int) /\ Len(one) = 1 /\ two \in Seq(Int) /\ Len(two) = 1
      BY <1>6
    <3> HIDE DEF one, two
    <3>2. /\ Ints(one) \in Seq(Byte) /\ Len(Ints(one)) = 4 * Len(one)
          /\ Ints(two) \in Seq(Byte) /\ Len(Ints(two)) = 4 * Len(two)
      BY <3>1, IntsBytes
    <3> QED
      BY <3>1, <3>2 DEF one, two
  <2>2. b3 \in Seq(Byte) /\ Len(b3) = 4 * n
    <3> HIDE DEF codes, n
    <3> QED
      BY <1>5, <1>6, IntsBytes
  <2>3. b4 \in Seq(Byte) /\ Len(b4) = 4 * n
    BY <1>1, <1>6, IntsBytes
  <2>4. b6 \in Seq(Byte) /\ Len(b6) = 4 * m
    BY <1>6, IntsBytes
  <2> QED
    BY <2>1, <2>2, <2>3, <2>4
<1>8. b2 \in Seq(Byte) /\ L \in Nat
  BY <1>1, NamesBytes
<1> HIDE DEF codes, b1, b2, b3, b4, b5, b6, L
<1>9. SchemaBytes(s) = b1 \o b2 \o b3 \o b4 \o b5 \o b6
  BY DEF SchemaBytes, b1, b2, b3, b4, b5, b6, codes
<1>10. /\ Len(SchemaBytes(s)) = 4 + L + 4 * n + 4 * n + 4 + 4 * m
       /\ SchemaBytes(s) \in Seq(Byte)
  <2>1. << >> \in Seq(Byte) /\ Len(<< >>) = 0
    OBVIOUS
  <2>2. SchemaBytes(s) \in Seq(Byte)
    BY <1>7, <1>8, <1>9
  <2>3. SchemaBytes(s) = b1 \o b2 \o b3 \o b4 \o b5 \o b6 \o << >>
    BY <1>9, <2>2
  <2> QED
    <3>1. Len(SchemaBytes(s))
            = Len(b1) + Len(b2) + Len(b3) + Len(b4) + Len(b5) + Len(b6) + Len(<< >>)
      <4> DEFINE none == << >>
      <4>1. none \in Seq(Byte) /\ SchemaBytes(s) = b1 \o b2 \o b3 \o b4 \o b5 \o b6 \o none
        BY <2>1, <2>3
      <4> HIDE DEF none
      <4>2. PartsLie(SchemaBytes(s), b1, b2, b3, b4, b5, b6, none)
        <5>1. none \in Seq(Byte)
          BY <4>1
        <5>2. PartsLie(b1 \o b2 \o b3 \o b4 \o b5 \o b6 \o none,
                       b1, b2, b3, b4, b5, b6, none)
          BY <1>7, <1>8, <5>1, Parts
        <5> QED
          BY <4>1, <5>2
      <4> QED
        BY <4>2 DEF none, PartsLie
    <3> HIDE DEF n, m
    <3> QED
      BY <1>1, <1>7, <1>8, <2>1, <2>2, <3>1 DEF L
<1> DEFINE fill == PAGE_SIZE - Len(SchemaBytes(s))
<1>11. rest \in Seq(Byte) /\ Len(rest) = fill /\ fill \in Nat
  <2>1. fill \in Nat
    <3>1. Len(SchemaBytes(s)) \in Nat
      BY <1>10
    <3> QED
      BY <1>2, <3>1 DEF Fits
  <2>2. rest = [k \in 1 .. fill |-> 0]
    BY DEF NULs
  <2> HIDE DEF fill, rest
  <2>3. rest \in [1 .. fill -> Byte]
    BY <2>2, Bytes
  <2> QED
    BY <2>1, <2>3
<1>12. page = b1 \o b2 \o b3 \o b4 \o b5 \o b6 \o rest
  BY <1>9 DEF SchemaPage
<1> HIDE DEF page, rest
<1>13. /\ page \in Seq(Byte) /\ Len(page) = PAGE_SIZE
       /\ \A k \in 1 .. 4 : page[k] = b1[k]
       /\ \A k \in 1 .. L : page[4 + k] = b2[k]
       /\ \A k \in 1 .. 4 * n : page[4 + L + k] = b3[k]
       /\ \A k \in 1 .. 4 * n : page[4 + L + 4 * n + k] = b4[k]
       /\ \A k \in 1 .. 4 : page[4 + L + 4 * n + 4 * n + k] = b5[k]
       /\ \A k \in 1 .. 4 * m : page[4 + L + 4 * n + 4 * n + 4 + k] = b6[k]
  <2>1. PartsLie(page, b1, b2, b3, b4, b5, b6, rest)
    BY <1>7, <1>8, <1>11, <1>12, Parts
  <2>2. Len(page) = PAGE_SIZE
    <3> DEFINE all == Len(SchemaBytes(s))
    <3>1. all \in Nat /\ all = 4 + L + 4 * n + 4 * n + 4 + 4 * m
      BY <1>10
    <3>2. Len(page) = all + fill
      <4> HIDE DEF n, m
      <4> QED
        BY <1>1, <1>7, <1>8, <1>11, <2>1, <3>1 DEF L, PartsLie
    <3> HIDE DEF all
    <3> QED
      BY <1>2, <3>1, <3>2 DEF all
  <2> HIDE DEF n, m
  <2> QED
    BY <1>1, <1>7, <1>8, <2>1, <2>2 DEF L, PartsLie
<1> HIDE DEF fill
<1>14. 4 + L + 4 * n + 4 * n + 4 + 4 * m <= PAGE_SIZE
  BY <1>10 DEF Fits
<1>15. n \in Int32 /\ m \in Int32 /\ PAGE_SIZE \in Nat
  <2> HIDE DEF n, m
  <2>1. n <= MaxInt /\ m <= MaxInt
    BY <1>1, <1>2, <1>8, <1>14
  <2> QED
    BY <1>1, <1>2, <2>1
<1>16. IntsAt(page, 0, 1) = <<n>>
  <2> DEFINE one == <<n>>
  <2>1. one \in Seq(Int32) /\ Len(one) = 1 /\ b1 = Ints(one)
    BY <1>15 DEF b1
  <2> HIDE DEF one
  <2>2. IntsLie(page, 0, one)
    <3>1. 0 + 4 * Len(one) <= Len(page)
      <4> HIDE DEF n, m
      <4>1. n \in Nat /\ m \in Nat /\ L \in Nat /\ PAGE_SIZE \in Nat
        BY <1>1, <1>8, <1>15
      <4>2. 4 <= PAGE_SIZE
        BY <1>14, <4>1
      <4> QED
        BY <1>13, <2>1, <4>2
    <3>2. \A k \in 1 .. 4 : page[0 + k] = b1[k]
      BY <1>13
    <3> QED
      BY <1>13, <2>1, <3>1, <3>2 DEF IntsLie
  <2>3. IntsAt(page, 0, Len(one)) = one
    BY <1>13, <2>1, <2>2, IntsRead
  <2> QED
    BY <2>1, <2>3 DEF one
<1>17. /\ IntsAt(page, 4 + L, n) = codes
       /\ IntsAt(page, 4 + L + 4 * n, n) = s.typeLength
       /\ IntsAt(page, 4 + L + 4 * n + 4 * n, 1) = <<m>>
       /\ IntsAt(page, 4 + L + 4 * n + 4 * n + 4, m) = s.keyAttrs
  <2> DEFINE one == <<m>>
  <2>1. one \in Seq(Int32) /\ Len(one) = 1 /\ b5 = Ints(one)
    BY <1>15 DEF b5
  <2> DEFINE o3 == 4 + L
             o4 == o3 + 4 * n
             o5 == o4 + 4 * n
             o6 == o5 + 4
  <2> HIDE DEF one, n, m
  <2>2. o3 \in Nat /\ o4 \in Nat /\ o5 \in Nat /\ o6 \in Nat /\ o6 + 4 * m <= PAGE_SIZE
    BY <1>1, <1>8, <1>14
  <2>3. o3 + 4 * n <= PAGE_SIZE /\ o4 + 4 * n <= PAGE_SIZE /\ o5 + 4 <= PAGE_SIZE
    <3>1. n \in Nat /\ m \in Nat /\ L \in Nat /\ PAGE_SIZE \in Nat
      BY <1>1, <1>8, <1>15
    <3>2. o3 + 4 * n = o4 /\ o4 + 4 * n = o5 /\ o5 + 4 = o6
      OBVIOUS
    <3>3. o3 \in Nat /\ o4 \in Nat /\ o5 \in Nat /\ o6 \in Nat
      BY <2>2
    <3>4. o4 <= o5 /\ o5 <= o6
      BY <3>1, <3>3
    <3> HIDE DEF o3, o4, o5, o6
    <3>5. o6 <= PAGE_SIZE
      BY <2>2, <3>1, <3>3
    <3>6. o4 <= PAGE_SIZE /\ o5 <= PAGE_SIZE
      BY <3>1, <3>3, <3>4, <3>5
    <3> QED
      BY <3>2, <3>5, <3>6
  <2>4. IntsLie(page, o3, codes)
    BY <1>5, <1>13, <2>3 DEF IntsLie, b3
  <2>5. IntsLie(page, o4, s.typeLength)
    BY <1>1, <1>13, <2>3 DEF IntsLie, b4
  <2>6. IntsLie(page, o5, one)
    BY <1>13, <2>1, <2>3 DEF IntsLie
  <2>7. IntsLie(page, o6, s.keyAttrs)
    BY <1>13, <2>2 DEF IntsLie, b6, m
  <2> HIDE DEF o3, o4, o5, o6
  <2>8. IntsAt(page, o3, n) = codes /\ IntsAt(page, o4, n) = s.typeLength
    BY <1>1, <1>3, <1>5, <1>13, <2>2, <2>4, <2>5, IntsRead
  <2>9. IntsAt(page, o5, 1) = one
    BY <1>13, <2>1, <2>2, <2>6, IntsRead
  <2>10. IntsAt(page, o6, m) = s.keyAttrs
    BY <1>1, <1>13, <2>2, <2>7, IntsRead DEF m
  <2> QED
    BY <2>8, <2>9, <2>10 DEF o3, o4, o5, o6, one
<1>18. PICK start : NamesLie(s.attrNames, b2, start)
  BY <1>1, NamesBytes DEF b2
<1>19. /\ start \in [0 .. n -> Nat] /\ start[0] = 0 /\ start[n] = L
       /\ \A i \in 1 .. n :
            /\ s.attrNames[i] \in Seq(Char)
            /\ start[i] = start[i - 1] + Len(s.attrNames[i]) + 1
            /\ start[i] <= L
            /\ \A k \in 1 .. Len(s.attrNames[i]) :
                 b2[start[i - 1] + k] = s.attrNames[i][k]
            /\ b2[start[i - 1] + Len(s.attrNames[i]) + 1] = 0
  BY <1>1, <1>18 DEF L, NamesLie
<1>20. ASSUME NEW i \in 1 .. n
       PROVE  NameAt(page, 4 + start[i - 1]) = s.attrNames[i]
  <2> DEFINE o == 4 + start[i - 1]
             name == s.attrNames[i]
             a == At(page, o, PAGE_SIZE - o)
  <2>1. i - 1 \in 0 .. n /\ start[i - 1] \in Nat
    <3>1. i - 1 \in 0 .. n
      BY <1>1
    <3> HIDE DEF n
    <3> QED
      BY <1>19, <3>1
  <2>2. name \in Seq(Char) /\ Len(name) \in Nat
    <3>1. name \in Seq(Char)
      BY <1>19
    <3> HIDE DEF name
    <3> QED
      BY <3>1
  <2>3. start[i - 1] + Len(name) + 1 <= L
    BY <1>19
  <2>4. o \in Nat /\ o + Len(name) + 1 <= PAGE_SIZE /\ PAGE_SIZE - o \in Nat
        /\ o + (PAGE_SIZE - o) = PAGE_SIZE
    <3> DEFINE x == start[i - 1]
               l == Len(name)
    <3>1. x \in Nat /\ l \in Nat /\ x + l + 1 <= L /\ o = 4 + x
      BY <2>1, <2>2, <2>3
    <3> HIDE DEF n, m, x, l, o
    <3>2. 4 + L <= PAGE_SIZE
      BY <1>1, <1>8, <1>14, <1>15
    <3>3. o \in Nat /\ o + l + 1 <= PAGE_SIZE /\ PAGE_SIZE - o \in Nat
          /\ o + (PAGE_SIZE - o) = PAGE_SIZE
      BY <1>8, <1>15, <3>1, <3>2
    <3> QED
      BY <3>3 DEF l
  <2>5. \A k \in 1 .. Len(name) + 1 : page[o + k] = b2[start[i - 1] + k]
    <3>1. \A k \in 1 .. Len(name) + 1 :
            start[i - 1] + k \in 1 .. L /\ 4 + (start[i - 1] + k) = o + k
      <4> DEFINE a0 == start[i - 1]
                 l == Len(name)
      <4>1. a0 \in Nat /\ l \in Nat /\ L \in Nat /\ a0 + l + 1 <= L /\ o = 4 + a0
        BY <1>8, <2>1, <2>2, <2>3
      <4> HIDE DEF name, a0, l, o
      <4>2. \A k \in 1 .. l + 1 : a0 + k \in 1 .. L /\ 4 + (a0 + k) = o + k
        BY <4>1
      <4> QED
        BY <4>2 DEF a0, l
    <3> QED
      BY <1>13, <3>1
  <2> HIDE DEF o
  <2>6. /\ a \in [1 .. PAGE_SIZE - o -> Byte]
        /\ \A k \in 1 .. PAGE_SIZE - o : a[k] = page[o + k]
    <3> DEFINE q == PAGE_SIZE - o
    <3>1. q \in Nat /\ o + q <= Len(page)
      BY <1>13, <1>15, <2>4
    <3>2. a = At(page, o, q)
      OBVIOUS
    <3> HIDE DEF q, a
    <3>3. /\ At(page, o, q) \in [1 .. q -> Byte]
          /\ \A k \in 1 .. q : At(page, o, q)[k] = page[o + k]
      BY <1>13, <2>4, <3>1, BytesAt
    <3>4. /\ a \in [1 .. q -> Byte]
          /\ \A k \in 1 .. q : a[k] = page[o + k]
      BY <3>2, <3>3
    <3> QED
      BY <3>4 DEF q
  <2>7. /\ \A k \in 1 .. Len(name) : k \in 1 .. Len(name) + 1 /\ k \in 1 .. PAGE_SIZE - o
        /\ Len(name) + 1 \in 1 .. Len(name) + 1
        /\ Len(name) + 1 \in 1 .. PAGE_SIZE - o
        /\ Len(name) \in 0 .. PAGE_SIZE - o
    <3> HIDE DEF name
    <3> QED
      BY <2>2, <2>4
  <2>8. \A k \in 1 .. Len(name) : name[k] # 0
    <3> HIDE DEF name
    <3> QED
      BY <2>2, Bytes
  <2>9. /\ \A k \in 1 .. Len(name) : a[k] = name[k]
        /\ a[Len(name) + 1] = 0
    <3>1. \A k \in 1 .. Len(name) : b2[start[i - 1] + k] = name[k]
      BY <1>19
    <3>2. b2[start[i - 1] + (Len(name) + 1)] = 0
      <4>1. start[i - 1] + (Len(name) + 1) = start[i - 1] + Len(name) + 1
        BY <2>1, <2>2
      <4> QED
        BY <1>19, <4>1
    <3> HIDE DEF name, a
    <3> QED
      BY <2>5, <2>6, <2>7, <3>1, <3>2
  <2> HIDE DEF name, a
  <2>10. a \in Seq(Byte) /\ Len(a) = PAGE_SIZE - o
    BY <2>4, <2>6
  <2>11. CString(a) = SubSeq(a, 1, Len(name))
    BY <2>7, <2>8, <2>9, <2>10, StringEnds
  <2>12. SubSeq(a, 1, Len(name)) = name
    BY <2>2, <2>7, <2>9, <2>10
  <2> QED
    BY <2>11, <2>12 DEF NameAt, a, name, o
<1> DEFINE N == IntsAt(page, 0, 1)[1]
           name[i \in 0 .. N] ==
             IF i = 0 THEN SizeOfInt
             ELSE name[i - 1] + Len(NameAt(page, name[i - 1])) + 1
           codesAt == IntsAt(page, name[N], N)
           keySize == name[N] + N * SizeOfInt + N * SizeOfInt
<1>21. SchemaOf(page)
         = [attrNames  |-> [i \in 1 .. N |-> NameAt(page, name[i - 1])],
            dataTypes  |-> [i \in 1 .. N |->
                              CHOOSE dt \in DataType : TypeCode(dt) = codesAt[i]],
            typeLength |-> IntsAt(page, name[N] + N * SizeOfInt, N),
            keyAttrs   |-> IntsAt(page, keySize + SizeOfInt,
                                  IntsAt(page, keySize, 1)[1])]
  BY DEF SchemaOf
<1>22. N = n
  BY <1>16
<1> DEFINE place == [i \in 0 .. n |-> 4 + start[i]]
<1>23. \A i \in 1 .. n :
         place[i] = place[i - 1] + Len(NameAt(page, place[i - 1])) + 1
  <2>1. ASSUME NEW i \in 1 .. n
        PROVE  place[i] = place[i - 1] + Len(NameAt(page, place[i - 1])) + 1
    <3>1. i \in 0 .. n /\ i - 1 \in 0 .. n
      BY <1>1
    <3>2. place[i] = 4 + start[i] /\ place[i - 1] = 4 + start[i - 1]
      BY <3>1
    <3>3. start[i] = start[i - 1] + Len(s.attrNames[i]) + 1
      BY <1>19
    <3>4. start[i] \in Nat /\ start[i - 1] \in Nat
      <4> HIDE DEF n
      <4> QED
        BY <1>19, <3>1
    <3>5. Len(s.attrNames[i]) \in Nat
      <4>1. s.attrNames[i] \in Seq(Char)
        BY <1>19
      <4> QED
        BY <4>1
    <3>6. NameAt(page, place[i - 1]) = s.attrNames[i]
      BY <1>20, <3>2
    <3> HIDE DEF place
    <3> QED
      BY <3>2, <3>3, <3>4, <3>5, <3>6
  <2> QED
    BY <2>1
<1>24. place = [i \in 0 .. N |-> IF i = 0 THEN SizeOfInt
                                 ELSE place[i - 1] + Len(NameAt(page, place[i - 1])) + 1]
  <2>1. place[0] = SizeOfInt
    BY <1>1, <1>19 DEF SizeOfInt
  <2>2. \A i \in 0 .. n : i # 0 => i \in 1 .. n
    BY <1>1
  <2>3. \A i \in 0 .. n :
          place[i] = IF i = 0 THEN SizeOfInt
                     ELSE place[i - 1] + Len(NameAt(page, place[i - 1])) + 1
    <3> HIDE DEF place, n
    <3> QED
      BY <1>23, <2>1, <2>2
  <2>4. place = [i \in 0 .. n |-> place[i]]
    OBVIOUS
  <2> HIDE DEF place, n
  <2> QED
    BY <1>22, <2>3, <2>4
<1>25. name = [i \in 0 .. N |-> IF i = 0 THEN SizeOfInt
                                ELSE name[i - 1] + Len(NameAt(page, name[i - 1])) + 1]
  <2> HIDE DEF place
  <2> QED
    BY <1>24
<1> HIDE DEF name, N
<1>26. \A i \in 0 .. n : name[i] = 4 + start[i]
  <2> DEFINE Bad == {i \in Nat : i <= n /\ name[i] # place[i]}
  <2>1. \A i \in Nat : i <= n => i \in 0 .. N
    BY <1>1, <1>22
  <2>2. \A i \in 1 .. n : name[i] = name[i - 1] + Len(NameAt(page, name[i - 1])) + 1
    <3>1. \A i \in 1 .. n : i \in 0 .. N /\ i # 0
      BY <1>1, <1>22
    <3> QED
      BY <1>25, <3>1
  <2>3. name[0] = place[0]
    <3>1. 0 \in 0 .. N
      BY <1>1, <2>1
    <3> HIDE DEF place
    <3> QED
      BY <1>24, <1>25, <3>1
  <2>4. ASSUME Bad # {} PROVE FALSE
    <3> HIDE DEF place
    <3>1. PICK i \in Bad : \A x \in Bad : i <= x
      BY <2>4, Smallest
    <3>2. i # 0
      BY <2>3, <3>1
    <3>3. i \in 1 .. n /\ i - 1 \in Nat /\ i - 1 <= n /\ ~ (i <= i - 1)
      BY <1>1, <3>1, <3>2
    <3>4. name[i - 1] = place[i - 1]
      BY <3>1, <3>3
    <3> QED
      BY <1>23, <2>2, <3>1, <3>3, <3>4
  <2>5. ASSUME NEW i \in 0 .. n PROVE name[i] = 4 + start[i]
    <3>1. i \in Nat /\ i <= n
      BY <1>1
    <3>2. name[i] = place[i]
      <4> HIDE DEF place
      <4> QED
        BY <2>4, <3>1
    <3> QED
      BY <3>2
  <2> QED
    BY <2>5
<1>27. /\ name[N] = 4 + L
       /\ name[N] + N * SizeOfInt = 4 + L + 4 * n
       /\ keySize = 4 + L + 4 * n + 4 * n
       /\ keySize + SizeOfInt = 4 + L + 4 * n + 4 * n + 4
  <2>1. name[N] = 4 + L
    BY <1>1, <1>19, <1>22, <1>26
  <2> HIDE DEF n
  <2> QED
    BY <1>1, <1>8, <1>22, <2>1 DEF SizeOfInt
<1> HIDE DEF keySize
<1>28. codesAt = codes
  BY <1>17, <1>22, <1>27
<1>29. /\ IntsAt(page, name[N] + N * SizeOfInt, N) = s.typeLength
       /\ IntsAt(page, keySize, 1)[1] = m
       /\ IntsAt(page, keySize + SizeOfInt, m) = s.keyAttrs
  BY <1>17, <1>22, <1>27
<1> HIDE DEF codesAt
<1>30. \A i \in 1 .. n : NameAt(page, name[i - 1]) = s.attrNames[i]
  <2>1. \A i \in 1 .. n : i - 1 \in 0 .. n
    BY <1>1
  <2> QED
    BY <1>20, <1>26, <2>1
<1>31. [i \in 1 .. N |-> NameAt(page, name[i - 1])] = s.attrNames
  <2> HIDE DEF n
  <2> QED
    BY <1>1, <1>22, <1>30
<1>32. \A i \in 1 .. n :
         (CHOOSE dt \in DataType : TypeCode(dt) = codesAt[i]) = s.dataTypes[i]
  <2>1. ASSUME NEW x \in DataType, NEW y \in DataType, TypeCode(x) = TypeCode(y)
        PROVE  x = y
    BY <2>1 DEF TypeCode, DataType
  <2>2. \A i \in 1 .. n : codesAt[i] = TypeCode(s.dataTypes[i])
    BY <1>28 DEF codes
  <2> QED
    BY <1>4, <2>1, <2>2
<1>33. [i \in 1 .. N |-> CHOOSE dt \in DataType : TypeCode(dt) = codesAt[i]]
         = s.dataTypes
  <2> DEFINE TypeAt(i) == CHOOSE dt \in DataType : TypeCode(dt) = codesAt[i]
  <2>1. \A i \in 1 .. n : TypeAt(i) = s.dataTypes[i]
    BY <1>32
  <2> HIDE DEF n, TypeAt
  <2>2. s.dataTypes = [i \in 1 .. n |-> s.dataTypes[i]]
    <3> DEFINE d == s.dataTypes
    <3>1. d \in Seq(DataType) /\ Len(d) = n
      BY <1>1
    <3> HIDE DEF d
    <3>2. d = [i \in 1 .. n |-> d[i]]
      BY <3>1
    <3> QED
      BY <3>2 DEF d
  <2>3. [i \in 1 .. N |-> TypeAt(i)] = [i \in 1 .. n |-> s.dataTypes[i]]
    BY <1>22, <2>1
  <2>4. [i \in 1 .. N |-> TypeAt(i)] = s.dataTypes
    BY <2>2, <2>3
  <2> QED
    BY <2>4 DEF TypeAt
<1>34. s = [attrNames |-> s.attrNames, dataTypes |-> s.dataTypes,
            typeLength |-> s.typeLength, keyAttrs |-> s.keyAttrs]
  BY DEF IsSchema, SchemaType
<1>35. SchemaOf(page) = s
  BY <1>21, <1>29, <1>31, <1>33, <1>34
<1> QED
  BY <1>13, <1>35 DEF page

-----------------------------------------------------------------------------
(***************************************************************************)
(* Expressions: what is computed node by node.                             *)
(***************************************************************************)

\* The places of an operator's first and last argument.
First(e, k) == e[k].args[1]
Last(e, k)  == e[k].args[Len(e[k].args)]

\* The arguments of an operator are before it.
LEMMA Arguments ==
  ASSUME NEW e, IsExpr(e)
  PROVE  /\ Len(e) \in Nat \ {0}
         /\ \A k \in 1 .. Len(e) :
              \/ e[k].type = "EXPR_CONST" /\ e[k].cons \in Value
              \/ e[k].type = "EXPR_ATTRREF"
              \/ /\ e[k].type = "EXPR_OP"
                 /\ First(e, k) \in 1 .. k - 1 /\ Last(e, k) \in 1 .. k - 1
                 /\ e[k].op \in Comparisons \cup Connectives \cup {"OP_BOOL_NOT"}
<1>1. ASSUME NEW k \in 1 .. Len(e), e[k].type = "EXPR_OP"
      PROVE  /\ First(e, k) \in 1 .. k - 1 /\ Last(e, k) \in 1 .. k - 1
             /\ e[k].op \in Comparisons \cup Connectives \cup {"OP_BOOL_NOT"}
  <2> DEFINE args == e[k].args
             D == 1 .. k - 1
  <2>1. /\ args \in Seq(D)
        /\ Len(args) = IF e[k].op = "OP_BOOL_NOT" THEN 1 ELSE 2
        /\ e[k].op \in Comparisons \cup Connectives \cup {"OP_BOOL_NOT"}
    BY <1>1 DEF IsExpr
  <2> HIDE DEF args, D
  <2>2. Len(args) \in {1, 2} /\ 1 \in 1 .. Len(args) /\ Len(args) \in 1 .. Len(args)
    BY <2>1
  <2>3. args[1] \in D /\ args[Len(args)] \in D
    BY <2>1, <2>2
  <2> QED
    BY <2>1, <2>3 DEF args, D, First, Last
<1> QED
  BY <1>1 DEF IsExpr

\* f gives every node a member of S: c[k] to node k if it is no operator, and
\* otherwise what F[k] makes of what f gives its arguments.
Computed(e, S, c, F, f) ==
  /\ f \in [1 .. Len(e) -> S]
  /\ \A k \in 1 .. Len(e) :
       f[k] = IF e[k].type = "EXPR_OP" THEN F[k][f[First(e, k)]][f[Last(e, k)]]
              ELSE c[k]

\* There is one: the recursions of evalExpr, Types and Meaning are well defined.
LEMMA Nodes ==
  ASSUME NEW e, IsExpr(e), NEW S, NEW c,
         \A k \in 1 .. Len(e) : e[k].type # "EXPR_OP" => c[k] \in S,
         NEW F \in [1 .. Len(e) -> [S -> [S -> S]]]
  PROVE  \E f : Computed(e, S, c, F, f)
<1> DEFINE n == Len(e)
           Body(f, k) ==
             IF e[k].type = "EXPR_OP" THEN F[k][f[First(e, k)]][f[Last(e, k)]]
             ELSE c[k]
           UpTo(m, f) == f \in [1 .. m -> S] /\ \A k \in 1 .. m : f[k] = Body(f, k)
           Bad == {m \in Nat : m <= n /\ ~ (\E f : UpTo(m, f))}
<1>1. n \in Nat
  BY Arguments
<1>2. ASSUME NEW k \in 1 .. n, e[k].type = "EXPR_OP"
      PROVE  First(e, k) \in 1 .. k - 1 /\ Last(e, k) \in 1 .. k - 1
  BY <1>2, Arguments
<1> HIDE DEF n
<1>3. ASSUME Bad # {} PROVE FALSE
  <2>1. PICK m \in Bad : \A x \in Bad : m <= x
    <3> HIDE DEF Bad
    <3>1. Bad \in SUBSET Nat
      BY DEF Bad
    <3> QED
      BY <1>3, <3>1, Smallest
  <2>2. m \in Nat /\ m <= n
    OBVIOUS
  <2>3. m # 0
    <3>1. UpTo(0, [k \in 1 .. 0 |-> 0])
      OBVIOUS
    <3> HIDE DEF UpTo
    <3> QED
      BY <1>1, <3>1
  <2>4. m - 1 \in Nat /\ m - 1 <= n /\ ~ (m <= m - 1) /\ m \in 1 .. n
    BY <1>1, <2>2, <2>3
  <2>5. PICK f : UpTo(m - 1, f)
    <3> HIDE DEF UpTo
    <3> QED
      BY <2>1, <2>4
  <2> DEFINE g == [k \in 1 .. m |-> IF k < m THEN f[k] ELSE Body(f, m)]
  <2>6. \A k \in 1 .. m - 1 : g[k] = f[k] /\ k \in 1 .. m /\ k \in 1 .. n
    BY <1>1, <2>2
  <2>7. g[m] = Body(f, m)
    BY <2>4
  <2> HIDE DEF g
  <2>8. ASSUME NEW k \in 1 .. m PROVE Body(g, k) = Body(f, k)
    <3>1. k \in 1 .. n
      BY <1>1, <2>2
    <3>2. CASE e[k].type = "EXPR_OP"
      <4>1. First(e, k) \in 1 .. k - 1 /\ Last(e, k) \in 1 .. k - 1
        BY <1>2, <3>1, <3>2
      <4>2. First(e, k) \in 1 .. m - 1 /\ Last(e, k) \in 1 .. m - 1
        BY <2>2, <4>1
      <4>3. g[First(e, k)] = f[First(e, k)] /\ g[Last(e, k)] = f[Last(e, k)]
        BY <2>6, <4>2
      <4> QED
        BY <4>3
    <3> QED
      BY <3>2
  <2>9. \A k \in 1 .. m : k \in 1 .. m - 1 \/ k = m
    BY <2>2
  <2>10. \A k \in 1 .. m : g[k] = Body(g, k)
    <3> HIDE DEF Body
    <3> QED
      BY <2>5, <2>6, <2>7, <2>8, <2>9
  <2>11. Body(f, m) \in S
    <3>1. CASE e[m].type = "EXPR_OP"
      <4>1. f[First(e, m)] \in S /\ f[Last(e, m)] \in S
        BY <1>2, <2>4, <2>5, <3>1
      <4> QED
        BY <2>4, <3>1, <4>1 DEF n
    <3> QED
      BY <2>4, <3>1 DEF n
  <2>12. g \in [1 .. m -> S]
    <3>1. g = [k \in 1 .. m |-> g[k]]
      BY DEF g
    <3>2. \A k \in 1 .. m : g[k] \in S
      <4> HIDE DEF Body
      <4> QED
        BY <2>5, <2>6, <2>7, <2>9, <2>11
    <3> QED
      BY <3>1, <3>2
  <2>13. UpTo(m, g)
    BY <2>10, <2>12
  <2> HIDE DEF UpTo
  <2> QED
    BY <2>13
<1>4. \E f : UpTo(n, f)
  <2> HIDE DEF UpTo
  <2>1. n \notin Bad
    <3> HIDE DEF Bad
    <3> QED
      BY <1>3
  <2> QED
    BY <1>1, <2>1
<1> QED
  BY <1>4 DEF Computed, n

\* What two functions give the nodes is the same if it is for the nodes without
\* arguments, and for an operator once it is for its arguments.
LEMMA Same ==
  ASSUME NEW e, IsExpr(e), NEW f, NEW g,
         \A k \in 1 .. Len(e) : e[k].type # "EXPR_OP" => f[k] = g[k],
         \A k \in 1 .. Len(e) :
           /\ e[k].type = "EXPR_OP"
           /\ f[First(e, k)] = g[First(e, k)] /\ f[Last(e, k)] = g[Last(e, k)]
           => f[k] = g[k]
  PROVE  \A k \in 1 .. Len(e) : f[k] = g[k]
<1> DEFINE n == Len(e)
           Bad == {k \in Nat : k \in 1 .. n /\ f[k] # g[k]}
<1>1. n \in Nat
  BY Arguments
<1>2. ASSUME Bad # {} PROVE FALSE
  <2>1. PICK k \in Bad : \A x \in Bad : k <= x
    <3> HIDE DEF Bad
    <3>1. Bad \in SUBSET Nat
      BY DEF Bad
    <3> QED
      BY <1>2, <3>1, Smallest
  <2>2. k \in 1 .. n /\ f[k] # g[k] /\ e[k].type = "EXPR_OP"
    BY <2>1
  <2>3. First(e, k) \in 1 .. k - 1 /\ Last(e, k) \in 1 .. k - 1
    BY <2>2, Arguments
  <2> HIDE DEF n
  <2>4. \A x \in 1 .. k - 1 : x \in Nat /\ x \in 1 .. n /\ ~ (k <= x)
    BY <1>1, <2>2
  <2>5. \A x \in 1 .. k - 1 : f[x] = g[x]
    BY <2>1, <2>4
  <2> QED
    BY <2>2, <2>3, <2>5 DEF n
<1> QED
  <2>1. ASSUME NEW k \in 1 .. n, f[k] # g[k] PROVE FALSE
    <3>1. k \in Bad
      BY <1>1, <2>1
    <3> HIDE DEF Bad
    <3> QED
      BY <1>2, <3>1
  <2> QED
    BY <2>1

-----------------------------------------------------------------------------
(***************************************************************************)
(* What an evaluation comes to, node by node.                              *)
(***************************************************************************)

\* A type, a number and a string: every value, and what a connective leaves.
Result  == [dt : DataType, v : Int, s : Seq(Char)]
Outcome == [how : {"value", "exit", "undefined"}, value : Result]

\* Values are results, and so is what an operator starts with.
LEMMA Results ==
  /\ \A x \in Value : x \in Result
  /\ NewResult \in Result /\ NewResult.dt = "DT_INT" /\ NewResult.v = -1
  /\ Exits \in Outcome /\ Undefined \in Outcome
  /\ \A b : Truth(b) \in {0, 1}
<1>1. << >> \in Seq(Char) /\ "DT_INT" \in DataType
  BY DEF DataType
<1>2. ASSUME NEW x \in Value PROVE x \in Result
  <2>1. x.s \in Seq(Char)
    BY <1>1, Values
  <2>2. x.dt \in DataType /\ x.v \in Int /\ x = [dt |-> x.dt, v |-> x.v, s |-> x.s]
    BY Values
  <2> HIDE DEF Result
  <2> QED
    BY <2>1, <2>2 DEF Result
<1>3. IntValue(-1) \in Result /\ IntValue(-1).dt = "DT_INT" /\ IntValue(-1).v = -1
  BY <1>1 DEF IntValue, Result
<1> QED
  BY <1>2, <1>3 DEF NewResult, Exits, Undefined, Outcome, Truth

\* Storing a boolean keeps the rest of a result, and boolV reads it back.
LEMMA WithBoolVReads ==
  ASSUME NEW x \in Result, NEW n \in Short
  PROVE  /\ WithBoolV(x, n) \in Result
         /\ WithBoolV(x, n).dt = x.dt
         /\ boolV(WithBoolV(NewResult, n)) = n
<1>1. n \in Int /\ -32768 <= n /\ n <= 32767
  BY SMT DEF Short
<1>2. /\ WithBoolV(x, n) = [dt |-> x.dt, v |-> x.v - (x.v % 65536) + (n % 65536),
                            s |-> x.s]
  BY DEF WithBoolV, Result
<1>3. x.v - (x.v % 65536) + (n % 65536) \in Int
  BY <1>1 DEF Result
<1> DEFINE r == NewResult.v
<1>4. r \in Int /\ r + 1 = 0
      /\ WithBoolV(NewResult, n).v = r - (r % 65536) + (n % 65536)
  <2>1. r = -1
    BY Results
  <2>2. r \in Int /\ r + 1 = 0
    BY <2>1, SMT
  <2> QED
    BY <2>2, Results DEF WithBoolV, Result
<1> HIDE DEF r
<1>5. ((r - (r % 65536) + (n % 65536) + 32768) % 65536) - 32768 = n
  <2> DEFINE q == n % 65536
  <2>1. r % 65536 = 65535
    BY <1>4, SMT
  <2>2. CASE n >= 0
    <3>1. q = n
      BY <1>1, <2>2, SMT
    <3>2. (n - 65536 + 32768) % 65536 = n + 32768
      BY <1>1, <2>2, SMT
    <3> HIDE DEF q
    <3>3. r - (r % 65536) + q + 32768 = n - 65536 + 32768
      BY <1>1, <1>4, <2>1, <3>1
    <3>4. (r - (r % 65536) + q + 32768) % 65536 = n + 32768
      BY <3>2, <3>3
    <3> QED
      BY <1>1, <3>4 DEF q
  <2>3. CASE n < 0
    <3>1. q = n + 65536
      BY <1>1, <2>3, SMT
    <3>2. (n + 32768) % 65536 = n + 32768
      BY <1>1, <2>3, SMT
    <3> HIDE DEF q
    <3>3. r - (r % 65536) + q + 32768 = n + 32768
      BY <1>1, <1>4, <2>1, <3>1
    <3>4. (r - (r % 65536) + q + 32768) % 65536 = n + 32768
      BY <3>2, <3>3
    <3> QED
      BY <1>1, <3>4 DEF q
  <2> QED
    BY <1>1, <2>2, <2>3
<1>6. boolV(WithBoolV(NewResult, n)) = n
  BY <1>4, <1>5 DEF boolV
<1> QED
  BY <1>2, <1>3, <1>6 DEF Result

\* What the functions of expr.c store for a boolean.
LEMMA AsBoolReads ==
  ASSUME NEW b
  PROVE  /\ AsBool(NewResult, b) \in Outcome
         /\ AsBool(NewResult, b).how = "value"
         /\ AsBool(NewResult, b).value.dt = "DT_BOOL"
         /\ boolV(AsBool(NewResult, b).value) = Truth(b)
<1> DEFINE x == WithBoolV(NewResult, Truth(b))
<1>1. Truth(b) \in Short
  <2>1. 0 \in Short /\ 1 \in Short
    BY SMT DEF Short
  <2> QED
    BY <2>1, Results
<1>2. x \in Result /\ boolV(x) = Truth(b)
  BY <1>1, Results, WithBoolVReads
<1> HIDE DEF x
<1>3. AsBool(NewResult, b) = [how |-> "value", value |-> [x EXCEPT !.dt = "DT_BOOL"]]
  BY DEF AsBool, Gives, x
<1>4. [x EXCEPT !.dt = "DT_BOOL"] \in Result /\ [x EXCEPT !.dt = "DT_BOOL"].v = x.v
      /\ [x EXCEPT !.dt = "DT_BOOL"].dt = "DT_BOOL"
  BY <1>2 DEF Result, DataType
<1>5. boolV([x EXCEPT !.dt = "DT_BOOL"]) = boolV(x)
  BY <1>4 DEF boolV
<1> DEFINE y == [x EXCEPT !.dt = "DT_BOOL"]
<1>6. AsBool(NewResult, b) = [how |-> "value", value |-> y] /\ y \in Result
      /\ y.dt = "DT_BOOL" /\ boolV(y) = Truth(b)
  BY <1>2, <1>3, <1>4, <1>5
<1> HIDE DEF y
<1> QED
  BY <1>6 DEF Outcome

\* An operator comes to an outcome.
LEMMA AppliedOutcome ==
  ASSUME NEW op \in Comparisons \cup Connectives \cup {"OP_BOOL_NOT"},
         NEW x \in Result, NEW y \in Result
  PROVE  Applied(op, x, y, NewResult) \in Outcome
<1>1. \A b : AsBool(NewResult, b) \in Outcome
  BY AsBoolReads
<1>2. ASSUME NEW b PROVE Gives(WithBoolV(NewResult, Truth(b))) \in Outcome
  <2>1. Truth(b) \in Short
    <3>1. 0 \in Short /\ 1 \in Short
      BY SMT DEF Short
    <3> QED
      BY <3>1, Results
  <2>2. WithBoolV(NewResult, Truth(b)) \in Result
    BY <2>1, Results, WithBoolVReads
  <2> QED
    BY <2>2 DEF Gives, Outcome
<1>3. Exits \in Outcome /\ Undefined \in Outcome
  BY Results
<1>4. boolNot(x, NewResult) \in Outcome
  BY <1>1, <1>3 DEF boolNot
<1>5. boolAnd(x, y, NewResult) \in Outcome /\ boolOr(x, y, NewResult) \in Outcome
  BY <1>2, <1>3 DEF boolAnd, boolOr
<1>6. valueEquals(x, y, NewResult) \in Outcome
  BY <1>1, <1>3 DEF valueEquals
<1>7. valueSmaller(x, y, NewResult) \in Outcome
  BY <1>1, <1>3 DEF valueSmaller
<1> QED
  BY <1>4, <1>5, <1>6, <1>7 DEF Applied, Comparisons, Connectives

\* What f gives the nodes of e is what evalExpr computes for them.
EvalOf(attr, e, f) ==
  /\ f \in [1 .. Len(e) -> Outcome]
  /\ \A k \in 1 .. Len(e) :
       f[k] = CASE e[k].type = "EXPR_CONST"   -> Gives(Copied(e[k].cons))
                [] e[k].type = "EXPR_ATTRREF" -> Gives(attr[e[k].attrRef])
                [] e[k].type = "EXPR_OP"      ->
                     IF f[First(e, k)].how # "value" THEN f[First(e, k)]
                     ELSE IF f[Last(e, k)].how # "value" THEN f[Last(e, k)]
                     ELSE Applied(e[k].op, f[First(e, k)].value,
                                  f[Last(e, k)].value, NewResult)

\* What CPVAL copies of a constant.
LEMMA CopiedReads ==
  ASSUME NEW x \in Value
  PROVE  /\ Copied(x) \in Result /\ Copied(x).dt = x.dt
         /\ x.dt = "DT_BOOL" => boolV(Copied(x)) = x.v
         /\ x.dt # "DT_BOOL" => Copied(x) = x
<1>1. CASE x.dt = "DT_BOOL"
  <2>1. x.v \in Short
    BY <1>1, Values
  <2>2. boolV(x) = x.v
    BY <2>1, BoolVShort
  <2> DEFINE y == WithBoolV(NewResult, boolV(x))
             z == [y EXCEPT !.dt = "DT_BOOL"]
  <2>3. y \in Result /\ boolV(y) = x.v
    BY <2>1, <2>2, Results, WithBoolVReads
  <2>4. Copied(x) = z
    BY <1>1 DEF Copied
  <2> HIDE DEF y
  <2>5. z \in Result /\ z.dt = "DT_BOOL" /\ z.v = y.v
    BY <2>3 DEF Result, DataType
  <2>6. boolV(z) = boolV(y)
    BY <2>5 DEF boolV
  <2> HIDE DEF z
  <2> QED
    BY <1>1, <2>3, <2>4, <2>5, <2>6
<1>2. CASE x.dt # "DT_BOOL"
  <2>1. Copied(x) = x
    BY <1>2 DEF Copied
  <2> QED
    BY <1>2, <2>1, Results
<1> QED
  BY <1>1, <1>2

\* evalExpr comes to what it computes for the root.
LEMMA Evals ==
  ASSUME NEW e, IsExpr(e), NEW attr,
         \A i \in AttrRefs(e) : attr[i] \in Value
  PROVE  \E f : EvalOf(attr, e, f) /\ evalExpr(attr, e) = f[Len(e)]
<1> DEFINE n == Len(e)
           c == [k \in 1 .. n |-> IF e[k].type = "EXPR_CONST" THEN Gives(Copied(e[k].cons))
                                  ELSE Gives(attr[e[k].attrRef])]
           Step(k, x, y) == IF x.how # "value" THEN x
                            ELSE IF y.how # "value" THEN y
                            ELSE Applied(e[k].op, x.value, y.value, NewResult)
           F == [k \in 1 .. n |-> [x \in Outcome |-> [y \in Outcome |->
                  IF e[k].type = "EXPR_OP" THEN Step(k, x, y) ELSE x]]]
<1>1. \A k \in 1 .. n : e[k].type # "EXPR_OP" => c[k] \in Outcome
  <2>1. ASSUME NEW x \in Result PROVE Gives(x) \in Outcome
    BY DEF Gives, Outcome
  <2>2. ASSUME NEW k \in 1 .. n, e[k].type = "EXPR_CONST" PROVE c[k] \in Outcome
    <3>1. e[k].cons \in Value
      BY <2>2, Arguments
    <3>2. Copied(e[k].cons) \in Result
      BY <3>1, CopiedReads
    <3> QED
      BY <2>1, <2>2, <3>2
  <2>3. ASSUME NEW k \in 1 .. n, e[k].type = "EXPR_ATTRREF" PROVE c[k] \in Outcome
    <3>1. e[k].attrRef \in AttrRefs(e)
      BY <2>3 DEF AttrRefs
    <3>2. attr[e[k].attrRef] \in Result
      BY <3>1, Results
    <3> QED
      BY <2>1, <2>3, <3>2
  <2> QED
    BY <2>2, <2>3, Arguments
<1>2. ASSUME NEW k \in 1 .. n, e[k].type = "EXPR_OP",
             NEW x \in Outcome, NEW y \in Outcome
      PROVE  Step(k, x, y) \in Outcome
  <2>1. e[k].op \in Comparisons \cup Connectives \cup {"OP_BOOL_NOT"}
    BY <1>2, Arguments
  <2>2. x.value \in Result /\ y.value \in Result
    BY DEF Outcome
  <2>3. Applied(e[k].op, x.value, y.value, NewResult) \in Outcome
    BY <2>1, <2>2, AppliedOutcome
  <2> QED
    BY <2>3
<1> HIDE DEF c, Step
<1>3. F \in [1 .. n -> [Outcome -> [Outcome -> Outcome]]]
  BY <1>2
<1>4. \A k \in 1 .. n, x \in Outcome, y \in Outcome :
        e[k].type = "EXPR_OP" => F[k][x][y] = Step(k, x, y)
  OBVIOUS
<1> HIDE DEF F
<1>5. PICK f : Computed(e, Outcome, c, F, f)
  BY <1>1, <1>3, Nodes
<1>6. EvalOf(attr, e, f)
  <2>1. f \in [1 .. n -> Outcome]
    BY <1>5 DEF Computed
  <2>2. ASSUME NEW k \in 1 .. n
        PROVE  f[k] = CASE e[k].type = "EXPR_CONST"   -> Gives(Copied(e[k].cons))
                        [] e[k].type = "EXPR_ATTRREF" -> Gives(attr[e[k].attrRef])
                        [] e[k].type = "EXPR_OP"      ->
                             Step(k, f[First(e, k)], f[Last(e, k)])
    <3>1. CASE e[k].type = "EXPR_OP"
      <4>1. First(e, k) \in 1 .. k - 1 /\ Last(e, k) \in 1 .. k - 1
        BY <3>1, Arguments
      <4>2. First(e, k) \in 1 .. n /\ Last(e, k) \in 1 .. n
        BY <4>1, Arguments
      <4>3. f[First(e, k)] \in Outcome /\ f[Last(e, k)] \in Outcome
        BY <2>1, <4>2
      <4>4. f[k] = F[k][f[First(e, k)]][f[Last(e, k)]]
        BY <1>5, <3>1 DEF Computed
      <4> QED
        BY <1>4, <3>1, <4>3, <4>4
    <3>2. CASE e[k].type # "EXPR_OP"
      <4>1. f[k] = c[k]
        BY <1>5, <3>2 DEF Computed
      <4>2. e[k].type \in {"EXPR_CONST", "EXPR_ATTRREF"}
        BY <3>2, Arguments
      <4> QED
        BY <4>1, <4>2 DEF c
    <3> QED
      BY <3>1, <3>2
  <2> QED
    BY <2>1, <2>2 DEF EvalOf, Step
<1> DEFINE eval[k \in 1 .. n] ==
             LET node  == e[k]
                 left  == eval[node.args[1]]
                 right == eval[node.args[Len(node.args)]]
             IN  CASE node.type = "EXPR_CONST"   -> Gives(Copied(node.cons))
                   [] node.type = "EXPR_ATTRREF" -> Gives(attr[node.attrRef])
                   [] node.type = "EXPR_OP"      ->
                        IF left.how # "value" THEN left
                        ELSE IF right.how # "value" THEN right
                        ELSE Applied(node.op, left.value, right.value, NewResult)
<1>7. evalExpr(attr, e) = eval[n]
  BY DEF evalExpr
<1> DEFINE Body(g, k) == CASE e[k].type = "EXPR_CONST"   -> Gives(Copied(e[k].cons))
                           [] e[k].type = "EXPR_ATTRREF" -> Gives(attr[e[k].attrRef])
                           [] e[k].type = "EXPR_OP"      ->
                                IF g[First(e, k)].how # "value" THEN g[First(e, k)]
                                ELSE IF g[Last(e, k)].how # "value" THEN g[Last(e, k)]
                                ELSE Applied(e[k].op, g[First(e, k)].value,
                                             g[Last(e, k)].value, NewResult)
<1>8. f = [k \in 1 .. n |-> Body(f, k)]
  BY <1>6 DEF EvalOf
<1>9. eval = [k \in 1 .. n |-> Body(eval, k)]
  BY <1>8 DEF First, Last
<1> HIDE DEF eval
<1>10. \A k \in 1 .. n : eval[k] = f[k]
  <2>1. \A k \in 1 .. n : eval[k] = Body(eval, k) /\ f[k] = Body(f, k)
    <3> HIDE DEF Body
    <3> QED
      BY <1>8, <1>9
  <2>2. \A k \in 1 .. n : e[k].type # "EXPR_OP" => eval[k] = f[k]
    BY <2>1, Arguments
  <2>3. \A k \in 1 .. n :
          /\ e[k].type = "EXPR_OP"
          /\ eval[First(e, k)] = f[First(e, k)] /\ eval[Last(e, k)] = f[Last(e, k)]
          => eval[k] = f[k]
    BY <2>1
  <2> QED
    BY <2>2, <2>3, Same
<1>11. n \in 1 .. n
  BY Arguments
<1> QED
  BY <1>6, <1>7, <1>10, <1>11

\* f gives the nodes of e their types.
TypesOf(type, e, f) ==
  /\ f \in [1 .. Len(e) -> DataType \cup {"none"}]
  /\ \A k \in 1 .. Len(e) :
       f[k] = CASE e[k].type = "EXPR_CONST"   -> e[k].cons.dt
                [] e[k].type = "EXPR_ATTRREF" -> type[e[k].attrRef]
                [] e[k].type = "EXPR_OP"      ->
                     IF /\ f[First(e, k)] # "none" /\ f[Last(e, k)] = f[First(e, k)]
                        /\ e[k].op \in Comparisons \/ f[First(e, k)] = "DT_BOOL"
                     THEN "DT_BOOL" ELSE "none"

\* Types gives them.
LEMMA TypesGives ==
  ASSUME NEW e, IsExpr(e), NEW type,
         \A i \in AttrRefs(e) : type[i] \in DataType
  PROVE  TypesOf(type, e, Types(type, e))
<1> DEFINE n == Len(e)
           S == DataType \cup {"none"}
           c == [k \in 1 .. n |-> IF e[k].type = "EXPR_CONST" THEN e[k].cons.dt
                                  ELSE type[e[k].attrRef]]
           Step(k, x, y) ==
             IF /\ x # "none" /\ y = x
                /\ e[k].op \in Comparisons \/ x = "DT_BOOL"
             THEN "DT_BOOL" ELSE "none"
           F == [k \in 1 .. n |-> [x \in S |-> [y \in S |-> Step(k, x, y)]]]
<1>1. \A k \in 1 .. n : e[k].type # "EXPR_OP" => c[k] \in S
  <2>1. ASSUME NEW k \in 1 .. n, e[k].type = "EXPR_CONST" PROVE c[k] \in S
    <3>1. e[k].cons \in Value
      BY <2>1, Arguments
    <3>2. e[k].cons.dt \in DataType
      BY <3>1, Values
    <3> QED
      BY <2>1, <3>2
  <2>2. ASSUME NEW k \in 1 .. n, e[k].type = "EXPR_ATTRREF" PROVE c[k] \in S
    <3>1. e[k].attrRef \in AttrRefs(e)
      BY <2>2 DEF AttrRefs
    <3> QED
      BY <2>2, <3>1
  <2> QED
    BY <2>1, <2>2, Arguments
<1>2. \A k, x, y : Step(k, x, y) \in S
  BY DEF DataType
<1> HIDE DEF S, c, Step
<1>3. F \in [1 .. n -> [S -> [S -> S]]]
  BY <1>2
<1>4. \A k \in 1 .. n, x \in S, y \in S : F[k][x][y] = Step(k, x, y)
  OBVIOUS
<1> HIDE DEF F
<1>5. PICK f : Computed(e, S, c, F, f)
  BY <1>1, <1>3, Nodes
<1> DEFINE Body(g, k) == CASE e[k].type = "EXPR_CONST"   -> e[k].cons.dt
                           [] e[k].type = "EXPR_ATTRREF" -> type[e[k].attrRef]
                           [] e[k].type = "EXPR_OP"      ->
                                Step(k, g[First(e, k)], g[Last(e, k)])
<1>6. f \in [1 .. n -> S]
  BY <1>5 DEF Computed
<1>7. ASSUME NEW k \in 1 .. n PROVE f[k] = Body(f, k)
  <2>1. CASE e[k].type = "EXPR_OP"
    <3>1. First(e, k) \in 1 .. k - 1 /\ Last(e, k) \in 1 .. k - 1
      BY <2>1, Arguments
    <3>2. First(e, k) \in 1 .. n /\ Last(e, k) \in 1 .. n
      BY <3>1, Arguments
    <3>3. f[First(e, k)] \in S /\ f[Last(e, k)] \in S
      BY <1>6, <3>2
    <3>4. f[k] = F[k][f[First(e, k)]][f[Last(e, k)]]
      BY <1>5, <2>1 DEF Computed
    <3> QED
      BY <1>4, <2>1, <3>3, <3>4
  <2>2. CASE e[k].type # "EXPR_OP"
    <3>1. f[k] = c[k]
      BY <1>5, <2>2 DEF Computed
    <3>2. e[k].type \in {"EXPR_CONST", "EXPR_ATTRREF"}
      BY <2>2, Arguments
    <3> QED
      BY <3>1, <3>2 DEF c
  <2> QED
    BY <2>1, <2>2
<1> DEFINE tp[k \in 1 .. Len(e)] ==
             LET left  == tp[e[k].args[1]]
                 right == tp[e[k].args[Len(e[k].args)]]
             IN  CASE e[k].type = "EXPR_CONST"   -> e[k].cons.dt
                   [] e[k].type = "EXPR_ATTRREF" -> type[e[k].attrRef]
                   [] e[k].type = "EXPR_OP"      ->
                        IF /\ left # "none" /\ right = left
                           /\ e[k].op \in Comparisons \/ left = "DT_BOOL"
                        THEN "DT_BOOL" ELSE "none"
<1>8. Types(type, e) = tp
  BY DEF Types
<1>9. f = [k \in 1 .. n |-> Body(f, k)]
  BY <1>6, <1>7
<1>10. tp = [k \in 1 .. n |-> Body(tp, k)]
  BY <1>9 DEF First, Last, Step
<1> HIDE DEF tp
<1>11. \A k \in 1 .. n : tp[k] = Body(tp, k)
  <2> HIDE DEF Body
  <2> QED
    BY <1>10
<1>12. \A k \in 1 .. n : tp[k] = f[k]
  <2>1. \A k \in 1 .. n : e[k].type # "EXPR_OP" => tp[k] = f[k]
    BY <1>7, <1>11, Arguments
  <2>2. \A k \in 1 .. n :
          /\ e[k].type = "EXPR_OP"
          /\ tp[First(e, k)] = f[First(e, k)] /\ tp[Last(e, k)] = f[Last(e, k)]
          => tp[k] = f[k]
    BY <1>7, <1>11
  <2> QED
    BY <2>1, <2>2, Same
<1>13. tp = f
  <2>1. tp = [k \in 1 .. n |-> tp[k]]
    <3> HIDE DEF Body
    <3> QED
      BY <1>10
  <2> QED
    BY <1>6, <1>12, <2>1
<1> QED
  BY <1>6, <1>7, <1>8, <1>13 DEF TypesOf, Step, S

\* f gives the nodes of e what they mean.
MeaningOf(val, e, f) ==
  /\ f \in [1 .. Len(e) -> Value]
  /\ \A k \in 1 .. Len(e) :
       f[k] = CASE e[k].type = "EXPR_CONST"   -> e[k].cons
                [] e[k].type = "EXPR_ATTRREF" -> val[e[k].attrRef]
                [] e[k].type = "EXPR_OP"      ->
                     LET left  == f[First(e, k)]
                         right == f[Last(e, k)]
                     IN  BoolValue(
                           CASE e[k].op = "OP_BOOL_NOT"   -> left.v = 0
                             [] e[k].op = "OP_BOOL_AND"   -> left.v # 0 /\ right.v # 0
                             [] e[k].op = "OP_BOOL_OR"    -> left.v # 0 \/ right.v # 0
                             [] e[k].op = "OP_COMP_EQUAL" -> left = right
                             [] OTHER -> IF left.dt = "DT_STRING"
                                         THEN StringSmaller(left.s, right.s)
                                         ELSE left.v < right.v)

\* The booleans expressions mean are values.
LEMMA BoolValues ==
  \A b : /\ BoolValue(b) \in Value
         /\ BoolValue(b).dt = "DT_BOOL" /\ BoolValue(b).v = Truth(b)
<1>1. ASSUME NEW b
      PROVE  /\ BoolValue(b) \in Value
             /\ BoolValue(b).dt = "DT_BOOL" /\ BoolValue(b).v = Truth(b)
  <2>1. 0 \in Short /\ 1 \in Short
    BY SMT DEF Short
  <2>2. Truth(b) \in Short
    BY <2>1, Results
  <2>3. BoolValue(b) = [dt |-> "DT_BOOL", v |-> Truth(b), s |-> << >>]
    BY DEF BoolValue
  <2> QED
    BY <2>2, <2>3 DEF Value
<1> QED
  BY <1>1

\* Meaning comes to what it gives the root.
LEMMA MeaningGives ==
  ASSUME NEW e, IsExpr(e), NEW val,
         \A i \in AttrRefs(e) : val[i] \in Value
  PROVE  \E f : MeaningOf(val, e, f) /\ Meaning(val, e) = f[Len(e)]
<1> DEFINE n == Len(e)
           c == [k \in 1 .. n |-> IF e[k].type = "EXPR_CONST" THEN e[k].cons
                                  ELSE val[e[k].attrRef]]
           Step(k, x, y) ==
             BoolValue(
               CASE e[k].op = "OP_BOOL_NOT"   -> x.v = 0
                 [] e[k].op = "OP_BOOL_AND"   -> x.v # 0 /\ y.v # 0
                 [] e[k].op = "OP_BOOL_OR"    -> x.v # 0 \/ y.v # 0
                 [] e[k].op = "OP_COMP_EQUAL" -> x = y
                 [] OTHER -> IF x.dt = "DT_STRING" THEN StringSmaller(x.s, y.s)
                             ELSE x.v < y.v)
           F == [k \in 1 .. n |-> [x \in Value |-> [y \in Value |-> Step(k, x, y)]]]
<1>1. \A k \in 1 .. n : e[k].type # "EXPR_OP" => c[k] \in Value
  <2>1. ASSUME NEW k \in 1 .. n, e[k].type = "EXPR_CONST" PROVE c[k] \in Value
    <3>1. e[k].cons \in Value
      BY <2>1, Arguments
    <3> QED
      BY <2>1, <3>1
  <2>2. ASSUME NEW k \in 1 .. n, e[k].type = "EXPR_ATTRREF" PROVE c[k] \in Value
    <3>1. e[k].attrRef \in AttrRefs(e)
      BY <2>2 DEF AttrRefs
    <3> QED
      BY <2>2, <3>1
  <2> QED
    BY <2>1, <2>2, Arguments
<1>2. \A k, x, y : Step(k, x, y) \in Value
  <2> HIDE DEF Step
  <2>1. \A b : BoolValue(b) \in Value
    BY BoolValues
  <2> QED
    BY <2>1 DEF Step
<1> HIDE DEF c, Step
<1>3. F \in [1 .. n -> [Value -> [Value -> Value]]]
  BY <1>2
<1>4. \A k \in 1 .. n, x \in Value, y \in Value : F[k][x][y] = Step(k, x, y)
  OBVIOUS
<1> HIDE DEF F
<1>5. PICK f : Computed(e, Value, c, F, f)
  BY <1>1, <1>3, Nodes
<1> DEFINE Body(g, k) == CASE e[k].type = "EXPR_CONST"   -> e[k].cons
                           [] e[k].type = "EXPR_ATTRREF" -> val[e[k].attrRef]
                           [] e[k].type = "EXPR_OP"      ->
                                Step(k, g[First(e, k)], g[Last(e, k)])
<1>6. f \in [1 .. n -> Value]
  BY <1>5 DEF Computed
<1>7. ASSUME NEW k \in 1 .. n PROVE f[k] = Body(f, k)
  <2>1. CASE e[k].type = "EXPR_OP"
    <3>1. First(e, k) \in 1 .. k - 1 /\ Last(e, k) \in 1 .. k - 1
      BY <2>1, Arguments
    <3>2. First(e, k) \in 1 .. n /\ Last(e, k) \in 1 .. n
      BY <3>1, Arguments
    <3>3. f[First(e, k)] \in Value /\ f[Last(e, k)] \in Value
      BY <1>6, <3>2
    <3>4. f[k] = F[k][f[First(e, k)]][f[Last(e, k)]]
      BY <1>5, <2>1 DEF Computed
    <3> QED
      BY <1>4, <2>1, <3>3, <3>4
  <2>2. CASE e[k].type # "EXPR_OP"
    <3>1. f[k] = c[k]
      BY <1>5, <2>2 DEF Computed
    <3>2. e[k].type \in {"EXPR_CONST", "EXPR_ATTRREF"}
      BY <2>2, Arguments
    <3> QED
      BY <3>1, <3>2 DEF c
  <2> QED
    BY <2>1, <2>2
<1> DEFINE value[k \in 1 .. Len(e)] ==
             LET left  == value[e[k].args[1]]
                 right == value[e[k].args[Len(e[k].args)]]
             IN  CASE e[k].type = "EXPR_CONST"   -> e[k].cons
                   [] e[k].type = "EXPR_ATTRREF" -> val[e[k].attrRef]
                   [] e[k].type = "EXPR_OP"      ->
                        BoolValue(
                          CASE e[k].op = "OP_BOOL_NOT"   -> left.v = 0
                            [] e[k].op = "OP_BOOL_AND"   -> left.v # 0 /\ right.v # 0
                            [] e[k].op = "OP_BOOL_OR"    -> left.v # 0 \/ right.v # 0
                            [] e[k].op = "OP_COMP_EQUAL" -> left = right
                            [] OTHER -> IF left.dt = "DT_STRING"
                                        THEN StringSmaller(left.s, right.s)
                                        ELSE left.v < right.v)
<1>8. Meaning(val, e) = value[n]
  BY DEF Meaning
<1>9. f = [k \in 1 .. n |-> Body(f, k)]
  BY <1>6, <1>7
<1>10. value = [k \in 1 .. n |-> Body(value, k)]
  BY <1>9 DEF First, Last, Step
<1> HIDE DEF value
<1>11. \A k \in 1 .. n : value[k] = Body(value, k)
  <2> HIDE DEF Body
  <2> QED
    BY <1>10
<1>12. \A k \in 1 .. n : value[k] = f[k]
  <2>1. \A k \in 1 .. n : e[k].type # "EXPR_OP" => value[k] = f[k]
    BY <1>7, <1>11, Arguments
  <2>2. \A k \in 1 .. n :
          /\ e[k].type = "EXPR_OP"
          /\ value[First(e, k)] = f[First(e, k)] /\ value[Last(e, k)] = f[Last(e, k)]
          => value[k] = f[k]
    BY <1>7, <1>11
  <2> QED
    BY <2>1, <2>2, Same
<1>13. n \in 1 .. n
  BY Arguments
<1>14. MeaningOf(val, e, f)
  BY <1>6, <1>7 DEF MeaningOf, Step
<1> QED
  BY <1>8, <1>12, <1>13, <1>14

\* What an operator means of values.
Meant(op, p, q) ==
  BoolValue(
    CASE op = "OP_BOOL_NOT"   -> p.v = 0
      [] op = "OP_BOOL_AND"   -> p.v # 0 /\ q.v # 0
      [] op = "OP_BOOL_OR"    -> p.v # 0 \/ q.v # 0
      [] op = "OP_COMP_EQUAL" -> p = q
      [] OTHER -> IF p.dt = "DT_STRING" THEN StringSmaller(p.s, q.s)
                  ELSE p.v < q.v)

\* An argument x stands for the value p: a boolean with its low half only.
StandsFor(x, p) ==
  /\ x.dt = p.dt
  /\ p.dt = "DT_BOOL" => boolV(x) = p.v
  /\ p.dt # "DT_BOOL" => x = p

\* The operator comes to the boolean it means, or to the exit when the types of
\* its arguments do not fit.
ComesTo(op, x, y, p, q) ==
  LET out  == Applied(op, x, y, NewResult)
      fits == q.dt = p.dt /\ (op \in Comparisons \/ p.dt = "DT_BOOL")
  IN  /\ fits => /\ out.how = "value" /\ boolV(out.value) = Meant(op, p, q).v
                 /\ op \notin Connectives => out.value.dt = "DT_BOOL"
      /\ ~ fits => out.how = "exit"

\* It does, whatever its arguments.
LEMMA AppliedMeans ==
  ASSUME NEW op \in Comparisons \cup Connectives \cup {"OP_BOOL_NOT"},
         NEW x \in Result, NEW y \in Result, NEW p \in Value, NEW q \in Value,
         StandsFor(x, p), StandsFor(y, q),
         op = "OP_BOOL_NOT" => x = y /\ p = q,
         op = "OP_COMP_SMALLER" => p.dt # "DT_BOOL"
  PROVE  ComesTo(op, x, y, p, q)
<1> DEFINE out  == Applied(op, x, y, NewResult)
           fits == q.dt = p.dt /\ (op \in Comparisons \/ p.dt = "DT_BOOL")
           m == Meant(op, p, q)
<1>0. /\ x.dt = p.dt
      /\ p.dt = "DT_BOOL" => boolV(x) = p.v
      /\ p.dt # "DT_BOOL" => x = p
      /\ y.dt = q.dt
      /\ q.dt = "DT_BOOL" => boolV(y) = q.v
      /\ q.dt # "DT_BOOL" => y = q
  BY DEF StandsFor
<1>1. ASSUME NEW b, NEW c, b <=> c PROVE Truth(b) = Truth(c)
  BY <1>1 DEF Truth
<1>2. ASSUME NEW b, NEW c, b <=> c, m = BoolValue(c), out = AsBool(NewResult, b)
      PROVE  /\ out.how = "value" /\ boolV(out.value) = m.v
             /\ out.value.dt = "DT_BOOL"
  BY <1>1, <1>2, AsBoolReads, BoolValues
<1>3. ASSUME NEW b, NEW c, b <=> c, m = BoolValue(c),
             out = Gives(WithBoolV(NewResult, Truth(b)))
      PROVE  out.how = "value" /\ boolV(out.value) = m.v
  <2>1. Truth(b) \in Short
    <3>1. 0 \in Short /\ 1 \in Short
      BY SMT DEF Short
    <3> QED
      BY <3>1, Results
  <2>2. boolV(WithBoolV(NewResult, Truth(b))) = Truth(b)
    BY <2>1, Results, WithBoolVReads
  <2>3. out = [how |-> "value", value |-> WithBoolV(NewResult, Truth(b))]
    BY <1>3 DEF Gives
  <2> QED
    BY <1>1, <1>3, <2>2, <2>3, BoolValues
<1>4. Exits.how = "exit"
  BY DEF Exits
<1> SUFFICES /\ fits => /\ out.how = "value" /\ boolV(out.value) = m.v
                        /\ op \notin Connectives => out.value.dt = "DT_BOOL"
             /\ ~ fits => out.how = "exit"
  BY DEF ComesTo
<1> HIDE DEF out, m
<1>5. CASE op = "OP_BOOL_NOT"
  <2>1. m = BoolValue(p.v = 0)
    BY <1>5 DEF m, Meant
  <2>2. out = boolNot(x, NewResult)
    BY <1>5 DEF out, Applied
  <2>3. CASE p.dt = "DT_BOOL"
    <3>1. out = AsBool(NewResult, boolV(x) = 0)
      BY <1>0, <2>2, <2>3 DEF boolNot
    <3>2. (boolV(x) = 0) <=> (p.v = 0)
      BY <1>0, <2>3
    <3>3. out.how = "value" /\ boolV(out.value) = m.v /\ out.value.dt = "DT_BOOL"
      BY <1>2, <2>1, <3>1, <3>2
    <3> QED
      BY <1>5, <2>3, <3>3
  <2>4. CASE p.dt # "DT_BOOL"
    <3>1. out = Exits
      BY <1>0, <2>2, <2>4 DEF boolNot
    <3> QED
      BY <1>4, <1>5, <2>4, <3>1 DEF Comparisons
  <2> QED
    BY <2>3, <2>4
<1>6. ASSUME op \in Connectives
      PROVE  /\ fits => out.how = "value" /\ boolV(out.value) = m.v
             /\ ~ fits => out.how = "exit"
  <2>1. fits <=> BothBool(x, y)
    BY <1>0, <1>6 DEF Comparisons, Connectives, BothBool
  <2>2. CASE op = "OP_BOOL_AND" /\ BothBool(x, y)
    <3> DEFINE b == boolV(x) # 0 /\ boolV(y) # 0
               c == p.v # 0 /\ q.v # 0
    <3>1. out = Gives(WithBoolV(NewResult, Truth(b)))
      BY <2>2 DEF out, Applied, boolAnd
    <3>2. m = BoolValue(c)
      BY <2>2 DEF m, Meant
    <3>3. b <=> c
      BY <1>0, <2>2 DEF BothBool
    <3> HIDE DEF b, c
    <3> QED
      BY <1>3, <2>1, <2>2, <3>1, <3>2, <3>3
  <2>3. CASE op = "OP_BOOL_OR" /\ BothBool(x, y)
    <3> DEFINE b == boolV(x) # 0 \/ boolV(y) # 0
               c == p.v # 0 \/ q.v # 0
    <3>1. out = Gives(WithBoolV(NewResult, Truth(b)))
      BY <2>3 DEF out, Applied, boolOr
    <3>2. m = BoolValue(c)
      BY <2>3 DEF m, Meant
    <3>3. b <=> c
      BY <1>0, <2>3 DEF BothBool
    <3> HIDE DEF b, c
    <3> QED
      BY <1>3, <2>1, <2>3, <3>1, <3>2, <3>3
  <2>4. CASE ~ BothBool(x, y)
    <3>1. out = Exits
      BY <1>6, <2>4 DEF out, Applied, boolAnd, boolOr, Connectives
    <3> QED
      BY <1>4, <2>1, <2>4, <3>1
  <2> QED
    BY <1>6, <2>2, <2>3, <2>4 DEF Connectives
<1>7. CASE op = "OP_COMP_EQUAL"
  <2>1. out = valueEquals(x, y, NewResult) /\ m = BoolValue(p = q)
    BY <1>7 DEF out, m, Applied, Meant
  <2>2. CASE p.dt = q.dt
    <3> DEFINE b == CASE x.dt = "DT_STRING" -> x.s = y.s
                      [] x.dt = "DT_BOOL"   -> boolV(x) = boolV(y)
                      [] OTHER              -> x.v = y.v
    <3>1. out = AsBool(NewResult, b)
      BY <1>0, <2>1, <2>2 DEF valueEquals
    <3>2. /\ p = [dt |-> p.dt, v |-> p.v, s |-> p.s]
          /\ q = [dt |-> q.dt, v |-> q.v, s |-> q.s]
          /\ p.dt = "DT_STRING" => p.v = 0 /\ q.v = 0
          /\ p.dt # "DT_STRING" => p.s = << >> /\ q.s = << >>
      BY <2>2, Values
    <3>3. (p = q) <=> p.v = q.v /\ p.s = q.s
      BY <2>2, <3>2
    <3>4. b <=> (p = q)
      BY <1>0, <2>2, <3>2, <3>3
    <3> HIDE DEF b
    <3>5. out.how = "value" /\ boolV(out.value) = m.v /\ out.value.dt = "DT_BOOL"
      BY <1>2, <2>1, <3>1, <3>4
    <3> QED
      BY <1>7, <2>2, <3>5 DEF Comparisons
  <2>3. CASE p.dt # q.dt
    <3>1. out = Exits
      BY <1>0, <2>1, <2>3 DEF valueEquals
    <3> QED
      BY <1>4, <2>3, <3>1
  <2> QED
    BY <2>2, <2>3
<1>8. CASE op = "OP_COMP_SMALLER"
  <2> DEFINE c == IF p.dt = "DT_STRING" THEN StringSmaller(p.s, q.s) ELSE p.v < q.v
  <2>1. out = valueSmaller(x, y, NewResult) /\ m = BoolValue(c)
    BY <1>8 DEF out, m, Applied, Meant
  <2>2. CASE p.dt = q.dt
    <3> DEFINE b == \/ x.dt = "DT_STRING" /\ StringSmaller(x.s, y.s)
                    \/ x.dt # "DT_STRING" /\ x.v < y.v
    <3>1. out = AsBool(NewResult, b)
      BY <1>0, <1>8, <2>1, <2>2 DEF valueSmaller
    <3>2. x = p /\ y = q
      BY <1>0, <1>8, <2>2
    <3>3. b <=> c
      BY <3>2
    <3> HIDE DEF b, c
    <3>4. out.how = "value" /\ boolV(out.value) = m.v /\ out.value.dt = "DT_BOOL"
      BY <1>2, <2>1, <3>1, <3>3
    <3> QED
      BY <1>8, <2>2, <3>4 DEF Comparisons
  <2>3. CASE p.dt # q.dt
    <3>1. out = Exits
      BY <1>0, <2>1, <2>3 DEF valueSmaller
    <3> QED
      BY <1>4, <2>3, <3>1
  <2> QED
    BY <2>2, <2>3
<1> QED
  BY <1>5, <1>6, <1>7, <1>8 DEF Comparisons, Connectives

\* The arguments of a flat expression are no connectives, and no booleans where
\* they are compared by <; NOT has one argument.
LEMMA FlatArguments ==
  ASSUME NEW e, IsExpr(e), NEW type, Flat(type, e),
         NEW k \in 1 .. Len(e), e[k].type = "EXPR_OP"
  PROVE  /\ e[First(e, k)].op \notin Connectives
         /\ e[Last(e, k)].op \notin Connectives
         /\ e[k].op = "OP_COMP_SMALLER" => Types(type, e)[First(e, k)] # "DT_BOOL"
         /\ e[k].op = "OP_BOOL_NOT" => First(e, k) = Last(e, k)
<1>1. Len(e[k].args) = IF e[k].op = "OP_BOOL_NOT" THEN 1 ELSE 2
  BY DEF IsExpr
<1>2. 1 \in 1 .. Len(e[k].args) /\ Len(e[k].args) \in 1 .. Len(e[k].args)
  BY <1>1
<1>3. ASSUME NEW i \in 1 .. Len(e[k].args)
      PROVE  /\ e[e[k].args[i]].op \notin Connectives
             /\ e[k].op = "OP_COMP_SMALLER" => Types(type, e)[e[k].args[i]] # "DT_BOOL"
  BY DEF Flat
<1> QED
  BY <1>1, <1>2, <1>3 DEF First, Last

\* An evaluation comes to an outcome, and of a flat expression to what it means:
\* as boolV if it is boolean, as a value otherwise, and as the exit when its types
\* do not fit.
LEMMA EvaluationMeans ==
  ASSUME NEW e, IsExpr(e), NEW type, NEW val,
         \A i \in AttrRefs(e) : val[i] \in Value /\ val[i].dt = type[i]
  PROVE  LET out == evalExpr(val, e) IN
         /\ out \in Outcome
         /\ Flat(type, e) =>
              IF out.how = "value"
              THEN IF TypeOf(type, e) = "DT_BOOL"
                   THEN boolV(out.value) = Meaning(val, e).v
                   ELSE out.value = Meaning(val, e)
              ELSE out.how = "exit" /\ TypeOf(type, e) = "none"
<1> DEFINE n == Len(e)
           t == Types(type, e)
<1>1. PICK f : EvalOf(val, e, f) /\ evalExpr(val, e) = f[n]
  BY Evals
<1>2. PICK m : MeaningOf(val, e, m) /\ Meaning(val, e) = m[n]
  BY MeaningGives
<1>3. TypesOf(type, e, t)
  <2>1. \A i \in AttrRefs(e) : type[i] \in DataType
    BY Values
  <2> QED
    BY <2>1, TypesGives
<1>4. n \in Nat \ {0} /\ n \in 1 .. n
  BY Arguments
<1> HIDE DEF t
<1>5. f[n] \in Outcome
  BY <1>1, <1>4 DEF EvalOf
<1> DEFINE Means(k) ==
             IF f[k].how = "value"
             THEN /\ t[k] = m[k].dt
                  /\ t[k] = "DT_BOOL" =>
                       /\ boolV(f[k].value) = m[k].v
                       /\ e[k].op \notin Connectives => f[k].value.dt = "DT_BOOL"
                  /\ t[k] # "DT_BOOL" => f[k].value = m[k]
             ELSE f[k].how = "exit" /\ t[k] = "none"
           Bad == {k \in Nat : k \in 1 .. n /\ ~ Means(k)}
<1>6. ASSUME NEW k \in 1 .. n, e[k].type = "EXPR_CONST" PROVE Means(k)
  <2>1. e[k].cons \in Value
    BY <1>6, Arguments
  <2>2. f[k] = Gives(Copied(e[k].cons)) /\ m[k] = e[k].cons /\ t[k] = e[k].cons.dt
    BY <1>1, <1>2, <1>3, <1>6 DEF EvalOf, MeaningOf, TypesOf
  <2> QED
    BY <2>1, <2>2, CopiedReads DEF Gives
<1>7. ASSUME NEW k \in 1 .. n, e[k].type = "EXPR_ATTRREF" PROVE Means(k)
  <2> DEFINE x == val[e[k].attrRef]
  <2>1. e[k].attrRef \in AttrRefs(e)
    BY <1>7 DEF AttrRefs
  <2>2. x \in Value /\ x.dt = type[e[k].attrRef]
    BY <2>1
  <2>3. f[k] = Gives(x) /\ m[k] = x /\ t[k] = type[e[k].attrRef]
    BY <1>1, <1>2, <1>3, <1>7 DEF EvalOf, MeaningOf, TypesOf
  <2> HIDE DEF x
  <2>4. x.dt = "DT_BOOL" => boolV(x) = x.v
    BY <2>2, Values, BoolVShort
  <2> QED
    BY <2>2, <2>3, <2>4 DEF Gives
<1>8. ASSUME Flat(type, e), NEW k \in 1 .. n, e[k].type = "EXPR_OP",
             Means(First(e, k)), Means(Last(e, k))
      PROVE  Means(k)
  <2> DEFINE i == First(e, k)
             j == Last(e, k)
             p == m[i]
             q == m[j]
  <2>1. i \in 1 .. n /\ j \in 1 .. n
        /\ e[k].op \in Comparisons \cup Connectives \cup {"OP_BOOL_NOT"}
    <3>1. i \in 1 .. k - 1 /\ j \in 1 .. k - 1
          /\ e[k].op \in Comparisons \cup Connectives \cup {"OP_BOOL_NOT"}
      BY <1>8, Arguments
    <3> HIDE DEF i, j
    <3> QED
      BY <1>4, <3>1
  <2>2. /\ e[i].op \notin Connectives /\ e[j].op \notin Connectives
        /\ e[k].op = "OP_COMP_SMALLER" => t[i] # "DT_BOOL"
        /\ e[k].op = "OP_BOOL_NOT" => i = j
    BY <1>8, FlatArguments DEF t
  <2>3. f[k] = IF f[i].how # "value" THEN f[i]
               ELSE IF f[j].how # "value" THEN f[j]
               ELSE Applied(e[k].op, f[i].value, f[j].value, NewResult)
    BY <1>1, <1>8 DEF EvalOf
  <2>4. t[k] = IF /\ t[i] # "none" /\ t[j] = t[i]
                  /\ e[k].op \in Comparisons \/ t[i] = "DT_BOOL"
               THEN "DT_BOOL" ELSE "none"
    BY <1>3, <1>8 DEF TypesOf
  <2>5. m[k] = BoolValue(
                 CASE e[k].op = "OP_BOOL_NOT"   -> p.v = 0
                   [] e[k].op = "OP_BOOL_AND"   -> p.v # 0 /\ q.v # 0
                   [] e[k].op = "OP_BOOL_OR"    -> p.v # 0 \/ q.v # 0
                   [] e[k].op = "OP_COMP_EQUAL" -> p = q
                   [] OTHER -> IF p.dt = "DT_STRING" THEN StringSmaller(p.s, q.s)
                               ELSE p.v < q.v)
    BY <1>2, <1>8 DEF MeaningOf
  <2>6. p \in Value /\ q \in Value /\ f[i] \in Outcome /\ f[j] \in Outcome
    BY <1>1, <1>2, <2>1 DEF EvalOf, MeaningOf
  <2>7. CASE f[i].how # "value"
    <3>1. f[k] = f[i] /\ f[i].how = "exit" /\ t[i] = "none"
      BY <1>8, <2>3, <2>7
    <3> QED
      BY <2>4, <3>1
  <2>8. CASE f[i].how = "value" /\ f[j].how # "value"
    <3>1. f[k] = f[j] /\ f[j].how = "exit" /\ t[j] = "none"
      BY <1>8, <2>3, <2>8
    <3> QED
      BY <2>4, <3>1
  <2>9. CASE f[i].how = "value" /\ f[j].how = "value"
    <3> DEFINE x == f[i].value
               y == f[j].value
               out == Applied(e[k].op, x, y, NewResult)
               fits == q.dt = p.dt /\ (e[k].op \in Comparisons \/ p.dt = "DT_BOOL")
    <3>1. x \in Result /\ y \in Result
      BY <2>6 DEF Outcome
    <3>2. t[i] = p.dt /\ t[j] = q.dt /\ p.dt \in DataType
      BY <1>8, <2>6, <2>9, Values
    <3>3. StandsFor(x, p) /\ StandsFor(y, q)
      BY <1>8, <2>2, <2>9, <3>2 DEF StandsFor
    <3>4. f[k] = out
      BY <2>3, <2>9
    <3>5. t[k] = IF fits THEN "DT_BOOL" ELSE "none"
      <4>1. t[i] # "none"
        BY <3>2 DEF DataType
      <4> QED
        BY <2>4, <3>2, <4>1
    <3>6. /\ e[k].op = "OP_BOOL_NOT" => x = y /\ p = q
          /\ e[k].op = "OP_COMP_SMALLER" => p.dt # "DT_BOOL"
      BY <2>2, <3>2
    <3>7. m[k] = Meant(e[k].op, p, q) /\ m[k].dt = "DT_BOOL"
      BY <2>5, BoolValues DEF Meant
    <3> HIDE DEF i, j, p, q, x, y
    <3>8. ComesTo(e[k].op, x, y, p, q)
      BY <2>1, <2>6, <3>1, <3>3, <3>6, AppliedMeans
    <3>9. /\ fits => /\ out.how = "value" /\ boolV(out.value) = m[k].v
                     /\ e[k].op \notin Connectives => out.value.dt = "DT_BOOL"
          /\ ~ fits => out.how = "exit"
      BY <3>7, <3>8 DEF ComesTo
    <3> HIDE DEF out, fits
    <3> QED
      BY <3>4, <3>5, <3>7, <3>9
  <2> QED
    BY <2>7, <2>8, <2>9
<1>9. ASSUME Flat(type, e), Bad # {} PROVE FALSE
  <2>1. PICK k \in Bad : \A x \in Bad : k <= x
    <3> HIDE DEF Bad
    <3>1. Bad \in SUBSET Nat
      BY DEF Bad
    <3> QED
      BY <1>9, <3>1, Smallest
  <2>2. k \in 1 .. n /\ ~ Means(k)
    <3> HIDE DEF Means
    <3> QED
      BY <2>1
  <2> HIDE DEF Means
  <2>3. e[k].type = "EXPR_OP"
    BY <1>6, <1>7, <2>2, Arguments
  <2>4. First(e, k) \in 1 .. k - 1 /\ Last(e, k) \in 1 .. k - 1
    BY <2>2, <2>3, Arguments
  <2> HIDE DEF n
  <2>5. \A x \in 1 .. k - 1 : x \in Nat /\ x \in 1 .. n /\ ~ (k <= x)
    BY <1>4, <2>2
  <2>6. \A x \in 1 .. k - 1 : Means(x)
    BY <2>1, <2>5
  <2> QED
    BY <1>8, <1>9, <2>2, <2>3, <2>4, <2>6 DEF n
<1>10. Flat(type, e) => Means(n)
  <2> HIDE DEF Means
  <2>1. ASSUME Flat(type, e), ~ Means(n) PROVE FALSE
    <3>1. n \in Bad
      BY <1>4, <2>1
    <3> HIDE DEF Bad
    <3> QED
      BY <1>9, <2>1, <3>1
  <2> QED
    BY <2>1
<1>11. TypeOf(type, e) = t[n]
  BY DEF TypeOf, t
<1> QED
  BY <1>1, <1>2, <1>5, <1>10, <1>11

-----------------------------------------------------------------------------
(***************************************************************************)
(* The inductive invariant.                                                *)
(***************************************************************************)

\* Row r is what the bytes d of a record with schema s read as.
RowOf(s, d, r) ==
  /\ r = [i \in Attrs(s) |-> r[i]]
  /\ \A i \in Attrs(s) :
       /\ getAttr(d, s, i) = r[i]
       /\ r[i] \in Value /\ r[i].dt = AttrType(s)[i]

\* A file that createTable has finished holds the schema it was given.
FileKept ==
  file.complete =>
    created \in Schemas /\ Fits(created) /\ file.page = SchemaPage(created)

\* An open table is one of a finished file.
RelKept == rel.open => file.complete /\ rel.schema = created

\* A record belongs to an open table.
RecordKept ==
  /\ record = [alive |-> record.alive, data |-> record.data]
  /\ record.alive => rel.open /\ RowOf(created, record.data, row)

TableInv == TypeOK /\ FileKept /\ RelKept /\ RecordKept /\ EvalMeans

\* The first state.
LEMMA TableInit == Init => TableInv
<1> SUFFICES ASSUME Init PROVE TableInv
  OBVIOUS
<1>1. << >> \in Seq(Byte)
  OBVIOUS
<1>2. TypeOK
  BY <1>1 DEF Init, TypeOK, NoFile, Closed, NoRecord, NoAnswer
<1>3. FileKept /\ RelKept /\ RecordKept /\ EvalMeans
  BY DEF Init, FileKept, RelKept, RecordKept, EvalMeans, NoFile, Closed, NoRecord, NoAnswer
<1> QED
  BY <1>2, <1>3 DEF TableInv

\* exit(1) when the answer has a type and means what it should.
LEMMA ExitStep ==
  ASSUME TableInv, Exit,
         answer'.expr \in Conditions \cup {NoAnswer.expr},
         answer'.how \in {"value", "exit", "undefined"},
         EvalMeans'
  PROVE  TableInv'
<1>1. /\ running' = FALSE /\ rel' = Closed /\ record' = NoRecord /\ rc' = "RC_OK"
      /\ file' = file /\ created' = created
  BY DEF Exit
<1>2. << >> \in Seq(Byte) /\ ~ Closed.open /\ NoRecord = [alive |-> FALSE, data |-> << >>]
  BY DEF Closed, NoRecord
<1>3. TypeOK'
  <2>1. rel'.open \in BOOLEAN /\ record'.alive = FALSE /\ record'.data \in Seq(Byte)
    BY <1>1, <1>2 DEF Closed
  <2> QED
    BY <1>1, <2>1 DEF TableInv, TypeOK
<1>4. FileKept'
  BY <1>1 DEF TableInv, FileKept
<1>5. RelKept' /\ RecordKept'
  BY <1>1, <1>2 DEF RelKept, RecordKept
<1> QED
  BY <1>3, <1>4, <1>5 DEF TableInv

\* Nothing has been asked of the evaluator.
LEMMA NothingAsked ==
  ASSUME answer' = NoAnswer
  PROVE  /\ answer'.expr \in Conditions \cup {NoAnswer.expr}
         /\ answer'.how \in {"value", "exit", "undefined"}
         /\ EvalMeans'
  BY DEF NoAnswer, EvalMeans

\* The calls that open, close, create and delete the table.
LEMMA TableSteps ==
  ASSUME TableInv,
         Start \/ (\E schema \in Schemas : CreateTable(schema)) \/ OpenTable
           \/ CloseTable \/ DeleteTable
  PROVE  TableInv'
<1>1. CASE Start
  <2>1. running' = TRUE /\ answer' = NoAnswer
        /\ UNCHANGED <<file, rel, record, rc, created, row>>
    BY <1>1 DEF Start
  <2>2. TypeOK'
    BY <2>1, NothingAsked DEF TableInv, TypeOK
  <2>3. FileKept' /\ RelKept' /\ RecordKept'
    BY <2>1 DEF TableInv, FileKept, RelKept, RecordKept
  <2> QED
    BY <2>1, <2>2, <2>3, NothingAsked DEF TableInv
<1>2. ASSUME NEW schema \in Schemas, CreateTable(schema) PROVE TableInv'
  <2>1. ~ rel.open /\ answer' = NoAnswer
    BY <1>2 DEF CreateTable
  <2>2. ~ record.alive
    BY <2>1 DEF TableInv, RecordKept
  <2>3. CASE Exit
    BY <2>1, <2>3, ExitStep, NothingAsked
  <2>4. CASE /\ Fits(schema) /\ UNCHANGED <<running, rel, record, row>>
             /\ file' = [exists |-> TRUE, page |-> SchemaPage(schema), complete |-> TRUE]
             /\ created' = schema /\ rc' = "RC_OK"
    <3>1. SchemaPage(schema) \in Seq(Byte)
      BY <2>4, SchemaRead, TableRecordsAssumption
    <3>2. TypeOK'
      BY <2>1, <2>4, <3>1, NothingAsked DEF TableInv, TypeOK
    <3>3. FileKept' /\ RelKept' /\ RecordKept'
      BY <2>1, <2>2, <2>4 DEF TableInv, FileKept, RelKept, RecordKept
    <3> QED
      BY <2>1, <3>2, <3>3, NothingAsked DEF TableInv
  <2>5. CASE /\ UNCHANGED <<running, rel, record, row, created>>
             /\ file' = [exists |-> TRUE, page |-> NULs(PAGE_SIZE), complete |-> FALSE]
             /\ rc' = "RC_PAGE_FULL"
    <3>1. NULs(PAGE_SIZE) \in Seq(Byte)
      <4>1. PAGE_SIZE \in Nat
        <5>1. MaxInt \in Nat
          BY SMT DEF MaxInt
        <5> QED
          BY <5>1, PageSizeAssumption
      <4>2. NULs(PAGE_SIZE) \in [1 .. PAGE_SIZE -> Byte]
        BY Bytes DEF NULs
      <4> QED
        BY <4>1, <4>2
    <3>2. TypeOK'
      BY <2>1, <2>5, <3>1, NothingAsked DEF TableInv, TypeOK
    <3>3. FileKept' /\ RelKept' /\ RecordKept'
      BY <2>1, <2>2, <2>5 DEF TableInv, FileKept, RelKept, RecordKept
    <3> QED
      BY <2>1, <3>2, <3>3, NothingAsked DEF TableInv
  <2> QED
    BY <1>2, <2>3, <2>4, <2>5 DEF CreateTable
<1>3. CASE OpenTable
  <2>1. /\ ~ rel.open /\ file.complete /\ answer' = NoAnswer /\ rc' = "RC_OK"
        /\ rel' = [open |-> TRUE, schema |-> SchemaOf(file.page)]
        /\ UNCHANGED <<running, file, record, created, row>>
    BY <1>3 DEF OpenTable
  <2>2. ~ record.alive
    BY <2>1 DEF TableInv, RecordKept
  <2>3. SchemaOf(file.page) = created
    <3>1. created \in Schemas /\ Fits(created) /\ file.page = SchemaPage(created)
      BY <2>1 DEF TableInv, FileKept
    <3>2. IsSchema(created)
      BY <3>1, TableRecordsAssumption
    <3> QED
      BY <3>1, <3>2, SchemaRead
  <2>4. TypeOK'
    BY <2>1, <2>2, NothingAsked DEF TableInv, TypeOK
  <2>5. FileKept' /\ RelKept' /\ RecordKept'
    BY <2>1, <2>2, <2>3 DEF TableInv, FileKept, RelKept, RecordKept
  <2> QED
    BY <2>1, <2>4, <2>5, NothingAsked DEF TableInv
<1>4. CASE CloseTable
  <2>1. /\ ~ record.alive /\ answer' = NoAnswer /\ rc' = "RC_OK"
        /\ rel' = Closed /\ UNCHANGED <<running, file, record, created, row>>
    BY <1>4 DEF CloseTable
  <2>2. TypeOK'
    BY <2>1, NothingAsked DEF TableInv, TypeOK, Closed
  <2>3. FileKept' /\ RelKept' /\ RecordKept'
    BY <2>1 DEF TableInv, FileKept, RelKept, RecordKept, Closed
  <2> QED
    BY <2>1, <2>2, <2>3, NothingAsked DEF TableInv
<1>5. CASE DeleteTable
  <2>1. /\ ~ rel.open /\ answer' = NoAnswer /\ rc' = "RC_OK"
        /\ file' = NoFile /\ created' = NoSchema
        /\ UNCHANGED <<running, rel, record, row>>
    BY <1>5 DEF DeleteTable
  <2>2. ~ record.alive
    BY <2>1 DEF TableInv, RecordKept
  <2>3. NoFile \in [exists : BOOLEAN, page : Seq(Byte), complete : BOOLEAN]
        /\ ~ NoFile.complete
    BY DEF NoFile
  <2>4. TypeOK'
    BY <2>1, <2>3, NothingAsked DEF TableInv, TypeOK
  <2>5. FileKept' /\ RelKept' /\ RecordKept'
    BY <2>1, <2>2, <2>3 DEF TableInv, FileKept, RelKept, RecordKept
  <2> QED
    BY <2>1, <2>4, <2>5, NothingAsked DEF TableInv
<1> QED
  BY <1>1, <1>2, <1>3, <1>4, <1>5

\* createRecord and freeRecord.
LEMMA AllocationSteps ==
  ASSUME TableInv, CreateRecord \/ FreeRecord
  PROVE  TableInv'
<1>1. CASE CreateRecord
  <2>1. /\ rel.open /\ answer' = NoAnswer /\ UNCHANGED <<running, file, rel, created>>
        /\ rc' \in {"RC_OK", "RC_RM_DATA_SIZE_ERROR"}
    BY <1>1 DEF CreateRecord
  <2>2. /\ rel.schema = created /\ created \in Schemas
        /\ rel'.schema = created /\ rel'.open
    BY <2>1 DEF TableInv, RelKept, FileKept
  <2>3. IsSchema(created)
    BY <2>2, TableRecordsAssumption
  <2>4. FileKept' /\ RelKept'
    BY <2>1 DEF TableInv, FileKept, RelKept
  <2>5. CASE UNCHANGED <<record, row>>
    <3>1. TypeOK' /\ RecordKept'
      BY <2>1, <2>5, NothingAsked DEF TableInv, TypeOK, RecordKept
    <3> QED
      BY <2>1, <2>4, <3>1, NothingAsked DEF TableInv
  <2>6. CASE /\ record' = [alive |-> TRUE, data |-> NULs(getRecordSize(rel.schema))]
             /\ row' = ZeroRow(rel.schema)
    <3> DEFINE d == NULs(getRecordSize(created))
               r == ZeroRow(created)
    <3>1. record' = [alive |-> TRUE, data |-> d] /\ row' = r
      BY <2>2, <2>6
    <3>2. /\ d \in Seq(Byte) /\ Len(d) = getRecordSize(created)
          /\ \A i \in Attrs(created) :
               /\ getAttr(d, created, i) = r[i]
               /\ r[i] \in Value /\ r[i].dt = AttrType(created)[i]
      BY <2>3, ZerosRead
    <3>3. r = [i \in Attrs(created) |-> r[i]]
      BY DEF ZeroRow
    <3> HIDE DEF d, r
    <3>4. RowOf(created, d, r)
      BY <3>2, <3>3 DEF RowOf
    <3>5. RecordKept'
      BY <2>1, <2>2, <3>1, <3>4 DEF RecordKept
    <3>6. TypeOK'
      BY <2>1, <2>2, <3>1, <3>2, NothingAsked DEF TableInv, TypeOK
    <3> QED
      BY <2>1, <2>4, <3>5, <3>6, NothingAsked DEF TableInv
  <2> QED
    BY <1>1, <2>5, <2>6 DEF CreateRecord
<1>2. CASE FreeRecord
  <2>1. /\ record' = [alive |-> FALSE, data |-> << >>] /\ rc' = "RC_OK"
        /\ answer' = NoAnswer /\ UNCHANGED <<running, file, rel, created>>
    BY <1>2 DEF FreeRecord, NoRecord
  <2>2. << >> \in Seq(Byte)
    OBVIOUS
  <2>3. TypeOK'
    BY <2>1, <2>2, NothingAsked DEF TableInv, TypeOK
  <2>4. FileKept' /\ RelKept' /\ RecordKept'
    BY <2>1 DEF TableInv, FileKept, RelKept, RecordKept
  <2> QED
    BY <2>1, <2>3, <2>4, NothingAsked DEF TableInv
<1> QED
  BY <1>1, <1>2

\* setAttr: the attribute reads as what the record holds of the value, the others
\* as before.
LEMMA SetAttrStep ==
  ASSUME TableInv, NEW i, NEW x \in SetValues, SetAttr(i, x)
  PROVE  TableInv'
<1> DEFINE s == created
           set == setAttr(record.data, rel.schema, i, x)
<1>1. /\ record.alive /\ answer' = NoAnswer
      /\ UNCHANGED <<running, file, rel, created>>
      /\ record' = [record EXCEPT !.data = set.data] /\ rc' = set.rc
      /\ row' = IF set.rc = "RC_OK"
                THEN [row EXCEPT ![i] = Held(rel.schema, i, x)] ELSE row
  BY DEF SetAttr
<1>2. /\ rel.open /\ rel.schema = s /\ s \in Schemas
      /\ RowOf(s, record.data, row)
      /\ record = [alive |-> TRUE, data |-> record.data]
      /\ record.data \in Seq(Byte) /\ Len(record.data) = getRecordSize(s)
  BY <1>1 DEF TableInv, TypeOK, RecordKept, RelKept, FileKept
<1>3. IsSchema(s) /\ x \in Value
  BY <1>2, TableRecordsAssumption
<1>4. /\ set.rc \in {"RC_OK", "RC_RM_INVALID_ATTRIBUTE",
                     "RC_RM_ATTRIBUTE_TYPE_MISMATCH"}
      /\ set.data \in Seq(Byte) /\ Len(set.data) = getRecordSize(s)
      /\ set.rc # "RC_OK" => set.data = record.data
      /\ set.rc = "RC_OK" =>
           /\ i \in Attrs(s) /\ x.dt = AttrType(s)[i]
           /\ getAttr(set.data, s, i) = Held(s, i, x)
           /\ \A j \in Attrs(s) \ {i} :
                getAttr(set.data, s, j) = getAttr(record.data, s, j)
  BY <1>2, <1>3, SetAttrReads
<1> HIDE DEF set
<1>5. record' = [alive |-> TRUE, data |-> set.data]
  BY <1>1, <1>2
<1>6. RowOf(s, set.data, row')
  <2>1. CASE set.rc # "RC_OK"
    BY <1>1, <1>2, <1>4, <2>1
  <2>2. CASE set.rc = "RC_OK"
    <3> DEFINE h == Held(s, i, x)
    <3>1. h \in Value /\ h.dt = AttrType(s)[i] /\ i \in Attrs(s)
      BY <1>3, <1>4, <2>2, HeldValue
    <3>2. row' = [row EXCEPT ![i] = h] /\ row = [j \in Attrs(s) |-> row[j]]
      BY <1>1, <1>2, <2>2 DEF RowOf
    <3>3. row'[i] = h /\ \A j \in Attrs(s) \ {i} : row'[j] = row[j]
      BY <3>1, <3>2
    <3>4. row' = [j \in Attrs(s) |-> row'[j]]
      BY <3>2
    <3>5. getAttr(set.data, s, i) = h
          /\ \A j \in Attrs(s) \ {i} : getAttr(set.data, s, j) = getAttr(record.data, s, j)
      BY <1>4, <2>2
    <3> HIDE DEF h
    <3>6. ASSUME NEW j \in Attrs(s)
          PROVE  /\ getAttr(set.data, s, j) = row'[j]
                 /\ row'[j] \in Value /\ row'[j].dt = AttrType(s)[j]
      <4>1. CASE j = i
        BY <3>1, <3>3, <3>5, <4>1
      <4>2. CASE j # i
        BY <1>2, <3>3, <3>5, <4>2 DEF RowOf
      <4> QED
        BY <4>1, <4>2
    <3> QED
      BY <3>4, <3>6 DEF RowOf
  <2> QED
    BY <2>1, <2>2
<1>7. TypeOK'
  BY <1>1, <1>2, <1>4, <1>5, NothingAsked DEF TableInv, TypeOK
<1>8. FileKept' /\ RelKept'
  BY <1>1 DEF TableInv, FileKept, RelKept
<1>9. RecordKept'
  BY <1>1, <1>2, <1>5, <1>6 DEF RecordKept
<1> QED
  BY <1>1, <1>7, <1>8, <1>9, NothingAsked DEF TableInv

\* next evaluates a condition on the record.
LEMMA EvaluateStep ==
  ASSUME TableInv, NEW e \in Conditions, Evaluate(e)
  PROVE  TableInv'
<1> DEFINE s == created
           attr == [i \in Attrs(rel.schema) |-> getAttr(record.data, rel.schema, i)]
           out == evalExpr(attr, e)
<1>1. /\ record.alive /\ AttrRefs(e) \subseteq Attrs(rel.schema)
      /\ answer' = [asked |-> TRUE, expr |-> e, how |-> out.how, value |-> out.value]
      /\ \/ /\ out.how = "value" /\ rc' = "RC_OK"
            /\ UNCHANGED <<running, file, rel, record, created, row>>
         \/ out.how # "value" /\ Exit
  BY DEF Evaluate
<1>2. /\ rel.open /\ rel.schema = s /\ s \in Schemas
      /\ RowOf(s, record.data, row)
  BY <1>1 DEF TableInv, RecordKept, RelKept, FileKept
<1>3. IsSchema(s) /\ IsExpr(e)
  BY <1>2, TableRecordsAssumption
<1>4. attr = row
  BY <1>2 DEF RowOf
<1>5. \A i \in AttrRefs(e) : row[i] \in Value /\ row[i].dt = AttrType(s)[i]
  BY <1>1, <1>2 DEF RowOf
<1>6. out = evalExpr(row, e)
  BY <1>4
<1> HIDE DEF attr, out
<1>7. /\ out \in Outcome
      /\ Flat(AttrType(s), e) =>
           IF out.how = "value"
           THEN IF TypeOf(AttrType(s), e) = "DT_BOOL"
                THEN boolV(out.value) = Meaning(row, e).v
                ELSE out.value = Meaning(row, e)
           ELSE out.how = "exit" /\ TypeOf(AttrType(s), e) = "none"
  <2> DEFINE type == AttrType(s)
  <2>1. \A i \in AttrRefs(e) : row[i] \in Value /\ row[i].dt = type[i]
    BY <1>5
  <2> HIDE DEF type
  <2> QED
    BY <1>3, <1>6, <2>1, EvaluationMeans DEF type
<1>8. out.how \in {"value", "exit", "undefined"}
  BY <1>7 DEF Outcome
<1>9. /\ answer'.expr = e /\ answer'.how = out.how /\ answer'.value = out.value
      /\ created' = created
  BY <1>1 DEF Exit
<1>10. CASE out.how = "value"
  <2>1. rc' = "RC_OK" /\ UNCHANGED <<running, file, rel, record, created, row>>
    BY <1>1, <1>10
  <2>2. TypeOK'
    BY <1>8, <1>9, <2>1 DEF TableInv, TypeOK
  <2>3. FileKept' /\ RelKept' /\ RecordKept'
    BY <2>1 DEF TableInv, FileKept, RelKept, RecordKept
  <2>4. EvalMeans'
    BY <1>7, <1>9, <1>10, <2>1 DEF EvalMeans, Type
  <2> QED
    BY <2>2, <2>3, <2>4 DEF TableInv
<1>11. CASE out.how # "value"
  <2>1. EvalMeans'
    BY <1>7, <1>9, <1>11 DEF EvalMeans, Type
  <2> QED
    BY <1>1, <1>8, <1>9, <1>11, <2>1, ExitStep
<1> QED
  BY <1>10, <1>11

\* Every step keeps the invariant.
LEMMA TableInductive == TableInv /\ [Next]_vars => TableInv'
<1> SUFFICES ASSUME TableInv, [Next]_vars PROVE TableInv'
  OBVIOUS
<1>1. CASE Next
  BY <1>1, TableSteps, AllocationSteps, SetAttrStep, EvaluateStep DEF Next
<1>2. CASE UNCHANGED vars
  BY <1>2 DEF vars, TableInv, TypeOK, FileKept, RelKept, RecordKept, EvalMeans, Type
<1> QED
  BY <1>1, <1>2

-----------------------------------------------------------------------------
(***************************************************************************)
(* The theorems.                                                           *)
(***************************************************************************)

\* The invariant holds: whatever the schemas, the values set and the conditions.
THEOREM TableInvariant == Spec => []TableInv
<1> QED
  BY TableInit, TableInductive, PTL DEF Spec

\* The table's file, its descriptor, the record and the codes returned have the
\* types of the C code, and a record's data are as long as getRecordSize says.
THEOREM TypeCorrect == Spec => []TypeOK
<1>1. TableInv => TypeOK
  BY DEF TableInv
<1> QED
  BY <1>1, TableInvariant, PTL

\* openTable finds on the schema page the schema createTable was given: names of
\* any length, types, lengths and keys, as long as they fit the page.
THEOREM SchemaAlwaysKept == Spec => []SchemaKept
<1>1. TableInv => SchemaKept
  BY DEF TableInv, RelKept, SchemaKept
<1> QED
  BY <1>1, TableInvariant, PTL

\* An attribute reads as what setAttr last stored in it, or as zero, whatever
\* else was set since.
THEOREM AttrsAlwaysKept == Spec => []AttrsKept
<1>1. TableInv => AttrsKept
  BY DEF TableInv, RelKept, RecordKept, RowOf, AttrsKept
<1> QED
  BY <1>1, TableInvariant, PTL

\* The serializer, which finds the attributes on its own, shows the same values.
THEOREM SerializerAlwaysAgrees == Spec => []SerializerAgrees
<1>1. TableInv => SerializerAgrees
  <2> SUFFICES ASSUME TableInv, record.alive
               PROVE  serializeRecord(record.data, rel.schema) = row
    BY DEF SerializerAgrees
  <2>1. /\ rel.schema = created /\ created \in Schemas
        /\ RowOf(created, record.data, row)
    BY DEF TableInv, RecordKept, RelKept, FileKept
  <2>2. serializeRecord(record.data, created)
          = [i \in Attrs(created) |-> getAttr(record.data, created, i)]
    BY <2>1, SerializerReads, TableRecordsAssumption
  <2> QED
    BY <2>1, <2>2 DEF RowOf
<1> QED
  BY <1>1, TableInvariant, PTL

\* evalExpr of a condition without nested connectives and comparisons of booleans
\* by < comes to what the condition means on the record, however deep it is; only
\* a condition whose types do not fit ends the process.
THEOREM EvalAlwaysMeans == Spec => []EvalMeans
<1>1. TableInv => EvalMeans
  BY DEF TableInv
<1> QED
  BY <1>1, TableInvariant, PTL

=============================================================================
