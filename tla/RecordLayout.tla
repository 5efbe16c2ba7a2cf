---------------------------- MODULE RecordLayout ----------------------------
(***************************************************************************)
(* Bytes: how record_mgr.c lays a record out and reads it back, how        *)
(* rm_serializer.c finds the same attributes, and the schema page that     *)
(* createTable writes and openTable reads.                                 *)
(*                                                                         *)
(* A schema is the struct of tables.h without its counts, which are the    *)
(* lengths of its arrays; attributes are numbered from 0 as in the code.   *)
(* A string is the sequence of its characters, none of them the NUL 0.     *)
(***************************************************************************)
EXTENDS Expr, FiniteSets

CONSTANT PAGE_SIZE

ASSUME PageSizeAssumption == PAGE_SIZE \in 0 .. MaxInt

numAttr(schema)     == Len(schema.dataTypes)
Attrs(schema)       == 0 .. numAttr(schema) - 1
AttrType(schema)    == [i \in Attrs(schema) |-> schema.dataTypes[i + 1]]
SizeOfInt           == 4
SizeOfBool          == 2

\* What tables.h allows: a name, a type and a length for every attribute; int
\* holds the lengths and the keys.
SchemaType ==
  [attrNames  : Seq(Seq(Char)),
   dataTypes  : Seq(DataType),
   typeLength : Seq(0 .. MaxInt),
   keyAttrs   : Seq(Int32)]

IsSchema(schema) ==
  /\ schema \in SchemaType
  /\ Len(schema.attrNames) = numAttr(schema)
  /\ Len(schema.typeLength) = numAttr(schema)

-----------------------------------------------------------------------------
(***************************************************************************)
(* Bytes of integers and strings.                                          *)
(***************************************************************************)

NULs(n) == [k \in 1 .. n |-> 0]

\* n bytes of memory from an offset on.
At(memory, offset, n) == SubSeq(memory, offset + 1, offset + n)

Copied_to(memory, offset, bytes) ==
  [k \in 1 .. Len(memory) |->
     IF k - offset \in 1 .. Len(bytes) THEN bytes[k - offset] ELSE memory[k]]

Weight == <<1, 256, 65536, 16777216>>

\* Slip: the bytes are not cut off.
ToBytes_Whole(n, i) == [k \in 1 .. n |-> i \div Weight[k]]

\* The n low bytes of an integer, the lowest first, and back with the sign.
ToBytes(n, i) == [k \in 1 .. n |-> (i \div Weight[k]) % 256]

FromBytes(bytes) ==
  LET last == bytes[Len(bytes)]
      high == IF last < 128 THEN last ELSE last - 256
  IN  IF Len(bytes) = SizeOfBool THEN bytes[1] + 256 * high
      ELSE bytes[1] + 256 * bytes[2] + 65536 * bytes[3] + 16777216 * high

\* strncpy(, s, n) cuts s off or fills up with NULs, and ends no string that has
\* n characters; a C string ends at the first NUL, or where its reader put one.
Strncpy(s, n) == [k \in 1 .. n |-> IF k <= Len(s) THEN s[k] ELSE 0]

strlen(bytes) ==
  CHOOSE n \in 0 .. Len(bytes) :
    /\ \A k \in 1 .. n : bytes[k] # 0
    /\ n < Len(bytes) => bytes[n + 1] = 0

CString(bytes) == At(bytes, 0, strlen(bytes))

-----------------------------------------------------------------------------
(***************************************************************************)
(* Records.                                                                *)
(***************************************************************************)

Width(schema, i) ==
  CASE AttrType(schema)[i] \in {"DT_INT", "DT_FLOAT"} -> SizeOfInt
    [] AttrType(schema)[i] = "DT_BOOL"                -> SizeOfBool
    [] AttrType(schema)[i] = "DT_STRING"              -> schema.typeLength[i + 1]

\* The loops of getRecordSize, setAttr and getAttr over the attributes before i.
Offset(schema, i) ==
  LET offset[j \in 0 .. numAttr(schema)] ==
        IF j = 0 THEN 0 ELSE offset[j - 1] + Width(schema, j - 1)
  IN  offset[i]

getRecordSize(schema) == Offset(schema, numAttr(schema))

\* Slip: a boolean takes one byte.
attrOffset_Byte(schema, attrNum) ==
  LET Bools == {j \in 0 .. attrNum - 1 : AttrType(schema)[j] = "DT_BOOL"} IN
  Offset(schema, attrNum) - Cardinality(Bools)

\* The serializer's own loop over the attributes.
attrOffset(schema, attrNum) ==
  LET offset[j \in 0 .. numAttr(schema)] ==
        IF j = 0 THEN 0 ELSE offset[j - 1] + Width(schema, j - 1)
  IN  offset[attrNum]

\* Slip: the NUL is stored behind a string that fills its attribute.
Stored_NUL(schema, i, value) ==
  CASE value.dt = "DT_STRING" -> Strncpy(value.s, Width(schema, i) + 1)
    [] value.dt = "DT_BOOL"   -> ToBytes(SizeOfBool, boolV(value))
    [] OTHER                  -> ToBytes(SizeOfInt, value.v)

\* The bytes setAttr copies into the record.
Stored(schema, i, value) ==
  CASE value.dt = "DT_STRING" -> Strncpy(value.s, Width(schema, i))
    [] value.dt = "DT_BOOL"   -> ToBytes(SizeOfBool, boolV(value))
    [] OTHER                  -> ToBytes(SizeOfInt, value.v)

\* The Value made of an attribute's bytes.
Read(schema, i, bytes) ==
  LET dt == AttrType(schema)[i] IN
  IF dt = "DT_STRING" THEN StringValue(CString(bytes))
  ELSE [dt |-> dt, v |-> FromBytes(bytes), s |-> << >>]

setAttr(data, schema, attrNum, value) ==
  IF attrNum \notin Attrs(schema)
  THEN [rc |-> "RC_RM_INVALID_ATTRIBUTE", data |-> data]
  ELSE IF value.dt # AttrType(schema)[attrNum]
  THEN [rc |-> "RC_RM_ATTRIBUTE_TYPE_MISMATCH", data |-> data]
  ELSE [rc   |-> "RC_OK",
        data |-> Copied_to(data, Offset(schema, attrNum),
                           Stored(schema, attrNum, value))]

getAttr(data, schema, attrNum) ==
  Read(schema, attrNum,
       At(data, Offset(schema, attrNum), Width(schema, attrNum)))

serializeAttr(data, schema, attrNum) ==
  Read(schema, attrNum,
       At(data, attrOffset(schema, attrNum), Width(schema, attrNum)))

serializeRecord(data, schema) ==
  [i \in Attrs(schema) |-> serializeAttr(data, schema, i)]

-----------------------------------------------------------------------------
(***************************************************************************)
(* The schema page.                                                        *)
(***************************************************************************)

TypeCode(dt) ==
  CASE dt = "DT_INT"   -> 0 [] dt = "DT_STRING" -> 1
    [] dt = "DT_FLOAT" -> 2 [] dt = "DT_BOOL"   -> 3

Ints(seq) ==
  [k \in 1 .. SizeOfInt * Len(seq) |->
     ToBytes(SizeOfInt, seq[((k - 1) \div SizeOfInt) + 1])[((k - 1) % SizeOfInt) + 1]]

\* Slip: the names are stored without the NULs that end them.
Names_Unended(names) ==
  LET upTo[i \in 0 .. Len(names)] ==
        IF i = 0 THEN << >> ELSE upTo[i - 1] \o names[i]
  IN  upTo[Len(names)]

Names(names) ==
  LET upTo[i \in 0 .. Len(names)] ==
        IF i = 0 THEN << >> ELSE upTo[i - 1] \o (names[i] \o NULs(1))
  IN  upTo[Len(names)]

SchemaBytes(schema) ==
  Ints(<<numAttr(schema)>>)
    \o Names(schema.attrNames)
    \o Ints([i \in 1 .. numAttr(schema) |-> TypeCode(schema.dataTypes[i])])
    \o Ints(schema.typeLength)
    \o Ints(<<Len(schema.keyAttrs)>>)
    \o Ints(schema.keyAttrs)

\* createTable's tests before each part come to one: that all parts fit.
Fits(schema) == Len(SchemaBytes(schema)) <= PAGE_SIZE

SchemaPage(schema) ==
  SchemaBytes(schema) \o NULs(PAGE_SIZE - Len(SchemaBytes(schema)))

\* openTable reads the parts one behind the other.
IntsAt(page, offset, n) ==
  [j \in 1 .. n |-> FromBytes(At(page, offset + (j - 1) * SizeOfInt, SizeOfInt))]

NameAt(page, offset) == CString(At(page, offset, PAGE_SIZE - offset))

SchemaOf(page) ==
  LET n        == IntsAt(page, 0, 1)[1]
      name[i \in 0 .. n] == IF i = 0 THEN SizeOfInt
                            ELSE name[i - 1] + Len(NameAt(page, name[i - 1])) + 1
      types    == name[n]
      lengths  == types + n * SizeOfInt
      keySize  == lengths + n * SizeOfInt
      codes    == IntsAt(page, types, n)
  IN  [attrNames  |-> [i \in 1 .. n |-> NameAt(page, name[i - 1])],
       dataTypes  |-> [i \in 1 .. n |->
                         CHOOSE dt \in DataType : TypeCode(dt) = codes[i]],
       typeLength |-> IntsAt(page, lengths, n),
       keyAttrs   |-> IntsAt(page, keySize + SizeOfInt, IntsAt(page, keySize, 1)[1])]

=============================================================================
