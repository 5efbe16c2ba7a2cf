---------------------------- MODULE TableRecords ----------------------------
(***************************************************************************)
(* One table's schema and one record of it: createTable puts the schema on *)
(* the first page of a file, openTable reads it there, records are laid    *)
(* out and read by it, and a scan evaluates its condition on a record.     *)
(* RecordMgr has the pages and slots that carry a record's bytes from      *)
(* insertRecord to next; here the record is at hand.                       *)
(*                                                                         *)
(* CHECK in evalExpr and createPageFile of a name that exists end the      *)
(* process with exit(1); a later process finds the file.                   *)
(***************************************************************************)
EXTENDS RecordLayout

CONSTANTS
  Schemas,      \* the schemas tables are created with
  SetValues,    \* the values attributes are set to
  Conditions    \* the conditions of scans

ASSUME TableRecordsAssumption ==
  /\ \A schema \in Schemas : IsSchema(schema)
  /\ SetValues \subseteq Value
  /\ \A condition \in Conditions : IsExpr(condition)

VARIABLES
  running,      \* the process runs
  file,         \* the table's file: whether it exists, its first page, and
                \* whether createTable went on to the page directory
  rel,          \* the RM_TableData: open or not, and its schema
  record,       \* the Record: allocated or not, and its data
  answer,       \* what the last evaluation came to
  rc,           \* what the last call returned
  created,      \* history: the schema the table was created with
  row           \* history: the value each attribute was set to

vars == <<running, file, rel, record, answer, rc, created, row>>

NoSchema == [attrNames |-> << >>, dataTypes |-> << >>, typeLength |-> << >>,
             keyAttrs |-> << >>]
NoFile   == [exists |-> FALSE, page |-> << >>, complete |-> FALSE]
Closed   == [open |-> FALSE, schema |-> NoSchema]
NoRecord == [alive |-> FALSE, data |-> << >>]
NoRow    == << >>
NoAnswer == [asked |-> FALSE, expr |-> Const(IntValue(0)), how |-> "value",
             value |-> IntValue(0)]

\* What an attribute holds of a value: as much of a string as fits.
Held(schema, i, value) ==
  IF value.dt = "DT_STRING" /\ Len(value.s) > schema.typeLength[i + 1]
  THEN [value EXCEPT !.s = At(@, 0, schema.typeLength[i + 1])] ELSE value

\* What the zeros of a new record say.
ZeroRow(schema) ==
  [i \in Attrs(schema) |-> [dt |-> AttrType(schema)[i], v |-> 0, s |-> << >>]]

TypeOK ==
  /\ running \in BOOLEAN
  /\ file \in [exists : BOOLEAN, page : Seq(Byte), complete : BOOLEAN]
  /\ rel.open \in BOOLEAN
  /\ record.alive \in BOOLEAN
  /\ record.data \in Seq(Byte)
  /\ record.alive => Len(record.data) = getRecordSize(rel.schema)
  /\ answer.expr \in Conditions \cup {NoAnswer.expr}
  /\ answer.how \in {"value", "exit", "undefined"}
  /\ rc \in {"RC_OK", "RC_PAGE_FULL", "RC_RM_DATA_SIZE_ERROR",
             "RC_RM_INVALID_ATTRIBUTE", "RC_RM_ATTRIBUTE_TYPE_MISMATCH"}
  /\ created \in Schemas \cup {NoSchema}

Init ==
  /\ running = TRUE
  /\ file = NoFile
  /\ rel = Closed
  /\ record = NoRecord
  /\ answer = NoAnswer
  /\ rc = "RC_OK"
  /\ created = NoSchema
  /\ row = NoRow

-----------------------------------------------------------------------------

\* exit(1): the file stays, the memory goes.
Exit ==
  /\ running' = FALSE
  /\ rel' = Closed
  /\ record' = NoRecord
  /\ row' = NoRow
  /\ rc' = "RC_OK"
  /\ UNCHANGED <<file, created>>

Start ==
  /\ ~running
  /\ running' = TRUE
  /\ answer' = NoAnswer
  /\ UNCHANGED <<file, rel, record, rc, created, row>>

\* A schema that does not fit leaves the file createPageFile has made, one page
\* of zeros, behind.
CreateTable(schema) ==
  /\ running /\ ~rel.open
  /\ answer' = NoAnswer
  /\ \/ /\ file.exists
        /\ Exit
     \/ /\ ~file.exists
        /\ IF Fits(schema)
           THEN /\ file' = [exists |-> TRUE, page |-> SchemaPage(schema),
                            complete |-> TRUE]
                /\ created' = schema
                /\ rc' = "RC_OK"
           ELSE /\ file' = [exists |-> TRUE, page |-> NULs(PAGE_SIZE),
                            complete |-> FALSE]
                /\ rc' = "RC_PAGE_FULL"
                /\ UNCHANGED created
        /\ UNCHANGED <<running, rel, record, row>>

\* A file without a page directory is not opened: RecordMgr has the rest of
\* openTable, which would read one.
OpenTable ==
  /\ running /\ ~rel.open
  /\ file.complete
  /\ rel' = [open |-> TRUE, schema |-> SchemaOf(file.page)]
  /\ answer' = NoAnswer
  /\ rc' = "RC_OK"
  /\ UNCHANGED <<running, file, record, created, row>>

\* The client has freed its record.
CloseTable ==
  /\ running /\ rel.open /\ ~record.alive
  /\ rel' = Closed
  /\ answer' = NoAnswer
  /\ rc' = "RC_OK"
  /\ UNCHANGED <<running, file, record, created, row>>

DeleteTable ==
  /\ running /\ ~rel.open /\ file.exists
  /\ file' = NoFile
  /\ created' = NoSchema
  /\ answer' = NoAnswer
  /\ rc' = "RC_OK"
  /\ UNCHANGED <<running, rel, record, row>>

CreateRecord ==
  /\ running /\ rel.open /\ ~record.alive
  /\ IF getRecordSize(rel.schema) = 0
     THEN /\ rc' = "RC_RM_DATA_SIZE_ERROR"
          /\ UNCHANGED <<record, row>>
     ELSE /\ record' = [alive |-> TRUE, data |-> NULs(getRecordSize(rel.schema))]
          /\ row' = ZeroRow(rel.schema)
          /\ rc' = "RC_OK"
  /\ answer' = NoAnswer
  /\ UNCHANGED <<running, file, rel, created>>

FreeRecord ==
  /\ running /\ record.alive
  /\ record' = NoRecord
  /\ row' = NoRow
  /\ answer' = NoAnswer
  /\ rc' = "RC_OK"
  /\ UNCHANGED <<running, file, rel, created>>

SetAttr(attrNum, value) ==
  /\ running /\ record.alive
  /\ \E set \in {setAttr(record.data, rel.schema, attrNum, value)} :
       /\ record' = [record EXCEPT !.data = set.data]
       /\ rc' = set.rc
       /\ row' = IF set.rc = "RC_OK"
                 THEN [row EXCEPT ![attrNum] = Held(rel.schema, attrNum, value)]
                 ELSE row
  /\ answer' = NoAnswer
  /\ UNCHANGED <<running, file, rel, created>>

\* next evaluates the scan's condition on a record.
Evaluate(condition) ==
  /\ running /\ record.alive
  /\ AttrRefs(condition) \subseteq Attrs(rel.schema)
  /\ \E out \in {evalExpr([i \in Attrs(rel.schema) |->
                             getAttr(record.data, rel.schema, i)], condition)} :
       /\ answer' = [asked |-> TRUE, expr |-> condition, how |-> out.how,
                     value |-> out.value]
       /\ \/ /\ out.how = "value"
             /\ rc' = "RC_OK"
             /\ UNCHANGED <<running, file, rel, record, created, row>>
          \/ /\ out.how # "value"
             /\ Exit

Next ==
  \/ Start
  \/ \E schema \in Schemas : CreateTable(schema)
  \/ OpenTable
  \/ CloseTable
  \/ DeleteTable
  \/ CreateRecord
  \/ FreeRecord
  \/ \E i \in -1 .. numAttr(rel.schema), value \in SetValues : SetAttr(i, value)
  \/ \E condition \in Conditions : Evaluate(condition)

Spec == Init /\ [][Next]_vars

-----------------------------------------------------------------------------
(***************************************************************************)
(* Properties.                                                             *)
(***************************************************************************)

\* openTable finds on the schema page the schema createTable was given: names
\* of any length, types, lengths and keys.
SchemaKept == rel.open => rel.schema = created

\* Every attribute reads as what it was last set to, or as zero, whatever else
\* was set since: setAttr stores inside its attribute, a string that fills it
\* included.
AttrsKept ==
  record.alive =>
    \A i \in Attrs(created) : getAttr(record.data, rel.schema, i) = row[i]

\* The serializer, which finds the attributes on its own, shows the same.
SerializerAgrees ==
  record.alive => serializeRecord(record.data, rel.schema) = row

Type(e) == TypeOf(AttrType(created), e)

\* A condition without nested connectives and comparisons of booleans by <
\* comes to what it means on the record, and next, which looks at boolV only,
\* returns the record when it holds; only one whose types do not fit ends the
\* process.
EvalMeans ==
  answer.asked /\ Flat(AttrType(created), answer.expr) =>
    IF answer.how = "value"
    THEN IF Type(answer.expr) = "DT_BOOL"
         THEN boolV(answer.value) = Meaning(row, answer.expr).v
         ELSE answer.value = Meaning(row, answer.expr)
    ELSE answer.how = "exit" /\ Type(answer.expr) = "none"

\* test_expr.c:122, the result of a connective is a boolean, which the next
\* operator can take: a condition whose types fit has a boolean value.
ResultIsBool ==
  answer.asked /\ Type(answer.expr) = "DT_BOOL"
    => answer.how = "value" /\ answer.value.dt = "DT_BOOL"

=============================================================================
