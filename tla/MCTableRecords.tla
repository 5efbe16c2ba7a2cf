--------------------------- MODULE MCTableRecords ---------------------------
(* Small instances of TableRecords: schemas of up to three attributes, none, *)
(* one whose page is full to the last byte and one a byte too long; values   *)
(* of every type at the edges; conditions of depth one, and connectives over *)
(* comparisons.                                                              *)
EXTENDS TableRecords

Named(n, types, lengths, keys) ==
  [attrNames  |-> n, dataTypes |-> types, typeLength |-> lengths,
   keyAttrs |-> keys]

MCSchemas ==
  {Named(<< <<97>>, <<98, 99>>, << >> >>, <<"DT_BOOL", "DT_STRING", "DT_INT">>,
         <<0, 2, 0>>, <<0, 2>>),
   Named(<< <<97>>, <<98>> >>, <<"DT_STRING", "DT_FLOAT">>, <<3, 0>>, <<1>>),
   Named(<< [k \in 1 .. 107 |-> 97] >>, <<"DT_INT">>, <<0>>, <<0>>),
   Named(<< [k \in 1 .. 108 |-> 97] >>, <<"DT_INT">>, <<0>>, <<0>>),
   NoSchema}

MCSetValues ==
  {IntValue(-1), IntValue(70000), StringValue(<<1, 2, 3>>), StringValue(<<1>>),
   FloatValue(1084227584), BoolValue(TRUE)}

Atoms ==
  {AttrRef(i) : i \in 0 .. 2}
    \cup {Const(IntValue(0)), Const(StringValue(<<1, 2>>)), Const(BoolValue(TRUE))}

Compared == {BinOp(op, l, r) : op \in Comparisons, l \in Atoms, r \in Atoms}
Depth1   == Atoms \cup Compared
              \cup {BinOp(op, l, r) : op \in Connectives, l \in Atoms, r \in Atoms}
              \cup {UnOp("OP_BOOL_NOT", e) : e \in Atoms}

\* One comparison of attribute 0 with each attribute, and one with a constant.
Some == {BinOp("OP_COMP_SMALLER", AttrRef(i), AttrRef(0)) : i \in 0 .. 2}
          \cup {BinOp("OP_COMP_EQUAL", AttrRef(0), Const(BoolValue(TRUE))),
                BinOp("OP_COMP_EQUAL", AttrRef(1), Const(StringValue(<<1, 2>>))),
                BinOp("OP_COMP_SMALLER", AttrRef(2), Const(IntValue(0)))}

MCConditions ==
  Depth1
    \cup {UnOp("OP_BOOL_NOT", e) : e \in Compared}
    \cup {BinOp(op, l, r) : op \in Connectives, l \in Some, r \in Some \cup Atoms}
    \cup {UnOp("OP_BOOL_NOT", UnOp("OP_BOOL_NOT", e)) : e \in Some}

MCNested == {UnOp("OP_BOOL_NOT", BinOp(op, l, r)) :
               op \in Connectives, l \in Some, r \in Some}

=============================================================================
