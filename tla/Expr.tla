-------------------------------- MODULE Expr --------------------------------
(***************************************************************************)
(* Values and the evaluator of expr.c, over an interpretation of attribute *)
(* references (getAttr of a record).                                       *)
(*                                                                         *)
(* A Value is a type and a union.  v is the union read as intV, of which   *)
(* boolV is the low half; s is the string stringV points at.  A float is   *)
(* given by its bits, and only floats that are not negative occur: those   *)
(* are ordered like their bits.                                            *)
(*                                                                         *)
(* An Expr is the sequence of its nodes, the arguments of an operator      *)
(* before it and the root last; args has their places in the sequence.     *)
(***************************************************************************)
EXTENDS Integers, Sequences

DataType == {"DT_INT", "DT_STRING", "DT_FLOAT", "DT_BOOL"}

MaxInt == 2147483647
Int32  == {i \in Int : -MaxInt - 1 <= i /\ i <= MaxInt}
Short  == {i \in Int : -32768 <= i /\ i <= 32767}
Byte   == {b \in Nat : b < 256}
Char   == Byte \ {0}

Value ==
  [dt : {"DT_INT"}, v : Int32, s : {<< >>}]
    \cup [dt : {"DT_FLOAT"}, v : 0 .. MaxInt, s : {<< >>}]
    \cup [dt : {"DT_STRING"}, v : {0}, s : Seq(Char)]
    \cup [dt : {"DT_BOOL"}, v : Short, s : {<< >>}]

Truth(b) == IF b THEN 1 ELSE 0

IntValue(n)     == [dt |-> "DT_INT", v |-> n, s |-> << >>]
FloatValue(b)   == [dt |-> "DT_FLOAT", v |-> b, s |-> << >>]
StringValue(s)  == [dt |-> "DT_STRING", v |-> 0, s |-> s]
BoolValue(b)    == [dt |-> "DT_BOOL", v |-> Truth(b), s |-> << >>]

\* sizeof(bool) is 2: `short'.
boolV(value) == ((value.v + 32768) % 65536) - 32768

\* value->v.boolV = n leaves the other half of the union alone.
WithBoolV(value, n) ==
  [value EXCEPT !.v = value.v - (value.v % 65536) + (n % 65536)]

\* strcmp(s, t) < 0
StringSmaller(s, t) ==
  \E i \in 1 .. Len(t) :
    /\ i <= Len(s) + 1
    /\ SubSeq(s, 1, i - 1) = SubSeq(t, 1, i - 1)
    /\ i <= Len(s) => s[i] < t[i]

-----------------------------------------------------------------------------
(***************************************************************************)
(* Expressions.                                                            *)
(***************************************************************************)

Comparisons == {"OP_COMP_EQUAL", "OP_COMP_SMALLER"}
Connectives == {"OP_BOOL_AND", "OP_BOOL_OR"}

Node(type, op, args, cons, attrRef) ==
  [type |-> type, op |-> op, args |-> args, cons |-> cons, attrRef |-> attrRef]

Operator(op, args) == Node("EXPR_OP", op, args, IntValue(0), 0)

\* The nodes of e behind n others.
Behind(n, e) ==
  [k \in 1 .. Len(e) |->
     [e[k] EXCEPT !.args = [i \in 1 .. Len(e[k].args) |-> e[k].args[i] + n]]]

Const(value)    == << Node("EXPR_CONST", "none", << >>, value, 0) >>
AttrRef(i)      == << Node("EXPR_ATTRREF", "none", << >>, IntValue(0), i) >>
UnOp(op, e)     == Append(e, Operator(op, <<Len(e)>>))
BinOp(op, l, r) == Append(l \o Behind(Len(l), r),
                          Operator(op, <<Len(l), Len(l) + Len(r)>>))

\* The expressions the macros of expr.h build.
IsExpr(e) ==
  /\ Len(e) \in Nat \ {0}
  /\ \A k \in 1 .. Len(e) :
       \/ e[k].type = "EXPR_CONST" /\ e[k].cons \in Value /\ e[k].args = << >>
       \/ e[k].type = "EXPR_ATTRREF" /\ e[k].attrRef \in Nat /\ e[k].args = << >>
       \/ /\ e[k].type = "EXPR_OP"
          /\ e[k].op \in Comparisons \cup Connectives \cup {"OP_BOOL_NOT"}
          /\ e[k].args \in Seq(1 .. k - 1)
          /\ Len(e[k].args) = IF e[k].op = "OP_BOOL_NOT" THEN 1 ELSE 2

\* The attributes an expression refers to.
AttrRefs(e) ==
  {e[k].attrRef : k \in {k \in 1 .. Len(e) : e[k].type = "EXPR_ATTRREF"}}

\* What becomes of an evaluation: a value, the exit(1) of CHECK, or a step the
\* language does not define.
Gives(value) == [how |-> "value", value |-> value]
Exits        == [how |-> "exit", value |-> IntValue(-1)]
Undefined    == [how |-> "undefined", value |-> IntValue(-1)]

\* result before an operator stores to it: MAKE_VALUE(*result, DT_INT, -1).
NewResult == IntValue(-1)

\* CPVAL stores the constant's member of the union.
Copied(cons) ==
  IF cons.dt = "DT_BOOL"
  THEN [WithBoolV(NewResult, boolV(cons)) EXCEPT !.dt = "DT_BOOL"]
  ELSE cons

AsBool(result, b) == Gives([WithBoolV(result, Truth(b)) EXCEPT !.dt = "DT_BOOL"])

valueEquals(left, right, result) ==
  IF left.dt # right.dt THEN Exits
  ELSE AsBool(result, CASE left.dt = "DT_STRING" -> left.s = right.s
                        [] left.dt = "DT_BOOL"   -> boolV(left) = boolV(right)
                        [] OTHER                 -> left.v = right.v)

\* Slip: <= for <.
valueSmaller_OrEqual(left, right, result) ==
  IF left.dt # right.dt THEN Exits
  ELSE IF left.dt = "DT_BOOL" THEN Undefined
  ELSE AsBool(result, \/ left.dt = "DT_STRING" /\ ~StringSmaller(right.s, left.s)
                      \/ left.dt # "DT_STRING" /\ left.v <= right.v)

\* Booleans fall through to strcmp of what lies in the union.
valueSmaller(left, right, result) ==
  IF left.dt # right.dt THEN Exits
  ELSE IF left.dt = "DT_BOOL" THEN Undefined
  ELSE AsBool(result, \/ left.dt = "DT_STRING" /\ StringSmaller(left.s, right.s)
                      \/ left.dt # "DT_STRING" /\ left.v < right.v)

boolNot(input, result) ==
  IF input.dt # "DT_BOOL" THEN Exits ELSE AsBool(result, boolV(input) = 0)

BothBool(left, right) == left.dt = "DT_BOOL" /\ right.dt = "DT_BOOL"

\* boolAnd and boolOr leave result->dt alone.
boolAnd(left, right, result) ==
  IF BothBool(left, right)
  THEN Gives(WithBoolV(result, Truth(boolV(left) # 0 /\ boolV(right) # 0))) ELSE Exits

boolOr(left, right, result) ==
  IF BothBool(left, right)
  THEN Gives(WithBoolV(result, Truth(boolV(left) # 0 \/ boolV(right) # 0))) ELSE Exits

Applied(op, left, right, result) ==
  CASE op = "OP_BOOL_NOT"     -> boolNot(left, result)
    [] op = "OP_BOOL_AND"     -> boolAnd(left, right, result)
    [] op = "OP_BOOL_OR"      -> boolOr(left, right, result)
    [] op = "OP_COMP_EQUAL"   -> valueEquals(left, right, result)
    [] op = "OP_COMP_SMALLER" -> valueSmaller(left, right, result)

\* evalExpr: the first argument, the second unless the operator is NOT, then the
\* operator.  attr[i] is what getAttr makes of attribute i.
evalExpr(attr, expr) ==
  LET eval[k \in 1 .. Len(expr)] ==
        LET node  == expr[k]
            left  == eval[node.args[1]]
            right == eval[node.args[Len(node.args)]]
        IN  CASE node.type = "EXPR_CONST"   -> Gives(Copied(node.cons))
              [] node.type = "EXPR_ATTRREF" -> Gives(attr[node.attrRef])
              [] node.type = "EXPR_OP"      ->
                   IF left.how # "value" THEN left
                   ELSE IF right.how # "value" THEN right
                   ELSE Applied(node.op, left.value, right.value, NewResult)
  IN  eval[Len(expr)]

-----------------------------------------------------------------------------
(***************************************************************************)
(* What an expression means, its types in order.                           *)
(***************************************************************************)

\* The types of an expression's nodes, "none" when an operator's arguments do
\* not fit.
Types(AttrType, e) ==
  LET type[k \in 1 .. Len(e)] ==
        LET left  == type[e[k].args[1]]
            right == type[e[k].args[Len(e[k].args)]]
        IN  CASE e[k].type = "EXPR_CONST"   -> e[k].cons.dt
              [] e[k].type = "EXPR_ATTRREF" -> AttrType[e[k].attrRef]
              [] e[k].type = "EXPR_OP"      ->
                   IF /\ left # "none" /\ right = left
                      /\ e[k].op \in Comparisons \/ left = "DT_BOOL"
                   THEN "DT_BOOL" ELSE "none"
  IN  type

TypeOf(AttrType, e) == Types(AttrType, e)[Len(e)]

\* The value of an expression that has a type; Val[i] is attribute i's value.
Meaning(Val, e) ==
  LET value[k \in 1 .. Len(e)] ==
        LET left  == value[e[k].args[1]]
            right == value[e[k].args[Len(e[k].args)]]
        IN  CASE e[k].type = "EXPR_CONST"   -> e[k].cons
              [] e[k].type = "EXPR_ATTRREF" -> Val[e[k].attrRef]
              [] e[k].type = "EXPR_OP"      ->
                   BoolValue(
                     CASE e[k].op = "OP_BOOL_NOT"   -> left.v = 0
                       [] e[k].op = "OP_BOOL_AND"   -> left.v # 0 /\ right.v # 0
                       [] e[k].op = "OP_BOOL_OR"    -> left.v # 0 \/ right.v # 0
                       [] e[k].op = "OP_COMP_EQUAL" -> left = right
                       [] OTHER -> IF left.dt = "DT_STRING"
                                   THEN StringSmaller(left.s, right.s)
                                   ELSE left.v < right.v)
  IN  value[Len(e)]

\* No connective is an argument, and no boolean is compared by <.
Flat(AttrType, e) ==
  \A k \in 1 .. Len(e) : \A i \in 1 .. Len(e[k].args) :
    /\ e[e[k].args[i]].op \notin Connectives
    /\ e[k].op = "OP_COMP_SMALLER" =>
         Types(AttrType, e)[e[k].args[i]] # "DT_BOOL"

=============================================================================
