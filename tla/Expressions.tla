----------------------------- MODULE Expressions -----------------------------
(***************************************************************************)
(* Formulas of metadata fields: the parser, the validator and the evaluator  *)
(* (backend/app/metadata_engine/expression_engine).                         *)
(*                                                                          *)
(* A formula is a tree; as text it is a sequence of tokens.  What the lexer   *)
(* does to characters, object literals, dates, division and words are left    *)
(* out: a value is a whole number (Python's True is 1), or nothing.          *)
(***************************************************************************)
EXTENDS Integers, Sequences, FiniteSets
LOCAL INSTANCE SequencesExt

CONSTANTS Identifiers, Literals,    \* tokens; Literals gives each its number
          Calls, Unsupported        \* number of arguments of each function; one nobody wrote

SUPPORTED_FUNCTIONS == DOMAIN Calls \ Unsupported
Comparisons == {"==", "!=", "<", ">", "<=", ">="}
Sums == {"+", "-"}
Products == {"*"}

VARIABLE formula

Leaf(x) == [kind |-> "leaf", op |-> x, kids |-> << >>]
UnaryOp(op, x) == [kind |-> "unary", op |-> op, kids |-> <<x>>]
BinaryOp(op, x, y) == [kind |-> "binary", op |-> op, kids |-> <<x, y>>]
Call(f, args) == [kind |-> "call", op |-> f, kids |-> args]

Leaves == {Leaf(x) : x \in Identifiers \cup DOMAIN Literals}
\* One operation on a tree and leaves, wherever the tree stands.
Trees(kids) ==
  LET Among(n) == UNION {{[args EXCEPT ![m] = x] : args \in [1..n -> Leaves], x \in kids} : m \in 1..n}
  IN kids \cup {UnaryOp(op, x) : op \in {"NOT", "NEG"}, x \in kids}
          \cup {BinaryOp(op, args[1], args[2]) : op \in {"OR", "AND", "==", "<", "-", "*"}, args \in Among(2)}
          \cup UNION {{Call(f, args) : args \in Among(Calls[f])} : f \in DOMAIN Calls}

FormulaInit == formula \in Trees(Trees(Leaves))

-----------------------------------------------------------------------------
(***************************************************************************)
(* The parser: one function per level, each returning the tree it read and   *)
(* the tokens that are left                                                 *)
(***************************************************************************)
Read(tree, rest) == [ok |-> TRUE, tree |-> tree, rest |-> rest]
ParseError == [ok |-> FALSE, tree |-> Leaf("error"), rest |-> << >>]

OperatorsAt == <<{"OR"}, {"AND"}, {}, Comparisons, Sums, Products>>

\* peek: the next token is one of these.
Peeks(tokens, S) == tokens # << >> /\ Head(tokens) \in S

RECURSIVE ParseLevel(_, _), Chain(_, _), ChainRight(_, _), ParseFactor(_), ParseArguments(_, _)

\* Mutant: what follows an operator is read to the end before it is applied.
ChainRight(level, left) ==
  IF ~left.ok \/ ~Peeks(left.rest, OperatorsAt[level]) THEN left
  ELSE LET right == ParseLevel(level, Tail(left.rest))
       IN IF ~right.ok THEN ParseError
          ELSE Read(BinaryOp(Head(left.rest), left.tree, right.tree), right.rest)

\* The while loop of a binary level: operators of one level bind to the left.
Chain(level, left) ==
  IF ~left.ok \/ ~Peeks(left.rest, OperatorsAt[level]) THEN left
  ELSE LET right == ParseLevel(level + 1, Tail(left.rest))
       IN IF ~right.ok THEN ParseError
          ELSE Chain(level, Read(BinaryOp(Head(left.rest), left.tree, right.tree), right.rest))

\* parse_or_expression to parse_term; the third level is parse_not_expression.
ParseLevel(level, tokens) ==
  IF level = 7 THEN ParseFactor(tokens)
  ELSE IF level # 3 THEN Chain(level, ParseLevel(level + 1, tokens))
  ELSE IF ~Peeks(tokens, {"NOT"}) THEN ParseLevel(4, tokens)
  ELSE LET operand == ParseLevel(3, Tail(tokens))
       IN IF operand.ok THEN Read(UnaryOp("NOT", operand.tree), operand.rest) ELSE ParseError

\* parse_function, after "(": arguments up to the closing one.
ParseArguments(args, tokens) ==
  LET one == ParseLevel(1, tokens)
      all == Append(args, one.tree)
  IN IF ~one.ok THEN [ok |-> FALSE, args |-> args, rest |-> << >>]
     ELSE IF Peeks(one.rest, {","}) THEN ParseArguments(all, Tail(one.rest))
     ELSE [ok |-> Peeks(one.rest, {")"}), args |-> all, rest |-> Tail(one.rest)]

ParseFactor(tokens) ==
  IF tokens = << >> THEN ParseError
  ELSE LET token == Head(tokens)
           rest == Tail(tokens)
       IN IF token = "(" THEN
            LET inner == ParseLevel(1, rest)
            IN IF inner.ok /\ Peeks(inner.rest, {")"}) THEN Read(inner.tree, Tail(inner.rest))
               ELSE ParseError
          ELSE IF token = "-" THEN
            LET operand == ParseFactor(rest)
            IN IF operand.ok THEN Read(UnaryOp("NEG", operand.tree), operand.rest) ELSE ParseError
          ELSE IF token \in DOMAIN Literals THEN Read(Leaf(token), rest)
          ELSE IF token \notin Identifiers \cup DOMAIN Calls THEN ParseError
          ELSE IF ~Peeks(rest, {"("}) THEN Read(Leaf(token), rest)
          ELSE IF Peeks(Tail(rest), {")"}) THEN Read(Call(token, << >>), Tail(Tail(rest)))
          ELSE LET call == ParseArguments(<< >>, Tail(rest))
               IN IF call.ok THEN Read(Call(token, call.args), call.rest) ELSE ParseError

\* parse_expression: nothing may be left.
Parse(tokens) ==
  LET all == ParseLevel(1, tokens) IN IF all.ok /\ all.rest = << >> THEN all ELSE ParseError

-----------------------------------------------------------------------------
(***************************************************************************)
(* The validator and the evaluator                                          *)
(***************************************************************************)
RECURSIVE Dependencies(_), IsValid(_), Value(_, _)

\* dependencies() of the nodes
Dependencies(t) ==
  IF t.kind = "leaf" THEN {t.op} \cap Identifiers
  ELSE UNION {Dependencies(t.kids[n]) : n \in DOMAIN t.kids}

\* _validate_node: how many arguments a function takes is not looked at.
IsValid(t) ==
  /\ t.kind = "call" => t.op \in SUPPORTED_FUNCTIONS
  /\ \A n \in DOMAIN t.kids : IsValid(t.kids[n])

Nothing == << >>
Raises == <<0, 0>>
Number(n) == <<n>>
Truth(v) == v \notin {Nothing, Number(0)}
Bool(b) == Number(IF b THEN 1 ELSE 0)

\* _apply_binary
ApplyBinary(op, x, y) ==
  CASE op = "OR" -> Bool(Truth(x) \/ Truth(y))
    [] op = "AND" -> Bool(Truth(x) /\ Truth(y))
    [] op = "==" -> Bool(x = y)
    [] op = "!=" -> Bool(x # y)
    [] OTHER ->
         IF Nothing \in {x, y} THEN Raises
         ELSE CASE op = "+" -> Number(x[1] + y[1]) [] op = "-" -> Number(x[1] - y[1])
                [] op = "*" -> Number(x[1] * y[1]) [] op = "<" -> Bool(x[1] < y[1])
                [] op = ">" -> Bool(x[1] > y[1]) [] op = "<=" -> Bool(x[1] <= y[1])
                [] op = ">=" -> Bool(x[1] >= y[1])

\* _apply_function
ApplyFunction(f, args) ==
  CASE f = "IF" -> IF Truth(args[1]) THEN args[2] ELSE args[3]
    [] f = "AND" -> Bool(Truth(args[1]) /\ Truth(args[2]))
    [] f = "OR" -> Bool(Truth(args[1]) \/ Truth(args[2]))
    [] f = "COUNT" -> Number(Len(args))
    [] f = "MAX" -> IF Nothing \in ToSet(args) THEN Raises
                    ELSE Number(CHOOSE m \in {a[1] : a \in ToSet(args)} :
                                  \A a \in ToSet(args) : m >= a[1])
    [] OTHER -> Raises

\* _eval: every argument is evaluated before the function looks at any.
Value(t, context) ==
  IF t.kind = "leaf"
    THEN IF t.op \in Identifiers THEN context[t.op] ELSE Number(Literals[t.op])
    ELSE LET args == [n \in DOMAIN t.kids |-> Value(t.kids[n], context)]
         IN IF Raises \in ToSet(args) THEN Raises
            ELSE CASE t.kind = "call" -> ApplyFunction(t.op, args)
                   [] t.kind = "binary" -> ApplyBinary(t.op, args[1], args[2])
                   [] t.op = "NOT" -> Bool(~Truth(args[1]))
                   [] OTHER -> IF args[1] = Nothing THEN Raises ELSE Number(-args[1][1])

-----------------------------------------------------------------------------
\* How a formula is written with no more parentheses than it needs.
Level(t) ==
  CASE t.kind = "unary" /\ t.op = "NOT" -> 3
    [] t.kind = "binary" -> CHOOSE n \in 1..6 : t.op \in OperatorsAt[n]
    [] OTHER -> 7

RECURSIVE Written(_, _)
Written(t, level) ==
  IF Level(t) < level THEN <<"(">> \o Written(t, 1) \o <<")">>
  ELSE CASE t.kind = "leaf" -> <<t.op>>
         [] t.kind = "binary" ->
              Written(t.kids[1], Level(t)) \o <<t.op>> \o Written(t.kids[2], Level(t) + 1)
         [] t.kind = "unary" /\ t.op = "NOT" -> <<"NOT">> \o Written(t.kids[1], 3)
         [] t.kind = "unary" /\ t.op # "NOT" -> <<"-">> \o Written(t.kids[1], 7)
         [] OTHER ->
              LET rest == SubSeq(t.kids, 2, Len(t.kids))
              IN <<t.op, "(">> \o Written(t.kids[1], 1)
                   \o FlattenSeq([n \in DOMAIN rest |-> <<",">> \o Written(rest[n], 1)]) \o <<")">>

Contexts == [Identifiers -> {Nothing, Number(0), Number(2)}]

\* A formula means what it says: it is read back as the tree it was written from;
\* its value depends on nothing but the dependencies the validator reports; and
\* when it is valid and these have values, it has one.
FormulasAreUnderstood ==
  /\ Parse(Written(formula, 1)) = Read(formula, << >>)
  /\ \A c, d \in Contexts :
       (\A x \in Dependencies(formula) : c[x] = d[x]) => Value(formula, c) = Value(formula, d)
  /\ IsValid(formula) =>
       \A c \in Contexts :
         (\A x \in Dependencies(formula) : c[x] # Nothing) => Value(formula, c) # Raises

=============================================================================
