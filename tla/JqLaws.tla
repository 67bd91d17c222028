------------------------------- MODULE JqLaws -------------------------------
(***************************************************************************)
(* What rjq promises about its filters: that a tree written out by the     *)
(* grammar of parser.rs is read back as it is, and that two filters which  *)
(* mean the same, and take different ways through the evaluator, give the  *)
(* same results.                                                           *)
(***************************************************************************)
EXTENDS JqParse

----------------------------------------------------------------------------
(* A tree, written out *)

Term == 12
Suffixed == 11

Spelling == [op \in {BinOpOf[s] : s \in DOMAIN BinOpOf} |->
                CHOOSE s \in DOMAIN BinOpOf : BinOpOf[s] = op]
Pieces(s) ==
    CASE s = "//" -> <<"/", "/">> [] s = "==" -> <<"=", "=">> [] s = "!=" -> <<"!", "=">>
      [] s = "<=" -> <<"<", "=">> [] s = ">=" -> <<">", "=">> [] OTHER -> <<s>>

LevelOf(e) ==
    CASE e[1] = "Label" -> 0
      [] e[1] = "Comma" -> Expr
      [] e[1] = "Pipe" -> Pipe
      [] e[1] \in {"As", "Assign", "PathAssign", "PathUpdate", "Reduce", "Foreach", "Break"} -> Assign
      [] e[1] = "BinOp" -> CHOOSE n \in DOMAIN Operators : Spelling[e[2]] \in Operators[n]
      [] e[1] \in {"Neg", "Try"} -> Unary
      [] e[1] = "Optional" -> Suffixed
      [] OTHER -> Term

NumeralOf(n) == CHOOSE s \in DOMAIN Numerals : Numerals[s] = n

\* e as an operand that the grammar reads at the given level: in parentheses
\* when it binds less tightly
RECURSIVE Show(_, _), Bare(_)
Show(e, level) == IF LevelOf(e) < level THEN <<"(">> \o Bare(e) \o <<")">> ELSE Bare(e)

Bare(e) ==
    LET binary(op, n) == Show(e[2], n) \o <<" ">> \o op \o <<" ">> \o Show(e[3], n + 1)
        fold(name) == <<name, " ">> \o Show(e[2], Alt) \o <<" ", "as", " ", "$", e[3], "(">>
                \o Show(e[4], Expr) \o <<";">> \o Show(e[5], Expr)
    IN  CASE e[1] = "Identity" -> <<".">>
          [] e[1] = "Recurse"  -> <<".", ".">>
          [] e[1] = "Iterate"  -> <<".", "[", "]">>
          [] e[1] = "Field"    -> <<".">> \o e[2]
          [] e[1] = "Literal"  -> <<NumeralOf(Contents(e[2]))>>
          [] e[1] = "Var"      -> <<"$", e[2]>>
          [] e[1] = "Comma"    -> binary(<<",">>, Expr)
          [] e[1] = "Pipe"     -> binary(<<"|">>, Pipe)
          [] e[1] = "BinOp"    ->
                LET n == LevelOf(e)
                IN  Show(e[3], n) \o <<" ">> \o Pieces(Spelling[e[2]]) \o <<" ">> \o Show(e[4], n + 1)
          [] e[1] = "Assign"   -> <<"$", e[2], " ", "=", " ">> \o Show(e[3], Assign)
          [] e[1] = "PathAssign" -> Show(e[2], Alt) \o <<" ", "=", " ">> \o Show(e[3], Assign)
          [] e[1] = "PathUpdate" -> Show(e[2], Alt) \o <<" ", "|", "=", " ">> \o Show(e[3], Assign)
          [] e[1] = "As"       -> Show(e[2], Alt) \o <<" ", "as", " ", "$", e[3], " ", "|", " ">>
                                  \o Show(e[4], Assign)
          [] e[1] = "Label"    -> <<"label", " ", "$", e[2], " ", "|", " ">> \o Show(e[3], Expr)
          [] e[1] = "Break"    -> <<"break", " ", "$", e[2]>>
          [] e[1] = "Neg"      -> <<"-">> \o Show(e[2], Unary)
          [] e[1] = "Try"      -> <<"try", " ">> \o Show(e[2], Suffixed)
                                  \o (IF e[3] = None THEN <<>>
                                      ELSE <<" ", "catch", " ">> \o Show(e[3], Suffixed))
          [] e[1] = "Optional" -> Show(e[2], Suffixed) \o <<"?">>
          [] e[1] = "Array"    -> <<"[">> \o Show(e[2], Expr) \o <<"]">>
          [] e[1] = "Index"    -> <<".", "[">> \o Show(e[2], Expr) \o <<"]">>
          [] e[1] = "Slice"    -> <<".", "[">> \o Show(e[2], Expr) \o <<":">>
                                  \o Show(e[3], Expr) \o <<"]">>
          [] e[1] = "Call"     -> <<e[2], "(">> \o Show(e[3][1], Expr) \o <<")">>
          [] e[1] = "If"       -> <<"if", " ">> \o Show(e[2], Expr) \o <<" ", "then", " ">>
                                  \o Show(e[3], Expr) \o <<" ", "else", " ">> \o Show(e[4], Expr)
                                  \o <<" ", "end">>
          [] e[1] = "Object"   -> <<"{", "a", ":">> \o Show(e[2][1][2], Pipe) \o <<"}">>
          [] e[1] = "Reduce"   -> fold("reduce") \o <<")">>
          [] e[1] = "Foreach"  -> fold("foreach") \o <<";">> \o Show(e[6], Expr) \o <<")">>

\* The grammar the comments of parser.rs give is the one that is read: a tree
\* written with the parentheses that its levels and the associativity to the
\* left ask for, and no more, parses to that tree, every token used.
ParsesBack(e) == ParseProgram(Show(e, Expr)) = e

----------------------------------------------------------------------------
(* Filters that mean the same: by the definitions of jq where rjq follows   *)
(* them, by its own where it does not (values, label, elif, def)           *)

Laws == <<
  \* builtins against their definitions
  <<<<"map", "(", ".", "a", ")">>,
    <<"[", ".", "[", "]", "|", ".", "a", "]">>>>,
  <<<<"map_values", "(", "length", ")">>,
    <<".", "[", "]", "|", "=", "length">>>>,
  <<<<"values">>,
    <<".", "[", "]">>>>,
  <<<<"add">>,
    <<"reduce", " ", ".", "[", "]", " ", "as", " ", "$", "x", "(", "null", ";", ".", "+", "$", "x", ")">>>>,
  <<<<"select", "(", ".", "a", ")">>,
    <<"if", " ", ".", "a", " ", "then", " ", ".", " ", "else", " ", "empty", " ", "end">>>>,
  <<<<"any">>,
    <<"any", "(", ".", ")">>>>,
  <<<<"any", "(", ".", "a", ")">>,
    <<"all", "(", ".", "a", "|", "not", ")", "|", "not">>>>,
  <<<<"has", "(", "'a'", ")">>,
    <<"if", " ", "type", "=", "=", "'object'", " ", "then", " ", "keys", "|", "any", "(", ".", "=", "=", "'a'", ")",
      " ", "else", " ", "error", " ", "end">>>>,
  <<<<"[", "first", "(", ".", "[", "]", ")", "]">>,
    <<"[", ".", "[", "]", "]", "|", ".", "[", ":", "1", "]">>>>,
  <<<<"[", "last", "(", ".", "[", "]", ")", "]">>,
    <<"[", ".", "[", "]", "]", "|", ".", "[", "-", "1", ":", "]">>>>,
  <<<<"nth", "(", "1", ";", ".", "[", "]", ")">>,
    <<"[", ".", "[", "]", "]", "|", "nth", "(", "1", ")">>>>,
  <<<<"keys", "|", "length">>,
    <<"[", ".", "[", "]", "]", "|", "length">>>>,
  <<<<"toarray">>,
    <<"if", " ", "type", "=", "=", "'array'", " ", "then", " ", ".", " ", "else", " ", "[", ".", "]", " ", "end">>>>,
  <<<<".", "/", "'a'">>,
    <<"split", "(", "'a'", ")">>>>,
  <<<<"if", " ", "type", "=", "=", "'string'", " ", "then", " ", "split", "(", "'a'", ")", "|", "join", "(", "'a'", ")",
      " ", "else", " ", ".", " ", "end">>,
    <<".">>>>,
  <<<<"tojson">>,
    <<"if", " ", "type", "=", "=", "'string'", " ", "then", " ", "tojson", " ", "else", " ", "tostring", " ", "end">>>>,
  <<<<".", " ", "as", " ", "$", "x", "|", "contains", "(", "$", "x", ")">>,
    <<"true">>>>,
  <<<<"[", "range", "(", "3", ";", "0", ";", "-", "1", ")", "]", "|", "sort">>,
    <<"[", "range", "(", "1", ";", "3", "+", "1", ")", "]">>>>,
  \* the order of values, and the sort that rests on it
  <<<<"sort">>,
    <<"reverse", "|", "sort">>>>,
  <<<<"sort">>,
    <<"sort_by", "(", ".", ")">>>>,
  <<<<"if", " ", "type", "=", "=", "'array'", " ", "then", " ", "sort_by", "(", "1", ")", " ", "else", " ", ".", " ", "end">>,
    <<".">>>>,
  <<<<"min">>,
    <<"sort", "|", ".", "[", "0", "]">>>>,
  <<<<"max">>,
    <<"sort", "|", ".", "[", "-", "1", "]">>>>,
  <<<<"unique">>,
    <<"reduce", " ", "(", "sort", "|", ".", "[", "]", ")", " ", "as", " ", "$", "x", "(", "[", "]", ";", "if", " ",
      "any", "(", ".", "=", "=", "$", "x", ")", " ", "then", " ", ".", " ", "else", " ", ".", "+", "[", "$", "x", "]", " ",
      "end", ")">>>>,
  <<<<"sort", "|", "if", " ", "length", ">", "1", " ", "then", " ", ".", " ", "as", " ", "$", "s", "|", "$", "s", "[", "0", "]",
      "<", "=", "$", "s", "[", "1", "]", " ", "else", " ", "true", " ", "end">>,
    <<"sort", "|", "true">>>>,
  \* paths
  <<<<".", "a", ".", "b">>,
    <<"getpath", "(", "[", "'a'", ",", "'b'", "]", ")">>>>,
  <<<<".", "a", ".", "b", "=", "1">>,
    <<"setpath", "(", "[", "'a'", ",", "'b'", "]", ";", "1", ")">>>>,
  <<<<"setpath", "(", "[", "'a'", ",", "2", "]", ";", "3", ")", "|", "getpath", "(", "[", "'a'", ",", "2", "]", ")">>,
    <<"3">>>>,
  <<<<".", "a", "|", "=", "[", ".", "]">>,
    <<".", "a", " ", "as", " ", "$", "x", "|", ".", "a", "=", "[", "$", "x", "]">>>>,
  <<<<"(", ".", "[", "]", "|", ".", "a", ")", "=", "1">>,
    <<"map_values", "(", ".", "a", "=", "1", ")">>>>,
  <<<<"(", ".", "a", ",", ".", "b", ")", "|", "=", "[", ".", "]">>,
    <<"(", ".", "a", "|", "=", "[", ".", "]", ")", "|", ".", "b", "|", "=", "[", ".", "]">>>>,
  <<<<"[", "paths", " ", "as", " ", "$", "p", "|", "getpath", "(", "$", "p", ")", "]">>,
    <<"[", ".", ".", "]", "|", ".", "[", "1", ":", "]">>>>,
  <<<<"[", "leaf_paths", " ", "as", " ", "$", "p", "|", "getpath", "(", "$", "p", ")", "]">>,
    <<"[", ".", ".", "|", "select", "(", "type", "=", "=", "'array'", " ", "or", " ", "type", "=", "=", "'object'", "|", "not",
      ")", "]">>>>,
  <<<<"if", " ", "[", ".", ".", "|", "select", "(", ".", "=", "=", "[", "]", " ", "or", " ", ".", "=", "=", "{", "}", ")",
      "]", "=", "=", "[", "]", " ", "then", " ", ".", " ", "as", " ", "$", "v", "|", "reduce", " ", "leaf_paths", " ", "as", " ",
      "$", "p", "(", "null", ";", "setpath", "(", "$", "p", ";", "$", "v", "|", "getpath", "(", "$", "p", ")", ")", ")",
      " ", "else", " ", ".", " ", "end">>,
    <<".">>>>,
  <<<<"[", "tostream", "|", ".", "[", "0", "]", "]", "|", "sort">>,
    <<"[", "[", "]", ",", "paths", "]", "|", "sort">>>>,
  <<<<"del", "(", ".", "a", ",", ".", "b", ")">>,
    <<"del", "(", ".", "b", ")", "|", "del", "(", ".", "a", ")">>>>,
  <<<<"if", " ", "type", "=", "=", "'array'", " ", "and", " ", ".", "!", "=", "[", "]", " ", "then", " ", "del", "(", ".", "[", "0",
      "]", ")", " ", "else", " ", ".", " ", "end">>,
    <<"if", " ", "type", "=", "=", "'array'", " ", "and", " ", ".", "!", "=", "[", "]", " ", "then", " ", ".", "[", "1", ":", "]",
      " ", "else", " ", ".", " ", "end">>>>,
  \* control
  <<<<"(", "reduce", " ", ".", "[", "]", " ", "as", " ", "$", "x", "(", "0", ";", ".", "+", "1", ")", ")", "?">>,
    <<"(", "[", "foreach", " ", ".", "[", "]", " ", "as", " ", "$", "x", "(", "0", ";", ".", "+", "1", ")", "]", "|",
      ".", "[", "-", "1", "]", "/", "/", "0", ")", "?">>>>,
  <<<<"[", "foreach", " ", ".", "[", "]", " ", "as", " ", "$", "x", "(", "0", ";", ".", "+", "1", ";", "[", ".", ",", "$", "x", "]",
      ")", "]", "|", "map", "(", ".", "[", "1", "]", ")">>,
    <<"[", ".", "[", "]", "]">>>>,
  <<<<".", "[", "]", "?">>,
    <<"try", " ", ".", "[", "]">>>>,
  <<<<"try", " ", "error", "(", "'a'", ")", " ", "catch", " ", ".">>,
    <<"'a'">>>>,
  <<<<"label", " ", "$", "p", "|", "label", " ", "$", "q", "|", "break", " ", "$", "p">>,
    <<".">>>>,
  <<<<"if", " ", ".", " ", "then", " ", "1", " ", "elif", " ", ".", "=", "=", "null", " ", "then", " ", "2", " ", "else", " ", "3",
      " ", "end", " ", "end">>,
    <<".", "=", "=", "null", " ", "as", " ", "$", "n", "|", "if", " ", ".", " ", "then", " ", "1", " ", "else", " ", "(", "if", " ",
      "$", "n", " ", "then", " ", "2", " ", "else", " ", "3", " ", "end", ")", " ", "end">>>>,
  <<<<".", "a", " ", "and", " ", ".", "b">>,
    <<"(", ".", "a", "|", "not", ")", " ", "or", " ", "(", ".", "b", "|", "not", ")", "|", "not">>>>,
  <<<<"{", "a", ",", "(", "'b'", ")", ":", "1", "}">>,
    <<"{", "a", ":", ".", "a", "}", "+", "{", "b", ":", "1", "}">>>>,
  <<<<"if", " ", "type", "=", "=", "'number'", " ", "then", " ", "(", ".", "-", ".", "%", "2", ")", "%", "2", " ", "else", " ", "0",
      " ", "end">>,
    <<"0">>>>,
  <<<<"(", "def", " ", "f", ":", "1", ";", "f", ")", "?">>,
    <<"empty", " ", "#", "f", "nl">>>>
  >>

Programs == [k \in DOMAIN Laws |-> [side \in 1..2 |-> ParseProgram(Laws[k][side])]]

\* a filter that does not parse counts as a panic here
Ran(e, in) == IF e = <<"Bad">> THEN Panic ELSE Eval(e, in, <<>>)

Alike(r) ==
    /\ r[1].ok = r[2].ok
    /\ r[1].ok => r[1].out = r[2].out
    /\ Panic \notin {r[1], r[2]}

\* Two filters that mean the same give the same outputs in the same order, or
\* both fail, on every value: a builtin and its definition, a sort and any
\* order of its input, an assignment and the paths it is made of, a fold and
\* its steps.  Neither indexes out of bounds.
SameMeaning(k, in) == Alike([side \in 1..2 |-> Ran(Programs[k][side], in)])

=============================================================================
