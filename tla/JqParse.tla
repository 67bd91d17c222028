------------------------------ MODULE JqParse ------------------------------
(***************************************************************************)
(* From the text of a filter to its tree (src/rjq/src/lexer.rs,            *)
(* parser.rs).  The text is a sequence of punctuation characters, blanks   *)
(* and whole words, numerals and quoted strings; what the lexer decides is *)
(* how punctuation joins.                                                  *)
(***************************************************************************)
EXTENDS Jq

----------------------------------------------------------------------------
(* Tokens *)

Numerals == ("0" :> 0) @@ ("1" :> 1) @@ ("2" :> 2) @@ ("3" :> 3)
Strings == ("'a'" :> <<"a">>) @@ ("'b'" :> <<"b">>) @@ ("'array'" :> <<"array">>)
           @@ ("'object'" :> <<"object">>) @@ ("'string'" :> <<"string">>)
           @@ ("'number'" :> <<"number">>)
Punctuation == {".", "|", ",", ":", ";", "(", ")", "[", "]", "{", "}", "?", "+", "-", "*",
                "/", "%", "=", "<", ">"}
Joined == (<<".", ".">> :> "..") @@ (<<"|", "=">> :> "|=") @@ (<<"/", "/">> :> "//")
          @@ (<<"=", "=">> :> "==") @@ (<<"!", "=">> :> "!=") @@ (<<"<", "=">> :> "<=")
          @@ (<<">", "=">> :> ">=")

Op(s) == <<"op", s>>
Ident(name, dollar) == <<"id", name, dollar>>
BadToken == <<"bad">>

Word(w) ==
    IF w \in DOMAIN Numerals THEN <<"num", Numerals[w]>>
    ELSE IF w \in DOMAIN Strings THEN <<"str", Strings[w]>>
    ELSE Ident(w, FALSE)

\* The longest operator that stands here, a word, or a variable; a comment goes
\* to the end of its line, and a `!` alone ends in an error.
RECURSIVE Lex(_)
Lex(s) ==
    LET two == IF Len(s) > 1 THEN SubSeq(s, 1, 2) ELSE s
        rest == SubSeq(s, 3, Len(s))
        eol == {i \in DOMAIN s : s[i] = "nl"}
    IN  CASE s = <<>> -> <<>>
          [] s # <<>> /\ two \in DOMAIN Joined -> <<Op(Joined[two])>> \o Lex(rest)
          [] s # <<>> /\ two \notin DOMAIN Joined ->
                CASE Head(s) \in {" ", "nl"} -> Lex(Tail(s))
                  [] Head(s) = "#" ->
                        IF eol = {} THEN <<>> ELSE Lex(SubSeq(s, Least(eol), Len(s)))
                  [] Head(s) = "$" -> <<Ident(two[2], TRUE)>> \o Lex(rest)
                  [] Head(s) = "!" -> <<BadToken>>
                  [] Head(s) \in Punctuation -> <<Op(Head(s))>> \o Lex(Tail(s))
                  [] OTHER -> <<Word(Head(s))>> \o Lex(Tail(s))

----------------------------------------------------------------------------
(* Parsing: a tree and the tokens after it, or a failure *)

Parsed(e, rest) == [ok |-> TRUE, e |-> e, rest |-> rest]
Fail == [ok |-> FALSE]
Bind(r, F(_, _)) == IF r.ok THEN F(r.e, r.rest) ELSE Fail

\* what the parser looks at: an operator or a name, else the kind of token
Sym(ts) ==
    IF ts = <<>> THEN "Eof"
    ELSE IF Head(ts)[1] = "op" THEN Head(ts)[2]
    ELSE IF Head(ts)[1] = "id" THEN IF Head(ts)[3] THEN "$" ELSE Head(ts)[2]
    ELSE Head(ts)[1]

IsIdent(ts) == ts # <<>> /\ Head(ts)[1] = "id"
Keywords == {"as", "then", "else", "elif", "end", "and", "or", "catch"}

Expect(ts, sym, F(_)) == IF Sym(ts) = sym THEN F(Tail(ts)) ELSE Fail

\* the key a name stands for, the dollar of a variable included
KeyOf(t) ==
    IF t[1] = "str" THEN t[2] ELSE IF t[3] THEN <<"$", t[2]>> ELSE <<t[2]>>

BinOpOf == ("//" :> "Alt") @@ ("or" :> "Or") @@ ("and" :> "And") @@ ("==" :> "Eq")
           @@ ("!=" :> "Ne") @@ ("<" :> "Lt") @@ ("<=" :> "Le") @@ (">" :> "Gt") @@ (">=" :> "Ge")
           @@ ("+" :> "Add") @@ ("-" :> "Sub") @@ ("*" :> "Mul") @@ ("/" :> "Div") @@ ("%" :> "Mod")

Node(op, l, r) ==
    CASE op = "," -> <<"Comma", l, r>>
      [] op = "|" -> <<"Pipe", l, r>>
      [] OTHER    -> <<"BinOp", BinOpOf[op], l, r>>

\* the binary operators, loosest first; assignment and binding stand at Assign
Expr == 1
Pipe == 2
Assign == 3
Alt == 4
Unary == 10
Operators == <<{","}, {"|"}, {}, {"//"}, {"or"}, {"and"},
               {"==", "!=", "<", "<=", ">", ">="}, {"+", "-"}, {"*", "/", "%"}>>

RECURSIVE ParseLevel(_, _), Chain(_, _, _), ParseAssign(_), ParseUnary(_), Postfix(_, _),
          ParsePrimary(_), ParseIf(_), ParseArgs(_, _, _), ParseEntries(_, _), ParseParams(_, _)

MutChain(n, l, ts) ==                    \* an operator takes all that follows
    IF Sym(ts) \in Operators[n]
    THEN Bind(ParseLevel(n, Tail(ts)), LAMBDA r, rest : Parsed(Node(Sym(ts), l, r), rest))
    ELSE Parsed(l, ts)

\* operators of one level associate to the left
Chain(n, l, ts) ==
    IF Sym(ts) \in Operators[n]
    THEN Bind(ParseLevel(n + 1, Tail(ts)), LAMBDA r, rest : Chain(n, Node(Sym(ts), l, r), rest))
    ELSE Parsed(l, ts)

ParseLevel(n, ts) ==
    IF n = Assign THEN ParseAssign(ts)
    ELSE IF n = Unary THEN ParseUnary(ts)
    ELSE Bind(ParseLevel(n + 1, ts), LAMBDA l, rest : Chain(n, l, rest))

ParseExpr(ts) == ParseLevel(Expr, ts)
ParsePipe(ts) == ParseLevel(Pipe, ts)
ParseAlt(ts) == ParseLevel(Alt, ts)

\* def name(params): body; rest - a call of a builtin that does not exist
ParseDef(ts) ==
    LET after == IF Sym(Tail(ts)) = "(" THEN ParseParams(Tail(Tail(ts)), <<>>)
                 ELSE Parsed(<<>>, Tail(ts))
    IN  IF ~IsIdent(ts) THEN Fail
        ELSE Bind(after, LAMBDA params, colon :
             Expect(colon, ":", LAMBDA rest1 :
             Bind(ParseExpr(rest1), LAMBDA body, semi :
             Expect(semi, ";", LAMBDA rest2 :
             Bind(ParseExpr(rest2), LAMBDA e, rest3 :
                Parsed(<<"Call", "__def__", <<<<"Literal", Str(params)>>, body, e>>>>, rest3))))))

\* the parameters of a definition, up to the closing parenthesis
ParseParams(ts, params) ==
    LET next == Append(params, Head(ts)[2])
    IN  IF params = <<>> /\ Sym(ts) = ")" THEN Parsed(params, Tail(ts))
        ELSE IF ~IsIdent(ts) THEN Fail
        ELSE IF Sym(Tail(ts)) = ";" THEN ParseParams(Tail(Tail(ts)), next)
        ELSE Expect(Tail(ts), ")", LAMBDA rest : Parsed(next, rest))

\* source as $x (init; update), for foreach perhaps (init; update; extract)
ParseFold(name, ts) ==
    LET closed(node, rest) == Expect(rest, ")", LAMBDA after : Parsed(node, after))
        var(rest) == Head(rest)[2]
    IN  Bind(ParseAlt(ts), LAMBDA src, as :
        Expect(as, "as", LAMBDA id :
        IF ~IsIdent(id) THEN Fail ELSE
        Expect(Tail(id), "(", LAMBDA rest1 :
        Bind(ParseExpr(rest1), LAMBDA init, semi :
        Expect(semi, ";", LAMBDA rest2 :
        Bind(ParseExpr(rest2), LAMBDA update, rest3 :
            IF name = "reduce" THEN closed(<<"Reduce", src, var(id), init, update>>, rest3)
            ELSE IF Sym(rest3) # ";"
            THEN closed(<<"Foreach", src, var(id), init, update, None>>, rest3)
            ELSE Bind(ParseExpr(Tail(rest3)), LAMBDA extract, rest4 :
                    closed(<<"Foreach", src, var(id), init, update, extract>>, rest4))))))))

\* label $name | body takes all that follows
ParseLabel(ts) ==
    IF ~IsIdent(ts) THEN Fail
    ELSE Expect(Tail(ts), "|", LAMBDA rest :
         Bind(ParseExpr(rest), LAMBDA body, after : Parsed(<<"Label", Head(ts)[2], body>>, after)))

\* The body of a binding is one assignment: it ends at the next pipe.
ParseAssign(ts) ==
    LET after == Tail(ts)
        right(rest, F(_)) == Bind(ParseAssign(rest), LAMBDA r, end : Parsed(F(r), end))
        binding(l, rest) ==
            IF Sym(rest) # "$" THEN Fail
            ELSE Expect(Tail(rest), "|", LAMBDA body :
                    right(body, LAMBDA r : <<"As", l, Head(rest)[2], r>>))
        assigned(l, r) == IF l[1] = "Var" THEN <<"Assign", l[2], r>> ELSE <<"PathAssign", l, r>>
    IN  CASE Sym(ts) = "def" -> ParseDef(after)
          [] Sym(ts) \in {"reduce", "foreach"} -> ParseFold(Sym(ts), after)
          [] Sym(ts) = "label" -> ParseLabel(after)
          [] Sym(ts) = "break" ->
                IF IsIdent(after) THEN Parsed(<<"Break", Head(after)[2]>>, Tail(after)) ELSE Fail
          [] OTHER -> Bind(ParseAlt(ts), LAMBDA l, rest :
                CASE Sym(rest) = "as" -> binding(l, Tail(rest))
                  [] Sym(rest) = "="  -> right(Tail(rest), LAMBDA r : assigned(l, r))
                  [] Sym(rest) = "|=" -> right(Tail(rest), LAMBDA r : <<"PathUpdate", l, r>>)
                  [] OTHER -> Parsed(l, rest))

ParsePostfix(ts) == Bind(ParsePrimary(ts), Postfix)

ParseUnary(ts) ==
    LET after == Tail(ts)
    IN  CASE Sym(ts) = "-"   -> Bind(ParseUnary(after), LAMBDA e, rest : Parsed(<<"Neg", e>>, rest))
          [] Sym(ts) = "not" -> Parsed(<<"Call", "not", <<>>>>, after)
          [] Sym(ts) = "try" ->
                Bind(ParsePostfix(after), LAMBDA e, rest :
                    IF Sym(rest) = "catch"
                    THEN Bind(ParsePostfix(Tail(rest)), LAMBDA h, end : Parsed(<<"Try", e, h>>, end))
                    ELSE Parsed(<<"Try", e, None>>, rest))
          [] OTHER -> ParsePostfix(ts)

\* after `[`: nothing, a slice or an index
ParseIndexBody(ts) ==
    LET closed(node, rest) == Expect(rest, "]", LAMBDA after : Parsed(node, after))
        slice(lo, rest) ==
            IF Sym(rest) = "]" THEN closed(<<"Slice", lo, None>>, rest)
            ELSE Bind(ParseExpr(rest), LAMBDA hi, end : closed(<<"Slice", lo, hi>>, end))
    IN  CASE Sym(ts) = "]" -> Parsed(<<"Iterate">>, Tail(ts))
          [] Sym(ts) = ":" -> slice(None, Tail(ts))
          [] OTHER -> Bind(ParseExpr(ts), LAMBDA e, rest :
                IF Sym(rest) = ":" THEN slice(e, Tail(rest)) ELSE closed(<<"Index", e>>, rest))

\* what may follow a term; a dot that names nothing is the identity
Postfix(e, ts) ==
    LET after == Tail(ts)
        then(r) == Bind(r, LAMBDA node, rest : Postfix(<<"Pipe", e, node>>, rest))
    IN  CASE Sym(ts) = "?" -> Postfix(<<"Optional", e>>, after)
          [] Sym(ts) = "[" -> then(ParseIndexBody(after))
          [] Sym(ts) = "." ->
                IF IsIdent(after) \/ Sym(after) = "str"
                THEN Postfix(<<"Pipe", e, <<"Field", KeyOf(Head(after))>>>>, Tail(after))
                ELSE IF Sym(after) = "[" THEN then(ParseIndexBody(Tail(after)))
                ELSE Postfix(<<"Pipe", e, <<"Identity">>>>, after)
          [] OTHER -> Parsed(e, ts)

\* arguments up to the closing parenthesis, separated by semicolons
ParseArgs(name, ts, args) ==
    IF args = <<>> /\ Sym(ts) = ")" THEN Parsed(<<"Call", name, args>>, Tail(ts))
    ELSE Bind(ParseExpr(ts), LAMBDA e, rest :
            IF Sym(rest) = ";" THEN ParseArgs(name, Tail(rest), Append(args, e))
            ELSE Expect(rest, ")", LAMBDA after :
                    Parsed(<<"Call", name, Append(args, e)>>, after)))

ParseIdentExpr(ts) ==
    LET name == Head(ts)[2]
        constant == [true |-> Bool(TRUE), false |-> Bool(FALSE), null |-> Null]
    IN  CASE Sym(ts) = "$" -> Parsed(<<"Var", name>>, Tail(ts))
          [] Sym(ts) \in DOMAIN constant -> Parsed(<<"Literal", constant[name]>>, Tail(ts))
          [] Sym(ts) = "if" -> ParseIf(Tail(ts))
          [] OTHER -> IF Sym(Tail(ts)) = "(" THEN ParseArgs(name, Tail(Tail(ts)), <<>>)
                      ELSE Parsed(<<"Call", name, <<>>>>, Tail(ts))

\* Each `elif` is an `if` of its own: it takes an `end`, and so does the outer.
ParseIf(ts) ==
    LET end(c, t, e, rest) == Expect(rest, "end", LAMBDA after : Parsed(<<"If", c, t, e>>, after))
    IN  Bind(ParseExpr(ts), LAMBDA c, rest1 :
        Expect(rest1, "then", LAMBDA rest2 :
        Bind(ParseExpr(rest2), LAMBDA t, rest3 :
            CASE Sym(rest3) = "elif" ->
                    Bind(ParseIf(Tail(rest3)), LAMBDA e, rest4 : end(c, t, e, rest4))
              [] Sym(rest3) = "else" ->
                    Bind(ParseExpr(Tail(rest3)), LAMBDA e, rest4 : end(c, t, e, rest4))
              [] OTHER -> end(c, t, None, rest3))))

\* the entries of an object; a name without a value is the field it names
ParseEntries(ts, entries) ==
    LET add(kv, rest) ==
            IF Sym(rest) = "," THEN ParseEntries(Tail(rest), Append(entries, kv))
            ELSE Expect(rest, "}", LAMBDA after :
                    Parsed(<<"Object", Append(entries, kv)>>, after))
        value(key, rest) ==
            IF Sym(rest) = ":" THEN Bind(ParsePipe(Tail(rest)), LAMBDA e, end : add(<<key, e>>, end))
            ELSE IF key[1] = "Name" THEN add(<<key, <<"Field", key[2]>>>>, rest)
            ELSE Fail
    IN  CASE IsIdent(ts) \/ Sym(ts) = "str" -> value(<<"Name", KeyOf(Head(ts))>>, Tail(ts))
          [] Sym(ts) = "(" ->
                Bind(ParseExpr(Tail(ts)), LAMBDA e, rest :
                    Expect(rest, ")", LAMBDA after : value(<<"Expr", e>>, after)))
          [] OTHER -> Fail

ParsePrimary(ts) ==
    LET after == Tail(ts)
        named == (IsIdent(after) /\ Sym(after) \notin Keywords) \/ Sym(after) = "str"
    IN  CASE Sym(ts) = "." ->
                IF named THEN Parsed(<<"Field", KeyOf(Head(after))>>, Tail(after))
                ELSE IF Sym(after) = "[" THEN ParseIndexBody(Tail(after))
                ELSE Parsed(<<"Identity">>, after)
          [] Sym(ts) = ".."  -> Parsed(<<"Recurse">>, after)
          [] Sym(ts) = "num" -> Parsed(<<"Literal", Num(Head(ts)[2])>>, after)
          [] Sym(ts) = "str" -> Parsed(<<"Literal", Str(Head(ts)[2])>>, after)
          [] Sym(ts) = "("   -> Bind(ParseExpr(after), LAMBDA e, rest :
                                    Expect(rest, ")", LAMBDA end : Parsed(e, end)))
          [] Sym(ts) = "["   ->
                IF Sym(after) = "]" THEN Parsed(<<"Literal", Arr(<<>>)>>, Tail(after))
                ELSE Bind(ParseExpr(after), LAMBDA e, rest :
                        Expect(rest, "]", LAMBDA end : Parsed(<<"Array", e>>, end)))
          [] Sym(ts) = "{"   -> IF Sym(after) = "}" THEN Parsed(<<"Object", <<>>>>, Tail(after))
                                ELSE ParseEntries(after, <<>>)
          [] OTHER -> IF IsIdent(ts) THEN ParseIdentExpr(ts) ELSE Fail

\* a program is one expression with nothing after it
ParseProgram(text) ==
    LET ts == Lex(text)
        r == ParseExpr(ts)
    IN  IF BadToken \in ToSet(ts) \/ ~r.ok \/ r.rest # <<>> THEN <<"Bad">> ELSE r.e

=============================================================================
