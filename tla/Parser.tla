------------------------------- MODULE Parser -------------------------------
(***************************************************************************)
(* The recursive descent parser of the SQL subset (parser.c), as a machine *)
(* that is given one token at a time: Parse(p, tok) is the set of states p *)
(* can go to with tok, and the empty set is -EINVAL.  A state is the place *)
(* in the rule that is being parsed and the statement as far as it is      *)
(* known.  The grammar needs one token of lookahead, so a token that the   *)
(* code peeks at and leaves is one that the next place takes.              *)
(*                                                                         *)
(* A token is what kds_token_t tells apart: an identifier has its text,    *)
(* and keywords are identifiers; a literal has what it was written as;     *)
(* the rest is its type.                                                   *)
(***************************************************************************)
EXTENDS Integers, Sequences, SequencesExt

CONSTANTS TypeNames,  \* the names kds_type_lookup_by_name knows
          MaxCols,    \* KDS_PARSER_MAX_COLS
          MaxVals,    \* KDS_PARSER_MAX_VALS
          MaxConds,   \* KDS_PARSER_MAX_CONDS
          LongBits    \* width of s64

ASSUME ParserAssumption ==
  /\ {MaxCols, MaxVals, MaxConds, LongBits} \subseteq Nat \ {0}
  /\ TypeNames \subseteq STRING

-----------------------------------------------------------------------------
(* lexer_read: the tokens.  Whitespace and comments come to nothing.       *)
Word(text) == [type |-> "IDENT", text |-> text]

IntLit(neg, whole) == [type |-> "INT_LIT", neg |-> neg, whole |-> whole]

StrLit(str) == [type |-> "STR_LIT", str |-> str]

Mark(type) == [type |-> type]

Ops == {"EQ", "NEQ", "LT", "LTE", "GT", "GTE"}

(* Arithmetic of s64: the kernel is built with -fno-strict-overflow.       *)
Wrap(v, bits) == ((v + 2 ^ (bits - 1)) % 2 ^ bits) - 2 ^ (bits - 1)

(* The digits of a literal are added up in an s64, whatever their number.  *)
IntVal(tok) ==
  LET v == Wrap(tok.whole, LongBits) IN IF tok.neg THEN Wrap(-v, LongBits) ELSE v

(* strcasecmp: keywords are the same in upper and lower case, so that one  *)
(* text stands for both.                                                   *)
IsWord(tok, text) == tok.type = "IDENT" /\ tok.text = text

-----------------------------------------------------------------------------
To(place, stmt) == {[place |-> place, stmt |-> stmt]}

When(test, states) == IF test THEN states ELSE {}

Start == [place |-> "start", stmt |-> [type |-> "none"]]

(* expect_keyword and expect_token. *)
ExpectKeyword(p, tok, text, place) == When(IsWord(tok, text), To(place, p.stmt))

ExpectToken(p, tok, type, place) == When(tok.type = type, To(place, p.stmt))

(* parse_ident for the table's name; a keyword will do. *)
ParseName(p, tok, place) ==
  When(tok.type = "IDENT", To(place, [p.stmt EXCEPT !.name = tok.text]))

IsValue(tok) == tok.type \in {"INT_LIT", "STR_LIT", "NULL"}

ParseValue(tok) ==
  CASE tok.type = "INT_LIT" -> [type |-> "INT", int |-> IntVal(tok)]
    [] tok.type = "STR_LIT" -> [type |-> "STR", str |-> tok.str]
    [] tok.type = "NULL"    -> [type |-> "NULL"]

-----------------------------------------------------------------------------
(* CREATE TABLE <name> (<col> <type> [, ...]) [HEAP | BTREE] *)
ParseCreateTable(p, tok) ==
  LET n == Len(p.stmt.cols)
  IN  CASE p.place = "create" -> ExpectKeyword(p, tok, "TABLE", "create name")
        [] p.place = "create name" -> ParseName(p, tok, "create (")
        [] p.place = "create (" -> ExpectToken(p, tok, "LPAREN", "column")
        [] p.place = "column" ->
             When(n < MaxCols /\ tok.type = "IDENT",
                  To("column type", [p.stmt EXCEPT !.cols =
                       Append(@, [name |-> tok.text, type |-> ""])]))
        [] p.place = "column type" ->
             When(tok.type = "IDENT" /\ tok.text \in TypeNames,
                  To("column end", [p.stmt EXCEPT !.cols[n].type = tok.text]))
        [] p.place = "column end" ->
             ExpectToken(p, tok, "COMMA", "column") \union
             ExpectToken(p, tok, "RPAREN", "storage")
        [] p.place = "storage" ->
             When(IsWord(tok, "HEAP"), To("end", p.stmt)) \union
             When(IsWord(tok, "BTREE"), To("end", [p.stmt EXCEPT !.clustered = "BTREE"]))

(* INSERT INTO <name> VALUES (<val> [, ...]) *)
ParseInsert(p, tok) ==
  CASE p.place = "insert" -> ExpectKeyword(p, tok, "INTO", "insert name")
    [] p.place = "insert name" -> ParseName(p, tok, "values")
    [] p.place = "values" -> ExpectKeyword(p, tok, "VALUES", "insert (")
    [] p.place = "insert (" -> ExpectToken(p, tok, "LPAREN", "value")
    [] p.place = "value" ->
         When(Len(p.stmt.values) < MaxVals /\ IsValue(tok),
              To("value end", [p.stmt EXCEPT !.values = Append(@, ParseValue(tok))]))
    [] p.place = "value end" ->
         ExpectToken(p, tok, "COMMA", "value") \union
         ExpectToken(p, tok, "RPAREN", "end")

(* SELECT * FROM <name> [WHERE <col> <op> <val> [AND ...]] *)
ParseSelect(p, tok) ==
  LET n == Len(p.stmt.conds)
  IN  CASE p.place = "select" -> ExpectToken(p, tok, "STAR", "from")
        [] p.place = "from" -> ExpectKeyword(p, tok, "FROM", "select name")
        [] p.place = "select name" -> ParseName(p, tok, "where")
        [] p.place = "where" -> ExpectKeyword(p, tok, "WHERE", "condition")
        [] p.place = "condition" ->
             When(n < MaxConds /\ tok.type = "IDENT",
                  To("operator", [p.stmt EXCEPT !.conds = Append(@, [col |-> tok.text])]))
        [] p.place = "operator" ->
             When(tok.type \in Ops,
                  To("operand", [p.stmt EXCEPT !.conds[n] = [col |-> @.col, op |-> tok.type]]))
        [] p.place = "operand" ->
             When(IsValue(tok),
                  To("and", [p.stmt EXCEPT !.conds[n] =
                       [col |-> @.col, op |-> @.op, val |-> ParseValue(tok)]]))
        [] p.place = "and" -> ExpectKeyword(p, tok, "AND", "condition")

(* SHOW META | SHOW ALLOC *)
ParseShow(p, tok) ==
  When(IsWord(tok, "META"), To("end", [type |-> "show_meta"])) \union
  When(IsWord(tok, "ALLOC"), To("end", [type |-> "show_alloc"]))

(* The first word of the statement. *)
ParseStart(p, tok) ==
  CASE IsWord(tok, "CREATE") ->
         To("create", [type |-> "create_table", name |-> "", cols |-> <<>>,
                       clustered |-> "HEAP"])
    [] IsWord(tok, "INSERT") ->
         To("insert", [type |-> "insert", name |-> "", values |-> <<>>])
    [] IsWord(tok, "SELECT") ->
         To("select", [type |-> "select", name |-> "", conds |-> <<>>])
    [] IsWord(tok, "SHOW") -> To("show", p.stmt)
    [] OTHER -> {}

(* Mutation of ParseEnd: what follows the statement is not looked at.      *)
ParseEndAnything(p, tok) ==
  When(p.place \in {"storage", "where", "and", "end"},
       IF tok.type = "SEMICOLON" THEN To("end of input", p.stmt) ELSE To("done", p.stmt))
  \union When(p.place = "end of input", To("done", p.stmt))

(* consume_optional_semicolon, and the check that nothing follows.         *)
ParseEnd(p, tok) ==
  When(p.place \in {"storage", "where", "and", "end"},
       ExpectToken(p, tok, "SEMICOLON", "end of input") \union
       ExpectToken(p, tok, "EOF", "done"))
  \union When(p.place = "end of input", ExpectToken(p, tok, "EOF", "done"))

(* kds_parse *)
Parse(p, tok) ==
  ParseEnd(p, tok) \union
  CASE p.place = "start" -> ParseStart(p, tok)
    [] p.place = "show" -> ParseShow(p, tok)
    [] p.place \in {"end", "end of input", "done"} -> {}
    [] OTHER -> CASE p.stmt.type = "create_table" -> ParseCreateTable(p, tok)
                  [] p.stmt.type = "insert" -> ParseInsert(p, tok)
                  [] p.stmt.type = "select" -> ParseSelect(p, tok)

ParseText(text) ==
  FoldLeft(LAMBDA ps, tok : UNION {Parse(p, tok) : p \in ps}, {Start}, text)
=============================================================================
