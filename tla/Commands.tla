------------------------------ MODULE Commands ------------------------------
(***************************************************************************)
(* The command shell, from the text of a statement to the table and back:  *)
(* a line is parsed (Parser), CREATE TABLE fills the catalog column by     *)
(* column, INSERT encodes a row (Rows) and leaves it to the executor, and  *)
(* SELECT prints the rows, one after the other, into a response of a fixed *)
(* size.  Lines come from several clients: while a table is being made, a  *)
(* row is with the executor or a table is being printed, others go on.     *)
(*                                                                         *)
(* Abstracted: the catalog's pages and the heap's are Catalog and          *)
(* HeapInsert; here a table is the columns that can be found by now and a  *)
(* sequence of rows, the heap's slots in order.  The responses of commands *)
(* other than SELECT have no effect and are left out.                      *)
(***************************************************************************)
EXTENDS Rows

CONSTANTS TableNames, ColNames,  \* names used where any identifier will do
          LineLits,              \* literals in a line typed token by token
          Keys,                  \* literals inserted in the first column
          Lits,                  \* [TypeNames -> literals inserted in the second]
          OutSize,               \* DSHELL_RESP_MAX
          PrefixLen, TrailerLen, \* lengths of "page=.. [..] xmin=.. xmax=.. " and of "row(s)"
          MaxRows                \* rows of a table

ASSUME CommandsAssumption ==
  /\ {OutSize, MaxRows, TrailerLen} \subseteq Nat
  /\ PrefixLen >= 28
  /\ OutSize > 2 * PrefixLen

VARIABLES
  line,     \* what a client has written of a line
  parser,   \* where the parser is in it, or nothing if it gave up
  table,    \* the table: its name, declared columns and storage
  made,     \* number of its columns that are in the catalog
  pending,  \* a row that is with the executor
  rows,     \* the rows that have been inserted
  scan      \* the SELECT in progress, or the last one

vars == <<line, parser, table, made, pending, rows, scan>>

NoTable == [name |-> "", cols |-> <<>>, clustered |-> "HEAP"]

NoScan == [state |-> "none", n |-> 3, slot |-> 0, nr |-> 0, cols |-> <<>>,
           lines |-> <<>>, clean |-> TRUE, truncated |-> FALSE]

Init ==
  /\ line = <<>>
  /\ parser = {Start}
  /\ table = NoTable
  /\ made = 0
  /\ pending = <<>>
  /\ rows = <<>>
  /\ scan = NoScan

-----------------------------------------------------------------------------
(* Before there is a table, a line is built from every token, as long as   *)
(* the parser still goes along.  Keywords are names too; where any name    *)
(* will do, some are tried.                                                *)
Keywords == {"CREATE", "TABLE", "HEAP", "BTREE", "INSERT", "INTO", "VALUES", "SELECT",
             "FROM", "WHERE", "AND", "SHOW", "META", "ALLOC"}

Tokens ==
  {Word(w) : w \in Keywords \union TypeNames \union TableNames \union ColNames}
    \union LineLits
    \union {Mark(m) : m \in Ops \union {"LPAREN", "RPAREN", "COMMA", "SEMICOLON", "STAR",
                                         "NULL", "ERROR"}}

Sampled(p, tok) ==
  tok.type = "IDENT" =>
    /\ p.place \in {"create name", "insert name", "select name"} => tok.text \in TableNames
    /\ p.place \in {"column", "condition"} => tok.text \in ColNames

Extend(tok) ==
  /\ table = NoTable
  /\ \E p \in parser :
       /\ Sampled(p, tok)
       /\ parser' = Parse(p, tok)
  /\ line' = Append(line, tok)
  /\ UNCHANGED <<table, made, pending, rows, scan>>

(* kds_parse at the end of the line: the statement, or nothing. *)
Statement == {q.stmt : q \in UNION {Parse(p, Mark("EOF")) : p \in parser}}

(* Once there is a table, whole lines are written: INSERTs and a SELECT. *)
Joined(parts) ==
  FoldLeftDomain(LAMBDA s, i : s \o (IF i = 1 THEN <<>> ELSE <<Mark("COMMA")>>) \o parts[i],
                 <<>>, parts)

InsertText(name, lits) ==
  <<Word("INSERT"), Word("INTO"), Word(name), Word("VALUES"), Mark("LPAREN")>>
    \o Joined([i \in DOMAIN lits |-> <<lits[i]>>]) \o <<Mark("RPAREN")>>

SelectText(name) == <<Word("SELECT"), Mark("STAR"), Word("FROM"), Word(name)>>

WholeLines(type) ==
  {SelectText(name) : name \in TableNames}
    \union {InsertText(name, <<k>>) : name \in TableNames, k \in Keys}
    \union {InsertText(name, <<k, v>>) : name \in TableNames, k \in Keys, v \in Lits[type]}

WholeStatements ==
  [type \in TypeNames |->
     {p.stmt : p \in UNION {ParseText(Append(text, Mark("EOF"))) : text \in WholeLines(type)}}]

-----------------------------------------------------------------------------
(* The statements.  kds_relation_open finds the columns made so far. *)
Schema == SubSeq(table.cols, 1, made)

Types(cols) == [i \in DOMAIN cols |-> cols[i].type]

Found(stmt) == table # NoTable /\ stmt.name = table.name

(* kds_cmd_create_table; one table is made. *)
CreateTable(stmt) ==
  /\ stmt.type = "create_table"
  /\ table = NoTable
  /\ stmt.cols[1].type = "int64"
  /\ table' = [name |-> stmt.name, cols |-> stmt.cols, clustered |-> stmt.clustered]
  /\ UNCHANGED <<made, pending, rows, scan>>

(* kds_catalog_create_table goes on with the columns. *)
InsertColumnRow ==
  /\ made < Len(table.cols)
  /\ made' = made + 1
  /\ UNCHANGED <<line, parser, table, pending, rows, scan>>

(* kds_cmd_insert_row, as far as it hands the row to the executor. *)
InsertRow(stmt) ==
  /\ stmt.type = "insert"
  /\ pending = <<>>
  /\ Len(rows) < MaxRows
  /\ Found(stmt)
  /\ Len(stmt.values) = made
  /\ \E cells \in EncodeRow(Types(Schema), stmt.values) :
       pending' = <<[cells |-> cells, vals |-> stmt.values]>>
  /\ UNCHANGED <<table, made, rows, scan>>

(* The executor refuses a key it finds. *)
ExecInsert ==
  /\ pending # <<>>
  /\ rows' = IF \E i \in DOMAIN rows : rows[i].cells[1] = pending[1].cells[1]
             THEN rows
             ELSE rows \o pending
  /\ pending' = <<>>
  /\ UNCHANGED <<line, parser, table, made, scan>>

(* kds_cmd_scan_table.  The conditions of a WHERE are not looked at. *)
ScanTable(stmt) ==
  /\ stmt.type = "select"
  /\ scan.state \in {"none", "done"}
  /\ Found(stmt)
  /\ table.clustered = "HEAP"
  /\ scan' = [NoScan EXCEPT !.state = "open", !.cols = Schema]
  /\ UNCHANGED <<table, made, pending, rows>>

(* Everything else gets an answer that says why not, and SHOW its own. *)
CreateRefused(stmt) == stmt.type = "create_table" /\ stmt.cols[1].type # "int64"

InsertRefused(stmt) ==
  /\ stmt.type = "insert"
  /\ \/ ~Found(stmt)
     \/ Len(stmt.values) # made
     \/ Len(stmt.values) = made /\ EncodeRow(Types(Schema), stmt.values) = {}

SelectRefused(stmt) ==
  stmt.type = "select" /\ (~Found(stmt) \/ table.clustered # "HEAP")

Show(stmt) == stmt.type \in {"show_meta", "show_alloc"}

Answer(stmt) ==
  /\ CreateRefused(stmt) \/ InsertRefused(stmt) \/ SelectRefused(stmt) \/ Show(stmt)
  /\ UNCHANGED <<table, made, pending, rows, scan>>

(* kds_dshell_write *)
DshellWrite ==
  /\ line' = <<>>
  /\ parser' = {Start}
  /\ \/ \E stmt \in IF table = NoTable THEN Statement ELSE WholeStatements[Last(table.cols).type] :
          CreateTable(stmt) \/ InsertRow(stmt) \/ ScanTable(stmt) \/ Answer(stmt)
     \/ /\ table = NoTable /\ Statement = {}   \* a parse error
        /\ UNCHANGED <<table, made, pending, rows, scan>>

(* The page is looked up, and its number of slots read, once. *)
ScanPage ==
  /\ scan.state = "open"
  /\ scan' = [scan EXCEPT !.state = "rows", !.nr = Len(rows)]
  /\ UNCHANGED <<line, parser, table, made, pending, rows>>

(* A row: an error of DecodeRow is added to n like a length. *)
ScanRow ==
  LET start == Put(scan.n, PrefixLen, OutSize)
      d     == DecodeRow(scan.cols, rows[scan.slot + 1].cells, start, OutSize)
      clean == /\ scan.clean /\ d.err = 0 /\ d.whole
               /\ start = scan.n + PrefixLen
  IN  /\ scan.state = "rows"
      /\ scan.slot < scan.nr
      /\ scan' = IF scan.n + 16 >= OutSize
                 THEN [scan EXCEPT !.state = "done", !.truncated = TRUE,
                                   !.n = Put(@, 15, OutSize)]
                 ELSE [scan EXCEPT !.slot = @ + 1,
                                   !.n = IF d.err = 0 THEN d.n ELSE start + d.err,
                                   !.clean = clean,
                                   !.lines = IF clean THEN Append(@, d.texts) ELSE @]
      /\ UNCHANGED <<line, parser, table, made, pending, rows>>

ScanEnd ==
  /\ scan.state = "rows"
  /\ scan.slot = scan.nr
  /\ scan' = [scan EXCEPT !.state = "done", !.n = Put(@, TrailerLen, OutSize)]
  /\ UNCHANGED <<line, parser, table, made, pending, rows>>

Next ==
  \/ \E tok \in Tokens : Extend(tok)
  \/ DshellWrite
  \/ InsertColumnRow
  \/ ExecInsert
  \/ ScanPage
  \/ ScanRow
  \/ ScanEnd

Spec == Init /\ [][Next]_vars

-----------------------------------------------------------------------------
(* The grammar of kds_parser.h as a set of sentences, each with what it    *)
(* means: the lines that can be typed when the names and literals above    *)
(* are all there are.                                                      *)
Meaning(tok) ==
  CASE tok.type = "INT_LIT" ->
         [type |-> "INT",
          int |-> Wrap(IF tok.neg THEN -tok.whole ELSE tok.whole, LongBits)]
    [] tok.type = "STR_LIT" -> [type |-> "STR", str |-> tok.str]
    [] OTHER -> [type |-> "NULL"]

Values == LineLits \union {Mark("NULL")}

ListsOf(S, max) == UNION {[1 .. n -> S] : n \in 1 .. max}

CreateSentences ==
  {[text |-> <<Word("CREATE"), Word("TABLE"), Word(name), Mark("LPAREN")>>
               \o Joined([i \in DOMAIN cols |-> <<Word(cols[i].name), Word(cols[i].type)>>])
               \o <<Mark("RPAREN")>> \o storage,
    stmt |-> [type |-> "create_table", name |-> name, cols |-> cols,
              clustered |-> IF storage = <<Word("BTREE")>> THEN "BTREE" ELSE "HEAP"]] :
     name \in TableNames,
     cols \in ListsOf([name : ColNames, type : TypeNames], MaxCols),
     storage \in {<<>>, <<Word("HEAP")>>, <<Word("BTREE")>>}}

InsertSentences ==
  {[text |-> InsertText(name, lits),
    stmt |-> [type |-> "insert", name |-> name,
              values |-> [i \in DOMAIN lits |-> Meaning(lits[i])]]] :
     name \in TableNames, lits \in ListsOf(Values, MaxVals)}

Conditions == [col : ColNames, op : Ops, lit : Values]

SelectSentences ==
  {[text |-> SelectText(name) \o
             FlattenSeq([i \in DOMAIN conds |->
               <<Word(IF i = 1 THEN "WHERE" ELSE "AND"), Word(conds[i].col),
                 Mark(conds[i].op), conds[i].lit>>]),
    stmt |-> [type |-> "select", name |-> name,
              conds |-> [i \in DOMAIN conds |->
                [col |-> conds[i].col, op |-> conds[i].op, val |-> Meaning(conds[i].lit)]]]] :
     name \in TableNames, conds \in {<<>>} \union ListsOf(Conditions, MaxConds)}

ShowSentences ==
  {[text |-> <<Word("SHOW"), Word("META")>>, stmt |-> [type |-> "show_meta"]],
   [text |-> <<Word("SHOW"), Word("ALLOC")>>, stmt |-> [type |-> "show_alloc"]]}

Sentences ==
  LET plain == CreateSentences \union InsertSentences \union SelectSentences
                 \union ShowSentences
  IN  plain \union {[s EXCEPT !.text = Append(@, Mark("SEMICOLON"))] : s \in plain}

SentenceTexts == {s.text : s \in Sentences}

Beginnings == UNION {Prefixes(text) : text \in SentenceTexts}

(* The parser accepts exactly the sentences of the documented grammar,     *)
(* with or without a semicolon and nothing after it, takes each for the    *)
(* statement it is, and does not give up on a line that could still become *)
(* a sentence: kds_parse against the grammar at the head of kds_parser.h.  *)
ParsesGrammar ==
  /\ \A stmt \in Statement : [text |-> line, stmt |-> stmt] \in Sentences
  /\ line \in SentenceTexts => Statement # {}
  /\ line \in Beginnings => parser # {}

-----------------------------------------------------------------------------
(* What a reader expects to be shown of a value in a column of each type.  *)
(* A decimal that does not fit an s64, or that is its least value, may be  *)
(* shown as anything: the code checks for neither.                         *)
Shows(type, text, val) ==
  LET given == ValStr(val)
      frac  == [i \in 1 .. Scale |-> IF i <= Len(given.frac) THEN given.frac[i] ELSE 0]
      zero  == given.whole = 0 /\ \A i \in 1 .. Scale : frac[i] = 0
  IN  CASE type \in {"int8", "int16", "int32", "int64"} ->
             text = [given EXCEPT !.neg = @ /\ given.whole # 0]
        [] type = "float"   -> text = Hex(given.bits, FALSE)
        [] type = "decimal" ->
             given.whole * 10 ^ Scale + Digits(frac) < -LongMin
               => text = Numeral(given.neg /\ ~zero, given.whole, frac)
        [] type = "bool"    ->
             (text = Text("true", 4)) <=>
                (given = Text("true", 4) \/ given = Numeral(FALSE, 1, <<>>))
        [] type \in {"varchar", "char"} -> text = given

(* A SELECT prints the rows that were inserted, in their order and each    *)
(* once, and every column's value as it was given, up to the first row     *)
(* that it has no room for or cannot decode; unless it meets one, it       *)
(* prints all the rows the page had, or says that it did not:              *)
(* kds_cmd_scan_table over kds_dshell_encode_row_from_vals, kds_type_table *)
(* and kds_dshell_decode_row.                                              *)
ScanShowsRows ==
  /\ \A i \in DOMAIN scan.lines :
       /\ Len(scan.lines[i]) = Len(scan.cols)
       /\ \A c \in DOMAIN scan.cols :
            Shows(scan.cols[c].type, scan.lines[i][c], rows[i].vals[c])
  /\ scan.state = "done" /\ scan.clean => (Len(scan.lines) < scan.nr <=> scan.truncated)

TypeOK ==
  /\ made \in 0 .. Len(table.cols)
  /\ Len(pending) <= 1
  /\ Len(rows) <= MaxRows
  /\ scan.state \in {"none", "open", "rows", "done"}
  /\ scan.slot \in 0 .. scan.nr
  /\ scan.nr \in 0 .. Len(rows)

(* The offset a SELECT writes at stays inside the response and behind its  *)
(* "OK ", although the code of an error is added to it like a length: the  *)
(* row's heading is never shorter than an error takes back, and no write   *)
(* counts more than it wrote (kds_cmd_scan_table).                         *)
OffsetInBounds ==
  /\ TypeOK
  /\ scan.n \in 3 .. OutSize - 1
=============================================================================
