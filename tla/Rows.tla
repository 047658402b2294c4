-------------------------------- MODULE Rows --------------------------------
(***************************************************************************)
(* How a value gets into a row and out again: the types (types.c), and the *)
(* two loops of dshell.c that go over the columns of a row.                *)
(*                                                                         *)
(* A string is what the types tell apart in it: a numeral has a sign, a    *)
(* whole part and digits after the point; a bit pattern is eight hex       *)
(* digits, in upper case or not; anything else is a word and its length.   *)
(* A cell of a row is an integer, or a string that is kept as it is.       *)
(***************************************************************************)
EXTENDS Parser, FiniteSets

CONSTANTS IntBits,   \* [int8, int16, int32 -> their widths]; int64 has LongBits
          RowMax,    \* KDS_DSHELL_ROW_MAX
          NameLen    \* length of a column's name, one for all

Scale == 4           \* KDS_DECIMAL_SCALE

FixedLen == [int8 |-> 1, int16 |-> 2, int32 |-> 4, int64 |-> 8, float |-> 4,
             decimal |-> 8, bool |-> 1, varchar |-> 0, char |-> 0]

ASSUME RowsAssumption ==
  /\ TypeNames = DOMAIN FixedLen
  /\ \A t \in {"int8", "int16", "int32"} : IntBits[t] \in 1 .. LongBits
  /\ {RowMax, NameLen} \subseteq Nat

-----------------------------------------------------------------------------
(* Strings *)
Numeral(neg, whole, frac) == [neg |-> neg, whole |-> whole, frac |-> frac]

Hex(bits, upper) == [bits |-> bits, upper |-> upper]

Text(word, len) == [word |-> word, len |-> len]

IsNumeral(text) == "whole" \in DOMAIN text

IsHex(text) == "bits" \in DOMAIN text

Abs(v) == IF v < 0 THEN -v ELSE v

AsNumeral(v) == Numeral(v < 0, Abs(v), <<>>)

NrDigits(v) == 1 + Cardinality({k \in 1 .. 9 : 10 ^ k <= v})

TextLen(text) ==
  IF IsNumeral(text)
  THEN (IF text.neg THEN 1 ELSE 0) + NrDigits(text.whole)
         + (IF text.frac = <<>> THEN 0 ELSE 1 + Len(text.frac))
  ELSE IF IsHex(text) THEN 8 ELSE text.len

(* The string the encoders are given for a value. *)
ValStr(val) ==
  CASE val.type = "INT"  -> AsNumeral(val.int)
    [] val.type = "STR"  -> val.str
    [] val.type = "NULL" -> Text("", 0)

-----------------------------------------------------------------------------
(* The encoders: the cell, or the empty set where the code has an error.   *)
LongMin == -(2 ^ (LongBits - 1))

(* The range each width is checked against. *)
IntWidth(type) == IF type = "int64" THEN LongBits ELSE IntBits[type]

EncodeInt(text, bits) ==
  LET v == IF text.neg THEN -text.whole ELSE text.whole
  IN  IF /\ IsNumeral(text)
         /\ text.frac = <<>>
         /\ v \in -(2 ^ (bits - 1)) .. 2 ^ (bits - 1) - 1
      THEN {[int |-> v]}
      ELSE {}

EncodeBool(text) ==
  {[int |-> IF text \in {Numeral(FALSE, 1, <<>>), Text("true", 4)} THEN 1 ELSE 0]}

EncodeVarchar(text, room) == IF TextLen(text) > room THEN {} ELSE {[str |-> text]}

EncodeFloat(text) == IF IsHex(text) THEN {[int |-> text.bits]} ELSE {}

Digits(frac) == FoldLeft(LAMBDA v, d : v * 10 + d, 0, frac)

(* Mutation of EncodeDecimal: digits that are not written are not made up. *)
EncodeDecimalUnpadded(text) ==
  LET taken  == SubSeq(text.frac, 1, IF Len(text.frac) < Scale THEN Len(text.frac) ELSE Scale)
      result == Wrap(Wrap(text.whole, LongBits) * 10 ^ Scale + Digits(taken), LongBits)
  IN  IF IsNumeral(text)
      THEN {[int |-> IF text.neg THEN Wrap(-result, LongBits) ELSE result]}
      ELSE {}

(* Scale digits after the point are kept: more are dropped, and where      *)
(* there are fewer the number is multiplied up.                            *)
EncodeDecimal(text) ==
  LET taken  == SubSeq(text.frac, 1, IF Len(text.frac) < Scale THEN Len(text.frac) ELSE Scale)
      frac   == Digits(taken) * 10 ^ (Scale - Len(taken))
      result == Wrap(Wrap(text.whole, LongBits) * 10 ^ Scale + frac, LongBits)
  IN  IF IsNumeral(text)
      THEN {[int |-> IF text.neg THEN Wrap(-result, LongBits) ELSE result]}
      ELSE {}

Encode(type, text, room) ==
  CASE type \in {"int8", "int16", "int32", "int64"} -> EncodeInt(text, IntWidth(type))
    [] type = "float"   -> EncodeFloat(text)
    [] type = "decimal" -> EncodeDecimal(text)
    [] type = "bool"    -> EncodeBool(text)
    [] type \in {"varchar", "char"} -> EncodeVarchar(text, room)

CellSize(type, cell) == IF FixedLen[type] > 0 THEN FixedLen[type] ELSE 2 + TextLen(cell.str)

(* kds_dshell_encode_row_from_vals: the row, or the empty set. *)
EncodeRow(types, vals) ==
  LET fit(type, off) == off + (IF FixedLen[type] > 0 THEN FixedLen[type] ELSE 2) <= RowMax
      step(rows, i) ==
        UNION {IF fit(types[i], r.off)
               THEN {[cells |-> Append(r.cells, c), off |-> r.off + CellSize(types[i], c)] :
                       c \in Encode(types[i], ValStr(vals[i]), RowMax - r.off - 2)}
               ELSE {} : r \in rows}
  IN  {r.cells : r \in FoldLeftDomain(step, {[cells |-> <<>>, off |-> 0]}, types)}

-----------------------------------------------------------------------------
(* The decoders, and what they print. *)
DecodeDecimal(v) ==
  IF v = LongMin   \* -v is v, and both halves are printed with a sign
  THEN Text("--", 4 + NrDigits(2 ^ (LongBits - 1)))
  ELSE Numeral(v < 0, Abs(v) \div 10 ^ Scale,
               [i \in 1 .. Scale |-> (Abs(v) \div 10 ^ (Scale - i)) % 10])

DecodeInt(v) == AsNumeral(v)

DecodeFloat(bits) == Hex(bits, FALSE)   \* lower case, whatever was given

DecodeBool(v) == IF v = 1 THEN Text("true", 4) ELSE Text("false", 5)

Decode(type, cell) ==
  CASE type \in {"int8", "int16", "int32", "int64"} -> DecodeInt(cell.int)
    [] type = "float"   -> DecodeFloat(cell.int)
    [] type = "decimal" -> DecodeDecimal(cell.int)
    [] type = "bool"    -> DecodeBool(cell.int)
    [] type \in {"varchar", "char"} -> cell.str

(* Mutation of Put: snprintf, which returns what it would have written.    *)
PutUnclamped(n, len, size) == n + len

(* n += scnprintf(out + n, size - n, ...): what does not fit is left out.  *)
Put(n, len, size) == IF n + len < size THEN n + len ELSE size - 1

(* The room decode_varchar and decode_float ask for, and do not do without. *)
NeedsRoom(type, text) ==
  IF type \in {"varchar", "char", "float"} THEN TextLen(text) + 1 ELSE 1

EINVAL == -22
ENOSPC == -28

(* kds_dshell_decode_row: the offset after the row, or the error, the      *)
(* texts, and whether all of them were printed whole.                      *)
DecodeRow(cols, cells, n0, size) ==
  LET step(d, i) ==
        LET name == Put(Put(d.n, IF i > 1 THEN 2 ELSE 0, size), NameLen + 1, size)
            text == Decode(cols[i].type, cells[i])
            n    == Put(name, TextLen(text), size)
        IN  IF d.err # 0 THEN d
            ELSE IF i > Len(cells) THEN [d EXCEPT !.err = EINVAL]
            ELSE IF NeedsRoom(cols[i].type, text) > size - name THEN [d EXCEPT !.err = ENOSPC]
            ELSE [d EXCEPT !.n = n,
                           !.texts = Append(@, text),
                           !.whole = @ /\ n = d.n + (IF i > 1 THEN 2 ELSE 0)
                                                  + NameLen + 1 + TextLen(text)]
  IN  FoldLeftDomain(step, [n |-> n0, err |-> 0, texts |-> <<>>, whole |-> TRUE], cols)
=============================================================================
