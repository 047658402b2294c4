----------------------------- MODULE MCCommands -----------------------------
(***************************************************************************)
(* Two columns, the second of every type; up to three rows.  The response  *)
(* and the row buffer have their real sizes, and the words are as long as  *)
(* it takes for two rows to fill a response almost, exactly, or too far.   *)
(* s64 is 20 bits wide: 524287 is the largest, and 52.4287 for a decimal.  *)
(***************************************************************************)
EXTENDS Commands

MCTypeNames == {"int8", "int16", "int32", "int64", "float", "decimal", "bool",
                "varchar", "char"}

MCIntBits == [int8 |-> 8, int16 |-> 10, int32 |-> 12]

MCLineLits == {IntLit(FALSE, 1), IntLit(TRUE, 1048577), StrLit(Text("true", 4))}

MCKeys == {IntLit(FALSE, 1), IntLit(TRUE, 7), IntLit(FALSE, 524287),
           IntLit(FALSE, 1048577)}

MCLits ==
  LET ints == {IntLit(FALSE, 2047), IntLit(TRUE, 128), StrLit(Numeral(TRUE, 3, <<5>>))}
  IN  [int8  |-> ints, int16 |-> ints, int32 |-> ints, int64 |-> {StrLit(Text("true", 4))},
       float |-> {StrLit(Hex(1, TRUE)), Mark("NULL")},
       decimal |-> {IntLit(FALSE, 1), StrLit(Numeral(TRUE, 3, <<0, 5>>)),
                    StrLit(Numeral(TRUE, 0, <<0, 0, 0, 0, 9>>)),
                    StrLit(Numeral(TRUE, 52, <<4, 2, 8, 8>>)), Mark("NULL")},
       bool |-> {IntLit(FALSE, 1), StrLit(Text("true", 4)), IntLit(FALSE, 2)},
       varchar |-> {Mark("NULL"), StrLit(Text("long", 210)), StrLit(Text("longer", 220))},
       char |-> {StrLit(Numeral(TRUE, 0, <<5>>))}]
=============================================================================
