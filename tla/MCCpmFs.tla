------------------------------ MODULE MCCpmFs ------------------------------
(***************************************************************************)
(* Five blocks of data, one of them with a missing sector, and a directory *)
(* of four entries in two blocks.  One image is formatted and empty; on    *)
(* the other the extents of a file are in the wrong order and a second     *)
(* file is read-only.                                                      *)
(***************************************************************************)
EXTENDS CpmFs

MCCode == "*" :> 42 @@ "." :> 46 @@ "0" :> 48 @@ "1" :> 49 @@ "2" :> 50 @@ ":" :> 58 @@ "?" :> 63
          @@ "A" :> 65 @@ "B" :> 66 @@ "X" :> 88 @@ "[" :> 91 @@ "\\" :> 92 @@ "]" :> 93

A == <<"A">>
BX == <<"B", ".", "X">>
BXX == <<"B", ".", "X", "X">>
MCNames == {A, BX, BXX}
All == <<"*", ".", "*">>
MCPatterns == {All, <<"*", ":", "[", "A", "B", "]">>, <<"?", ".", "X">>}
MCTransfers == {<<A, BX>>, <<BX, <<"1", ":", "A">>>>, <<All, <<"1", ":">>>>}
MCKeys == {<<u, <<"A">>, <<>>>> : u \in {0, 1}} \cup {<<u, <<"B">>, <<"X">>>> : u \in {0, 1}}

source(id, records) ==
  [records |-> records, parts |-> [k \in 1 .. ((records + RPB - 1) \div RPB) |-> Part(id, k)]]
MCSources == {NoFile, source("e", 0), source("s", 1), source("t", 4), source("m", 5), source("h", 99)}

entry(user, root, ext, extent, rec, readonly, blk) ==
  [user |-> user, root |-> root, ext |-> ext, extent |-> extent, rec |-> rec,
   readonly |-> readonly, blk |-> blk]
image(d, data) ==
  [b \in Blocks |-> IF b < DBL THEN DirBlock(d, b) ELSE IF b \in DOMAIN data THEN data[b] ELSE Filler]
Empty == [b \in Blocks |-> Filler]
Used == image(0 :> entry(0, <<"A">>, <<>>, 1, 1, FALSE, <<3>>)
              @@ 1 :> entry(0, <<"B">>, <<"X">>, 0, 2, TRUE, <<6>>)
              @@ 2 :> entry(0, <<"A">>, <<>>, 0, 4, FALSE, <<5, 2>>) @@ 3 :> Nuked,
              2 :> Part("a", 2) @@ 3 :> Part("a", 3) @@ 5 :> Part("a", 1) @@ 6 :> Part("b", 1))
MCDisks == {Empty, Used}

=============================================================================
