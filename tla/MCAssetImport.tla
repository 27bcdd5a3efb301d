---------------------------- MODULE MCAssetImport ----------------------------
(* Files of two names: sound ones, one that repeats a name, one with a row  *)
(* without a name and one that is ragged, one that the database refuses,    *)
(* one with too many rows, a dry run, and one with the header NAME that     *)
(* repeats a name.                                                          *)
EXTENDS AssetImport

CONSTANTS a, b

File(header, dry, rows) ==
  [header |-> header, dry_run |-> dry,
   rows |-> [i \in 1..Len(rows) |-> [name |-> rows[i][1], value |-> rows[i][2]]]]
Sound(n) == <<n, "sound">>

MCFiles ==
  {File("NAME", FALSE, <<Sound(a), Sound(a)>>),
   File("name", FALSE, <<Sound(a)>>),
   File("name", FALSE, <<Sound(a), Sound(b), Sound(a)>>),
   File("name", FALSE, <<Sound(NoName), <<a, "ragged">>, Sound(b)>>),
   File("name", FALSE, <<Sound(b), <<a, "refused">>>>),
   File("name", FALSE, <<Sound(b), Sound(NoName), Sound(NoName), Sound(NoName)>>),
   File("name", TRUE, <<Sound(a)>>)}
=============================================================================
