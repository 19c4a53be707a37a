----------------------------- MODULE MCFileTools -----------------------------
(* An instance of FileTools for TLC: a folder (1) with a folder (2) that has *)
(* a folder (3), a secret folder (6), a link (8) and a restricted one (9).   *)
EXTENDS FileTools

Parent1 == [e \in Entries |->
              CASE e \in {1} -> 0
                [] e \in {2, 6, 8, 9, 11, 12} -> 1
                [] e = 3 -> 2 [] e = 4 -> 3 [] e = 5 -> 2
                [] e = 7 -> 6 [] e = 10 -> 9]
=============================================================================
