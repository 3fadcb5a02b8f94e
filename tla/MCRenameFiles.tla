----------------------------- MODULE MCRenameFiles -----------------------------
(* A pack with a season folder and a file beside it.                        *)
EXTENDS RenameFiles

CONSTANTS f1, f2, f3, pack, season

MCHome == (f1 :> <<"pack", "s", "a">>) @@ (f2 :> <<"pack", "s", "b">>)
          @@ (f3 :> <<"pack", "b">>)
          @@ (pack :> <<"pack">>) @@ (season :> <<"pack", "s">>)
MCFileNames == {"a", "A", "b"}
MCRootNames == {"S"}
MCSeasonNames == {"S"}
MCCaseFold == [n \in {"pack", "s"} \cup MCFileNames \cup MCRootNames \cup MCSeasonNames \cup Spare |->
                 CASE n = "A" -> "a" [] n = "S" -> "s" [] OTHER -> n]

ASSUME KindsApart
=============================================================================
