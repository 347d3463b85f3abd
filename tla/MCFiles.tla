------------------------------ MODULE MCFiles ------------------------------
(* A volume with two directories and three files, and few enough handles    *)
(* and buffers that commands which fail use them up.                        *)
EXTENDS Files, FiniteSetsExt, TLC

MCDirs == {"top", "boot"}
MCNode == MCDirs \union {"icon", "photo", "text"}

\* Paths: a file, a directory, one below the other with either separator, a
\* way back, and nothing.
MCPath ==
  {<<"text">>, <<"boot">>, <<"..">>, <<"boot", "/", "icon">>, <<"boot", "\\", "icon">>,
   <<"boot", "\\", "photo">>}
MCIconPaths == {<<"boot", "/", "icon">>, <<"boot", "\\", "photo">>, <<"boot">>, <<"..">>}

MCFound ==
  [n \in MCNode |->
     [p \in MCPath |->
        IF n = "boot" /\ p = <<"..">> THEN "top"
        ELSE IF n # "top" THEN "nothing"
        ELSE CASE p = <<"text">> -> "text"
               [] p = <<"boot">> -> "boot"
               [] p = <<"boot", "\\", "icon">> -> "icon"
               [] p = <<"boot", "\\", "photo">> -> "photo"
               [] OTHER -> "nothing"]]

MCBytes ==
  [n \in MCNode |->
     CASE n = "icon" -> <<"BM", "pixel">>
       [] n = "photo" -> <<"JFIF">>
       [] n = "text" -> <<"a", "b">>
       [] OTHER -> <<>>]

MCEntries ==
  [n \in MCNode |->
     CASE n = "top" -> <<"boot", "text">>
       [] n = "boot" -> <<"..", "icon", "photo">>
       [] OTHER -> <<>>]

\* One directory has no size, so that its entries do not fit; the other has one.
MCSize == [n \in MCNode |-> CASE n = "top" -> 0 [] n = "boot" -> 3 [] OTHER -> Len(MCBytes[n])]

\* The firmware gives the lowest that is free.
MCCandidates(F) == IF F = {} THEN {} ELSE {Min(F)}
=============================================================================
