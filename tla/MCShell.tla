------------------------------ MODULE MCShell ------------------------------
(* Lines of at most five characters, of which one is no letter of any word: *)
(* every pattern of spaces and quotes, and a third word that has no place.  *)
EXTENDS Shell

MCChars == {"a", " ", "quote", "0"}
MCCommands == {<<"a">>}
MCStacks == {[p \in 0 .. BufSize - 1 |-> "a"]}
=============================================================================
