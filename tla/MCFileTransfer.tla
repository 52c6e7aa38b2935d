--------------------------- MODULE MCFileTransfer ---------------------------
(* Lists of two files, one with two files of one name, the other with a file *)
(* that is named .enc; nobody, only one client, or everybody has the key.    *)
EXTENDS FileTransfer

CONSTANTS o, c1, c2, k

ThePaths == {"dir1/plan", "dir2/plan", "mail.enc"}
TheNames == {"plan", "mail.enc"}
TheBase  == [p \in ThePaths |-> IF p = "mail.enc" THEN "mail.enc" ELSE "plan"]
TheEnc   == {"mail.enc"}
TheLists == {<<"dir1/plan", "dir2/plan">>, <<"dir1/plan", "mail.enc">>}
HasKey(S) == [m \in Machines |-> IF m \in S THEN k ELSE NoKey]
Case(S, downloads, troubles) ==
  [key |-> HasKey(S),
   budget |-> [x \in External |-> IF x = "download" THEN downloads ELSE troubles]]
TheCases == {Case({}, 2, 1), Case({o, c1}, 2, 1), Case(Machines, 2, 0)}
=============================================================================
