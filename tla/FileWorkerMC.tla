---------------------------- MODULE FileWorkerMC ----------------------------
(***************************************************************************)
(* FileWorker on every short file with several line ends, alone, and on    *)
(* three clients beside each other; and on one file whose first chunk ends *)
(* in the first byte of a line end.                                        *)
(***************************************************************************)
EXTENDS FileWorker, TLC

CONSTANTS c1, c2, c3

Use(k1, k2, k3, text, eol, room, fails) ==
  [kind |-> (c1 :> k1 @@ c2 :> k2 @@ c3 :> k3), text |-> text, eol |-> eol,
   room |-> room, incEol |-> Len(eol) = 2, fails |-> fails]

\* Files of up to six bytes of two kinds; line ends that may begin anew before
\* they are complete, at their first and at a later byte.
Texts == UNION {[1..n -> {1, 2}] : n \in 0..6}
Eols  == {<<1, 2>>, <<1, 1, 2>>, <<1, 2, 1, 1>>}

MCPrograms ==
  {Use("line", "none", "none", t, e, 6, FALSE) : t \in Texts, e \in Eols}
  \cup {Use("line", "write", "none", <<2, 1, 2>>, <<1, 2>>, 3, TRUE),
        Use("line", "read", "none", <<2, 1, 2, 1>>, <<1, 2>>, 4, TRUE),
        Use("read", "write", "line", <<1>>, <<1, 2>>, 1, FALSE),
        Use("name", "name", "none", <<>>, <<1, 2>>, 1, TRUE),
        Use("name", "name", "name", <<>>, <<1, 2>>, 1, FALSE)}

\* The first chunk holds three bytes of a line and the first of its end.
EarlyEofPrograms == {Use("line", "none", "none", <<2, 2, 2, 1, 2>>, <<1, 2>>, 6, FALSE)}
=============================================================================
