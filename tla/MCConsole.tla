----------------------------- MODULE MCConsole ------------------------------
(* Instances of Console for TLC. *)
EXTENDS Console

CONSTANTS n1, d1

(* "ab" stands for itself, "e" also occurs in "set", "x" stands for a word *)
(* that contains exit, "o" for one that contains open.                     *)
MCWords == {<<"a", "b">>, <<"a", "b", "c">>, <<"e">>, <<"x">>, <<"o">>}
MCOldRecords == {None, <<"o", "l", "d">>}
MCEarly == {<<"e">>}
Prefixes == UNION {{SubSeq(w, 1, i) : i \in 0 .. Len(w)} : w \in MCWords}
MCKeywordsIn ==
  [w \in Prefixes |-> IF w = <<"x">> THEN {"exit"} ELSE IF w = <<"o">> THEN {"open"} ELSE {}]
MCDigitFile == [k \in Keys |-> d1]

(* A list that is accepted, one that is too short and one that does not    *)
(* fit.                                                                    *)
MCServerLists == {<<<<"m">>, <<"s">>>>, <<<<"m">>>>, <<<<"m">>, <<"s">>, <<"t">>>>}
=============================================================================
