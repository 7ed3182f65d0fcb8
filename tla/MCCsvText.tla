----------------------------- MODULE MCCsvText ------------------------------
(* A small instance of CsvText: marks, commas and one letter.               *)
EXTENDS CsvText

CONSTANT A

LOCAL Strings(m, n) == UNION {[1 .. k -> {A, Quote, Comma}] : k \in m .. n}

LOCAL Q == Quote
LOCAL C == Comma

MCChar == {A, Quote, Comma}

MCText == {<<>>, <<A>>, <<A, A>>}

MCUpper == [t \in MCText |-> t]

MCGlobal == <<A, A>>

MCLocation == Strings(1, 2) \cup {MCGlobal, <<Q, C, Q>>, <<A, Q, C>>, <<Q, A, Q>>}

(* Every line of a few characters behind the first comma, and names and     *)
(* sizes that other programs write for a comma and marks in a cell.         *)
MCLists ==
  {<< <<C>> \o s >> : s \in Strings(0, 4)}
    \cup {<< <<C>> \o s \o <<C, A>> >> :
            s \in {<<Q, Q, Q, C, Q, Q, Q>>, <<Q, A, Q, Q, C, Q, Q, A, Q>>,
                   <<A, Q, C, Q, A>>, <<Q, Q, Q, A, Q, Q, Q>>, <<Q, A, C, A, Q>>}}
    \cup {<< <<C, A, C, A, C, A>>, <<C, A, C, Q, A>> >>, <<>>}
=============================================================================
