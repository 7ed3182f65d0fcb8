---------------------------- MODULE MCStockTable ----------------------------
(* A small instance of StockTable: two products, one place besides the      *)
(* default one, and one file for every way a load can go.                   *)
EXTENDS StockTable

MCText == {"tea", "TEA", "salt", "SALT"}

MCUpper == [t \in MCText |->
  CASE t = "tea" -> "TEA" [] t = "salt" -> "SALT" [] OTHER -> t]

MCDelta == {-1, 2}

LOCAL C(text, quotes) == [text |-> text, quotes |-> quotes]

LOCAL R(name, size, counts) ==
  [name |-> name, size |-> size, short |-> FALSE, counts |-> counts]

LOCAL F(header, locations, rows) ==
  [header |-> header, locations |-> locations, rows |-> rows,
   terminated |-> TRUE]

LOCAL Cut(row) == [row EXCEPT !.short = TRUE]

LOCAL Tea == R(C("tea", 0), C("salt", 1), <<>>)

(* A name that is still wrapped after a load has stripped two pairs. *)
LOCAL Salt == R(C("salt", 3), C("tea", 0), <<>>)

(* The last row of the file has no line break. *)
LOCAL Unended(file) == [file EXCEPT !.terminated = FALSE]

MCFiles ==
  LET stock == F("import_layout", <<>>, <<Tea, Salt>>)
      saved == F("reuse_layout", <<"Bar", "Global">>,
                 <<[Tea EXCEPT !.counts = <<1, 2>>],
                   [Salt EXCEPT !.counts = <<0, 1>>]>>)
      twins == F("reuse_layout", <<"Bar", "Bar">>,
                 <<[Tea EXCEPT !.counts = <<1, 2>>]>>)
      typo  == F("reuse_layout", <<"Bar", "Global">>,
                 <<[Tea EXCEPT !.counts = <<2, 1>>],
                   [Salt EXCEPT !.counts = <<1, NoNumber>>]>>)
      bare  == F("reuse_layout", <<>>, <<Tea>>)
      torn  == F("reuse_layout", <<"Bar", "Global">>,
                 <<[Tea EXCEPT !.counts = <<1, 2>>],
                   [Salt EXCEPT !.counts = <<1>>]>>)
  IN  {stock, Unended(stock), saved, twins, typo, bare, torn, Unended(torn),
       F("import_layout", <<>>, <<Tea, Cut(Salt)>>),
       F("import_prefix", <<>>, <<>>), F("reuse_prefix", <<>>, <<>>),
       F("bom_other", <<>>, <<Tea>>), F("other", <<>>, <<>>)}
=============================================================================
