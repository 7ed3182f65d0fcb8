---------------------------- MODULE MCStockerApp ----------------------------
(* A small instance of StockerApp: files of one and of two products, the    *)
(* default location and another, and the files that make a load fail.       *)
EXTENDS StockerApp

MCText == {"TEA", "SALT"}

MCUpper == [t \in MCText |-> t]

LOCAL C(text) == [text |-> text, quotes |-> 0]

LOCAL R(name, counts) ==
  [name |-> C(name), size |-> C("SALT"), short |-> FALSE, counts |-> counts]

LOCAL F(header, locations, rows) ==
  [header |-> header, locations |-> locations, rows |-> rows,
   terminated |-> TRUE]

MCFiles ==
  {F("import_layout", <<>>, <<R("TEA", <<>>)>>),
   F("reuse_layout", <<"Global", "Bar">>, <<R("TEA", <<0, 1>>), R("SALT", <<0, 0>>)>>),
   F("reuse_layout", <<"Bar">>, <<R("TEA", <<1>>), R("SALT", <<NoNumber>>)>>),
   F("reuse_prefix", <<>>, <<>>)}
=============================================================================
