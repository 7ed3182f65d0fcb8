--------------------------- MODULE MCLookupTable ----------------------------
(* A small instance of LookupTable: two letters, one of them in two cases,  *)
(* the space and a hyphen.                                                  *)
EXTENDS LookupTable

MCChar == {32, 45, 65, 66, 97}

MCAlnum == {65, 66, 97}

MCUpper == [c \in MCChar |-> IF c = 97 THEN 65 ELSE c]

LOCAL Texts(chars, n) == UNION {[1 .. k -> chars] : k \in 0 .. n}

(* Names are in upper case: generate follows a tidied load only. *)
LOCAL Names(n) == Texts({32, 45, 65, 66}, n)

LOCAL Pairs(N) == {<<v, w>> : v \in N, w \in N}

MCLists ==
  {<<>>} \cup {<<name>> : name \in Names(4)}
    \cup Pairs(Names(2) \cup {<<65, 66, 65>>, <<65, 32, 66>>, <<66, 45, 65>>})
    \cup {<<<<65, 66>>, <<66, 32, 65, 66>>, <<65>>>>}

MCQueries == Texts({32, 65, 66, 97}, 3) \cup {<<66, 45, 65>>, <<45>>}
=============================================================================
