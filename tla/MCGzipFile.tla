------------------------------ MODULE MCGzipFile ------------------------------
(* Files for TLC: a and its compressed form agz, b with its form bgz, and c,  *)
(* which the header of bgz may name as its original.                          *)
EXTENDS GzipFile, TLC

CONSTANTS a, agz, b, bgz, c, cgz

Good(n) == [kind |-> "good", end |-> n]
Bad(k) == [kind |-> k, end |-> 7]

MCContents ==
  {a :> x @@ agz :> y @@ bgz :> z @@ b :> <<>> @@ c :> <<Good(1)>> @@ cgz :> <<>> :
     x \in {<<>>, <<Good(1), Good(2)>>},
     y \in {<<Good(4)>>, <<Good(3), Good(6)>>, <<Good(3), Bad("damaged")>>,
            <<Good(3), Bad("garbage")>>, <<Bad("garbage")>>, <<Bad("unknown")>>, <<>>},
     z \in {<<Good(3), Good(5), Good(6)>>, <<Good(3), Bad("unknown")>>,
            <<Bad("refused")>>, <<Bad("damaged")>>}}
MCBoundary == {a :> <<>> @@ agz :> <<Good(4), Good(6)>>}
MCOutName == [d \in BOOLEAN |-> [n \in Name |->
  IF d THEN CASE n = agz -> a [] n = bgz -> b [] n = cgz -> c [] OTHER -> NoName
       ELSE CASE n = a -> agz [] n = b -> bgz [] n = c -> cgz [] OTHER -> NoName]]
MCSuffixed == [n \in Name |-> CASE n = a -> {agz} [] n = b -> {bgz} [] n = c -> {cgz}
                                [] OTHER -> {}]
MCOrigNames == [n \in Name |-> CASE n = agz -> {NoName, agz} [] n = bgz -> {NoName, c}
                                 [] OTHER -> {NoName}]
MCCommandLines == {<<FALSE, <<a, c>>>>, <<FALSE, <<a, agz, b, c>>>>,
                   <<TRUE, <<agz, b>>>>, <<TRUE, <<a, agz, agz, cgz, b>>>>}
MCGunzip == {<<TRUE, <<agz>>>>}
==============================================================================
