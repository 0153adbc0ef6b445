---------------------------- MODULE MCFixPipeline ----------------------------
(***************************************************************************)
(* FixPipeline for TLC.  Two sessions belong to one client, one to         *)
(* another, one to nobody.  Numbers have eight bits.                       *)
(***************************************************************************)
EXTENDS FixPipeline

\* Ticks of 1/2, 1/10, 5, 25/100; the largest maximum; no tick at all, a tick
\* and a scale for which the arithmetic would wrap.
MCConfigurations ==
  {[tick |-> t[1], priceScale |-> t[2], maxPrice |-> t[3], lotSize |-> t[4], maxOrderQuantity |-> t[5]] :
     t \in {<<5, 1, 51, 1, 255>>, <<1, 1, 255, 5, 95>>, <<5, 0, 11, 9, 254>>, <<25, 2, 10, 9, 254>>, <<1, 2, 255, 5, 95>>,
            <<0, 1, 9, 1, 255>>, <<5, 1, 52, 5, 95>>, <<1, 3, 9, 0, 255>>}}

MCClientOf == [s \in {"s1", "s2", "s3"} |-> IF s = "s3" THEN "beth" ELSE "adam"]

Order(id, price) ==
  [type |-> "D", id |-> id, quantity |-> <<9>>, price |-> price, target |-> <<>>, wellFormed |-> TRUE]
Cancel(id, target) ==
  [type |-> "F", id |-> id, quantity |-> <<>>, price |-> <<>>, target |-> target, wellFormed |-> TRUE]

\* An identifier is sent with two contents; some messages never make a command.
MCMessages ==
  {Order(1, <<1, Point, 5>>), Order(1, <<2>>), Cancel(2, <<0, 1>>),
   Order(2, <<9, 9>>), Cancel(2, <<0>>), [Order(2, <<2>>) EXCEPT !.wellFormed = FALSE],
   [Order(2, <<2>>) EXCEPT !.type = "8"]}
=============================================================================
