------------------------------ MODULE MCAnswers ------------------------------
(* Model answers for a pack of two items and a taxonomy of two keys: sound,  *)
(* not an object, without a claim list, contradicting itself, citing outside *)
(* the pack, and speaking of a key nobody asked for.                         *)
EXTENDS TLC
CONSTANT Absent

Claim(key, cited, contradictory) ==
  [whole |-> TRUE, key |-> key, kind |-> "fact", materiality |-> 3, text |-> TRUE,
   cited |-> cited, contradictory |-> contradictory, condition |-> TRUE]
Saying(claims) == [object |-> TRUE, list |-> TRUE, numbers |-> TRUE, missing |-> TRUE,
  thesis |-> TRUE, claims |-> claims]
Good == Saying(<<Claim("growth", <<1>>, Absent)>>)
OffTopic == Saying(<<Claim("other", <<1>>, Absent)>>)
MCAnswers == {Good, OffTopic, [Good EXCEPT !.object = FALSE], [Good EXCEPT !.list = FALSE],
  Saying(<<Claim("growth", <<1>>, <<2>>)>>), Saying(<<Claim("growth", <<3>>, Absent)>>)}
MCFew == {Good, OffTopic}
MCRoute == [r \in {"neutral_analyst_a", "arbiter"} |-> "p1"] @@ [r \in {"neutral_analyst_b", "red_team"} |-> "p2"]
MCOrder == <<"neutral_analyst_a", "neutral_analyst_b">>
=============================================================================
