---------------------------- MODULE MCTokenizer ----------------------------
(* Instance of Formatter: every text of up to MaxFragments fragments.      *)
EXTENDS Formatter

CONSTANT MaxFragments   \* fragments in a source text

Fragments ==
  {<<" ">>, <<"\n">>, <<"\\">>, <<"/">>, <<"/", "*">>, <<"*", "/">>, <<"#">>,
   <<"o", "p", "_">>, <<"a">>, <<"i", "f">>, <<"i", "n">>, <<"0">>, <<"0", "x">>, <<".">>, <<"1", "e", "-">>,
   <<"\"">>, <<"'">>, <<"'", "\\", "x">>, <<"=">>, <<"-">>, <<"*">>, <<"|">>, <<":">>, <<",">>, <<"lead">>, <<"cont">>, <<"$">>}

MCSources == {FlattenSeq(fs) : fs \in UNION {[1..n -> Fragments] : n \in 0..MaxFragments}}

MCKeywords == {<<"i", "f">>, <<"i", "n">>}
============================================================================
