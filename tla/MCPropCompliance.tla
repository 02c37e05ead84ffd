-------------------------- MODULE MCPropCompliance --------------------------
(* Small histories over an initial balance of 100.                         *)
EXTENDS PropCompliance

Losses == {-6, -4, 3, 9}
Funded == {<<"ftmo", "challenge">>, <<"topstep", "funded">>, <<"custom", "challenge">>}
Asked  == {<<>>, [daily |-> 0, target |-> 0], [daily |-> 3]}
=============================================================================
