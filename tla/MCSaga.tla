------------------------------- MODULE MCSaga -------------------------------
(***************************************************************************)
(* Lists of four steps for the run of Saga: with a name used twice or not, *)
(* and with every choice of dependencies from DepLists, among them twice   *)
(* the same step, the step itself and the unknown name 5.                  *)
(***************************************************************************)
EXTENDS Saga

DepLists == {<<>>, <<1>>, <<2>>, <<4>>, <<1, 2>>, <<2, 3>>, <<3, 3>>, <<5>>}

FourSteps ==
    {[i \in 1 .. 4 |-> [name |-> names[i], deps |-> deps[i]]] :
        names \in {<<1, 2, 3, 4>>, <<1, 2, 3, 1>>}, deps \in [1 .. 4 -> DepLists]}

SomeNames == 1 .. 5

Compensations == {{1, 2, 3, 4}, {1, 4}}
=============================================================================
