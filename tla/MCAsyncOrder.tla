---------------------------- MODULE MCAsyncOrder ----------------------------
(* Programs of a root P that calls up to three of A, B (finalizers) and X *)
(* (no finalizer), where A may call B, or X and then B; every finalizer   *)
(* passes its futures after a plain input and awaits them in any order,   *)
(* or awaits the plain input.                                              *)
EXTENDS AsyncOrder, SequencesExt

MCFuncs == {"P", "A", "B", "X"}
MCFin == {"P", "A", "B"}

(* The async operands: a plain input, then each finalizer call's future.   *)
ArgsOf(c) == <<0>> \o SetToSortSeq({j \in 1..Len(c) : c[j] \in MCFin}, <)

AwaitChoices(c) == SetToSeqs(2..Len(ArgsOf(c))) \cup {<<1>>}

MCPrograms ==
    UNION {{[fin |-> MCFin,
             calls |-> ("P" :> cp @@ "A" :> ca @@ "B" :> <<>> @@ "X" :> <<>>),
             args |-> ("P" :> ArgsOf(cp) @@ "A" :> ArgsOf(ca)
                       @@ "B" :> <<0>> @@ "X" :> <<>>),
             awaits |-> ("P" :> wp @@ "A" :> wa @@ "B" :> <<>> @@ "X" :> <<>>)] :
              wp \in AwaitChoices(cp), wa \in AwaitChoices(ca)} :
           cp \in BoundedSeq({"A", "B", "X"}, 3),
           ca \in {<<>>, <<"B">>, <<"X", "B">>}}
=============================================================================
