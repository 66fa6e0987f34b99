----------------------------- MODULE AsyncOrder -----------------------------
(***************************************************************************)
(* The call-graph tracer of src/interpreter/interpreter.py: build_async_   *)
(* order and _trace_execution, which compute the order in which the        *)
(* finalize scopes of an execution run, from the static call graph of the  *)
(* root function and the await commands of each finalize body.             *)
(*                                                                         *)
(* A program is a record over the function names Funcs:                    *)
(*   calls[f]   the callee of each call instruction of f, in order;        *)
(*   args[f]    the operands of f's async instruction: the call position   *)
(*              whose future is passed, or 0 for a plain input;            *)
(*   awaits[f]  the finalize parameter of each await command of f;         *)
(*   fin        the functions that declare a finalize scope.               *)
(* Transition ids are positions in the execution's transition list, which  *)
(* lists callees before their caller and the root last, so a call's        *)
(* transition id is its index in the static call graph.                    *)
(***************************************************************************)
EXTENDS Integers, Sequences, TLC

CONSTANTS
    Funcs,      \* function names ("program/function")
    Root,       \* the function of the execution's last transition
    Programs    \* the programs the tracer may be given

ASSUME RootAssumption == Root \in Funcs

ASSUME ProgramsAssumption ==
    \A p \in Programs :
        /\ p.fin \subseteq Funcs /\ Root \in p.fin
        /\ p.calls \in [Funcs -> Seq(Funcs)]
        /\ p.args \in [Funcs -> Seq(Nat)]
        /\ p.awaits \in [Funcs -> Seq(Nat \ {0})]

VARIABLES
    prog,       \* the program being traced
    order,      \* the async order returned by build_async_order
    status      \* "idle", "done", or the exception the tracer raised

vars == <<prog, order, status>>

-----------------------------------------------------------------------------
(* The static call graph (Program.call_graph, outside this source tree):  *)
(* per call instruction in order, a node for each callee that declares a  *)
(* finalize scope, with the callee's own calls nested under it.           *)

RECURSIVE Size(_, _), Offset(_, _, _)

(* The number of transitions of one call of f: its own and its callees'.  *)
Size(p, f) == 1 + Offset(p, f, Len(p.calls[f]) + 1)

(* Transitions of the calls of f before its j-th call.                     *)
Offset(p, f, j) ==
    IF j = 1 THEN 0 ELSE Offset(p, f, j - 1) + Size(p, p.calls[f][j - 1])

(* The call j of f, whose transitions start at position b + Offset.        *)
CallIndex(p, f, b, j) == b + Offset(p, f, j) + Size(p, p.calls[f][j]) - 1

RECURSIVE NodesFrom(_, _, _, _)
NodesFrom(p, f, b, j) ==
    IF j > Len(p.calls[f]) THEN <<>>
    ELSE LET g == p.calls[f][j]
             here == IF g \in p.fin
                     THEN <<[name |-> g, index |-> CallIndex(p, f, b, j),
                             calls |-> NodesFrom(p, g, b + Offset(p, f, j), 1)]>>
                     ELSE <<>>
         IN here \o NodesFrom(p, f, b, j + 1)

CallGraph(p, f, b) == NodesFrom(p, f, b, 1)

-----------------------------------------------------------------------------
(* _trace_execution.  A result is [ok, err, order]: the async order so far *)
(* and, when ok is FALSE, the exception that ended the trace.              *)

Fail(e, acc) == [ok |-> FALSE, err |-> e, order |-> acc]
Done(acc) == [ok |-> TRUE, err |-> "none", order |-> acc]

(* The call instructions from the j-th on: future_register_map maps the   *)
(* destination register of each call of a finalizer to node["calls"]      *)
(* [call_index]; call_index counts every call, finalizer or not.           *)
RECURSIVE FutureMap(_, _, _, _, _, _)
FutureMap(p, f, node, j, ci, fm) ==
    IF j > Len(p.calls[f]) THEN [ok |-> TRUE, err |-> "none", map |-> fm]
    ELSE LET g == p.calls[f][j] IN
         IF g \notin p.fin THEN FutureMap(p, f, node, j + 1, ci + 1, fm)
         ELSE IF ci >= Len(node.calls)
         THEN [ok |-> FALSE, err |-> "IndexError", map |-> fm]
         ELSE IF node.calls[ci + 1].name # g
         THEN [ok |-> FALSE, err |-> "call analysis failed", map |-> fm]
         ELSE FutureMap(p, f, node, j + 1, ci + 1, (j :> node.calls[ci + 1]) @@ fm)

(* The async instruction: finalize parameter i receives the call node of  *)
(* the future passed as its operand.                                       *)
FinalizeMap(p, f, fm) ==
    LET P == {i \in 1..Len(p.args[f]) : p.args[f][i] \in DOMAIN fm}
    IN [i \in P |-> fm[p.args[f][i]]]

RECURSIVE TraceExecution(_, _, _, _), AwaitFromPostOrder(_, _, _, _, _),
          AwaitFrom(_, _, _, _, _)

(* Mutant: the awaited transition is appended after its callees' awaits.  *)
AwaitFromPostOrder(p, f, fin, k, acc) ==
    IF k > Len(p.awaits[f]) THEN Done(acc)
    ELSE LET a == p.awaits[f][k] IN
         IF a \notin DOMAIN fin THEN Fail("invalid await command", acc)
         ELSE LET cn == fin[a]
                  sub == TraceExecution(p, cn.name, cn, acc)
              IN IF sub.ok
                 THEN AwaitFromPostOrder(p, f, fin, k + 1, Append(sub.order, cn.index))
                 ELSE sub

(* The await commands from the k-th on: append the awaited call's         *)
(* transition id, then trace that call's finalize depth first.             *)
AwaitFrom(p, f, fin, k, acc) ==
    IF k > Len(p.awaits[f]) THEN Done(acc)
    ELSE LET a == p.awaits[f][k] IN
         IF a \notin DOMAIN fin THEN Fail("invalid await command", acc)
         ELSE LET cn == fin[a]
                  sub == TraceExecution(p, cn.name, cn, Append(acc, cn.index))
              IN IF sub.ok THEN AwaitFrom(p, f, fin, k + 1, sub.order) ELSE sub

TraceExecution(p, f, node, acc) ==
    IF f \notin p.fin THEN Done(acc)
    ELSE LET fm == FutureMap(p, f, node, 1, 0, <<>>) IN
         IF fm.ok THEN AwaitFrom(p, f, FinalizeMap(p, f, fm.map), 1, acc)
         ELSE Fail(fm.err, acc)

(* build_async_order: the root node carries the last transition and the   *)
(* static call graph; the order starts with the root's transition.         *)
BuildAsyncOrder(p) ==
    LET last == Size(p, Root) - 1
        root == [name |-> "", index |-> last, calls |-> CallGraph(p, Root, 0)]
    IN TraceExecution(p, Root, root, <<last>>)

-----------------------------------------------------------------------------
Init ==
    /\ prog \in Programs
    /\ order = <<>>
    /\ status = "idle"

(* build_async_order, called by finalize_execute for an execution whose   *)
(* last transition returns a future.                                       *)
Trace ==
    /\ status = "idle"
    /\ LET r == BuildAsyncOrder(prog) IN
       /\ order' = r.order
       /\ status' = IF r.ok THEN "done" ELSE r.err
    /\ UNCHANGED prog

Next == Trace

Spec == Init /\ [][Next]_vars

-----------------------------------------------------------------------------
(* The reference: the Async Execution Order of the specification, read    *)
(* off the program text.  Each await of f names the call whose future     *)
(* reaches the awaited parameter; that call's transition comes next,      *)
(* followed by the order of its own awaits.                                *)

(* The call position whose future the awaited parameter a of f receives.  *)
Awaited(p, f, a) == IF a \in 1..Len(p.args[f]) THEN p.args[f][a] ELSE 0

RECURSIVE WellFormed(_, _), RefOrderOf(_, _, _, _)

(* Every await of f, and of every call it awaits, names the future of a   *)
(* call of a function that declares a finalize scope.                      *)
WellFormed(p, f) ==
    \A k \in 1..Len(p.awaits[f]) :
        LET j == Awaited(p, f, p.awaits[f][k]) IN
        /\ j \in 1..Len(p.calls[f])
        /\ p.calls[f][j] \in p.fin
        /\ WellFormed(p, p.calls[f][j])

RefOrderOf(p, f, b, k) ==
    IF f \notin p.fin \/ k > Len(p.awaits[f]) THEN <<>>
    ELSE LET j == Awaited(p, f, p.awaits[f][k]) IN
         <<CallIndex(p, f, b, j)>>
         \o RefOrderOf(p, p.calls[f][j], b + Offset(p, f, j), 1)
         \o RefOrderOf(p, f, b, k + 1)

RefOrder(p) == <<Size(p, Root) - 1>> \o RefOrderOf(p, Root, 0, 1)
-----------------------------------------------------------------------------
(* When build_async_order returns, every await of the traced finalize     *)
(* scopes resolved to a call with a finalizer, and the order it returns   *)
(* is the specification's Async Execution Order: the root first, then per *)
(* await the awaited transition followed by its own awaits, depth first   *)
(* (not the static call order).                                            *)
TraceMatchesSpec ==
    status = "done" => WellFormed(prog, Root) /\ order = RefOrder(prog)

(* The tracer raises only for a program whose awaits do not resolve: a    *)
(* call of a function without a finalizer does not break the tracing of   *)
(* the calls after it.                                                     *)
WellFormedTraces ==
    status # "idle" /\ WellFormed(prog, Root) => status = "done"
=============================================================================
