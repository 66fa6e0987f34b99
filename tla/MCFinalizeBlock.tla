--------------------------- MODULE MCFinalizeBlock ---------------------------
(* A small instance: the credits mapping m1 with the payer's key k1 and a  *)
(* receiver k2, and a mapping m2 that a deployment declares.  CheckProg   *)
(* asserts the receiver has not been paid yet, PaidProg that it has.       *)
EXTENDS FinalizeBlock

CONSTANTS m1, m2, k1, k2

(* The finalize-scope interpreter: each command adds d to a key and fails  *)
(* when the mapping does not exist or the sum leaves 0..MaxValue; a        *)
(* command with w = FALSE only asserts (a get followed by an assert).      *)
MCFinalize(view, p) ==
    LET step[i \in 0..Len(p)] ==
          IF i = 0 THEN [ok |-> TRUE, ops |-> <<>>, at |-> 0, st |-> view]
          ELSE LET prev == step[i - 1]
                   c == p[i]
               IN IF ~prev.ok THEN prev
                  ELSE IF prev.st[c.m] = NotInit THEN [prev EXCEPT !.ok = FALSE, !.at = i]
                  ELSE LET nv == prev.st[c.m][c.k] + c.d IN
                       IF nv \notin Val THEN [prev EXCEPT !.ok = FALSE, !.at = i]
                       ELSE IF ~c.w THEN prev
                       ELSE [prev EXCEPT
                               !.ops = Append(@, [type |-> "Update", m |-> c.m,
                                                   k |-> c.k, v |-> nv]),
                               !.st[c.m][c.k] = nv]
    IN [ok |-> step[Len(p)].ok, ops |-> step[Len(p)].ops, at |-> step[Len(p)].at]

Cmd(m, k, d, w) == [m |-> m, k |-> k, d |-> d, w |-> w]

FeeProg == <<Cmd(m1, k1, -1, TRUE)>>
PayProg == <<Cmd(m1, k1, -1, TRUE), Cmd(m1, k2, 1, TRUE)>>
CheckProg == <<Cmd(m1, k2, 1, FALSE)>>
MintProg == <<Cmd(m2, k1, 1, TRUE)>>
PaidProg == <<Cmd(m1, k2, -2, FALSE)>>

MCMappings == {m1, m2}
MCKeys == {k1, k2}

MCPrograms == {FeeProg, PayProg, CheckProg, MintProg, PaidProg}

MCTxShapes ==
    {[kind |-> "execute", exec |-> PayProg, fee |-> FeeProg],
     [kind |-> "execute", exec |-> CheckProg, fee |-> FeeProg],
     [kind |-> "execute", exec |-> MintProg, fee |-> PrivateFee],
     [kind |-> "execute", exec |-> CheckProg, fee |-> PrivateFee],
     [kind |-> "deploy", fee |-> FeeProg, maps |-> <<m2>>],
     [kind |-> "deploy", fee |-> PrivateFee, maps |-> <<m2>>]}

(* With an execution that spends what the receiver was paid.             *)
MCTxShapesPaid ==
    MCTxShapes \cup {[kind |-> "execute", exec |-> PaidProg, fee |-> PrivateFee]}

MCInitStore == [m \in {m1, m2} |-> IF m = m1 THEN [k \in {k1, k2} |-> IF k = k1 THEN 2 ELSE 1]
                                   ELSE NotInit]

(* A wider instance: balances up to 3, a payer holding 3, and an assertion *)
(* that the receiver can still be paid 2.  A rejected execution can then  *)
(* follow two accepted ones in a block.                                    *)
AssertTwoProg == <<Cmd(m1, k2, 2, FALSE)>>

MCProgramsWide == {FeeProg, PayProg, AssertTwoProg}

MCTxShapesWide ==
    {[kind |-> "execute", exec |-> PayProg, fee |-> FeeProg],
     [kind |-> "execute", exec |-> AssertTwoProg, fee |-> PrivateFee]}

MCInitStoreWide == [m \in {m1, m2} |-> IF m = m1 THEN [k \in {k1, k2} |-> IF k = k1 THEN 3 ELSE 1]
                                       ELSE NotInit]
========================================================================
