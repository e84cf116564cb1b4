-------------------------- MODULE MCExpenseReview --------------------------
(* A user with two transactions, another with one, and one who is new.     *)
EXTENDS ExpenseReview, TLC

CONSTANTS u1, u2, new, t1, t2, t3, a, b

MCOwner == (t1 :> u1) @@ (t2 :> u1) @@ (t3 :> u2)

Patch(p, h) == [purpose |-> p, headcount |-> h]
Ask(kind, user, txs, patch) == [kind |-> kind, user |-> user, txs |-> txs, patch |-> patch]
Nothing == Patch(Null, Null)

MCShape ==
  {Ask("create", new, <<>>, Nothing), Ask("template", new, <<>>, Nothing),
   Ask("list", new, <<>>, Nothing),
   Ask("patch", u1, <<t1>>, Patch(a, Null)), Ask("patch", u1, <<t1>>, Patch(Null, b)),
   Ask("bulk", u1, <<t1, t2>>, Patch(b, Null)), Ask("bulk", u1, <<t2, t1>>, Patch(Null, a)),
   Ask("bulk", u1, <<t1, t1>>, Patch(Null, b)), Ask("bulk", u1, <<t2, t3>>, Patch(b, a))}

Kept == [row |-> TRUE, field |-> Patch(a, a)]
None == [t \in Tx |-> NoRecord]
MCStored == {None, [None EXCEPT ![t1] = Kept], [None EXCEPT ![t1] = Kept, ![t2] = Kept]}
NoneStored == {None}
=============================================================================
