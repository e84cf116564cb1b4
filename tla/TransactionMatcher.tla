------------------------- MODULE TransactionMatcher -------------------------
(***************************************************************************)
(* app/services/matchers/transaction_matcher.py: receipts are matched with *)
(* card transactions of the same date and amount, at most five minutes     *)
(* apart, greedily in receipt order; and what the runner makes of the      *)
(* result (runner.py, _reconcile_with_sources). One step is one turn of    *)
(* the inner loop over the cards, or the decision that ends it.            *)
(***************************************************************************)
EXTENDS Integers, Sequences, FiniteSets

CONSTANTS
  Transaction,    \* [date, amount, time] of the transactions that can occur
  NoTime,         \* the parser found no time; else seconds of the day
  MaxReceipts, MaxCards   \* bounds on the two lists

Tolerance == 300

ASSUME MatcherAssumption ==
  /\ \A t \in Transaction : t.date \in Int /\ t.time \in Nat \cup {NoTime}
  /\ NoTime \notin Int
  /\ MaxReceipts \in Nat /\ MaxCards \in Nat

\* Transaction lists of at most n elements.
ListsUpTo(n) == UNION {[1 .. m -> Transaction] : m \in 0 .. n}

VARIABLES
  receipts, cards,  \* the two arguments
  partner,          \* the receipts decided so far: index of their card, or 0
  consumed,         \* consumed_card_indices
  card,             \* idx of the inner loop
  best              \* best_idx of the inner loop, 0 for None

matcherVars == <<receipts, cards, partner, consumed, card, best>>

MatcherStart(rs, cs) ==
  /\ receipts = rs
  /\ cards = cs
  /\ partner = <<>>
  /\ consumed = {}
  /\ card = 1
  /\ best = 0

MatcherInit == \E rs \in ListsUpTo(MaxReceipts), cs \in ListsUpTo(MaxCards) :
                 MatcherStart(rs, cs)

----------------------------------------------------------------------------
Compatible(a, b) == a.date = b.date /\ a.amount = b.amount

\* A missing time is further away than the tolerance.
TimeDiff(a, b) ==
  IF NoTime \in {a.time, b.time} THEN Tolerance + 1
  ELSE IF a.time >= b.time THEN a.time - b.time ELSE b.time - a.time

\* The receipt whose turn it is.
Current == receipts[Len(partner) + 1]

\* A card this receipt may be linked to.
Eligible(a, b) == Compatible(a, b) /\ TimeDiff(a, b) <= Tolerance

\* Mutant: of two cards equally far away the later one is taken.
ImprovesOnTies(k) ==
  /\ k \notin consumed
  /\ Eligible(Current, cards[k])
  /\ best # 0 => TimeDiff(Current, cards[k]) <= TimeDiff(Current, cards[best])

\* Card k replaces the best one found before it.
Improves(k) ==
  /\ k \notin consumed
  /\ Eligible(Current, cards[k])
  /\ best # 0 => TimeDiff(Current, cards[k]) < TimeDiff(Current, cards[best])

Examine ==
  /\ Len(partner) < Len(receipts)
  /\ card <= Len(cards)
  /\ best' = IF Improves(card) THEN card ELSE best
  /\ card' = card + 1
  /\ UNCHANGED <<receipts, cards, partner, consumed>>

\* Mutant: the card that was linked stays available.
SettleLeavesFree ==
  /\ Len(partner) < Len(receipts)
  /\ card > Len(cards)
  /\ partner' = Append(partner, best)
  /\ card' = 1
  /\ best' = 0
  /\ UNCHANGED <<receipts, cards, consumed>>

Settle ==
  /\ Len(partner) < Len(receipts)
  /\ card > Len(cards)
  /\ partner' = Append(partner, best)
  /\ consumed' = IF best = 0 THEN consumed ELSE consumed \cup {best}
  /\ card' = 1
  /\ best' = 0
  /\ UNCHANGED <<receipts, cards>>

MatcherNext == Examine \/ Settle

MatcherSpec == MatcherInit /\ [][MatcherNext]_matcherVars

----------------------------------------------------------------------------
(* The result: matches first, then receipts alone, then cards alone.        *)

MatcherDone == Len(partner) = Len(receipts)

\* The elements of S, first to last in the total order R, a set of pairs.
InOrder(S, R) ==
  [k \in 1 .. Cardinality(S) |->
     CHOOSE x \in S : Cardinality({y \in S : <<y, x>> \in R}) = k - 1]

Ascending(S) == InOrder(S, {p \in S \X S : p[1] < p[2]})

From(kind, indices) == [k \in DOMAIN indices |-> [kind |-> kind, idx |-> indices[k]]]

\* Mutant: every card is listed, linked or not.
ReconciledAllCards ==
  From("receipt", Ascending({i \in DOMAIN receipts : partner[i] # 0}))
  \o From("receipt", Ascending({i \in DOMAIN receipts : partner[i] = 0}))
  \o From("card", Ascending(DOMAIN cards))

\* The transactions the job stores: the receipt of a match, else the one there
\* is. The source file is looked up by the object, hence by its index here.
Reconciled ==
  From("receipt", Ascending({i \in DOMAIN receipts : partner[i] # 0}))
  \o From("receipt", Ascending({i \in DOMAIN receipts : partner[i] = 0}))
  \o From("card", Ascending(DOMAIN cards \ consumed))

----------------------------------------------------------------------------
(* Properties.                                                             *)

\* Type correctness of the loop variables.
MatcherTypeOK ==
  /\ receipts \in Seq(Transaction)
  /\ cards \in Seq(Transaction)
  /\ partner \in Seq(0 .. Len(cards))
  /\ Len(partner) <= Len(receipts)
  /\ consumed \subseteq 1 .. Len(cards)
  /\ card \in 1 .. Len(cards) + 1
  /\ best \in 0 .. card - 1

\* No card transaction is linked to two receipts
\* (transaction_matcher.py:47), and the consumed ones are the linked ones.
OneToOne ==
  /\ \A i, j \in DOMAIN partner : partner[i] = partner[j] /\ i # j => partner[i] = 0
  /\ \A k \in DOMAIN cards : k \in consumed <=> \E i \in DOMAIN partner : partner[i] = k

\* Card k was linked to a receipt before the i-th.
TakenBefore(i, k) == \E j \in 1 .. i - 1 : partner[j] = k

\* Every receipt got the closest card of its date and amount that no earlier
\* receipt had taken, the first of those equally close, and was left alone
\* only if there was none: what _find_best_card_match promises.
GreedyChoice ==
  \A i \in DOMAIN partner :
    /\ partner[i] # 0 => Eligible(receipts[i], cards[partner[i]])
    /\ \A k \in DOMAIN cards :
         Eligible(receipts[i], cards[k]) /\ ~TakenBefore(i, k) =>
           /\ partner[i] # 0
           /\ \/ TimeDiff(receipts[i], cards[k]) > TimeDiff(receipts[i], cards[partner[i]])
              \/ /\ TimeDiff(receipts[i], cards[k]) = TimeDiff(receipts[i], cards[partner[i]])
                 /\ k >= partner[i]

\* Every receipt and every unlinked card becomes exactly one stored
\* transaction, and a linked card none: no expense is lost or counted twice.
EveryExpenseOnce ==
  MatcherDone =>
    /\ \A a, b \in DOMAIN Reconciled : Reconciled[a] = Reconciled[b] => a = b
    /\ \A i \in DOMAIN receipts :
         \E a \in DOMAIN Reconciled : Reconciled[a] = [kind |-> "receipt", idx |-> i]
    /\ \A k \in DOMAIN cards :
         (\E a \in DOMAIN Reconciled : Reconciled[a] = [kind |-> "card", idx |-> k])
           <=> \A i \in DOMAIN partner : partner[i] # k
=============================================================================
