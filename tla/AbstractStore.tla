--------------------------- MODULE AbstractStore ---------------------------
(***************************************************************************)
(* What a message store promises (spec.md 3 "MessageStore variant" and    *)
(* 4.8), without its vector of pairs: a store maps sequence numbers to    *)
(* messages and remembers the order in which numbers were first stored.   *)
(* A null store accepts every store and holds nothing.  A memory store    *)
(* keeps the last message stored under each number, and may refuse a     *)
(* store only when it holds Capacity messages.  retrieve_range returns    *)
(* the held messages in [begin, end] in insertion order, end = 0 meaning  *)
(* unbounded (Top).  reset empties the store and sets both sequence       *)
(* counters back to 1.  `out` is what the last call returned.             *)
(***************************************************************************)
EXTENDS Naturals, Sequences, FiniteSets

CONSTANTS Seqs, Msgs, Capacity, Top, None

VARIABLES kind, map, order, sender, target, out

absVars == <<kind, map, order, sender, target, out>>

Held == {k \in Seqs : map[k] # None}

AbsInit ==
    /\ kind \in {"Null", "Memory"}
    /\ map = [k \in Seqs |-> None] /\ order = <<>>
    /\ sender = 1 /\ target = 1
    /\ out = [op |-> "none"]

\* store(seq, msg): a null store drops it; a memory store keeps it, or
\* refuses it when full.
Put(k, m) ==
    /\ \/ kind = "Null" /\ out' = [op |-> "store", key |-> k, ok |-> TRUE]
                       /\ UNCHANGED <<map, order>>
       \/ /\ kind = "Memory"
          /\ map[k] # None \/ Cardinality(Held) < Capacity
          /\ map' = [map EXCEPT ![k] = m]
          /\ order' = IF map[k] = None THEN Append(order, k) ELSE order
          /\ out' = [op |-> "store", key |-> k, ok |-> TRUE]
       \/ /\ kind = "Memory" /\ Cardinality(Held) >= Capacity
          /\ out' = [op |-> "store", key |-> k, ok |-> FALSE]
          /\ UNCHANGED <<map, order>>
    /\ UNCHANGED <<kind, sender, target>>

\* retrieve(seq): the message held under seq, if any.
Get(k) ==
    /\ out' = [op |-> "retrieve", key |-> k, val |-> map[k]]
    /\ UNCHANGED <<kind, map, order, sender, target>>

\* The messages held under numbers in [lo, hi], in insertion order.
RangeOf(lo, hi) ==
    LET top == IF hi = 0 THEN Top ELSE hi
        ks  == SelectSeq(order, LAMBDA k : lo <= k /\ k <= top)
    IN [i \in 1..Len(ks) |-> map[ks[i]]]

\* retrieve_range(begin, end).
GetRange(lo, hi) ==
    /\ out' = [op |-> "range", lo |-> lo, hi |-> hi, val |-> RangeOf(lo, hi)]
    /\ UNCHANGED <<kind, map, order, sender, target>>

\* set_next_sender_seq_num / set_next_target_seq_num.
SetCounters ==
    /\ \E s \in Seqs : \/ sender' = s /\ target' = target
                       \/ target' = s /\ sender' = sender
    /\ UNCHANGED <<kind, map, order, out>>

\* reset().
Clear ==
    /\ map' = [k \in Seqs |-> None] /\ order' = <<>>
    /\ sender' = 1 /\ target' = 1
    /\ UNCHANGED <<kind, out>>

AbsNext ==
    \/ \E k \in Seqs, m \in Msgs : Put(k, m)
    \/ \E k \in Seqs : Get(k)
    \/ \E lo, hi \in Seqs : GetRange(lo, hi)
    \/ SetCounters
    \/ Clear

AbsSpec == AbsInit /\ [][AbsNext]_absVars
=============================================================================
