---------------------------- MODULE MessageStore ----------------------------
(***************************************************************************)
(* nfx::store::MessageStore (store/message_store.hpp): a std::variant of   *)
(* NullStore and MemoryStore, every call dispatched by std::visit to the   *)
(* alternative it was constructed with.  MemoryStore's messages_ is a      *)
(* sequence of <<seq, message>> pairs in insertion order, searched         *)
(* linearly.  Sequence numbers are uint32_t, scaled down to 0..SeqMax,     *)
(* SeqMax playing UINT32_MAX; a message is a model value (its bytes, and   *)
(* so bytes_stored, are abstracted away).  `out` is what the last call     *)
(* returned.                                                               *)
(***************************************************************************)
EXTENDS Naturals, Sequences, SequencesExt

CONSTANTS
    Kinds,        \* the alternatives the store may be constructed with
    SeqMax,       \* stands for UINT32_MAX
    MaxMessages,  \* MemoryStore::max_messages_
    Msgs,         \* message payloads
    MaxCount      \* bound on the stats counters that grow without a reset

ASSUME Kinds \subseteq {"Null", "Memory"} /\ MaxMessages \in Nat /\ MaxCount \in Nat

None == "none"
Seqs == 0..SeqMax

VARIABLES
    kind,         \* which alternative impl_ holds
    messages,     \* MemoryStore::messages_
    nextSender,   \* next_sender_seq_
    nextTarget,   \* next_target_seq_
    stats,        \* MemoryStore::stats_ (NullStore::stats() is always {})
    out           \* what the last call returned

vars == <<kind, messages, nextSender, nextTarget, stats, out>>

ZeroStats == [stored |-> 0, retrieved |-> 0, failures |-> 0]

\* MessageStore(StoreType) / make_null_store / make_memory_store: an empty
\* store with both sequence counters at 1.
Init ==
    /\ kind \in Kinds
    /\ messages = <<>>
    /\ nextSender = 1 /\ nextTarget = 1
    /\ stats = ZeroStats
    /\ out = [op |-> "none"]

\* The index of the first entry stored under k, 0 if none.
Find(k) == SelectInSeq(messages, LAMBDA e : e[1] = k)

-----------------------------------------------------------------------------
(* store                                                                    *)

\* Fault variant: store() without the max_messages_ check.
MemoryPutUnchecked(k, m) ==
    /\ IF Find(k) # 0
          THEN messages' = [messages EXCEPT ![Find(k)] = <<k, m>>]
               /\ UNCHANGED stats
          ELSE messages' = Append(messages, <<k, m>>)
               /\ stats' = [stats EXCEPT !.stored = @ + 1]
    /\ out' = [op |-> "store", key |-> k, ok |-> TRUE]

\* MemoryStore::store: full (size >= max_messages_) counts a failure and
\* returns false; otherwise the first entry under seq_num gets the new
\* bytes, or a new entry is appended and counted.
MemoryPut(k, m) ==
    IF Len(messages) >= MaxMessages
       THEN /\ stats.failures < MaxCount
            /\ stats' = [stats EXCEPT !.failures = @ + 1]
            /\ out' = [op |-> "store", key |-> k, ok |-> FALSE] /\ UNCHANGED messages
       ELSE /\ IF Find(k) # 0
                  THEN messages' = [messages EXCEPT ![Find(k)] = <<k, m>>]
                       /\ UNCHANGED stats
                  ELSE messages' = Append(messages, <<k, m>>)
                       /\ stats' = [stats EXCEPT !.stored = @ + 1]
            /\ out' = [op |-> "store", key |-> k, ok |-> TRUE]

\* NullStore::store: returns true and keeps nothing.
NullPut(k) == out' = [op |-> "store", key |-> k, ok |-> TRUE] /\ UNCHANGED <<messages, stats>>

\* MessageStore::store: std::visit to the alternative held.
Store(k, m) ==
    /\ IF kind = "Null" THEN NullPut(k) ELSE MemoryPut(k, m)
    /\ UNCHANGED <<kind, nextSender, nextTarget>>

-----------------------------------------------------------------------------
(* retrieve and retrieve_range (const, but stats_ is mutable)              *)

\* NullStore::retrieve: nullopt.
NullGet(k) == out' = [op |-> "retrieve", key |-> k, val |-> None] /\ UNCHANGED stats

\* MemoryStore::retrieve: the first entry under seq_num, counted; nullopt
\* if there is none.
MemoryGet(k) ==
    IF Find(k) # 0
       THEN /\ stats.retrieved < MaxCount
            /\ stats' = [stats EXCEPT !.retrieved = @ + 1]
            /\ out' = [op |-> "retrieve", key |-> k, val |-> messages[Find(k)][2]]
       ELSE NullGet(k)

\* MessageStore::retrieve.
Retrieve(k) ==
    /\ IF kind = "Memory" THEN MemoryGet(k) ELSE NullGet(k)
    /\ UNCHANGED <<kind, messages, nextSender, nextTarget>>

\* Fault variant: end_seq == 0 taken literally.
RangeEndNoOpen(hi) == hi

\* actual_end = (end_seq == 0) ? UINT32_MAX : end_seq.
RangeEnd(hi) == IF hi = 0 THEN SeqMax ELSE hi

\* retrieve_range returns the messages of the entries `picked`.
RangeResult(lo, hi, picked) ==
    /\ stats.retrieved + Len(picked) <= MaxCount
    /\ stats' = [stats EXCEPT !.retrieved = @ + Len(picked)]
    /\ out' = [op |-> "range", lo |-> lo, hi |-> hi,
               val |-> [i \in 1..Len(picked) |-> picked[i][2]]]

\* NullStore::retrieve_range: {}.
NullRange(lo, hi) == RangeResult(lo, hi, <<>>)

\* MemoryStore::retrieve_range: every entry with begin_seq <= seq <=
\* actual_end, in vector order, each counted.
MemoryRange(lo, hi) ==
    RangeResult(lo, hi, SelectSeq(messages, LAMBDA e : lo <= e[1] /\ e[1] <= RangeEnd(hi)))

\* MessageStore::retrieve_range.
RetrieveRange(lo, hi) ==
    /\ IF kind = "Memory" THEN MemoryRange(lo, hi) ELSE NullRange(lo, hi)
    /\ UNCHANGED <<kind, messages, nextSender, nextTarget>>

-----------------------------------------------------------------------------
(* Sequence counters, reset and flush                                      *)

\* set_next_sender_seq_num(seq): the same in both alternatives.
SetNextSenderSeqNum(s) ==
    /\ nextSender' = s
    /\ UNCHANGED <<kind, messages, nextTarget, stats, out>>

\* set_next_target_seq_num(seq).
SetNextTargetSeqNum(s) ==
    /\ nextTarget' = s
    /\ UNCHANGED <<kind, messages, nextSender, stats, out>>

\* NullStore::reset: the counters back to 1.
NullReset ==
    /\ nextSender' = 1 /\ nextTarget' = 1
    /\ UNCHANGED <<messages, stats>>

\* Fault variant: MemoryStore::reset without stats_ = Stats{}.
MemoryResetKeepsStats ==
    /\ messages' = <<>>
    /\ nextSender' = 1 /\ nextTarget' = 1
    /\ UNCHANGED stats

\* MemoryStore::reset: clear messages_, counters back to 1, stats_ = {}.
MemoryReset ==
    /\ messages' = <<>>
    /\ nextSender' = 1 /\ nextTarget' = 1
    /\ stats' = ZeroStats

\* MessageStore::reset.
Reset ==
    /\ IF kind = "Memory" THEN MemoryReset ELSE NullReset
    /\ UNCHANGED <<kind, out>>

\* flush(): a no-op in both alternatives.
Flush == UNCHANGED vars

Next ==
    \/ \E k \in Seqs, m \in Msgs : Store(k, m)
    \/ \E k \in Seqs : Retrieve(k)
    \/ \E lo, hi \in Seqs : RetrieveRange(lo, hi)
    \/ \E s \in Seqs : SetNextSenderSeqNum(s) \/ SetNextTargetSeqNum(s)
    \/ Reset
    \/ Flush

Spec == Init /\ [][Next]_vars

-----------------------------------------------------------------------------
(* Properties                                                              *)

TypeOK ==
    /\ kind \in Kinds
    /\ messages \in BoundedSeq(Seqs \X Msgs, MaxMessages)
    /\ nextSender \in Seqs /\ nextTarget \in Seqs
    /\ stats \in [stored : 0..MaxMessages, retrieved : 0..MaxCount,
                  failures : 0..MaxCount]

\* stats().messages_stored counts the entries messages_ holds: store()
\* counts an append and not an in-place update, and reset() clears both.
StoredCountMatches == stats.stored = Len(messages)

\* spec.md 4.8: store() "updates in place when the sequence already
\* exists, otherwise appends; on overflow it ... returns false".  A
\* store() that returned false was for a number the store does not hold:
\* replacing a held message never overflows.
UpdateNeverRefused ==
    (out.op = "store" /\ ~out.ok) => Find(out.key) = 0

\* The store implements its abstract specification: with the held
\* message of each number taken from the first entry under it and the
\* insertion order from the entries' numbers, every store, retrieve,
\* retrieve_range and reset of the variant is a step of AbstractStore.
AbsStore == INSTANCE AbstractStore WITH
    Top <- SeqMax, Capacity <- MaxMessages,
    map <- [k \in Seqs |-> IF Find(k) = 0 THEN None ELSE messages[Find(k)][2]],
    order <- [i \in 1..Len(messages) |-> messages[i][1]],
    sender <- nextSender, target <- nextTarget

ImplementsAbstractStore == AbsStore!AbsSpec
=============================================================================
