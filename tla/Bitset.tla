------------------------------- MODULE Bitset -------------------------------
(***************************************************************************)
(* bitset.c: a bitset is an array of integer_count words; a set is the     *)
(* positions of its one bits.  The words are whole, so an array made for   *)
(* `size' bits has positions from size on: the padding.  (The code rounds  *)
(* size / 64 up in float, which is exact below 2^24.)                      *)
(***************************************************************************)
EXTENDS Integers

CONSTANT INTEGER_BIT_SIZE

ASSUME WordAssumption == INTEGER_BIT_SIZE \in Nat \ {0}

Words(size)      == (size + INTEGER_BIT_SIZE - 1) \div INTEGER_BIT_SIZE
Positions(words) == 0 .. words * INTEGER_BIT_SIZE - 1

IsBitset(b) ==
    /\ b.integer_count \in Nat
    /\ b.bits \subseteq Positions(b.integer_count)

\* Mutant: the words start as BIS_SET.
bitset_initialize_ones(size) ==
    [integer_count |-> Words(size), bits |-> Positions(Words(size))]

bitset_initialize(size) == [integer_count |-> Words(size), bits |-> {}]

bitset_complement(b) ==
    [integer_count |-> b.integer_count, bits |-> Positions(b.integer_count) \ b.bits]

\* The binary operations run over the words that both operands have.
Shorter(b1, b2) ==
    IF b1.integer_count > b2.integer_count THEN b2.integer_count ELSE b1.integer_count

Truncated(bits, b1, b2) ==
    [integer_count |-> Shorter(b1, b2), bits |-> bits \cap Positions(Shorter(b1, b2))]

bitset_intersection(b1, b2) == Truncated(b1.bits \cap b2.bits, b1, b2)
bitset_union(b1, b2)        == Truncated(b1.bits \cup b2.bits, b1, b2)

\* Mutant: the operands are swapped.
bitset_difference_swapped(b1, b2) == Truncated(b2.bits \ b1.bits, b1, b2)

bitset_difference(b1, b2)   == Truncated(b1.bits \ b2.bits, b1, b2)


\* Mutant: the word is cleared and not the bit.
bitset_clear_word(b, bit) ==
    [b EXCEPT !.bits = {p \in @ : p \div INTEGER_BIT_SIZE # bit \div INTEGER_BIT_SIZE}]

bitset_set_bit(b, bit)   == [b EXCEPT !.bits = @ \cup {bit}]
bitset_clear_bit(b, bit) == [b EXCEPT !.bits = @ \ {bit}]
=============================================================================
