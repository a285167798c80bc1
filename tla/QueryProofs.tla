----------------------------- MODULE QueryProofs -----------------------------
(***************************************************************************)
(* What a query is taken for and what it is answered, for every set of     *)
(* texts and every size of the database.                                   *)
(*                                                                         *)
(* The parser, the grammar, the evaluation of a tree and the copying of    *)
(* rows are recursive functions.  That they exist, and what they return,   *)
(* rests on Recursion below.                                               *)
(***************************************************************************)
EXTENDS Query, FiniteSetTheorems, WellFoundedInduction, TLAPS

-----------------------------------------------------------------------------
(* Recursive functions.                                                    *)

\* A set of natural numbers that is not empty has a least member.
LEMMA LeastNatural ==
    ASSUME NEW S, S \subseteq Nat, S # {}
    PROVE  \E m \in S : \A k \in S : m <= k
<1>1. PICK m \in S : \A k \in S : ~(<<k, m>> \in OpToRel(<, Nat))
    BY NatLessThanWellFounded, WFMin
<1>2. \A k \in S : ~(k < m)
    BY <1>1 DEF OpToRel
<1> QED
    BY <1>2

\* The value at x, computed from f, needs f only where size is less.
LooksBack(S, size, V, step) ==
    \A x \in S, f \in [S -> V], g \in [S -> V] :
        (\A y \in S : size[y] < size[x] => f[y] = g[y]) => step[<<x, f>>] = step[<<x, g>>]

\* A function that the equation holds of everywhere.
Defined(S, V, step) == \E f \in [S -> V] : \A x \in S : f[x] = step[<<x, f>>]

\* The equation holds of f as far as size is less than k.
Solves(f, k, S, size, step) == \A x \in S : size[x] < k => f[x] = step[<<x, f>>]

\* Two functions that the equation holds of agree.
LEMMA SolutionsAgree ==
    ASSUME NEW S, NEW size \in [S -> Nat], NEW V, NEW step, LooksBack(S, size, V, step),
           NEW k \in Nat, NEW f \in [S -> V], NEW g \in [S -> V],
           Solves(f, k, S, size, step), Solves(g, k, S, size, step),
           NEW x \in S, size[x] < k
    PROVE  f[x] = g[x]
<1> DEFINE N == {n \in Nat : \E y \in S : size[y] = n /\ n < k /\ f[y] # g[y]}
<1>1. SUFFICES ASSUME N # {} PROVE FALSE
    OBVIOUS
<1>2. PICK m \in N : \A n \in N : m <= n
    <2>1. N \subseteq Nat
        OBVIOUS
    <2> QED
        BY <1>1, <2>1, LeastNatural
<1>3. PICK y \in S : size[y] = m /\ m < k /\ f[y] # g[y]
    BY <1>2
<1>4. \A z \in S : size[z] < size[y] => f[z] = g[z]
    <2> SUFFICES ASSUME NEW z \in S, size[z] < size[y], f[z] # g[z] PROVE FALSE
        OBVIOUS
    <2>1. size[z] \in Nat /\ size[z] < k
        BY <1>2, <1>3
    <2>2. size[z] \in N
        BY <2>1
    <2> QED
        BY <1>2, <1>3, <2>1, <2>2
<1>5. step[<<y, f>>] = step[<<y, g>>]
    BY <1>4 DEF LooksBack
<1> QED
    BY <1>3, <1>5 DEF Solves

\* As far as any number, there is a function that the equation holds of.
LEMMA SolutionUpTo ==
    ASSUME NEW S, NEW size \in [S -> Nat], NEW V, NEW step \in [S \X [S -> V] -> V],
           LooksBack(S, size, V, step), NEW v \in V, NEW k \in Nat
    PROVE  \E f \in [S -> V] : Solves(f, k, S, size, step)
<1> DEFINE N == {n \in Nat : ~\E f \in [S -> V] : Solves(f, n, S, size, step)}
<1>1. SUFFICES ASSUME N # {} PROVE FALSE
    OBVIOUS
<1>2. PICK m \in N : \A n \in N : m <= n
    <2>1. N \subseteq Nat
        OBVIOUS
    <2> QED
        BY <1>1, <2>1, LeastNatural
<1>3. m # 0
    <2> DEFINE f == [x \in S |-> v]
    <2>1. f \in [S -> V] /\ Solves(f, 0, S, size, step)
        BY DEF Solves
    <2> QED
        BY <1>2, <2>1
<1>4. m - 1 \in Nat /\ m - 1 \notin N
    BY <1>2, <1>3
<1>5. PICK f \in [S -> V] : Solves(f, m - 1, S, size, step)
    BY <1>4
<1> DEFINE g == [x \in S |-> step[<<x, f>>]]
<1>6. g \in [S -> V]
    OBVIOUS
<1>7. \A x \in S : size[x] < m - 1 => f[x] = g[x]
    BY <1>5 DEF Solves
<1>8. ASSUME NEW x \in S, size[x] < m
      PROVE  g[x] = step[<<x, g>>]
    <2>1. \A y \in S : size[y] < size[x] => f[y] = g[y]
        <3> TAKE y \in S
        <3>1. size[y] < size[x] => size[y] < m - 1
            BY <1>2, <1>8
        <3> QED
            BY <1>7, <3>1
    <2>2. g[x] = step[<<x, f>>]
        OBVIOUS
    <2> HIDE DEF g
    <2> QED
        BY <1>6, <2>1, <2>2 DEF LooksBack
<1> HIDE DEF g
<1>9. Solves(g, m, S, size, step)
    BY <1>8 DEF Solves
<1> QED
    BY <1>2, <1>6, <1>9

\* A recursive definition that looks back defines a function.
LEMMA Recursion ==
    ASSUME NEW S, NEW size \in [S -> Nat], NEW V, NEW step \in [S \X [S -> V] -> V],
           LooksBack(S, size, V, step), NEW v \in V
    PROVE  Defined(S, V, step)
<1> DEFINE Solution(k) == CHOOSE f \in [S -> V] : Solves(f, k, S, size, step)
<1>1. \A k \in Nat : Solution(k) \in [S -> V] /\ Solves(Solution(k), k, S, size, step)
    BY SolutionUpTo
<1> HIDE DEF Solution
<1> DEFINE f == [x \in S |-> Solution(size[x] + 1)[x]]
<1>2. \A x \in S : Solution(size[x] + 1) \in [S -> V]
    BY SMTT(30), <1>1
<1>3. f \in [S -> V]
    BY <1>2
<1>4. ASSUME NEW x \in S
      PROVE  f[x] = step[<<x, f>>]
    <2>1. PICK g : g = Solution(size[x] + 1)
        OBVIOUS
    <2>2. g \in [S -> V] /\ Solves(g, size[x] + 1, S, size, step) /\ f[x] = g[x]
        BY <1>1, <2>1
    <2>3. ASSUME NEW y \in S, size[y] < size[x]
          PROVE  f[y] = g[y]
        <3>1. PICK h : h = Solution(size[y] + 1)
            OBVIOUS
        <3>2. h \in [S -> V] /\ Solves(h, size[y] + 1, S, size, step) /\ f[y] = h[y]
            BY <1>1, <3>1
        <3>3. Solves(g, size[y] + 1, S, size, step)
            <4>1. \A z \in S : size[z] < size[y] + 1 => size[z] < size[x] + 1
                BY <2>3
            <4> QED
                BY <2>2, <4>1 DEF Solves
        <3>4. size[y] + 1 \in Nat /\ size[y] < size[y] + 1
            OBVIOUS
        <3> QED
            BY <2>2, <3>2, <3>3, <3>4, SolutionsAgree
    <2>4. g[x] = step[<<x, g>>]
        BY <2>2 DEF Solves
    <2> HIDE DEF f
    <2>5. step[<<x, f>>] = step[<<x, g>>]
        BY <1>3, <2>2, <2>3 DEF LooksBack
    <2> QED
        BY <2>2, <2>4, <2>5
<1> HIDE DEF f
<1> QED
    BY <1>3, <1>4 DEF Defined

\* Wherever f and g agree as long as size is less, they agree.
AgreeOnward(S, size, f, g) ==
    \A x \in S : (\A y \in S : size[y] < size[x] => f[y] = g[y]) => f[x] = g[x]

\* Then they are the same.
LEMMA SameFunction ==
    ASSUME NEW S, NEW size \in [S -> Nat], NEW f, NEW g,
           f = [x \in S |-> f[x]], g = [x \in S |-> g[x]],
           AgreeOnward(S, size, f, g)
    PROVE  f = g
<1> DEFINE N == {n \in Nat : \E y \in S : size[y] = n /\ f[y] # g[y]}
<1>1. SUFFICES ASSUME N # {} PROVE FALSE
    <2>1. N = {} => \A y \in S : f[y] = g[y]
        OBVIOUS
    <2>2. (\A y \in S : f[y] = g[y]) => f = g
        OBVIOUS
    <2> QED
        BY <2>1, <2>2
<1>2. PICK m \in N : \A n \in N : m <= n
    <2>1. N \subseteq Nat
        OBVIOUS
    <2> QED
        BY <1>1, <2>1, LeastNatural
<1>3. PICK x \in S : size[x] = m /\ f[x] # g[x]
    BY <1>2
<1>4. ASSUME NEW y \in S, size[y] < size[x]
      PROVE  f[y] = g[y]
    <2>1. size[y] \in Nat /\ size[y] \notin N
        BY <1>2, <1>3, <1>4
    <2> QED
        BY <2>1
<1> QED
    BY <1>3, <1>4 DEF AgreeOnward

-----------------------------------------------------------------------------
(* Trees.                                                                  *)

Binary == {"OP_UNION", "OP_INTERSECTION", "OP_DIFFERENCE"}

Nodes(A) ==
    [op_type : {"LEAVE"}, set_name : A]
    \cup [op_type : {"OP_COMPLEMENT"}, left_op : Nat \ {0}]
    \cup [op_type : Binary, left_op : Nat \ {0}, right_op : Nat \ {0}]

\* The operands of a node are made before it.
Trees(A) ==
    {e \in Seq(Nodes(A)) \ {<<>>} : \A i \in 1 .. Len(e) :
        /\ e[i].op_type # "LEAVE" => e[i].left_op < i
        /\ e[i].op_type \in Binary => e[i].right_op < i}

\* What a node of a tree is.
LEMMA NodeOfTree ==
    ASSUME NEW A, NEW e \in Trees(A), NEW i \in 1 .. Len(e)
    PROVE  \/ e[i].op_type = "LEAVE" /\ e[i].set_name \in A
           \/ e[i].op_type = "OP_COMPLEMENT" /\ i - e[i].left_op \in 1 .. i - 1
           \/ /\ e[i].op_type \in Binary
              /\ i - e[i].left_op \in 1 .. i - 1 /\ i - e[i].right_op \in 1 .. i - 1
<1>1. e[i] \in Nodes(A) /\ Len(e) \in Nat /\ i \in Nat
    BY DEF Trees
<1>2. CASE e[i] \in [op_type : {"LEAVE"}, set_name : A]
    BY <1>2
<1>3. CASE e[i] \in [op_type : {"OP_COMPLEMENT"}, left_op : Nat \ {0}]
    BY <1>1, <1>3 DEF Trees
<1>4. CASE e[i] \in [op_type : Binary, left_op : Nat \ {0}, right_op : Nat \ {0}]
    <2>1. e[i].op_type \in Binary /\ e[i].left_op \in Nat \ {0} /\ e[i].right_op \in Nat \ {0}
        BY <1>4
    <2>2. e[i].op_type # "LEAVE"
        BY <2>1 DEF Binary
    <2> QED
        BY <1>1, <2>1, <2>2 DEF Trees
<1> QED
    BY <1>1, <1>2, <1>3, <1>4 DEF Nodes

\* A name, a complement and an operation of two trees are trees.
LEMMA LeaveIsTree ==
    ASSUME NEW A, NEW name \in A
    PROVE  create_set_op_leave(name) \in Trees(A)
<1> DEFINE node == [op_type |-> "LEAVE", set_name |-> name]
           e    == <<node>>
<1>1. node \in Nodes(A)
    BY DEF Nodes
<1>2. "LEAVE" \notin Binary
    BY DEF Binary
<1>3. node.op_type = "LEAVE"
    OBVIOUS
<1> HIDE DEF node
<1>4. e \in Seq(Nodes(A)) /\ e # <<>> /\ Len(e) = 1 /\ e[1] = node
    BY <1>1
<1>5. e \in Trees(A)
    BY <1>2, <1>3, <1>4 DEF Trees
<1> QED
    BY <1>5 DEF create_set_op_leave, node

\* A complement on top of a tree is a tree.
LEMMA ComplementIsTree ==
    ASSUME NEW A, NEW op1 \in Trees(A)
    PROVE  create_set_op_complement(op1) \in Trees(A)
<1> DEFINE node == [op_type |-> "OP_COMPLEMENT", left_op |-> 1]
           e    == op1 \o <<node>>
           n    == Len(op1)
<1>1. node \in Nodes(A)
    BY DEF Nodes
<1>2. node.op_type = "OP_COMPLEMENT" /\ node.left_op = 1 /\ node.op_type \notin Binary
    BY DEF Binary
<1>3. op1 \in Seq(Nodes(A)) /\ n \in Nat \ {0}
    BY DEF Trees
<1> HIDE DEF node
<1>4. e \in Seq(Nodes(A)) /\ Len(e) = n + 1 /\ e[n + 1] = node /\ e # <<>>
    BY <1>1, <1>3
<1>5. \A i \in 1 .. n : e[i] = op1[i]
    BY <1>1, <1>3
<1> HIDE DEF e
<1>6. ASSUME NEW i \in 1 .. n + 1
      PROVE  /\ e[i].op_type # "LEAVE" => e[i].left_op < i
             /\ e[i].op_type \in Binary => e[i].right_op < i
    <2>1. CASE i \in 1 .. n
        BY <1>5, <2>1 DEF Trees
    <2>2. CASE i = n + 1
        BY <1>2, <1>3, <1>4, <2>2
    <2> QED
        BY <1>3, <2>1, <2>2
<1>7. e \in Trees(A)
    BY <1>4, <1>6 DEF Trees
<1> QED
    BY <1>7 DEF create_set_op_complement, e, node

\* So is an operation on top of two trees.
LEMMA OperationIsTree ==
    ASSUME NEW A, NEW left \in Trees(A), NEW right \in Trees(A), NEW type \in Binary
    PROVE  create_set_op(left, right, type) \in Trees(A)
<1> DEFINE node == [op_type |-> type, left_op |-> Len(right) + 1, right_op |-> 1]
           e    == left \o right \o <<node>>
           m    == Len(left)
           n    == Len(right)
<1>1. left \in Seq(Nodes(A)) /\ right \in Seq(Nodes(A)) /\ m \in Nat \ {0} /\ n \in Nat \ {0}
    BY DEF Trees
<1>2. node \in Nodes(A)
    BY <1>1 DEF Nodes
<1>3. node.op_type \in Binary /\ node.left_op = n + 1 /\ node.right_op = 1
    OBVIOUS
<1> HIDE DEF node
<1>4. e \in Seq(Nodes(A)) /\ Len(e) = m + n + 1 /\ e[m + n + 1] = node /\ e # <<>>
    BY <1>1, <1>2
<1>5. \A i \in 1 .. m : e[i] = left[i]
    BY <1>1, <1>2
<1>6. \A i \in m + 1 .. m + n : e[i] = right[i - m]
    BY <1>1, <1>2
<1> HIDE DEF e
<1>7. ASSUME NEW i \in 1 .. m + n + 1
      PROVE  /\ e[i].op_type # "LEAVE" => e[i].left_op < i
             /\ e[i].op_type \in Binary => e[i].right_op < i
    <2>1. CASE i \in 1 .. m
        BY <1>5, <2>1 DEF Trees
    <2>2. CASE i \in m + 1 .. m + n
        <3>1. i - m \in 1 .. n /\ e[i] = right[i - m]
            BY <1>1, <1>6, <2>2
        <3>2. right[i - m] \in Nodes(A)
            BY <1>1, <3>1
        <3>3. /\ e[i].op_type # "LEAVE" => e[i].left_op < i - m
              /\ e[i].op_type \in Binary => e[i].right_op < i - m
            BY <3>1 DEF Trees
        <3>4. /\ e[i].op_type # "LEAVE" => e[i].left_op \in Nat
              /\ e[i].op_type \in Binary => e[i].right_op \in Nat
            BY <3>1, <3>2 DEF Nodes, Binary
        <3> QED
            BY <1>1, <2>2, <3>3, <3>4
    <2>3. CASE i = m + n + 1
        BY <1>1, <1>3, <1>4, <2>3
    <2> QED
        BY <1>1, <2>1, <2>2, <2>3
<1>8. e \in Trees(A)
    BY <1>4, <1>7 DEF Trees
<1> QED
    BY <1>8 DEF create_set_op, e, node

\* A walk over n nodes that looks at operands only.
LooksAtOperands(n, V, step) ==
    \A i \in 1 .. n : \A f, g \in [1 .. n -> V] :
        (\A j \in 1 .. i - 1 : f[j] = g[j]) => step[<<i, f>>] = step[<<i, g>>]

\* It defines a function.
LEMMA Walk ==
    ASSUME NEW n \in Nat, NEW V, NEW v \in V,
           NEW step \in [(1 .. n) \X [1 .. n -> V] -> V], LooksAtOperands(n, V, step)
    PROVE  Defined(1 .. n, V, step)
<1> DEFINE size == [i \in 1 .. n |-> i]
<1>1. size \in [1 .. n -> Nat] /\ \A i \in 1 .. n : size[i] = i
    OBVIOUS
<1> HIDE DEF size
<1>2. LooksBack(1 .. n, size, V, step)
    <2> SUFFICES ASSUME NEW i \in 1 .. n, NEW f \in [1 .. n -> V], NEW g \in [1 .. n -> V],
                        \A y \in 1 .. n : size[y] < size[i] => f[y] = g[y]
                 PROVE  step[<<i, f>>] = step[<<i, g>>]
        BY DEF LooksBack
    <2>1. \A j \in 1 .. i - 1 : f[j] = g[j]
        <3> TAKE j \in 1 .. i - 1
        <3>1. j \in 1 .. n /\ size[j] < size[i]
            BY <1>1
        <3> QED
            BY <3>1
    <2> QED
        BY <2>1 DEF LooksAtOperands
<1> QED
    BY <1>1, <1>2, Recursion

\* And no other one.
LEMMA SameWalk ==
    ASSUME NEW n \in Nat, NEW f, NEW g,
           f = [i \in 1 .. n |-> f[i]], g = [i \in 1 .. n |-> g[i]],
           \A i \in 1 .. n : (\A j \in 1 .. i - 1 : f[j] = g[j]) => f[i] = g[i]
    PROVE  f = g
<1> DEFINE size == [i \in 1 .. n |-> i]
<1>1. size \in [1 .. n -> Nat] /\ \A i \in 1 .. n : size[i] = i
    OBVIOUS
<1> HIDE DEF size
<1>2. AgreeOnward(1 .. n, size, f, g)
    <2> SUFFICES ASSUME NEW i \in 1 .. n, \A j \in 1 .. n : size[j] < size[i] => f[j] = g[j]
                 PROVE  f[i] = g[i]
        BY DEF AgreeOnward
    <2>1. \A j \in 1 .. i - 1 : j \in 1 .. n /\ size[j] < size[i]
        BY <1>1
    <2> QED
        BY <2>1
<1> QED
    BY <1>1, <1>2, SameFunction

-----------------------------------------------------------------------------
(* The evaluation of a tree, on the database as it was loaded.             *)

BitsetOfKeys == [integer_count : {Words(maxKeyCount)}, bits : SUBSET Positions(Words(maxKeyCount))]

Loaded ==
    /\ keyCount \in 1 .. maxKeyCount
    /\ keyTable = [k \in 1 .. keyCount |-> k - 1]
    /\ setNamesTable \in [SetNames -> 0 .. setCount - 1]
    /\ sets \in [0 .. setCount - 1 ->
                    [integer_count : {Words(maxKeyCount)}, bits : SUBSET (0 .. keyCount - 1)]]
    /\ attrCount = 3
    /\ attrNamesTable = [a \in 1 .. 3 |-> a - 1]
    /\ attributes = [a \in 0 .. 2 |-> Column(CASE a = 0 -> "TYPE_STRING" [] a = 1 -> "TYPE_64"
                                                [] OTHER -> "TYPE_UNDEFINED")]

\* A bitset for n keys has a bit for each of them.
LEMMA BitForKey ==
    ASSUME NEW n \in Nat
    PROVE  /\ Words(n) * INTEGER_BIT_SIZE \in Nat /\ n <= Words(n) * INTEGER_BIT_SIZE
           /\ 0 .. n - 1 \subseteq Positions(Words(n))
<1> DEFINE b == INTEGER_BIT_SIZE
           x == n + b - 1
           q == x \div b
<1>1. b \in Nat \ {0} /\ x \in Nat
    BY WordAssumption
<1>2. q \in Nat /\ x = b * q + (x % b) /\ x % b \in 0 .. b - 1
    BY <1>1
<1>3. q * b = b * q /\ b * q \in Nat
    BY <1>1, <1>2
<1>4. n <= q * b
    BY <1>1, <1>2, <1>3
<1> QED
    BY <1>2, <1>3, <1>4 DEF Positions, Words

\* A set that is known has a bitset, of the size of all others, with bits for
\* keys only.
LEMMA SetLoaded ==
    ASSUME Loaded, NEW name \in SetNames
    PROVE  /\ sets[setNamesTable[name]] \in BitsetOfKeys
           /\ sets[setNamesTable[name]].bits \subseteq 0 .. keyCount - 1
<1>1. setNamesTable[name] \in 0 .. setCount - 1
    BY DEF Loaded
<1>2. sets[setNamesTable[name]]
        \in [integer_count : {Words(maxKeyCount)}, bits : SUBSET (0 .. keyCount - 1)]
    BY <1>1 DEF Loaded
<1>3. 0 .. keyCount - 1 \subseteq 0 .. maxKeyCount - 1
    BY DatabaseAssumption DEF Loaded
<1>4. 0 .. keyCount - 1 \subseteq Positions(Words(maxKeyCount))
    BY <1>3, BitForKey, DatabaseAssumption
<1> QED
    BY <1>2, <1>4 DEF BitsetOfKeys

\* The operations of bitset.c keep that size.
LEMMA BitsetOperations ==
    ASSUME NEW b1 \in BitsetOfKeys, NEW b2 \in BitsetOfKeys
    PROVE  /\ bitset_complement(b1) = [integer_count |-> Words(maxKeyCount),
                                       bits |-> Positions(Words(maxKeyCount)) \ b1.bits]
           /\ bitset_union(b1, b2) = [integer_count |-> Words(maxKeyCount),
                                      bits |-> b1.bits \cup b2.bits]
           /\ bitset_intersection(b1, b2) = [integer_count |-> Words(maxKeyCount),
                                             bits |-> b1.bits \cap b2.bits]
           /\ bitset_difference(b1, b2) = [integer_count |-> Words(maxKeyCount),
                                           bits |-> b1.bits \ b2.bits]
<1>1. b1.integer_count = Words(maxKeyCount) /\ b2.integer_count = Words(maxKeyCount)
    BY DEF BitsetOfKeys
<1>2. b1.bits \subseteq Positions(Words(maxKeyCount)) /\ b2.bits \subseteq Positions(Words(maxKeyCount))
    BY DEF BitsetOfKeys
<1>3. Shorter(b1, b2) = Words(maxKeyCount)
    BY <1>1 DEF Shorter
<1> QED
    BY <1>1, <1>2, <1>3
    DEF bitset_complement, bitset_union, bitset_intersection, bitset_difference, Truncated

\* So their results are bitsets for the keys.
LEMMA OperationsKeepSize ==
    ASSUME NEW b1 \in BitsetOfKeys, NEW b2 \in BitsetOfKeys
    PROVE  /\ bitset_complement(b1) \in BitsetOfKeys
           /\ bitset_union(b1, b2) \in BitsetOfKeys
           /\ bitset_intersection(b1, b2) \in BitsetOfKeys
           /\ bitset_difference(b1, b2) \in BitsetOfKeys
<1>1. b1.bits \subseteq Positions(Words(maxKeyCount)) /\ b2.bits \subseteq Positions(Words(maxKeyCount))
    BY DEF BitsetOfKeys
<1> QED
    BY <1>1, BitsetOperations DEF BitsetOfKeys

RunNode(e, f, i) ==
    LET left  == f[i - e[i].left_op]
        right == f[i - e[i].right_op]
    IN  CASE e[i].op_type = "LEAVE"           -> sets[setNamesTable[e[i].set_name]]
          [] e[i].op_type = "OP_COMPLEMENT"   -> bitset_complement(left)
          [] e[i].op_type = "OP_UNION"        -> bitset_union(left, right)
          [] e[i].op_type = "OP_INTERSECTION" -> bitset_intersection(left, right)
          [] e[i].op_type = "OP_DIFFERENCE"   -> bitset_difference(left, right)

MeaningNode(e, f, i) ==
    LET left  == f[i - e[i].left_op]
        right == f[i - e[i].right_op]
    IN  CASE e[i].op_type = "LEAVE"           -> Members(e[i].set_name)
          [] e[i].op_type = "OP_COMPLEMENT"   -> DOMAIN keyTable \ left
          [] e[i].op_type = "OP_UNION"        -> left \cup right
          [] e[i].op_type = "OP_INTERSECTION" -> left \cap right
          [] e[i].op_type = "OP_DIFFERENCE"   -> left \ right

BoundedNode(e, f, i) ==
    LET left  == f[i - e[i].left_op]
        right == f[i - e[i].right_op]
    IN  CASE e[i].op_type = "LEAVE"           -> TRUE
          [] e[i].op_type = "OP_COMPLEMENT"   -> FALSE
          [] e[i].op_type = "OP_UNION"        -> left /\ right
          [] e[i].op_type = "OP_INTERSECTION" -> left \/ right
          [] e[i].op_type = "OP_DIFFERENCE"   -> left

IsRun(f, e)     == f = [i \in 1 .. Len(e) |-> RunNode(e, f, i)]
IsMeaning(f, e) == f = [i \in 1 .. Len(e) |-> MeaningNode(e, f, i)]
IsBounded(f, e) == f = [i \in 1 .. Len(e) |-> BoundedNode(e, f, i)]

\* db_run_set_operation returns, for every node, a bitset.
LEMMA RunExists ==
    ASSUME Loaded, NEW A, NEW e \in Trees(A), NamesIn(e) \subseteq SetNames
    PROVE  \E f \in [1 .. Len(e) -> BitsetOfKeys] :
              IsRun(f, e) /\ db_run_set_operation(e) = f[Len(e)]
<1> DEFINE n    == Len(e)
           V    == BitsetOfKeys
           step == [p \in (1 .. n) \X [1 .. n -> V] |-> RunNode(e, p[2], p[1])]
<1>1. n \in Nat \ {0}
    BY DEF Trees
<1>2. ASSUME NEW i \in 1 .. n, e[i].op_type = "LEAVE"
      PROVE  sets[setNamesTable[e[i].set_name]] \in V
    <2>1. e[i].set_name \in SetNames
        BY <1>2 DEF NamesIn
    <2> QED
        BY <2>1, SetLoaded
<1>3. ASSUME NEW i \in 1 .. n, NEW f \in [1 .. n -> V]
      PROVE  RunNode(e, f, i) \in V
    <2>1. CASE e[i].op_type = "LEAVE"
        BY <1>2, <2>1 DEF RunNode
    <2>2. CASE e[i].op_type = "OP_COMPLEMENT" /\ i - e[i].left_op \in 1 .. i - 1
        <3>1. i - e[i].left_op \in 1 .. n
            BY <1>1, <2>2
        <3>2. f[i - e[i].left_op] \in V
            BY <3>1
        <3> QED
            BY <2>2, <3>2, OperationsKeepSize DEF RunNode
    <2>3. CASE e[i].op_type \in Binary /\ i - e[i].left_op \in 1 .. i - 1
                /\ i - e[i].right_op \in 1 .. i - 1
        <3>1. i - e[i].left_op \in 1 .. n /\ i - e[i].right_op \in 1 .. n
            BY <1>1, <2>3
        <3>2. f[i - e[i].left_op] \in V /\ f[i - e[i].right_op] \in V
            BY <3>1
        <3> HIDE DEF V
        <3> QED
            BY <2>3, <3>2, OperationsKeepSize DEF RunNode, Binary, V
    <2> QED
        BY <2>1, <2>2, <2>3, NodeOfTree
<1>4. ASSUME NEW i \in 1 .. n, NEW f, NEW g, \A j \in 1 .. i - 1 : f[j] = g[j]
      PROVE  RunNode(e, f, i) = RunNode(e, g, i)
    <2>1. CASE e[i].op_type = "LEAVE"
        BY <2>1 DEF RunNode
    <2>2. CASE e[i].op_type = "OP_COMPLEMENT" /\ i - e[i].left_op \in 1 .. i - 1
        BY <1>4, <2>2 DEF RunNode
    <2>3. CASE e[i].op_type \in Binary /\ i - e[i].left_op \in 1 .. i - 1
                /\ i - e[i].right_op \in 1 .. i - 1
        BY <1>4, <2>3 DEF RunNode, Binary
    <2> QED
        BY <2>1, <2>2, <2>3, NodeOfTree
<1> HIDE DEF V, n
<1>5. step \in [(1 .. n) \X [1 .. n -> V] -> V]
    BY <1>3
<1>6. \A i \in 1 .. n, f \in [1 .. n -> V] : step[<<i, f>>] = RunNode(e, f, i)
    OBVIOUS
<1> HIDE DEF step
<1>7. LooksAtOperands(n, V, step)
    <2> SUFFICES ASSUME NEW i \in 1 .. n, NEW f \in [1 .. n -> V], NEW g \in [1 .. n -> V],
                        \A j \in 1 .. i - 1 : f[j] = g[j]
                 PROVE  step[<<i, f>>] = step[<<i, g>>]
        BY DEF LooksAtOperands
    <2>1. RunNode(e, f, i) = RunNode(e, g, i)
        BY <1>4
    <2> QED
        BY <1>6, <2>1
<1>8. \E v : v \in V
    <2>1. [integer_count |-> Words(maxKeyCount), bits |-> {}] \in V
        BY DEF V, BitsetOfKeys
    <2> QED
        BY <2>1
<1>9. Defined(1 .. n, V, step)
    BY <1>1, <1>5, <1>7, <1>8, Walk
<1>10. \E f \in [1 .. n -> V] : IsRun(f, e)
    <2>1. PICK f \in [1 .. n -> V] : \A i \in 1 .. n : f[i] = step[<<i, f>>]
        BY <1>9 DEF Defined
    <2>2. f = [i \in 1 .. n |-> RunNode(e, f, i)]
        BY <1>6, <2>1
    <2> QED
        BY <2>2 DEF IsRun, n
<1> DEFINE run == CHOOSE f : IsRun(f, e)
<1>11. IsRun(run, e) /\ db_run_set_operation(e) = run[n]
    BY <1>10 DEF db_run_set_operation, IsRun, RunNode, n
<1> HIDE DEF run
<1>12. run \in [1 .. n -> V]
    <2>1. PICK f \in [1 .. n -> V] : IsRun(f, e)
        BY <1>10
    <2>2. run = [i \in 1 .. n |-> RunNode(e, run, i)] /\ f = [i \in 1 .. n |-> RunNode(e, f, i)]
        BY <1>11, <2>1 DEF IsRun, n
    <2>3. f = run
        BY <1>1, <1>4, <2>2, SameWalk
    <2> QED
        BY <2>3
<1> QED
    BY <1>11, <1>12 DEF n, V

\* What the operations mean is, for every node, a set of keys.
LEMMA MeaningExists ==
    ASSUME Loaded, NEW A, NEW e \in Trees(A)
    PROVE  \E f \in [1 .. Len(e) -> SUBSET DOMAIN keyTable] :
              IsMeaning(f, e) /\ Meaning(e) = f[Len(e)]
<1> DEFINE n    == Len(e)
           V    == SUBSET DOMAIN keyTable
           step == [p \in (1 .. n) \X [1 .. n -> V] |-> MeaningNode(e, p[2], p[1])]
<1>1. n \in Nat \ {0}
    BY DEF Trees
<1>2. \A name : Members(name) \in V
    BY DEF Members
<1>3. ASSUME NEW i \in 1 .. n, NEW f \in [1 .. n -> V]
      PROVE  MeaningNode(e, f, i) \in V
    <2>1. CASE e[i].op_type = "LEAVE"
        BY <1>2, <2>1 DEF MeaningNode
    <2>2. CASE e[i].op_type = "OP_COMPLEMENT"
        BY <2>2 DEF MeaningNode
    <2>3. CASE e[i].op_type \in Binary /\ i - e[i].left_op \in 1 .. i - 1
                /\ i - e[i].right_op \in 1 .. i - 1
        <3>1. i - e[i].left_op \in 1 .. n /\ i - e[i].right_op \in 1 .. n
            BY <1>1, <2>3
        <3>2. f[i - e[i].left_op] \in V /\ f[i - e[i].right_op] \in V
            BY <3>1
        <3> QED
            BY <2>3, <3>2 DEF MeaningNode, Binary
    <2> QED
        BY <2>1, <2>2, <2>3, NodeOfTree
<1>4. ASSUME NEW i \in 1 .. n, NEW f, NEW g, \A j \in 1 .. i - 1 : f[j] = g[j]
      PROVE  MeaningNode(e, f, i) = MeaningNode(e, g, i)
    <2>1. CASE e[i].op_type = "LEAVE"
        BY <2>1 DEF MeaningNode
    <2>2. CASE e[i].op_type = "OP_COMPLEMENT" /\ i - e[i].left_op \in 1 .. i - 1
        BY <1>4, <2>2 DEF MeaningNode
    <2>3. CASE e[i].op_type \in Binary /\ i - e[i].left_op \in 1 .. i - 1
                /\ i - e[i].right_op \in 1 .. i - 1
        BY <1>4, <2>3 DEF MeaningNode, Binary
    <2> QED
        BY <2>1, <2>2, <2>3, NodeOfTree
<1> HIDE DEF V, n
<1>5. step \in [(1 .. n) \X [1 .. n -> V] -> V]
    BY <1>3
<1>6. \A i \in 1 .. n, f \in [1 .. n -> V] : step[<<i, f>>] = MeaningNode(e, f, i)
    OBVIOUS
<1> HIDE DEF step
<1>7. LooksAtOperands(n, V, step)
    <2> SUFFICES ASSUME NEW i \in 1 .. n, NEW f \in [1 .. n -> V], NEW g \in [1 .. n -> V],
                        \A j \in 1 .. i - 1 : f[j] = g[j]
                 PROVE  step[<<i, f>>] = step[<<i, g>>]
        BY DEF LooksAtOperands
    <2>1. MeaningNode(e, f, i) = MeaningNode(e, g, i)
        BY <1>4
    <2> QED
        BY <1>6, <2>1
<1>8. {} \in V
    BY DEF V
<1>9. Defined(1 .. n, V, step)
    BY <1>1, <1>5, <1>7, <1>8, Walk
<1>10. \E f \in [1 .. n -> V] : IsMeaning(f, e)
    <2>1. PICK f \in [1 .. n -> V] : \A i \in 1 .. n : f[i] = step[<<i, f>>]
        BY <1>9 DEF Defined
    <2>2. f = [i \in 1 .. n |-> MeaningNode(e, f, i)]
        BY <1>6, <2>1
    <2> QED
        BY <2>2 DEF IsMeaning, n
<1> DEFINE meaning == CHOOSE f : IsMeaning(f, e)
<1>11. IsMeaning(meaning, e) /\ Meaning(e) = meaning[n]
    BY <1>10 DEF Meaning, IsMeaning, MeaningNode, n
<1> HIDE DEF meaning
<1>12. meaning \in [1 .. n -> V]
    <2>1. PICK f \in [1 .. n -> V] : IsMeaning(f, e)
        BY <1>10
    <2>2. /\ meaning = [i \in 1 .. n |-> MeaningNode(e, meaning, i)]
          /\ f = [i \in 1 .. n |-> MeaningNode(e, f, i)]
        BY <1>11, <2>1 DEF IsMeaning, n
    <2>3. f = meaning
        BY <1>1, <1>4, <2>2, SameWalk
    <2> QED
        BY <2>3
<1> QED
    BY <1>11, <1>12 DEF n, V

\* Every node of a tree is bounded or not.
LEMMA BoundedExists ==
    ASSUME NEW A, NEW e \in Trees(A)
    PROVE  \E f \in [1 .. Len(e) -> BOOLEAN] : IsBounded(f, e) /\ Bounded(e) = f[Len(e)]
<1> DEFINE n    == Len(e)
           V    == BOOLEAN
           step == [p \in (1 .. n) \X [1 .. n -> V] |-> BoundedNode(e, p[2], p[1])]
<1>1. n \in Nat \ {0}
    BY DEF Trees
<1>3. ASSUME NEW i \in 1 .. n, NEW f \in [1 .. n -> V]
      PROVE  BoundedNode(e, f, i) \in V
    <2>1. CASE e[i].op_type = "LEAVE"
        BY <2>1 DEF BoundedNode
    <2>2. CASE e[i].op_type = "OP_COMPLEMENT"
        BY <2>2 DEF BoundedNode
    <2>3. CASE e[i].op_type \in Binary /\ i - e[i].left_op \in 1 .. i - 1
                /\ i - e[i].right_op \in 1 .. i - 1
        <3>1. i - e[i].left_op \in 1 .. n /\ i - e[i].right_op \in 1 .. n
            BY <1>1, <2>3
        <3>2. f[i - e[i].left_op] \in V /\ f[i - e[i].right_op] \in V
            BY <3>1
        <3> QED
            BY <2>3, <3>2 DEF BoundedNode, Binary
    <2> QED
        BY <2>1, <2>2, <2>3, NodeOfTree
<1>4. ASSUME NEW i \in 1 .. n, NEW f, NEW g, \A j \in 1 .. i - 1 : f[j] = g[j]
      PROVE  BoundedNode(e, f, i) = BoundedNode(e, g, i)
    <2>1. CASE e[i].op_type \in {"LEAVE", "OP_COMPLEMENT"}
        BY <2>1 DEF BoundedNode
    <2>2. CASE e[i].op_type \in Binary /\ i - e[i].left_op \in 1 .. i - 1
                /\ i - e[i].right_op \in 1 .. i - 1
        BY <1>4, <2>2 DEF BoundedNode, Binary
    <2> QED
        BY <2>1, <2>2, NodeOfTree
<1> HIDE DEF V, n
<1>5. step \in [(1 .. n) \X [1 .. n -> V] -> V]
    BY <1>3
<1>6. \A i \in 1 .. n, f \in [1 .. n -> V] : step[<<i, f>>] = BoundedNode(e, f, i)
    OBVIOUS
<1> HIDE DEF step
<1>7. LooksAtOperands(n, V, step)
    <2> SUFFICES ASSUME NEW i \in 1 .. n, NEW f \in [1 .. n -> V], NEW g \in [1 .. n -> V],
                        \A j \in 1 .. i - 1 : f[j] = g[j]
                 PROVE  step[<<i, f>>] = step[<<i, g>>]
        BY DEF LooksAtOperands
    <2>1. BoundedNode(e, f, i) = BoundedNode(e, g, i)
        BY <1>4
    <2> QED
        BY <1>6, <2>1
<1>8. TRUE \in V
    BY DEF V
<1>9. Defined(1 .. n, V, step)
    BY <1>1, <1>5, <1>7, <1>8, Walk
<1>10. \E f \in [1 .. n -> V] : IsBounded(f, e)
    <2>1. PICK f \in [1 .. n -> V] : \A i \in 1 .. n : f[i] = step[<<i, f>>]
        BY <1>9 DEF Defined
    <2>2. f = [i \in 1 .. n |-> BoundedNode(e, f, i)]
        BY <1>6, <2>1
    <2> QED
        BY <2>2 DEF IsBounded, n
<1> DEFINE bounded == CHOOSE f : IsBounded(f, e)
<1>11. IsBounded(bounded, e) /\ Bounded(e) = bounded[n]
    BY <1>10 DEF Bounded, IsBounded, BoundedNode, n
<1> HIDE DEF bounded
<1>12. bounded \in [1 .. n -> V]
    <2>1. PICK f \in [1 .. n -> V] : IsBounded(f, e)
        BY <1>10
    <2>2. /\ bounded = [i \in 1 .. n |-> BoundedNode(e, bounded, i)]
          /\ f = [i \in 1 .. n |-> BoundedNode(e, f, i)]
        BY <1>11, <2>1 DEF IsBounded, n
    <2>3. f = bounded
        BY SMTT(40), <1>1, <1>4, <2>2, SameWalk
    <2> QED
        BY <2>3
<1> QED
    BY <1>11, <1>12 DEF n, V

\* A bitset has the bits of these keys, and, if it has to be bounded, no other.
Represents(b, ks, bound) ==
    /\ \A k \in 1 .. keyCount : k \in ks <=> k - 1 \in b.bits
    /\ bound => b.bits \subseteq 0 .. keyCount - 1

\* The bitset of a set has the bits of its members.
LEMMA LeaveRepresents ==
    ASSUME Loaded, NEW name \in SetNames
    PROVE  Represents(sets[setNamesTable[name]], Members(name), TRUE)
<1>1. sets[setNamesTable[name]].bits \subseteq 0 .. keyCount - 1
    BY SetLoaded
<1>2. \A k \in 1 .. keyCount : keyTable[k] = k - 1
    BY DEF Loaded
<1>3. DOMAIN keyTable = 1 .. keyCount
    BY DEF Loaded
<1> QED
    BY <1>1, <1>2, <1>3 DEF Represents, Members

\* The operations on two bitsets represent the operations on their keys.
OperationsFit(b1, b2, ks1, ks2, bound1, bound2) ==
    /\ Represents(bitset_complement(b1), DOMAIN keyTable \ ks1, FALSE)
    /\ Represents(bitset_union(b1, b2), ks1 \cup ks2, bound1 /\ bound2)
    /\ Represents(bitset_intersection(b1, b2), ks1 \cap ks2, bound1 \/ bound2)
    /\ Represents(bitset_difference(b1, b2), ks1 \ ks2, bound1)

\* Each operation of bitset.c does to bits what its name says of keys.
LEMMA OperationsRepresent ==
    ASSUME Loaded, NEW b1 \in BitsetOfKeys, NEW b2 \in BitsetOfKeys,
           NEW ks1 \in SUBSET DOMAIN keyTable, NEW ks2 \in SUBSET DOMAIN keyTable,
           NEW bound1 \in BOOLEAN, NEW bound2 \in BOOLEAN,
           Represents(b1, ks1, bound1), Represents(b2, ks2, bound2)
    PROVE  OperationsFit(b1, b2, ks1, ks2, bound1, bound2)
<1>1. DOMAIN keyTable = 1 .. keyCount
    BY DEF Loaded
<1>2. \A k \in 1 .. keyCount : k - 1 \in Positions(Words(maxKeyCount))
    <2>1. 0 .. maxKeyCount - 1 \subseteq Positions(Words(maxKeyCount))
        BY BitForKey, DatabaseAssumption
    <2>2. \A k \in 1 .. keyCount : k - 1 \in 0 .. maxKeyCount - 1
        BY DatabaseAssumption DEF Loaded
    <2> QED
        BY <2>1, <2>2
<1>3. /\ bitset_complement(b1).bits = Positions(Words(maxKeyCount)) \ b1.bits
      /\ bitset_union(b1, b2).bits = b1.bits \cup b2.bits
      /\ bitset_intersection(b1, b2).bits = b1.bits \cap b2.bits
      /\ bitset_difference(b1, b2).bits = b1.bits \ b2.bits
    BY BitsetOperations
<1>4. Represents(bitset_complement(b1), DOMAIN keyTable \ ks1, FALSE)
    BY <1>1, <1>2, <1>3 DEF Represents
<1>5. Represents(bitset_union(b1, b2), ks1 \cup ks2, bound1 /\ bound2)
    BY <1>3 DEF Represents
<1>6. Represents(bitset_intersection(b1, b2), ks1 \cap ks2, bound1 \/ bound2)
    BY <1>3 DEF Represents
<1>7. Represents(bitset_difference(b1, b2), ks1 \ ks2, bound1)
    BY <1>3 DEF Represents
<1> QED
    BY <1>4, <1>5, <1>6, <1>7 DEF OperationsFit

\* The bitset that db_run_set_operation returns has a bit for each key that
\* the operations select, and no other bit if the tree is bounded or the keys
\* fill the last word.
LEMMA EvaluationExact ==
    ASSUME Loaded, NEW A, NEW e \in Trees(A), NamesIn(e) \subseteq SetNames
    PROVE  /\ db_run_set_operation(e) \in BitsetOfKeys
           /\ Meaning(e) \subseteq DOMAIN keyTable
           /\ Represents(db_run_set_operation(e), Meaning(e), Bounded(e) \/ NoPadding)
<1> DEFINE n == Len(e)
<1>1. n \in Nat \ {0}
    BY DEF Trees
<1>2. PICK run \in [1 .. n -> BitsetOfKeys] :
          IsRun(run, e) /\ db_run_set_operation(e) = run[n]
    BY RunExists
<1>3. PICK meaning \in [1 .. n -> SUBSET DOMAIN keyTable] :
          IsMeaning(meaning, e) /\ Meaning(e) = meaning[n]
    BY MeaningExists
<1>4. PICK bounded \in [1 .. n -> BOOLEAN] : IsBounded(bounded, e) /\ Bounded(e) = bounded[n]
    BY BoundedExists
<1> HIDE DEF n
<1>5. \A i \in 1 .. n : /\ run[i] = RunNode(e, run, i)
                        /\ meaning[i] = MeaningNode(e, meaning, i)
                        /\ bounded[i] = BoundedNode(e, bounded, i)
    BY <1>2, <1>3, <1>4 DEF IsRun, IsMeaning, IsBounded, n
<1> DEFINE Exact(i) == Represents(run[i], meaning[i], bounded[i])
           S == {i \in 1 .. n : ~Exact(i)}
<1>6. ASSUME NEW i \in 1 .. n, \A j \in 1 .. i - 1 : Exact(j)
      PROVE  Exact(i)
    <2>1. CASE e[i].op_type = "LEAVE"
        <3>1. e[i].set_name \in SetNames
            BY <2>1 DEF NamesIn, n
        <3>2. run[i] = sets[setNamesTable[e[i].set_name]]
            BY <1>5, <2>1 DEF RunNode
        <3>3. meaning[i] = Members(e[i].set_name)
            BY <1>5, <2>1 DEF MeaningNode
        <3>4. bounded[i] = TRUE
            BY <1>5, <2>1 DEF BoundedNode
        <3> QED
            BY <3>1, <3>2, <3>3, <3>4, LeaveRepresents
    <2>2. CASE e[i].op_type = "OP_COMPLEMENT" /\ i - e[i].left_op \in 1 .. i - 1
        <3> DEFINE l == i - e[i].left_op
        <3>1. l \in 1 .. n /\ Exact(l)
            BY <1>1, <1>6, <2>2
        <3>2. run[i] = bitset_complement(run[l])
            BY <1>5, <2>2 DEF RunNode
        <3>3. meaning[i] = DOMAIN keyTable \ meaning[l]
            BY <1>5, <2>2 DEF MeaningNode
        <3>4. bounded[i] = FALSE
            BY <1>5, <2>2 DEF BoundedNode
        <3> HIDE DEF l
        <3>5. run[l] \in BitsetOfKeys /\ meaning[l] \in SUBSET DOMAIN keyTable /\ bounded[l] \in BOOLEAN
            BY <3>1
        <3>6. OperationsFit(run[l], run[l], meaning[l], meaning[l], bounded[l], bounded[l])
            BY <3>1, <3>5, OperationsRepresent
        <3> QED
            BY <3>2, <3>3, <3>4, <3>6 DEF OperationsFit
    <2>3. CASE e[i].op_type \in Binary /\ i - e[i].left_op \in 1 .. i - 1
                /\ i - e[i].right_op \in 1 .. i - 1
        <3> DEFINE l == i - e[i].left_op
                   r == i - e[i].right_op
        <3>1. l \in 1 .. n /\ Exact(l) /\ r \in 1 .. n /\ Exact(r)
            BY <1>1, <1>6, <2>3
        <3>2. /\ e[i].op_type = "OP_UNION" =>
                    /\ run[i] = bitset_union(run[l], run[r])
                    /\ meaning[i] = meaning[l] \cup meaning[r]
              /\ e[i].op_type = "OP_INTERSECTION" =>
                    /\ run[i] = bitset_intersection(run[l], run[r])
                    /\ meaning[i] = meaning[l] \cap meaning[r]
              /\ e[i].op_type = "OP_DIFFERENCE" =>
                    /\ run[i] = bitset_difference(run[l], run[r])
                    /\ meaning[i] = meaning[l] \ meaning[r]
            BY <1>5, <2>3 DEF RunNode, MeaningNode
        <3>3. /\ e[i].op_type = "OP_UNION" => bounded[i] = (bounded[l] /\ bounded[r])
              /\ e[i].op_type = "OP_INTERSECTION" => bounded[i] = (bounded[l] \/ bounded[r])
              /\ e[i].op_type = "OP_DIFFERENCE" => bounded[i] = bounded[l]
            BY <1>5, <2>3 DEF BoundedNode
        <3> HIDE DEF l, r
        <3>4. /\ run[l] \in BitsetOfKeys /\ meaning[l] \in SUBSET DOMAIN keyTable /\ bounded[l] \in BOOLEAN
              /\ run[r] \in BitsetOfKeys /\ meaning[r] \in SUBSET DOMAIN keyTable /\ bounded[r] \in BOOLEAN
            BY <3>1
        <3>6. OperationsFit(run[l], run[r], meaning[l], meaning[r], bounded[l], bounded[r])
            BY <3>1, <3>4, OperationsRepresent
        <3> QED
            BY <2>3, <3>2, <3>3, <3>6 DEF Binary, OperationsFit
    <2> QED
        BY <2>1, <2>2, <2>3, NodeOfTree DEF n
<1>7. Exact(n)
    <2> HIDE DEF Exact
    <2>1. SUFFICES ASSUME S # {} PROVE FALSE
        BY <1>1
    <2>2. PICK m \in S : \A i \in S : m <= i
        <3>1. S \subseteq Nat
            OBVIOUS
        <3> QED
            BY <2>1, <3>1, LeastNatural
    <2>3. \A j \in 1 .. m - 1 : j \in 1 .. n /\ j \notin S
        BY <1>1, <2>2
    <2> QED
        BY <1>6, <2>2, <2>3
<1>8. NoPadding => run[n].bits \subseteq 0 .. keyCount - 1
    <2>1. run[n].bits \subseteq Positions(Words(maxKeyCount))
        BY <1>1, <1>2 DEF BitsetOfKeys
    <2> QED
        BY <2>1 DEF NoPadding, Positions
<1>9. Represents(run[n], meaning[n], bounded[n] \/ NoPadding)
    BY <1>7, <1>8 DEF Represents
<1>10. run[n] \in BitsetOfKeys /\ meaning[n] \subseteq DOMAIN keyTable
    BY <1>1, <1>2, <1>3
<1> QED
    BY <1>2, <1>3, <1>4, <1>9, <1>10

-----------------------------------------------------------------------------
(* The copying of rows.                                                    *)

CopyStep(f, i) ==
    IF i = 0 THEN <<>>
    ELSE IF i - 1 \in bs.bits THEN Append(f[i - 1], Row(i - 1))
    ELSE f[i - 1]

BitCount == bs.integer_count * INTEGER_BIT_SIZE

IsCopied(f) == f = [i \in 0 .. BitCount |-> CopyStep(f, i)]

\* The loop over the bits defines what has been copied after each of them.
LEMMA CopiedExists ==
    ASSUME BitCount \in Nat
    PROVE  \E f : IsCopied(f) /\ Copied = f[BitCount]
<1> DEFINE n    == BitCount
           S    == 0 .. n
           size == [i \in S |-> i]
           V    == Seq({Row(b) : b \in S})
           step == [p \in S \X [S -> V] |-> CopyStep(p[2], p[1])]
<1>1. size \in [S -> Nat] /\ \A i \in S : size[i] = i
    OBVIOUS
<1>2. ASSUME NEW i \in S, NEW f \in [S -> V]
      PROVE  CopyStep(f, i) \in V
    <2>1. CASE i = 0
        BY <2>1 DEF CopyStep
    <2>2. CASE i # 0
        <3>1. i - 1 \in S /\ Row(i - 1) \in {Row(b) : b \in S}
            BY <2>2
        <3>2. f[i - 1] \in V
            BY <3>1
        <3> QED
            BY <2>2, <3>1, <3>2 DEF CopyStep
    <2> QED
        BY <2>1, <2>2
<1>3. ASSUME NEW i \in S, NEW f, NEW g, i # 0 => f[i - 1] = g[i - 1]
      PROVE  CopyStep(f, i) = CopyStep(g, i)
    BY <1>3 DEF CopyStep
<1> HIDE DEF V, size
<1>4. step \in [S \X [S -> V] -> V]
    BY <1>2
<1>5. \A i \in S, f \in [S -> V] : step[<<i, f>>] = CopyStep(f, i)
    OBVIOUS
<1> HIDE DEF step
<1>6. LooksBack(S, size, V, step)
    <2> SUFFICES ASSUME NEW i \in S, NEW f \in [S -> V], NEW g \in [S -> V],
                        \A j \in S : size[j] < size[i] => f[j] = g[j]
                 PROVE  step[<<i, f>>] = step[<<i, g>>]
        BY DEF LooksBack
    <2>1. i # 0 => i - 1 \in S /\ size[i - 1] < size[i]
        BY <1>1
    <2>2. CopyStep(f, i) = CopyStep(g, i)
        BY <1>3, <2>1
    <2> QED
        BY <1>5, <2>2
<1>7. <<>> \in V
    BY DEF V
<1> HIDE DEF S
<1>8. Defined(S, V, step)
    BY <1>1, <1>4, <1>6, <1>7, Recursion
<1>9. \E f : IsCopied(f)
    <2>1. PICK f \in [S -> V] : \A i \in S : f[i] = step[<<i, f>>]
        BY <1>8 DEF Defined
    <2>2. f = [i \in S |-> CopyStep(f, i)]
        BY <1>5, <2>1
    <2> QED
        BY <2>2 DEF IsCopied, S
<1> DEFINE copied == CHOOSE f : IsCopied(f)
<1>10. IsCopied(copied) /\ Copied = copied[BitCount]
    BY <1>9 DEF Copied, IsCopied, CopyStep, BitCount
<1> QED
    BY <1>10

\* The rows of the bits below n: one for each, in their order.
RowsOf(c, n) ==
    /\ c \in Seq({Row(b) : b \in Nat})
    /\ \A r \in 1 .. Len(c) :
          /\ c[r].index \in bs.bits /\ c[r].index \in 0 .. n - 1 /\ r <= c[r].index + 1
          /\ c[r] = Row(c[r].index)
    /\ \A r, s \in 1 .. Len(c) : r < s => c[r].index < c[s].index
    /\ \A b \in bs.bits : b \in 0 .. n - 1 => \E r \in 1 .. Len(c) : c[r].index = b

\* One bit more.
LEMMA RowCopied ==
    ASSUME NEW n \in Nat, NEW c, RowsOf(c, n), n \in bs.bits
    PROVE  RowsOf(Append(c, Row(n)), n + 1)
<1> DEFINE R == {Row(b) : b \in Nat}
           d == Append(c, Row(n))
           m == Len(c)
<1>1. c \in Seq(R) /\ Row(n) \in R /\ m \in Nat
    BY DEF RowsOf
<1>2. Row(n).index = n
    BY DEF Row
<1> HIDE DEF R
<1>3. d \in Seq(R) /\ Len(d) = m + 1 /\ d[m + 1] = Row(n)
    BY <1>1
<1>4. \A r \in 1 .. m : d[r] = c[r]
    BY <1>1
<1> HIDE DEF d
<1>5. \A r \in 1 .. m : c[r].index \in 0 .. n - 1
    BY DEF RowsOf
<1>6. m <= n
    <2>1. m = 0 \/ (m \in 1 .. m /\ m <= c[m].index + 1 /\ c[m].index \in 0 .. n - 1)
        BY <1>1 DEF RowsOf
    <2> QED
        BY <1>1, <2>1
<1>7. ASSUME NEW r \in 1 .. m + 1
      PROVE  /\ d[r].index \in bs.bits /\ d[r].index \in 0 .. n /\ r <= d[r].index + 1
             /\ d[r] = Row(d[r].index)
    <2>1. CASE r = m + 1
        BY <1>1, <1>2, <1>3, <1>6, <2>1
    <2>2. CASE r # m + 1
        <3>1. r \in 1 .. m /\ d[r] = c[r]
            BY <1>1, <1>4, <2>2
        <3> QED
            BY <1>5, <3>1 DEF RowsOf
    <2> QED
        BY <2>1, <2>2
<1>8. ASSUME NEW r \in 1 .. m + 1, NEW s \in 1 .. m + 1, r < s
      PROVE  d[r].index < d[s].index
    <2>1. r \in 1 .. m /\ d[r] = c[r] /\ c[r].index \in 0 .. n - 1
        BY <1>1, <1>4, <1>5, <1>8
    <2>2. CASE s = m + 1
        BY <1>2, <1>3, <2>1, <2>2
    <2>3. CASE s # m + 1
        <3>1. s \in 1 .. m /\ d[s] = c[s]
            BY <1>1, <1>4, <2>3
        <3> QED
            BY <1>8, <2>1, <3>1 DEF RowsOf
    <2> QED
        BY <2>2, <2>3
<1>9. ASSUME NEW b \in bs.bits, b \in 0 .. n
      PROVE  \E r \in 1 .. m + 1 : d[r].index = b
    <2>1. CASE b = n
        BY <1>1, <1>2, <1>3, <2>1
    <2>2. CASE b # n
        <3>1. b \in 0 .. n - 1
            BY <1>9, <2>2
        <3>2. PICK r \in 1 .. m : c[r].index = b
            BY <3>1 DEF RowsOf
        <3> QED
            BY <1>1, <1>4, <3>2
    <2> QED
        BY <2>1, <2>2
<1>10. n + 1 - 1 = n
    OBVIOUS
<1>11. d \in Seq({Row(b) : b \in Nat}) /\ Len(d) = m + 1
    BY <1>3 DEF R
<1> HIDE DEF m
<1>12. RowsOf(d, n + 1)
    BY <1>7, <1>8, <1>9, <1>10, <1>11 DEF RowsOf
<1> QED
    BY <1>12 DEF d

\* No row for a bit that is zero.
LEMMA RowSkipped ==
    ASSUME NEW n \in Nat, NEW c, RowsOf(c, n), n \notin bs.bits
    PROVE  RowsOf(c, n + 1)
<1>1. \A b \in bs.bits : b \in 0 .. n => b \in 0 .. n - 1
    OBVIOUS
<1>2. 0 .. n - 1 \subseteq 0 .. n /\ n + 1 - 1 = n
    OBVIOUS
<1> QED
    BY <1>1, <1>2 DEF RowsOf

\* All bits are copied.
LEMMA AllCopied ==
    ASSUME BitCount \in Nat
    PROVE  RowsOf(Copied, BitCount)
<1>1. PICK f : IsCopied(f) /\ Copied = f[BitCount]
    BY CopiedExists
<1>2. \A i \in 0 .. BitCount : f[i] = CopyStep(f, i)
    BY <1>1 DEF IsCopied
<1> DEFINE S == {i \in 0 .. BitCount : ~RowsOf(f[i], i)}
<1>3. SUFFICES ASSUME S # {} PROVE FALSE
    BY <1>1
<1>4. PICK m \in S : \A i \in S : m <= i
    <2>1. S \subseteq Nat
        OBVIOUS
    <2> QED
        BY <1>3, <2>1, LeastNatural
<1>5. m # 0
    <2>1. f[0] = <<>>
        BY <1>2 DEF CopyStep
    <2>2. RowsOf(<<>>, 0)
        BY DEF RowsOf
    <2> QED
        BY <1>4, <2>1, <2>2
<1>6. m - 1 \in 0 .. BitCount /\ m - 1 \notin S
    BY <1>4, <1>5
<1>7. PICK c : c = f[m - 1]
    OBVIOUS
<1>8. RowsOf(c, m - 1) /\ m - 1 \in Nat /\ m - 1 + 1 = m
    BY <1>6, <1>7
<1>9. f[m] = IF m - 1 \in bs.bits THEN Append(c, Row(m - 1)) ELSE c
    BY <1>2, <1>4, <1>5, <1>7 DEF CopyStep
<1>10. CASE m - 1 \in bs.bits
    <2>1. RowsOf(Append(c, Row(m - 1)), m - 1 + 1)
        BY <1>8, <1>10, RowCopied
    <2> QED
        BY <1>4, <1>8, <1>9, <1>10, <2>1
<1>11. CASE m - 1 \notin bs.bits
    <2>1. RowsOf(c, m - 1 + 1)
        BY <1>8, <1>11, RowSkipped
    <2> QED
        BY <1>4, <1>8, <1>9, <1>11, <2>1
<1> QED
    BY <1>10, <1>11

-----------------------------------------------------------------------------
(* Texts and their pieces.                                                 *)

\* The words of the operations with two operands.
LEMMA OperationWords ==
    /\ DOMAIN Operation = {UnionWord, IntersectionWord, DifferenceWord}
    /\ \A w \in DOMAIN Operation : Operation[w] \in Binary /\ w # ComplementWord /\ IsWord(w)
<1>1. DOMAIN Operation = {UnionWord, IntersectionWord, DifferenceWord}
    BY DEF Operation
<1>2. \A w \in {UnionWord, IntersectionWord, DifferenceWord} : Operation[w] \in Binary
    BY DEF Operation, Binary
<1>3. \A w \in {UnionWord, IntersectionWord, DifferenceWord} : w # ComplementWord /\ IsWord(w)
    BY TokenAssumption DEF IsWord
<1> QED
    BY <1>1, <1>2, <1>3

\* A token of a text.
LEMMA TokenOfText ==
    ASSUME NEW A, NEW s \in Seq(A), NEW i \in 1 .. Len(s)
    PROVE  s[i] \in A
OBVIOUS

\* What is between the parentheses.
LEMMA ContentOfText ==
    ASSUME NEW A, NEW s \in Seq(A), Enclosed(s)
    PROVE  /\ Content(s) \in Seq(A) /\ Len(Content(s)) = Len(s) - 2
           /\ \A i \in 1 .. Len(s) - 2 : Content(s)[i] = s[i + 1]
BY DEF Enclosed, Content

\* What is behind the first token.
LEMMA TailOfText ==
    ASSUME NEW A, NEW s \in Seq(A), s # <<>>
    PROVE  /\ Tail(s) \in Seq(A) /\ Len(Tail(s)) = Len(s) - 1
           /\ \A i \in 1 .. Len(s) - 1 : Tail(s)[i] = s[i + 1]
OBVIOUS

\* What is on the two sides of a token.
LEMMA SidesOfText ==
    ASSUME NEW A, NEW s \in Seq(A), NEW k \in 0 .. Len(s)
    PROVE  /\ SubSeq(s, 1, k - 1) \in Seq(A)
           /\ Len(SubSeq(s, 1, k - 1)) = IF k = 0 THEN 0 ELSE k - 1
           /\ \A i \in 1 .. k - 1 : SubSeq(s, 1, k - 1)[i] = s[i]
           /\ SubSeq(s, k + 1, Len(s)) \in Seq(A) /\ Len(SubSeq(s, k + 1, Len(s))) = Len(s) - k
           /\ \A i \in 1 .. Len(s) - k : SubSeq(s, k + 1, Len(s))[i] = s[k + i]
<1>1. Len(s) \in Nat
    OBVIOUS
<1>2. CASE k = 0
    <2>1. SubSeq(s, 1, 0 - 1) = <<>>
        OBVIOUS
    <2> QED
        BY <1>1, <1>2, <2>1
<1>3. CASE k # 0
    BY <1>1, <1>3
<1> QED
    BY <1>2, <1>3

\* How many parentheses a token opens.
Weight(token) ==
    CASE token = Open  -> 1
      [] token = Close -> -1
      [] OTHER         -> 0

IsCount(c, s) == c = [i \in 0 .. Len(s) |-> IF i = 0 THEN 0 ELSE c[i - 1] + Weight(s[i])]

Count(s) == CHOOSE c : IsCount(c, s)

\* The parentheses open behind each token are a number.
LEMMA CountExists ==
    ASSUME NEW A, NEW s \in Seq(A)
    PROVE  /\ IsCount(Count(s), s)
           /\ Count(s) \in [0 .. Len(s) -> Int]
           /\ Count(s)[0] = 0
           /\ \A i \in 1 .. Len(s) : Count(s)[i] = Count(s)[i - 1] + Weight(s[i])
<1> DEFINE S    == 0 .. Len(s)
           size == [i \in S |-> i]
           V    == Int
           CountStep(f, i) == IF i = 0 THEN 0 ELSE f[i - 1] + Weight(s[i])
           step == [p \in S \X [S -> V] |-> CountStep(p[2], p[1])]
<1>1. size \in [S -> Nat] /\ \A i \in S : size[i] = i
    OBVIOUS
<1>2. \A t : Weight(t) \in Int
    BY DEF Weight
<1>3. ASSUME NEW i \in S, NEW f \in [S -> V]
      PROVE  CountStep(f, i) \in V
    <2>1. i # 0 => i - 1 \in S
        OBVIOUS
    <2>2. i # 0 => f[i - 1] \in Int
        BY <2>1
    <2> QED
        BY <1>2, <2>2
<1>4. ASSUME NEW i \in S, NEW f, NEW g, i # 0 => f[i - 1] = g[i - 1]
      PROVE  CountStep(f, i) = CountStep(g, i)
    BY <1>4
<1>5. \A f, i : IsCount(f, s) /\ i \in S => f[i] = CountStep(f, i)
    BY DEF IsCount
<1>6. \A f : f = [i \in S |-> CountStep(f, i)] => IsCount(f, s)
    BY DEF IsCount
<1> HIDE DEF size, CountStep
<1>7. step \in [S \X [S -> V] -> V]
    BY <1>3
<1>8. \A i \in S, f \in [S -> V] : step[<<i, f>>] = CountStep(f, i)
    OBVIOUS
<1> HIDE DEF step
<1>9. LooksBack(S, size, V, step)
    <2> SUFFICES ASSUME NEW i \in S, NEW f \in [S -> V], NEW g \in [S -> V],
                        \A j \in S : size[j] < size[i] => f[j] = g[j]
                 PROVE  step[<<i, f>>] = step[<<i, g>>]
        BY DEF LooksBack
    <2>1. i # 0 => i - 1 \in S /\ size[i - 1] < size[i]
        BY <1>1
    <2>2. CountStep(f, i) = CountStep(g, i)
        BY <1>4, <2>1
    <2> QED
        BY <1>8, <2>2
<1> HIDE DEF S
<1>16. 0 \in V
    OBVIOUS
<1> HIDE DEF V
<1>10. Defined(S, V, step)
    BY <1>1, <1>7, <1>9, <1>16, Recursion
<1>11. \E c \in [S -> V] : IsCount(c, s)
    <2>1. PICK f \in [S -> V] : \A i \in S : f[i] = step[<<i, f>>]
        BY <1>10 DEF Defined
    <2>2. f = [i \in S |-> CountStep(f, i)]
        BY <1>8, <2>1
    <2> QED
        BY <1>6, <2>2
<1>12. IsCount(Count(s), s)
    BY <1>11 DEF Count
<1>13. Count(s) \in [S -> V]
    <2>1. PICK c \in [S -> V] : IsCount(c, s)
        BY <1>11
    <2>2. PICK f : f = Count(s)
        OBVIOUS
    <2>3. f = [i \in S |-> f[i]] /\ c = [i \in S |-> c[i]]
        BY <1>12, <2>1, <2>2 DEF IsCount, S
    <2>4. AgreeOnward(S, size, f, c)
        <3> SUFFICES ASSUME NEW i \in S, \A j \in S : size[j] < size[i] => f[j] = c[j]
                     PROVE  f[i] = c[i]
            BY DEF AgreeOnward
        <3>1. i # 0 => i - 1 \in S /\ size[i - 1] < size[i]
            BY <1>1 DEF S
        <3> QED
            BY <1>4, <1>5, <1>12, <2>1, <2>2, <3>1
    <2>5. f = c
        BY <1>1, <2>3, <2>4, SameFunction
    <2> QED
        BY <2>2, <2>5
<1>14. PICK c : c = Count(s)
    OBVIOUS
<1>15. c = [i \in 0 .. Len(s) |-> IF i = 0 THEN 0 ELSE c[i - 1] + Weight(s[i])] /\ Len(s) \in Nat
    BY <1>12, <1>14 DEF IsCount
<1>17. c[0] = 0 /\ \A i \in 1 .. Len(s) : c[i] = c[i - 1] + Weight(s[i])
    BY <1>15
<1> QED
    BY <1>12, <1>13, <1>14, <1>17 DEF S, V

\* t is what follows the first k tokens of s, or the beginning of it.
PieceAt(t, s, k) == k + Len(t) <= Len(s) /\ \A i \in 1 .. Len(t) : t[i] = s[k + i]

CountedFrom(t, s, k) == \A i \in 0 .. Len(t) : Count(s)[k + i] = Count(s)[k] + Count(t)[i]

\* The parentheses of a piece are counted from those open where it begins.
LEMMA CountOfPiece ==
    ASSUME NEW A, NEW s \in Seq(A), NEW t \in Seq(A), NEW k \in Nat, PieceAt(t, s, k)
    PROVE  CountedFrom(t, s, k)
<1> DEFINE m == Len(t)
           n == Len(s)
           S == {i \in 0 .. m : Count(s)[k + i] # Count(s)[k] + Count(t)[i]}
<1>1. SUFFICES ASSUME S # {} PROVE FALSE
    BY DEF CountedFrom
<1>2. PICK j \in S : \A i \in S : j <= i
    <2>1. S \subseteq Nat
        OBVIOUS
    <2> QED
        BY <1>1, <2>1, LeastNatural
<1>3. PICK c, d : c = Count(s) /\ d = Count(t)
    OBVIOUS
<1>4. /\ c \in [0 .. n -> Int] /\ c[0] = 0 /\ \A i \in 1 .. n : c[i] = c[i - 1] + Weight(s[i])
      /\ d \in [0 .. m -> Int] /\ d[0] = 0 /\ \A i \in 1 .. m : d[i] = d[i - 1] + Weight(t[i])
    BY <1>3, CountExists
<1>5. m \in Nat /\ n \in Nat /\ k + m <= n /\ j \in 0 .. m
    BY <1>2 DEF PieceAt
<1>6. c[k] \in Int
    BY <1>4, <1>5
<1>7. j # 0
    <2>1. c[k + 0] # c[k] + d[0] => FALSE
        BY <1>4, <1>6
    <2> QED
        BY <1>2, <1>3, <2>1
<1>8. j - 1 \in 0 .. m /\ j - 1 \notin S
    BY <1>2, <1>5, <1>7
<1>9. c[k + (j - 1)] = c[k] + d[j - 1]
    BY <1>3, <1>8
<1>10. k + j \in 1 .. n /\ j \in 1 .. m /\ k + j - 1 = k + (j - 1) /\ k + (j - 1) \in 0 .. n
    BY <1>5, <1>7
<1>11. c[k + j] = c[k + (j - 1)] + Weight(s[k + j]) /\ d[j] = d[j - 1] + Weight(t[j])
    BY <1>4, <1>10
<1>12. Weight(t[j]) = Weight(s[k + j]) /\ Weight(t[j]) \in Int
    BY <1>10 DEF Weight, PieceAt
<1>13. d[j - 1] \in Int
    BY <1>4, <1>8
<1>14. c[k + j] = c[k] + d[j]
    BY <1>6, <1>9, <1>11, <1>12, <1>13
<1> QED
    BY <1>2, <1>3, <1>14

\* Every parenthesis that is opened is closed, and none is closed before it is
\* opened; there is no semicolon.
Matched(s) ==
    /\ \A i \in 0 .. Len(s) : Count(s)[i] >= 0
    /\ Count(s)[Len(s)] = 0
    /\ \A i \in 1 .. Len(s) : s[i] # Semicolon

\* Besides, no comma is outside all parentheses.
Balanced(s) ==
    /\ Matched(s)
    /\ \A i \in 1 .. Len(s) : s[i] = Comma => Count(s)[i] # 0

\* A word opens and closes nothing.
LEMMA WordWeighsNothing ==
    ASSUME NEW w, IsWord(w)
    PROVE  Weight(w) = 0 /\ w # Comma /\ w # Semicolon
BY DEF IsWord, Signs, Weight

\* A text of one word is balanced.
LEMMA WordBalanced ==
    ASSUME NEW A, NEW s \in Seq(A), Len(s) = 1, IsWord(s[1])
    PROVE  Balanced(s)
<1>1. PICK c : c = Count(s)
    OBVIOUS
<1>2. c \in [0 .. Len(s) -> Int] /\ c[0] = 0 /\ \A i \in 1 .. Len(s) : c[i] = c[i - 1] + Weight(s[i])
    BY <1>1, CountExists
<1>3. Weight(s[1]) = 0 /\ s[1] # Comma /\ s[1] # Semicolon
    BY WordWeighsNothing
<1>4. c[1] = 0
    <2>1. 1 \in 1 .. Len(s) /\ 1 - 1 = 0
        OBVIOUS
    <2>2. c[1] = c[1 - 1] + Weight(s[1])
        BY <1>2, <2>1
    <2> QED
        BY <1>2, <1>3, <2>1, <2>2
<1>5. 0 .. Len(s) = {0, 1} /\ 1 .. Len(s) = {1}
    OBVIOUS
<1> QED
    BY <1>1, <1>2, <1>3, <1>4, <1>5 DEF Balanced, Matched

\* In front of a text a word changes nothing.
LEMMA TailBalanced ==
    ASSUME NEW A, NEW s \in Seq(A), s # <<>>, IsWord(s[1]), Balanced(Tail(s))
    PROVE  Balanced(s)
<1> DEFINE n == Len(s)
<1>1. PICK t : t = Tail(s)
    OBVIOUS
<1>2. t \in Seq(A) /\ Len(t) = n - 1 /\ \A i \in 1 .. n - 1 : t[i] = s[i + 1]
    BY <1>1, TailOfText
<1>3. n \in Nat \ {0}
    OBVIOUS
<1>4. PICK c, d : c = Count(s) /\ d = Count(t)
    OBVIOUS
<1>5. c \in [0 .. n -> Int] /\ c[0] = 0 /\ \A i \in 1 .. n : c[i] = c[i - 1] + Weight(s[i])
    BY <1>4, CountExists
<1>6. c[1] = 0 /\ s[1] # Comma /\ s[1] # Semicolon
    <2>1. Weight(s[1]) = 0 /\ s[1] # Comma /\ s[1] # Semicolon
        BY WordWeighsNothing
    <2>2. 1 \in 1 .. n /\ 1 - 1 = 0
        BY <1>3
    <2>3. c[1] = c[1 - 1] + Weight(s[1])
        BY <1>5, <2>2
    <2> QED
        BY <1>5, <2>1, <2>2, <2>3
<1>7. d \in [0 .. n - 1 -> Int]
    BY <1>2, <1>4, CountExists
<1>8. \A i \in 0 .. n - 1 : c[1 + i] = d[i]
    <2>1. PieceAt(t, s, 1)
        BY <1>2, <1>3 DEF PieceAt
    <2>2. \A i \in 0 .. Len(t) : Count(s)[1 + i] = Count(s)[1] + Count(t)[i]
        BY <1>2, <2>1, CountOfPiece DEF CountedFrom
    <2>3. ASSUME NEW i \in 0 .. n - 1
          PROVE  c[1 + i] = d[i]
        <3>1. i \in 0 .. Len(t) /\ d[i] \in Int
            BY <1>2, <1>7
        <3>2. c[1 + i] = c[1] + d[i]
            BY <1>4, <2>2, <3>1
        <3> QED
            BY <1>6, <3>1, <3>2
    <2> QED
        BY <2>3
<1>9. Balanced(t)
    BY <1>1
<1>10. /\ \A i \in 0 .. n - 1 : d[i] >= 0
       /\ d[n - 1] = 0
       /\ \A i \in 1 .. n - 1 : t[i] # Semicolon /\ (t[i] = Comma => d[i] # 0)
    BY <1>2, <1>4, <1>9 DEF Balanced, Matched
<1>11. ASSUME NEW i \in 1 .. n
       PROVE  c[i] >= 0 /\ s[i] # Semicolon /\ (s[i] = Comma => c[i] # 0)
    <2>1. CASE i = 1
        BY <1>6, <2>1
    <2>2. CASE i # 1
        <3>1. i - 1 \in 0 .. n - 1 /\ i - 1 \in 1 .. n - 1 /\ 1 + (i - 1) = i /\ (i - 1) + 1 = i
            BY <1>3, <2>2
        <3>2. PICK x : x = i - 1
            OBVIOUS
        <3>3. x \in 0 .. n - 1 /\ x \in 1 .. n - 1 /\ 1 + x = i /\ x + 1 = i
            BY <3>1, <3>2
        <3>4. c[1 + x] = d[x] /\ d[x] >= 0
            BY <1>8, <1>10, <3>3
        <3>5. s[x + 1] = t[x]
            BY <1>2, <3>3
        <3>6. t[x] # Semicolon /\ (t[x] = Comma => d[x] # 0)
            BY <1>10, <3>3
        <3> QED
            BY <3>3, <3>4, <3>5, <3>6
    <2> QED
        BY <2>1, <2>2
<1>12. c[n] = 0
    <2>1. n - 1 \in 0 .. n - 1 /\ 1 + (n - 1) = n
        BY <1>3
    <2> QED
        BY <1>8, <1>10, <2>1
<1>13. \A i \in 0 .. n : i = 0 \/ i \in 1 .. n
    BY <1>3
<1> QED
    BY <1>3, <1>4, <1>5, <1>11, <1>12, <1>13 DEF Balanced, Matched

\* Between parentheses a comma is not outside.
LEMMA EnclosedBalanced ==
    ASSUME NEW A, NEW s \in Seq(A), Enclosed(s), Matched(Content(s))
    PROVE  Balanced(s)
<1> DEFINE n == Len(s)
<1>1. PICK t : t = Content(s)
    OBVIOUS
<1>2. t \in Seq(A) /\ Len(t) = n - 2 /\ \A i \in 1 .. n - 2 : t[i] = s[i + 1]
    BY <1>1, ContentOfText
<1>3. n \in Nat /\ n > 2 /\ s[1] = Open /\ s[n] = Close
    BY DEF Enclosed
<1>4. PICK c, d : c = Count(s) /\ d = Count(t)
    OBVIOUS
<1>5. c \in [0 .. n -> Int] /\ c[0] = 0 /\ \A i \in 1 .. n : c[i] = c[i - 1] + Weight(s[i])
    BY <1>4, CountExists
<1>6. /\ Weight(Open) = 1 /\ Weight(Close) = -1
      /\ Open # Comma /\ Open # Semicolon /\ Close # Comma /\ Close # Semicolon
    BY TokenAssumption DEF Weight
<1>7. c[1] = 1
    <2>1. 1 \in 1 .. n /\ 1 - 1 = 0
        BY <1>3
    <2>2. c[1] = c[1 - 1] + Weight(s[1])
        BY <1>5, <2>1
    <2> QED
        BY <1>3, <1>5, <1>6, <2>1, <2>2
<1>8. d \in [0 .. n - 2 -> Int]
    BY <1>2, <1>4, CountExists
<1>9. \A i \in 0 .. n - 2 : c[1 + i] = 1 + d[i]
    <2>1. PieceAt(t, s, 1)
        BY <1>2, <1>3 DEF PieceAt
    <2>2. \A i \in 0 .. Len(t) : Count(s)[1 + i] = Count(s)[1] + Count(t)[i]
        BY <1>2, <2>1, CountOfPiece DEF CountedFrom
    <2> QED
        BY <1>2, <1>4, <1>7, <2>2
<1>10. /\ \A i \in 0 .. n - 2 : d[i] >= 0
       /\ d[n - 2] = 0
       /\ \A i \in 1 .. n - 2 : t[i] # Semicolon
    BY <1>1, <1>2, <1>4 DEF Matched
<1>11. c[n - 1] = 1
    <2>1. n - 2 \in 0 .. n - 2 /\ 1 + (n - 2) = n - 1
        BY <1>3
    <2> QED
        BY <1>9, <1>10, <2>1
<1>12. c[n] = 0
    <2>1. n \in 1 .. n
        BY <1>3
    <2> QED
        BY <1>3, <1>5, <1>6, <1>11, <2>1
<1>13. ASSUME NEW i \in 1 .. n
       PROVE  c[i] >= 0 /\ s[i] # Semicolon /\ (s[i] = Comma => c[i] # 0)
    <2>1. CASE i = 1
        BY <1>3, <1>6, <1>7, <2>1
    <2>2. CASE i = n
        BY <1>3, <1>6, <1>12, <2>2
    <2>3. CASE i # 1 /\ i # n
        <3>1. i - 1 \in 0 .. n - 2 /\ i - 1 \in 1 .. n - 2 /\ 1 + (i - 1) = i /\ (i - 1) + 1 = i
            BY <1>3, <2>3
        <3>2. c[i] = 1 + d[i - 1] /\ d[i - 1] >= 0 /\ d[i - 1] \in Int
            BY <1>8, <1>9, <1>10, <3>1
        <3>3. PICK x : x = i - 1
            OBVIOUS
        <3>4. x \in 1 .. n - 2 /\ x + 1 = i /\ c[i] = 1 + d[x] /\ d[x] >= 0 /\ d[x] \in Int
            BY <3>1, <3>2, <3>3
        <3>5. s[i] = t[x]
            BY <1>2, <3>4
        <3>6. t[x] # Semicolon
            BY <1>10, <3>4
        <3> QED
            BY <3>4, <3>5, <3>6
    <2> QED
        BY <2>1, <2>2, <2>3
<1>14. \A i \in 0 .. n : i = 0 \/ i \in 1 .. n
    BY <1>3
<1> QED
    BY <1>3, <1>4, <1>5, <1>12, <1>13, <1>14 DEF Balanced, Matched

\* Where a text can be cut.
Cuts(s, delimiter) ==
    {i \in 1 .. Len(s) : /\ s[i] = delimiter /\ Count(s)[i] = 0
                         /\ \A j \in 1 .. i : Count(s)[j] >= 0}

\* find_delimiter_ignoring_parentheses_content returns the first of them.
LEMMA FirstCut ==
    ASSUME NEW A, NEW s \in Seq(A), NEW delimiter, NEW k,
           k = find_delimiter_ignoring_parentheses_content(s, delimiter)
    PROVE  /\ Cuts(s, delimiter) = {} => k = 0
           /\ Cuts(s, delimiter) # {} =>
                 k \in Cuts(s, delimiter) /\ \A i \in Cuts(s, delimiter) : k <= i
<1> DEFINE found == Cuts(s, delimiter)
<1>1. k = IF found = {} THEN 0 ELSE Min(found)
    BY DEF find_delimiter_ignoring_parentheses_content, Cuts, Count, IsCount, Weight
<1>2. found \subseteq Nat
    BY DEF Cuts
<1> HIDE DEF found
<1>3. found # {} => \E m \in found : \A i \in found : m <= i
    BY <1>2, LeastNatural
<1>4. found # {} => Min(found) \in found /\ \A i \in found : Min(found) <= i
    BY <1>3 DEF Min
<1>5. /\ found = {} => k = 0
      /\ found # {} => k \in found /\ \A i \in found : k <= i
    BY <1>1, <1>4
<1> QED
    BY <1>5 DEF found

\* Two balanced texts with a comma in between: it is there that they are cut.
LEMMA SidesMatched ==
    ASSUME NEW A, NEW s \in Seq(A), NEW k \in 1 .. Len(s), s[k] = Comma,
           Balanced(SubSeq(s, 1, k - 1)), Balanced(SubSeq(s, k + 1, Len(s)))
    PROVE  Matched(s) /\ find_delimiter_ignoring_parentheses_content(s, Comma) = k
<1> DEFINE n == Len(s)
<1>1. PICK t, u : t = SubSeq(s, 1, k - 1) /\ u = SubSeq(s, k + 1, Len(s))
    OBVIOUS
<1>2. /\ t \in Seq(A) /\ Len(t) = k - 1 /\ \A i \in 1 .. k - 1 : t[i] = s[i]
      /\ u \in Seq(A) /\ Len(u) = n - k /\ \A i \in 1 .. n - k : u[i] = s[k + i]
    <2>1. k \in 0 .. Len(s) /\ k # 0
        OBVIOUS
    <2> QED
        BY <1>1, <2>1, SidesOfText
<1>3. n \in Nat /\ k \in 1 .. n
    OBVIOUS
<1>4. PICK c, d, e : c = Count(s) /\ d = Count(t) /\ e = Count(u)
    OBVIOUS
<1>5. c \in [0 .. n -> Int] /\ c[0] = 0 /\ \A i \in 1 .. n : c[i] = c[i - 1] + Weight(s[i])
    BY <1>4, CountExists
<1>6. d \in [0 .. k - 1 -> Int] /\ e \in [0 .. n - k -> Int]
    BY <1>2, <1>4, CountExists
<1>7. \A i \in 0 .. k - 1 : c[i] = d[i]
    <2>1. PieceAt(t, s, 0)
        BY <1>2, <1>3 DEF PieceAt
    <2>2. CountedFrom(t, s, 0)
        BY <1>2, <2>1, CountOfPiece
    <2>3. \A i \in 0 .. k - 1 : c[0 + i] = c[0] + d[i]
        BY <1>2, <1>4, <2>2 DEF CountedFrom
    <2> QED
        BY <1>5, <1>6, <2>3
<1>8. /\ \A i \in 0 .. k - 1 : d[i] >= 0
      /\ d[k - 1] = 0
      /\ \A i \in 1 .. k - 1 : t[i] # Semicolon /\ (t[i] = Comma => d[i] # 0)
    BY <1>1, <1>2, <1>4 DEF Balanced, Matched
<1>9. /\ \A i \in 0 .. n - k : e[i] >= 0
      /\ e[n - k] = 0
      /\ \A i \in 1 .. n - k : u[i] # Semicolon
    BY <1>1, <1>2, <1>4 DEF Balanced, Matched
<1>10. c[k] = 0
    <2>1. c[k - 1] = 0
        <3>1. k - 1 \in 0 .. k - 1
            BY <1>3
        <3> QED
            BY <1>7, <1>8, <3>1
    <2>2. Weight(s[k]) = 0
        BY TokenAssumption DEF Weight
    <2> QED
        BY <1>3, <1>5, <2>1, <2>2
<1>11. \A i \in 0 .. n - k : c[k + i] = e[i]
    <2>1. PieceAt(u, s, k)
        BY <1>2, <1>3 DEF PieceAt
    <2>2. CountedFrom(u, s, k)
        BY <1>2, <2>1, CountOfPiece
    <2>3. \A i \in 0 .. n - k : c[k + i] = c[k] + e[i]
        BY <1>2, <1>4, <2>2 DEF CountedFrom
    <2>4. \A i \in 0 .. n - k : e[i] \in Int
        BY <1>6
    <2> QED
        BY <1>10, <2>3, <2>4
<1>12. ASSUME NEW i \in 0 .. n
       PROVE  c[i] >= 0 /\ (i # 0 => s[i] # Semicolon)
    <2>1. CASE i <= k - 1
        <3>1. i \in 0 .. k - 1 /\ (i # 0 => i \in 1 .. k - 1)
            BY <1>3, <2>1
        <3> QED
            BY <1>2, <1>7, <1>8, <3>1
    <2>2. CASE i = k
        BY <1>10, <2>2, TokenAssumption
    <2>3. CASE i > k
        <3>1. i - k \in 0 .. n - k /\ i - k \in 1 .. n - k /\ k + (i - k) = i
            BY <1>3, <2>3
        <3>2. PICK x : x = i - k
            OBVIOUS
        <3>3. x \in 0 .. n - k /\ x \in 1 .. n - k /\ k + x = i
            BY <3>1, <3>2
        <3>4. c[k + x] = e[x] /\ e[x] >= 0
            BY <1>9, <1>11, <3>3
        <3>5. s[k + x] = u[x]
            BY <1>2, <3>3
        <3>6. u[x] # Semicolon
            BY <1>9, <3>3
        <3> QED
            BY <3>3, <3>4, <3>5, <3>6
    <2> QED
        BY <1>3, <2>1, <2>2, <2>3
<1>13. c[n] = 0
    <2>1. n - k \in 0 .. n - k /\ k + (n - k) = n
        BY <1>3
    <2> QED
        BY <1>9, <1>11, <2>1
<1>14. Matched(s)
    <2>1. \A i \in 1 .. n : i \in 0 .. n /\ i # 0
        BY <1>3
    <2> QED
        BY <1>4, <1>12, <1>13, <2>1 DEF Matched
<1>15. k \in Cuts(s, Comma)
    <2>1. \A j \in 1 .. k : j \in 0 .. n
        BY <1>3
    <2> QED
        BY <1>4, <1>10, <1>12, <2>1 DEF Cuts
<1>16. \A i \in Cuts(s, Comma) : ~(i < k)
    <2> SUFFICES ASSUME NEW i \in 1 .. n, s[i] = Comma, c[i] = 0, i < k PROVE FALSE
        BY <1>4 DEF Cuts
    <2>1. i \in 1 .. k - 1 /\ i \in 0 .. k - 1
        BY <1>3
    <2> QED
        BY <1>2, <1>7, <1>8, <2>1
<1>17. PICK first : first = find_delimiter_ignoring_parentheses_content(s, Comma)
    OBVIOUS
<1>18. first \in Cuts(s, Comma) /\ \A i \in Cuts(s, Comma) : first <= i
    BY <1>15, <1>17, FirstCut
<1>19. first \in Nat /\ first <= k /\ ~(first < k)
    BY <1>15, <1>16, <1>18 DEF Cuts
<1>20. first = k
    BY <1>3, <1>19
<1> QED
    BY <1>14, <1>17, <1>20

-----------------------------------------------------------------------------
(* The parser and the grammar.                                             *)

ParseStep(parse, string) ==
    IF string = <<>> THEN NULL
    ELSE IF Enclosed(string)
    THEN parse[Content(string)]
    ELSE IF Len(string) = 1
    THEN IF IsWord(string[1]) THEN create_set_op_leave(string[1]) ELSE NULL
    ELSE IF \/ string[1] = ComplementWord /\ Len(string) = 2 /\ IsWord(string[2])
            \/ string[1] = ComplementWord /\ Enclosed(Tail(string))
    THEN LET op1 == parse[IF Len(string) = 2 THEN Tail(string) ELSE Content(Tail(string))]
         IN  IF op1 = NULL THEN NULL ELSE create_set_op_complement(op1)
    ELSE IF string[1] \in DOMAIN Operation /\ Enclosed(Tail(string))
    THEN LET content == Content(Tail(string))
             split   == find_delimiter_ignoring_parentheses_content(content, Comma)
             left    == parse[SubSeq(content, 1, split - 1)]
             right   == parse[SubSeq(content, split + 1, Len(content))]
         IN  IF split = 0 \/ left = NULL \/ right = NULL THEN NULL
             ELSE create_set_op(left, right, Operation[string[1]])
    ELSE NULL

DerivedStep(derived, s) ==
    (IF Len(s) = 1 /\ IsWord(s[1]) THEN {create_set_op_leave(s[1])} ELSE {})
    \cup (IF Enclosed(s) THEN derived[Content(s)] ELSE {})
    \cup (IF Len(s) = 2 /\ s[1] = ComplementWord /\ IsWord(s[2])
          THEN {create_set_op_complement(create_set_op_leave(s[2]))} ELSE {})
    \cup (IF s # <<>> /\ s[1] = ComplementWord /\ Enclosed(Tail(s))
          THEN {create_set_op_complement(e) : e \in derived[Content(Tail(s))]} ELSE {})
    \cup (IF s # <<>> /\ s[1] \in DOMAIN Operation /\ Enclosed(Tail(s))
          THEN LET inner == Content(Tail(s))
               IN  UNION {{create_set_op(l, r, Operation[s[1]]) :
                              l \in derived[SubSeq(inner, 1, k - 1)],
                              r \in derived[SubSeq(inner, k + 1, Len(inner))]} :
                          k \in {k \in 1 .. Len(inner) : inner[k] = Comma}}
          ELSE {})

IsParse(f, A)   == f = [s \in Seq(A) |-> ParseStep(f, s)]
IsDerived(f, A) == f = [s \in Seq(A) |-> DerivedStep(f, s)]

\* The pieces that a text is taken apart into are texts, and shorter.
PieceOf(A, t, s) == t \in Seq(A) /\ Len(t) < Len(s)

\* What is between parentheses is one of them.
LEMMA ContentShorter ==
    ASSUME NEW A, NEW s \in Seq(A), Enclosed(s)
    PROVE  PieceOf(A, Content(s), s)
BY ContentOfText DEF Enclosed, PieceOf

\* So is what follows a word, and what is between parentheses there.
LEMMA TailShorter ==
    ASSUME NEW A, NEW s \in Seq(A), s # <<>>
    PROVE  /\ PieceOf(A, Tail(s), s)
           /\ Enclosed(Tail(s)) => PieceOf(A, Content(Tail(s)), s)
<1>1. PieceOf(A, Tail(s), s) /\ Len(s) \in Nat
    BY TailOfText DEF PieceOf
<1>2. PICK t : t = Tail(s)
    OBVIOUS
<1>3. Enclosed(t) => PieceOf(A, Content(t), t)
    BY <1>1, <1>2, ContentShorter DEF PieceOf
<1> QED
    BY <1>1, <1>2, <1>3 DEF PieceOf

\* So are the two sides of a cut.
LEMMA SidesShorter ==
    ASSUME NEW A, NEW s \in Seq(A), NEW inner, PieceOf(A, inner, s), NEW k \in 0 .. Len(inner)
    PROVE  /\ PieceOf(A, SubSeq(inner, 1, k - 1), s)
           /\ PieceOf(A, SubSeq(inner, k + 1, Len(inner)), s)
<1>1. inner \in Seq(A) /\ Len(inner) < Len(s) /\ Len(inner) \in Nat /\ Len(s) \in Nat
    BY DEF PieceOf
<1>2. PICK t, u : t = SubSeq(inner, 1, k - 1) /\ u = SubSeq(inner, k + 1, Len(inner))
    OBVIOUS
<1>3. t \in Seq(A) /\ u \in Seq(A) /\ Len(t) = (IF k = 0 THEN 0 ELSE k - 1) /\ Len(u) = Len(inner) - k
    BY <1>1, <1>2, SidesOfText
<1>4. Len(t) < Len(s) /\ Len(u) < Len(s)
    BY <1>1, <1>3
<1> QED
    BY <1>2, <1>3, <1>4 DEF PieceOf

\* parse_set_operation returns a tree or NULL.
LEMMA ParseStepType ==
    ASSUME NEW A, NEW f \in [Seq(A) -> Trees(A) \cup {NULL}], NEW s \in Seq(A)
    PROVE  ParseStep(f, s) \in Trees(A) \cup {NULL}
<1> DEFINE V == Trees(A) \cup {NULL}
<1>1. \A t : PieceOf(A, t, s) => f[t] \in V
    BY DEF PieceOf
<1>2. CASE s = <<>>
    BY <1>2 DEF ParseStep
<1>3. CASE s # <<>> /\ Enclosed(s)
    BY <1>1, <1>3, ContentShorter DEF ParseStep
<1>4. CASE s # <<>> /\ ~Enclosed(s) /\ Len(s) = 1
    <2>1. s[1] \in A
        BY <1>4
    <2>2. create_set_op_leave(s[1]) \in V
        BY <2>1, LeaveIsTree
    <2> QED
        BY <1>4, <2>2 DEF ParseStep
<1>5. CASE /\ s # <<>> /\ ~Enclosed(s) /\ Len(s) # 1
           /\ s[1] = ComplementWord
           /\ (Len(s) = 2 /\ IsWord(s[2])) \/ Enclosed(Tail(s))
    <2> DEFINE inner == IF Len(s) = 2 THEN Tail(s) ELSE Content(Tail(s))
    <2>1. ParseStep(f, s) = IF f[inner] = NULL THEN NULL ELSE create_set_op_complement(f[inner])
        BY <1>5 DEF ParseStep
    <2>2. PieceOf(A, inner, s)
        BY <1>5, TailShorter
    <2> HIDE DEF inner
    <2>3. PICK op1 : op1 = f[inner]
        OBVIOUS
    <2>4. op1 \in V
        BY <1>1, <2>2, <2>3
    <2>5. op1 # NULL => create_set_op_complement(op1) \in Trees(A)
        BY <2>4, ComplementIsTree
    <2> QED
        BY <2>1, <2>3, <2>5
<1>6. CASE /\ s # <<>> /\ ~Enclosed(s) /\ Len(s) # 1
           /\ ~(s[1] = ComplementWord /\ ((Len(s) = 2 /\ IsWord(s[2])) \/ Enclosed(Tail(s))))
           /\ s[1] \in DOMAIN Operation /\ Enclosed(Tail(s))
    <2> DEFINE content == Content(Tail(s))
               split   == find_delimiter_ignoring_parentheses_content(content, Comma)
               left    == f[SubSeq(content, 1, split - 1)]
               right   == f[SubSeq(content, split + 1, Len(content))]
    <2>1. ParseStep(f, s) = IF split = 0 \/ left = NULL \/ right = NULL THEN NULL
                            ELSE create_set_op(left, right, Operation[s[1]])
        BY <1>6 DEF ParseStep
    <2>2. PieceOf(A, content, s)
        BY <1>6, TailShorter
    <2> HIDE DEF content
    <2>3. split \in 0 .. Len(content)
        BY <2>2, FirstCut DEF PieceOf, Cuts
    <2> HIDE DEF split
    <2>4. left \in V /\ right \in V
        BY <1>1, <2>2, <2>3, SidesShorter
    <2> HIDE DEF left, right
    <2>5. left # NULL /\ right # NULL => create_set_op(left, right, Operation[s[1]]) \in Trees(A)
        BY <1>6, <2>4, OperationWords, OperationIsTree
    <2> QED
        BY <2>1, <2>5
<1>7. CASE /\ s # <<>> /\ ~Enclosed(s) /\ Len(s) # 1
           /\ ~(s[1] = ComplementWord /\ ((Len(s) = 2 /\ IsWord(s[2])) \/ Enclosed(Tail(s))))
           /\ ~(s[1] \in DOMAIN Operation /\ Enclosed(Tail(s)))
    BY <1>7 DEF ParseStep
<1> QED
    BY <1>2, <1>3, <1>4, <1>5, <1>6, <1>7

\* It calls itself for shorter texts only.
LEMMA ParseStepLooksBack ==
    ASSUME NEW A, NEW s \in Seq(A), NEW f, NEW g, \A t : PieceOf(A, t, s) => f[t] = g[t]
    PROVE  ParseStep(f, s) = ParseStep(g, s)
<1>1. CASE s = <<>>
    BY <1>1 DEF ParseStep
<1>2. CASE s # <<>> /\ Enclosed(s)
    BY <1>2, ContentShorter DEF ParseStep
<1>3. CASE s # <<>> /\ ~Enclosed(s) /\ Len(s) = 1
    BY <1>3 DEF ParseStep
<1>4. CASE /\ s # <<>> /\ ~Enclosed(s) /\ Len(s) # 1
           /\ s[1] = ComplementWord
           /\ (Len(s) = 2 /\ IsWord(s[2])) \/ Enclosed(Tail(s))
    <2> DEFINE inner == IF Len(s) = 2 THEN Tail(s) ELSE Content(Tail(s))
    <2>1. \A h : ParseStep(h, s) = IF h[inner] = NULL THEN NULL
                                   ELSE create_set_op_complement(h[inner])
        BY <1>4 DEF ParseStep
    <2>2. PieceOf(A, inner, s)
        BY <1>4, TailShorter
    <2> HIDE DEF inner
    <2> QED
        BY <2>1, <2>2
<1>5. CASE /\ s # <<>> /\ ~Enclosed(s) /\ Len(s) # 1
           /\ ~(s[1] = ComplementWord /\ ((Len(s) = 2 /\ IsWord(s[2])) \/ Enclosed(Tail(s))))
           /\ s[1] \in DOMAIN Operation /\ Enclosed(Tail(s))
    <2> DEFINE content == Content(Tail(s))
               split   == find_delimiter_ignoring_parentheses_content(content, Comma)
               left    == SubSeq(content, 1, split - 1)
               right   == SubSeq(content, split + 1, Len(content))
    <2>1. \A h : ParseStep(h, s) = IF split = 0 \/ h[left] = NULL \/ h[right] = NULL THEN NULL
                                   ELSE create_set_op(h[left], h[right], Operation[s[1]])
        BY <1>5 DEF ParseStep
    <2>2. PieceOf(A, content, s)
        BY <1>5, TailShorter
    <2> HIDE DEF content
    <2>3. split \in 0 .. Len(content)
        BY <2>2, FirstCut DEF PieceOf, Cuts
    <2> HIDE DEF split
    <2>4. PieceOf(A, left, s) /\ PieceOf(A, right, s)
        BY <2>2, <2>3, SidesShorter
    <2> HIDE DEF left, right
    <2> QED
        BY <2>1, <2>4
<1>6. CASE /\ s # <<>> /\ ~Enclosed(s) /\ Len(s) # 1
           /\ ~(s[1] = ComplementWord /\ ((Len(s) = 2 /\ IsWord(s[2])) \/ Enclosed(Tail(s))))
           /\ ~(s[1] \in DOMAIN Operation /\ Enclosed(Tail(s)))
    BY <1>6 DEF ParseStep
<1> QED
    BY <1>1, <1>2, <1>3, <1>4, <1>5, <1>6

\* So it returns for every text.
LEMMA ParseExists ==
    ASSUME NEW A
    PROVE  \E f \in [Seq(A) -> Trees(A) \cup {NULL}] : IsParse(f, A)
<1> DEFINE S    == Seq(A)
           size == [s \in S |-> Len(s)]
           V    == Trees(A) \cup {NULL}
           step == [p \in S \X [S -> V] |-> ParseStep(p[2], p[1])]
<1>1. size \in [S -> Nat] /\ \A s \in S : size[s] = Len(s)
    OBVIOUS
<1>2. step \in [S \X [S -> V] -> V]
    BY ParseStepType
<1>3. \A s \in S, f \in [S -> V] : step[<<s, f>>] = ParseStep(f, s)
    OBVIOUS
<1> HIDE DEF size, step, V
<1>4. LooksBack(S, size, V, step)
    <2> SUFFICES ASSUME NEW s \in S, NEW f \in [S -> V], NEW g \in [S -> V],
                        \A t \in S : size[t] < size[s] => f[t] = g[t]
                 PROVE  step[<<s, f>>] = step[<<s, g>>]
        BY DEF LooksBack
    <2>1. \A t : PieceOf(A, t, s) => f[t] = g[t]
        BY <1>1 DEF PieceOf
    <2>2. ParseStep(f, s) = ParseStep(g, s)
        BY <2>1, ParseStepLooksBack
    <2> QED
        BY <1>3, <2>2
<1>5. NULL \in V
    BY DEF V
<1> HIDE DEF S
<1>6. Defined(S, V, step)
    BY <1>1, <1>2, <1>4, <1>5, Recursion
<1>7. PICK f \in [S -> V] : \A s \in S : f[s] = step[<<s, f>>]
    BY <1>6 DEF Defined
<1>8. f = [s \in S |-> ParseStep(f, s)]
    BY <1>3, <1>7
<1> QED
    BY <1>8 DEF IsParse, S, V

\* What the grammar derives, rule by rule.
ByOperation(f, s, e) ==
    /\ s # <<>> /\ s[1] \in DOMAIN Operation /\ Enclosed(Tail(s))
    /\ \E k \in 1 .. Len(Content(Tail(s))) :
          /\ Content(Tail(s))[k] = Comma
          /\ \E l \in f[SubSeq(Content(Tail(s)), 1, k - 1)],
                r \in f[SubSeq(Content(Tail(s)), k + 1, Len(Content(Tail(s))))] :
                    e = create_set_op(l, r, Operation[s[1]])

DerivedBy(f, s, e) ==
    \/ Len(s) = 1 /\ IsWord(s[1]) /\ e = create_set_op_leave(s[1])
    \/ Enclosed(s) /\ e \in f[Content(s)]
    \/ /\ Len(s) = 2 /\ s[1] = ComplementWord /\ IsWord(s[2])
       /\ e = create_set_op_complement(create_set_op_leave(s[2]))
    \/ /\ s # <<>> /\ s[1] = ComplementWord /\ Enclosed(Tail(s))
       /\ \E e1 \in f[Content(Tail(s))] : e = create_set_op_complement(e1)
    \/ ByOperation(f, s, e)

\* The grammar derives what a rule of it derives.
LEMMA DerivedMember ==
    ASSUME NEW f, NEW s, NEW e
    PROVE  e \in DerivedStep(f, s) <=> DerivedBy(f, s, e)
BY DEF DerivedStep, DerivedBy, ByOperation

\* All of them are trees.
LEMMA DerivedStepType ==
    ASSUME NEW A, NEW f \in [Seq(A) -> SUBSET Trees(A)], NEW s \in Seq(A)
    PROVE  DerivedStep(f, s) \in SUBSET Trees(A)
<1>1. SUFFICES ASSUME NEW e, DerivedBy(f, s, e) PROVE e \in Trees(A)
    BY DerivedMember
<1>2. \A t : PieceOf(A, t, s) => f[t] \in SUBSET Trees(A)
    BY DEF PieceOf
<1>3. CASE Len(s) = 1 /\ IsWord(s[1]) /\ e = create_set_op_leave(s[1])
    <2>1. s[1] \in A
        <3>1. 1 \in 1 .. Len(s)
            BY <1>3
        <3> QED
            BY <3>1, TokenOfText
    <2> QED
        BY <1>3, <2>1, LeaveIsTree
<1>4. CASE Enclosed(s) /\ e \in f[Content(s)]
    BY <1>2, <1>4, ContentShorter
<1>5. CASE Len(s) = 2 /\ e = create_set_op_complement(create_set_op_leave(s[2]))
    <2>1. s[2] \in A
        <3>1. 2 \in 1 .. Len(s)
            BY <1>5
        <3> QED
            BY <3>1, TokenOfText
    <2> QED
        BY <1>5, <2>1, LeaveIsTree, ComplementIsTree
<1>6. CASE /\ s # <<>> /\ Enclosed(Tail(s))
           /\ \E e1 \in f[Content(Tail(s))] : e = create_set_op_complement(e1)
    <2>1. f[Content(Tail(s))] \in SUBSET Trees(A)
        BY <1>2, <1>6, TailShorter
    <2> QED
        BY <1>6, <2>1, ComplementIsTree
<1>7. CASE ByOperation(f, s, e)
    <2>1. PICK inner : inner = Content(Tail(s))
        OBVIOUS
    <2>2. PICK k \in 1 .. Len(inner) :
              \E l \in f[SubSeq(inner, 1, k - 1)], r \in f[SubSeq(inner, k + 1, Len(inner))] :
                  e = create_set_op(l, r, Operation[s[1]])
        BY <1>7, <2>1 DEF ByOperation
    <2>3. PieceOf(A, inner, s)
        BY <1>7, <2>1, TailShorter DEF ByOperation
    <2>4. /\ f[SubSeq(inner, 1, k - 1)] \in SUBSET Trees(A)
          /\ f[SubSeq(inner, k + 1, Len(inner))] \in SUBSET Trees(A)
        <3>1. k \in 0 .. Len(inner)
            OBVIOUS
        <3>2. /\ PieceOf(A, SubSeq(inner, 1, k - 1), s)
              /\ PieceOf(A, SubSeq(inner, k + 1, Len(inner)), s)
            BY <2>3, <3>1, SidesShorter
        <3> QED
            BY <1>2, <3>2
    <2>5. Operation[s[1]] \in Binary
        BY <1>7, OperationWords DEF ByOperation
    <2> QED
        BY <2>2, <2>4, <2>5, OperationIsTree
<1> QED
    BY <1>1, <1>3, <1>4, <1>5, <1>6, <1>7 DEF DerivedBy

\* They depend on shorter texts only.
LEMMA DerivedStepLooksBack ==
    ASSUME NEW A, NEW s \in Seq(A), NEW f, NEW g, \A t : PieceOf(A, t, s) => f[t] = g[t]
    PROVE  DerivedStep(f, s) = DerivedStep(g, s)
<1>1. SUFFICES ASSUME NEW e PROVE DerivedBy(f, s, e) <=> DerivedBy(g, s, e)
    <2>1. (\A e : e \in DerivedStep(f, s) <=> e \in DerivedStep(g, s))
              => DerivedStep(f, s) = DerivedStep(g, s)
        BY SMTT(40) DEF DerivedStep
    <2> QED
        BY <2>1, DerivedMember
<1>2. Enclosed(s) => f[Content(s)] = g[Content(s)]
    BY ContentShorter
<1>3. s # <<>> /\ Enclosed(Tail(s)) => f[Content(Tail(s))] = g[Content(Tail(s))]
    BY TailShorter
<1>4. ByOperation(f, s, e) <=> ByOperation(g, s, e)
    <2>1. CASE s # <<>> /\ Enclosed(Tail(s))
        <3>1. PICK inner : inner = Content(Tail(s))
            OBVIOUS
        <3>2. PieceOf(A, inner, s)
            BY <2>1, <3>1, TailShorter
        <3>3. \A k \in 1 .. Len(inner) :
                  /\ f[SubSeq(inner, 1, k - 1)] = g[SubSeq(inner, 1, k - 1)]
                  /\ f[SubSeq(inner, k + 1, Len(inner))] = g[SubSeq(inner, k + 1, Len(inner))]
            <4> TAKE k \in 1 .. Len(inner)
            <4>1. k \in 0 .. Len(inner)
                OBVIOUS
            <4> QED
                BY <3>2, <4>1, SidesShorter
        <3> QED
            BY <3>1, <3>3 DEF ByOperation
    <2>2. CASE ~(s # <<>> /\ Enclosed(Tail(s)))
        BY <2>2 DEF ByOperation
    <2> QED
        BY <2>1, <2>2
<1> QED
    BY <1>2, <1>3, <1>4 DEF DerivedBy

\* So the grammar derives a set of trees from every text.
LEMMA DerivedExists ==
    ASSUME NEW A
    PROVE  \E f \in [Seq(A) -> SUBSET Trees(A)] : IsDerived(f, A)
<1> DEFINE S    == Seq(A)
           size == [s \in S |-> Len(s)]
           V    == SUBSET Trees(A)
           step == [p \in S \X [S -> V] |-> DerivedStep(p[2], p[1])]
<1>1. size \in [S -> Nat] /\ \A s \in S : size[s] = Len(s)
    OBVIOUS
<1>2. step \in [S \X [S -> V] -> V]
    BY DerivedStepType
<1>3. \A s \in S, f \in [S -> V] : step[<<s, f>>] = DerivedStep(f, s)
    OBVIOUS
<1> HIDE DEF size, step, V
<1>4. LooksBack(S, size, V, step)
    <2> SUFFICES ASSUME NEW s \in S, NEW f \in [S -> V], NEW g \in [S -> V],
                        \A t \in S : size[t] < size[s] => f[t] = g[t]
                 PROVE  step[<<s, f>>] = step[<<s, g>>]
        BY DEF LooksBack
    <2>1. \A t : PieceOf(A, t, s) => f[t] = g[t]
        BY <1>1 DEF PieceOf
    <2>2. DerivedStep(f, s) = DerivedStep(g, s)
        BY <2>1, DerivedStepLooksBack
    <2> QED
        BY <1>3, <2>2
<1>5. {} \in V
    BY DEF V
<1> HIDE DEF S
<1>6. Defined(S, V, step)
    BY <1>1, <1>2, <1>4, <1>5, Recursion
<1>7. PICK f \in [S -> V] : \A s \in S : f[s] = step[<<s, f>>]
    BY <1>6 DEF Defined
<1>8. f = [s \in S |-> DerivedStep(f, s)]
    BY <1>3, <1>7
<1> QED
    BY <1>8 DEF IsDerived, S, V

\* There is one such function each.
LEMMA SameOnTexts ==
    ASSUME NEW A, NEW f, NEW g,
           f = [s \in Seq(A) |-> f[s]], g = [s \in Seq(A) |-> g[s]],
           \A s \in Seq(A) : (\A t : PieceOf(A, t, s) => f[t] = g[t]) => f[s] = g[s]
    PROVE  f = g
<1> DEFINE size == [s \in Seq(A) |-> Len(s)]
<1>1. size \in [Seq(A) -> Nat] /\ \A s \in Seq(A) : size[s] = Len(s)
    OBVIOUS
<1> HIDE DEF size
<1>2. AgreeOnward(Seq(A), size, f, g)
    <2> SUFFICES ASSUME NEW s \in Seq(A), \A t \in Seq(A) : size[t] < size[s] => f[t] = g[t]
                 PROVE  f[s] = g[s]
        BY DEF AgreeOnward
    <2>1. \A t : PieceOf(A, t, s) => f[t] = g[t]
        BY <1>1 DEF PieceOf
    <2> QED
        BY <2>1
<1> QED
    BY <1>1, <1>2, SameFunction

\* What parse_set_operation and the grammar make of a text.
LEMMA ParseResult ==
    ASSUME NEW A, NEW s \in Seq(A), A = ToSet(s)
    PROVE  /\ \E f \in [Seq(A) -> Trees(A) \cup {NULL}] : IsParse(f, A) /\ parse_set_operation(s) = f[s]
           /\ \E f \in [Seq(A) -> SUBSET Trees(A)] : IsDerived(f, A) /\ Derivations(s) = f[s]
<1> DEFINE parse   == CHOOSE f : IsParse(f, A)
           derived == CHOOSE f : IsDerived(f, A)
<1>1. PICK p \in [Seq(A) -> Trees(A) \cup {NULL}] : IsParse(p, A)
    BY ParseExists
<1>2. PICK d \in [Seq(A) -> SUBSET Trees(A)] : IsDerived(d, A)
    BY DerivedExists
<1>3. IsParse(parse, A) /\ IsDerived(derived, A)
    BY <1>1, <1>2
<1>4. parse_set_operation(s) = parse[s]
    BY DEF parse_set_operation, IsParse, ParseStep
<1>5. Derivations(s) = derived[s]
    BY DEF Derivations, IsDerived, DerivedStep
<1> HIDE DEF parse, derived
<1>6. p = parse
    <2>1. p = [t \in Seq(A) |-> ParseStep(p, t)] /\ parse = [t \in Seq(A) |-> ParseStep(parse, t)]
        BY <1>1, <1>3 DEF IsParse
    <2> QED
        BY <2>1, ParseStepLooksBack, SameOnTexts
<1>7. d = derived
    <2>1. d = [t \in Seq(A) |-> DerivedStep(d, t)] /\ derived = [t \in Seq(A) |-> DerivedStep(derived, t)]
        BY <1>2, <1>3 DEF IsDerived
    <2> QED
        BY SMTT(40), <2>1, DerivedStepLooksBack, SameOnTexts
<1> QED
    BY <1>1, <1>2, <1>4, <1>5, <1>6, <1>7

\* What the parser returns for a text is what the grammar derives from it, and
\* the parentheses of the text belong together.
Read(p, d, s) ==
    /\ \A e : e \in d[s] <=> e = p[s] /\ e # NULL
    /\ p[s] # NULL => Balanced(s)

\* A sign is no word, and complement is no operation with two operands.
LEMMA Beginnings ==
    /\ ~IsWord(Open) /\ IsWord(ComplementWord)
    /\ Open # ComplementWord /\ Open \notin DOMAIN Operation /\ ComplementWord \notin DOMAIN Operation
<1>1. ~IsWord(Open) /\ IsWord(ComplementWord)
    BY TokenAssumption DEF IsWord, Signs
<1> QED
    BY <1>1, OperationWords

\* A text between parentheses behind a word is balanced if its content is matched.
LEMMA BehindWordBalanced ==
    ASSUME NEW A, NEW s \in Seq(A), s # <<>>, IsWord(s[1]), Enclosed(Tail(s)),
           Matched(Content(Tail(s)))
    PROVE  Balanced(s)
<1>1. PICK t : t = Tail(s)
    OBVIOUS
<1>2. t \in Seq(A)
    BY <1>1, TailOfText
<1>3. Balanced(t)
    BY <1>1, <1>2, EnclosedBalanced
<1> QED
    BY <1>1, <1>3, TailBalanced

\* A call for an operation with two operands, whose operands are read exactly.
OperationReads(d, s, split, left, right) ==
    /\ \A e : ByOperation(d, s, e) <=> /\ split # 0 /\ left # NULL /\ right # NULL
                                       /\ e = create_set_op(left, right, Operation[s[1]])
    /\ split # 0 /\ left # NULL /\ right # NULL => Balanced(s)

\* It is read exactly itself.
LEMMA OperationRead ==
    ASSUME NEW A, NEW p \in [Seq(A) -> Trees(A) \cup {NULL}], NEW d, NEW s \in Seq(A),
           \A t : PieceOf(A, t, s) => Read(p, d, t),
           s # <<>>, s[1] \in DOMAIN Operation, Enclosed(Tail(s)),
           NEW inner, inner = Content(Tail(s)),
           NEW split, split = find_delimiter_ignoring_parentheses_content(inner, Comma),
           NEW left, left = p[SubSeq(inner, 1, split - 1)],
           NEW right, right = p[SubSeq(inner, split + 1, Len(inner))]
    PROVE  OperationReads(d, s, split, left, right)
<1>1. PieceOf(A, inner, s) /\ inner \in Seq(A) /\ Len(inner) \in Nat
    <2>1. PieceOf(A, inner, s)
        BY TailShorter
    <2> QED
        BY <2>1 DEF PieceOf
<1>2. \A k \in 0 .. Len(inner) : /\ PieceOf(A, SubSeq(inner, 1, k - 1), s)
                                 /\ PieceOf(A, SubSeq(inner, k + 1, Len(inner)), s)
    BY <1>1, SidesShorter
<1>3. \A k \in 1 .. Len(inner) : /\ Read(p, d, SubSeq(inner, 1, k - 1))
                                 /\ Read(p, d, SubSeq(inner, k + 1, Len(inner)))
    <2>1. \A k \in 1 .. Len(inner) : k \in 0 .. Len(inner)
        BY <1>1
    <2> QED
        BY <1>2, <2>1
<1>4. \A k \in 1 .. Len(inner) :
          /\ inner[k] = Comma
          /\ p[SubSeq(inner, 1, k - 1)] # NULL
          /\ p[SubSeq(inner, k + 1, Len(inner))] # NULL
          => Matched(inner) /\ split = k
    <2> TAKE k \in 1 .. Len(inner)
    <2> HAVE /\ inner[k] = Comma
             /\ p[SubSeq(inner, 1, k - 1)] # NULL
             /\ p[SubSeq(inner, k + 1, Len(inner))] # NULL
    <2>1. Balanced(SubSeq(inner, 1, k - 1)) /\ Balanced(SubSeq(inner, k + 1, Len(inner)))
        BY <1>3 DEF Read
    <2> QED
        BY <1>1, <2>1, SidesMatched
<1>5. split # 0 => split \in 1 .. Len(inner) /\ inner[split] = Comma
    <2>1. split # 0 => split \in Cuts(inner, Comma)
        BY <1>1, FirstCut
    <2> QED
        BY <2>1 DEF Cuts
<1>6. ASSUME split # 0, left # NULL, right # NULL
      PROVE  Balanced(s) /\ ByOperation(d, s, create_set_op(left, right, Operation[s[1]]))
    <2>1. Matched(inner)
        BY <1>4, <1>5, <1>6
    <2>2. Balanced(s)
        BY <2>1, OperationWords, BehindWordBalanced
    <2>3. left \in d[SubSeq(inner, 1, split - 1)] /\ right \in d[SubSeq(inner, split + 1, Len(inner))]
        BY SMTT(40), <1>3, <1>5, <1>6 DEF Read
    <2> QED
        BY <1>5, <1>6, <2>2, <2>3 DEF ByOperation
<1>7. ASSUME NEW e, ByOperation(d, s, e)
      PROVE  split # 0 /\ left # NULL /\ right # NULL /\ e = create_set_op(left, right, Operation[s[1]])
    <2>1. PICK k \in 1 .. Len(inner) :
              /\ inner[k] = Comma
              /\ \E l \in d[SubSeq(inner, 1, k - 1)], r \in d[SubSeq(inner, k + 1, Len(inner))] :
                    e = create_set_op(l, r, Operation[s[1]])
        BY <1>7 DEF ByOperation
    <2>2. PICK l \in d[SubSeq(inner, 1, k - 1)], r \in d[SubSeq(inner, k + 1, Len(inner))] :
              e = create_set_op(l, r, Operation[s[1]])
        BY <2>1
    <2>3. /\ l = p[SubSeq(inner, 1, k - 1)] /\ l # NULL
          /\ r = p[SubSeq(inner, k + 1, Len(inner))] /\ r # NULL
        BY <1>3, <2>1, <2>2 DEF Read
    <2>4. split = k
        BY <1>4, <2>1, <2>3
    <2>5. k # 0
        OBVIOUS
    <2> QED
        BY <2>2, <2>3, <2>4, <2>5
<1> QED
    BY <1>6, <1>7 DEF OperationReads

\* How long a text between parentheses is at least.
LEMMA EnclosedLength ==
    ASSUME NEW A, NEW s \in Seq(A)
    PROVE  /\ Enclosed(s) => s[1] = Open /\ Len(s) # 1 /\ Len(s) # 2
           /\ s # <<>> /\ Enclosed(Tail(s)) => Len(s) # 1 /\ Len(s) # 2
           /\ Len(s) = 1 => s # <<>> /\ ~Enclosed(s)
<1>1. Enclosed(s) => s[1] = Open /\ Len(s) # 1 /\ Len(s) # 2
    BY DEF Enclosed
<1>2. s # <<>> /\ Enclosed(Tail(s)) => Len(s) # 1 /\ Len(s) # 2
    <2>1. s # <<>> => Len(Tail(s)) = Len(s) - 1 /\ Len(s) \in Nat
        BY TailOfText
    <2> QED
        BY <2>1 DEF Enclosed
<1>3. Len(s) = 1 => s # <<>> /\ ~Enclosed(s)
    BY DEF Enclosed
<1> QED
    BY <1>1, <1>2, <1>3

\* A text is read exactly when all shorter ones are.
LEMMA TextRead ==
    ASSUME NEW A, NEW p \in [Seq(A) -> Trees(A) \cup {NULL}], IsParse(p, A),
           NEW d \in [Seq(A) -> SUBSET Trees(A)], IsDerived(d, A),
           NEW s \in Seq(A), \A t : PieceOf(A, t, s) => Read(p, d, t)
    PROVE  Read(p, d, s)
<1>1. p[s] = ParseStep(p, s)
    BY DEF IsParse
<1>2. \A e : e \in d[s] <=> DerivedBy(d, s, e)
    <2>1. d[s] = DerivedStep(d, s)
        BY DEF IsDerived
    <2> QED
        BY <2>1, DerivedMember
<1>3. \A t \in Trees(A) : t # NULL
    BY DEF Trees, NULL
<1>4. Enclosed(s) => s[1] = Open /\ Len(s) # 1 /\ Len(s) # 2
    BY EnclosedLength
<1>5. s # <<>> => Len(Tail(s)) = Len(s) - 1 /\ Tail(s) \in Seq(A)
    BY TailOfText
<1>6. s # <<>> /\ Enclosed(Tail(s)) =>
          Len(s) # 1 /\ Len(s) # 2 /\ Read(p, d, Content(Tail(s)))
    BY EnclosedLength, TailShorter
<1>7. CASE s = <<>>
    <2>1. Len(s) = 0 /\ ~Enclosed(s)
        BY <1>7 DEF Enclosed
    <2>2. \A e : ~DerivedBy(d, s, e)
        BY <1>7, <2>1 DEF DerivedBy, ByOperation
    <2>3. p[s] = NULL
        BY <1>1, <1>7 DEF ParseStep
    <2> QED
        BY <1>2, <2>2, <2>3 DEF Read
<1>8. CASE s # <<>> /\ Enclosed(s)
    <2>1. p[s] = p[Content(s)]
        BY <1>1, <1>8 DEF ParseStep
    <2>2. Len(s) # 1 /\ Len(s) # 2
        BY <1>4, <1>8
    <2>3. \A e : DerivedBy(d, s, e) <=> e \in d[Content(s)]
        BY <1>4, <1>8, <2>2, Beginnings DEF DerivedBy, ByOperation
    <2>4. Read(p, d, Content(s))
        BY <1>8, ContentShorter
    <2>5. p[s] # NULL => Balanced(s)
        <3>1. p[s] # NULL => Matched(Content(s))
            BY <2>1, <2>4 DEF Read, Balanced
        <3> QED
            BY <1>8, <3>1, EnclosedBalanced
    <2>6. \A e : e \in d[s] <=> e \in d[Content(s)]
        BY <1>2, <2>3
    <2>7. \A e : e \in d[Content(s)] <=> e = p[Content(s)] /\ e # NULL
        BY <2>4 DEF Read
    <2> QED
        BY <2>1, <2>5, <2>6, <2>7 DEF Read
<1>9. CASE s # <<>> /\ ~Enclosed(s) /\ Len(s) = 1
    <2>1. ~Enclosed(Tail(s)) /\ Len(s) # 2
        BY <1>6, <1>9
    <2>2. \A e : DerivedBy(d, s, e) <=> IsWord(s[1]) /\ e = create_set_op_leave(s[1])
        BY <1>9, <2>1 DEF DerivedBy, ByOperation
    <2>3. p[s] = IF IsWord(s[1]) THEN create_set_op_leave(s[1]) ELSE NULL
        BY <1>1, <1>9 DEF ParseStep
    <2>4. create_set_op_leave(s[1]) # NULL
        <3>1. 1 \in 1 .. Len(s)
            BY <1>9
        <3>2. s[1] \in A
            BY <3>1, TokenOfText
        <3>3. create_set_op_leave(s[1]) \in Trees(A)
            BY <3>2, LeaveIsTree
        <3> QED
            BY <1>3, <3>3
    <2>5. IsWord(s[1]) => Balanced(s)
        BY <1>9, WordBalanced
    <2>6. \A e : e \in d[s] <=> IsWord(s[1]) /\ e = create_set_op_leave(s[1])
        BY <1>2, <2>2
    <2>7. CASE IsWord(s[1])
        BY <2>3, <2>4, <2>5, <2>6, <2>7 DEF Read
    <2>8. CASE ~IsWord(s[1])
        BY <2>3, <2>6, <2>8 DEF Read
    <2> QED
        BY <2>7, <2>8
<1>10. CASE /\ s # <<>> /\ ~Enclosed(s) /\ Len(s) = 2
            /\ s[1] = ComplementWord /\ IsWord(s[2])
    <2>1. ~Enclosed(Tail(s)) /\ Len(s) # 1
        BY <1>6, <1>10
    <2>2. \A e : DerivedBy(d, s, e) <=> e = create_set_op_complement(create_set_op_leave(s[2]))
        BY <1>10, <2>1 DEF DerivedBy, ByOperation
    <2>3. PICK t : t = Tail(s)
        OBVIOUS
    <2>4. t \in Seq(A) /\ Len(t) = 1 /\ t[1] = s[2]
        <3>1. t \in Seq(A) /\ Len(t) = 1
            BY <1>5, <1>10, <2>3
        <3>2. \A i \in 1 .. Len(s) - 1 : Tail(s)[i] = s[i + 1]
            BY <1>10, TailOfText
        <3>3. 1 \in 1 .. Len(s) - 1 /\ 1 + 1 = 2
            BY <1>10
        <3> QED
            BY <2>3, <3>1, <3>2, <3>3
    <2>5. p[t] = create_set_op_leave(s[2])
        <3>1. p[t] = ParseStep(p, t)
            BY <2>4 DEF IsParse
        <3>2. t # <<>> /\ ~Enclosed(t)
            BY <2>4, EnclosedLength
        <3> QED
            BY <1>10, <2>4, <3>1, <3>2 DEF ParseStep
    <2>6. p[s] = IF p[t] = NULL THEN NULL ELSE create_set_op_complement(p[t])
        BY <1>1, <1>10, <2>1, <2>3 DEF ParseStep
    <2>7. /\ create_set_op_leave(s[2]) # NULL
          /\ create_set_op_complement(create_set_op_leave(s[2])) # NULL
        <3>1. 2 \in 1 .. Len(s)
            BY <1>10
        <3>2. s[2] \in A
            BY <3>1, TokenOfText
        <3>3. create_set_op_leave(s[2]) \in Trees(A)
            BY <3>2, LeaveIsTree
        <3>4. create_set_op_complement(create_set_op_leave(s[2])) \in Trees(A)
            BY <3>3, ComplementIsTree
        <3> QED
            BY <1>3, <3>3, <3>4
    <2>8. Balanced(s)
        <3>1. Balanced(t)
            BY <1>10, <2>4, WordBalanced
        <3> QED
            BY <1>10, <2>3, <3>1, Beginnings, TailBalanced
    <2>9. p[s] = create_set_op_complement(create_set_op_leave(s[2]))
        BY <2>5, <2>6, <2>7
    <2> QED
        BY <1>2, <2>2, <2>7, <2>8, <2>9 DEF Read
<1>11. CASE /\ s # <<>> /\ ~Enclosed(s) /\ Len(s) # 1
            /\ s[1] = ComplementWord /\ Enclosed(Tail(s))
    <2>1. PICK inner : inner = Content(Tail(s))
        OBVIOUS
    <2>2. Len(s) # 2 /\ Read(p, d, inner)
        BY <1>6, <1>11, <2>1
    <2>3. \A e : DerivedBy(d, s, e) <=> \E e1 \in d[inner] : e = create_set_op_complement(e1)
        BY <1>11, <2>1, <2>2, Beginnings DEF DerivedBy, ByOperation
    <2>4. p[s] = IF p[inner] = NULL THEN NULL ELSE create_set_op_complement(p[inner])
        BY <1>1, <1>11, <2>1, <2>2 DEF ParseStep
    <2>5. p[inner] # NULL => create_set_op_complement(p[inner]) # NULL
        <3>1. PieceOf(A, inner, s)
            BY <1>11, <2>1, TailShorter
        <3>2. p[inner] \in Trees(A) \cup {NULL}
            BY <3>1 DEF PieceOf
        <3>3. p[inner] # NULL => create_set_op_complement(p[inner]) \in Trees(A)
            BY <3>2, ComplementIsTree
        <3> QED
            BY <1>3, <3>3
    <2>6. p[inner] # NULL => Balanced(s)
        <3>1. p[inner] # NULL => Matched(inner)
            BY <2>2 DEF Read, Balanced
        <3> QED
            BY <1>11, <2>1, <3>1, Beginnings, BehindWordBalanced
    <2>7. \A e : e \in d[inner] <=> e = p[inner] /\ e # NULL
        BY <2>2 DEF Read
    <2>8. \A e : e \in d[s] <=> p[inner] # NULL /\ e = create_set_op_complement(p[inner])
        BY <1>2, <2>3, <2>7
    <2> QED
        BY <2>4, <2>5, <2>6, <2>8 DEF Read
<1>12. CASE /\ s # <<>> /\ ~Enclosed(s) /\ Len(s) # 1
            /\ s[1] \in DOMAIN Operation /\ Enclosed(Tail(s))
    <2>1. PICK inner : inner = Content(Tail(s))
        OBVIOUS
    <2>2. PICK split : split = find_delimiter_ignoring_parentheses_content(inner, Comma)
        OBVIOUS
    <2>3. PICK left, right : /\ left = p[SubSeq(inner, 1, split - 1)]
                             /\ right = p[SubSeq(inner, split + 1, Len(inner))]
        OBVIOUS
    <2>4. PICK e0 : e0 = create_set_op(left, right, Operation[s[1]])
        OBVIOUS
    <2>5. s[1] # ComplementWord
        BY <1>12, Beginnings
    <2>6. p[s] = IF split = 0 \/ left = NULL \/ right = NULL THEN NULL ELSE e0
        BY <1>1, <1>12, <2>1, <2>2, <2>3, <2>4, <2>5 DEF ParseStep
    <2>7. \A e : DerivedBy(d, s, e) <=> ByOperation(d, s, e)
        BY <1>6, <1>12, <2>5 DEF DerivedBy
    <2>8. /\ \A e : ByOperation(d, s, e) <=> split # 0 /\ left # NULL /\ right # NULL /\ e = e0
          /\ split # 0 /\ left # NULL /\ right # NULL => Balanced(s)
        <3>1. OperationReads(d, s, split, left, right)
            BY <1>12, <2>1, <2>2, <2>3, OperationRead
        <3> QED
            BY <2>4, <3>1 DEF OperationReads
    <2>9. split # 0 /\ left # NULL /\ right # NULL => e0 # NULL
        <3>1. split # 0 /\ left # NULL /\ right # NULL => e0 \in d[s]
            BY <1>2, <2>7, <2>8
        <3>2. d[s] \in SUBSET Trees(A)
            OBVIOUS
        <3> QED
            BY <1>3, <3>1, <3>2
    <2>10. \A e : e \in d[s] <=> split # 0 /\ left # NULL /\ right # NULL /\ e = e0
        BY <1>2, <2>7, <2>8
    <2>11. CASE split # 0 /\ left # NULL /\ right # NULL
        BY <2>6, <2>8, <2>9, <2>10, <2>11 DEF Read
    <2>12. CASE ~(split # 0 /\ left # NULL /\ right # NULL)
        BY <2>6, <2>10, <2>12 DEF Read
    <2> QED
        BY <2>11, <2>12
<1>13. CASE /\ s # <<>> /\ ~Enclosed(s) /\ Len(s) # 1
            /\ ~(s[1] = ComplementWord /\ ((Len(s) = 2 /\ IsWord(s[2])) \/ Enclosed(Tail(s))))
            /\ ~(s[1] \in DOMAIN Operation /\ Enclosed(Tail(s)))
    <2>1. \A e : ~DerivedBy(d, s, e)
        BY <1>13 DEF DerivedBy, ByOperation
    <2>2. p[s] = NULL
        BY <1>1, <1>13 DEF ParseStep
    <2> QED
        BY <1>2, <2>1, <2>2 DEF Read
<1> QED
    BY <1>7, <1>8, <1>9, <1>10, <1>11, <1>12, <1>13

\* parse_set_operation returns the one tree that the grammar derives a text
\* from, or NULL when there is none; the text is then balanced.
LEMMA ExpressionExact ==
    ASSUME NEW A, NEW s \in Seq(A), A = ToSet(s), NEW tree, tree = parse_set_operation(s)
    PROVE  /\ tree \in Trees(A) \cup {NULL}
           /\ \A e : e \in Derivations(s) <=> e = tree /\ e # NULL
           /\ tree # NULL => Balanced(s)
<1>1. PICK p \in [Seq(A) -> Trees(A) \cup {NULL}] : IsParse(p, A) /\ parse_set_operation(s) = p[s]
    BY ParseResult
<1>2. PICK d \in [Seq(A) -> SUBSET Trees(A)] : IsDerived(d, A) /\ Derivations(s) = d[s]
    BY ParseResult
<1> DEFINE S == {n \in Nat : \E t \in Seq(A) : Len(t) = n /\ ~Read(p, d, t)}
<1>3. S = {}
    <2> SUFFICES ASSUME S # {} PROVE FALSE
        OBVIOUS
    <2>1. S \subseteq Nat
        OBVIOUS
    <2>2. PICK n \in S : \A m \in S : n <= m
        BY <2>1, LeastNatural
    <2>3. PICK t \in Seq(A) : Len(t) = n /\ ~Read(p, d, t)
        OBVIOUS
    <2>4. ASSUME NEW u, PieceOf(A, u, t) PROVE Read(p, d, u)
        <3>1. u \in Seq(A) /\ Len(u) \in Nat /\ n \in Nat /\ Len(u) < n
            BY <2>3, <2>4 DEF PieceOf
        <3>2. Len(u) \notin S
            BY <2>2, <3>1
        <3> QED
            BY <3>1, <3>2
    <2> QED
        BY <1>1, <1>2, <2>3, <2>4, TextRead
<1>4. Read(p, d, s)
    <2>1. Len(s) \in Nat /\ Len(s) \notin S
        BY <1>3
    <2> QED
        BY <2>1
<1>5. p[s] \in Trees(A) \cup {NULL}
    BY <1>1
<1> QED
    BY <1>1, <1>2, <1>4, <1>5 DEF Read

\* Every sequence is one over the tokens in it.
LEMMA OwnTokens ==
    ASSUME NEW A, NEW s \in Seq(A)
    PROVE  s \in Seq(ToSet(s))
<1>1. Len(s) \in Nat /\ s \in [1 .. Len(s) -> A] /\ DOMAIN s = 1 .. Len(s)
    OBVIOUS
<1>2. s \in [1 .. Len(s) -> ToSet(s)]
    BY <1>1 DEF ToSet
<1>3. \A n \in Nat : \A f \in [1 .. n -> ToSet(s)] : f \in Seq(ToSet(s))
    OBVIOUS
<1> QED
    BY <1>1, <1>2, <1>3

\* A piece out of a text.
LEMMA PieceOfText ==
    ASSUME NEW A, NEW s \in Seq(A), NEW i \in Nat \ {0}, NEW j \in 0 .. Len(s)
    PROVE  /\ SubSeq(s, i, j) \in Seq(A)
           /\ Len(SubSeq(s, i, j)) = IF i <= j THEN j - i + 1 ELSE 0
           /\ \A n \in 1 .. Len(SubSeq(s, i, j)) : SubSeq(s, i, j)[n] = s[i + n - 1]
<1>1. Len(s) \in Nat
    OBVIOUS
<1>2. CASE i <= j
    BY <1>1, <1>2
<1>3. CASE i > j
    <2>1. SubSeq(s, i, j) = <<>>
        BY <1>1, <1>3
    <2> QED
        BY <1>3, <2>1
<1> QED
    BY <1>2, <1>3

\* FROM is in one place, behind names and commas.
LEMMA OneFrom ==
    ASSUME NEW s, NEW k \in FromAt(s)
    PROVE  FromAt(s) = {k} /\ Max(FromAt(s)) = k
<1>1. \A m \in FromAt(s) : m = k
    <2> TAKE m \in FromAt(s)
    <2>1. FromWord # Comma
        BY TokenAssumption DEF Signs
    <2>2. ASSUME NEW x \in FromAt(s), NEW y \in FromAt(s), x < y PROVE FALSE
        <3>1. x \in 3 .. Len(s) /\ s[x] = FromWord /\ x % 2 = 1 /\ y \in 3 .. Len(s)
            BY DEF FromAt
        <3>2. \A i \in 2 .. y - 1 : i % 2 = 0 \/ s[i] = Comma
            BY DEF FromAt
        <3>3. x \in 2 .. y - 1
            BY <2>2, <3>1
        <3>4. x % 2 # 0
            BY <3>1
        <3> QED
            BY <2>1, <3>1, <3>2, <3>3, <3>4
    <2>3. k \in Int /\ m \in Int
        BY DEF FromAt
    <2> QED
        BY <2>2, <2>3
<1>2. FromAt(s) = {k}
    BY <1>1
<1>3. k >= k
    BY DEF FromAt
<1> QED
    BY <1>2, <1>3 DEF Max

\* Up to FROM there is no semicolon.
LEMMA NoSemicolonBefore ==
    ASSUME NEW s, NEW k \in FromAt(s), NEW i \in 1 .. k
    PROVE  s[i] # Semicolon
<1>1. SelectWord # Semicolon /\ FromWord # Semicolon /\ Comma # Semicolon
    BY TokenAssumption DEF Signs
<1>2. /\ k \in 3 .. Len(s) /\ s[1] = SelectWord /\ s[k] = FromWord
      /\ \A j \in 2 .. k - 1 : IsWord(s[j]) \/ s[j] = Comma
    BY DEF FromAt
<1>3. i = 1 \/ i = k \/ i \in 2 .. k - 1
    BY <1>2
<1> QED
    BY <1>1, <1>2, <1>3 DEF IsWord, Signs

Expression(s, k) == SubSeq(s, k + 1, Len(s) - 1)

Columns(s, k) == [c \in 1 .. (k - 1) \div 2 |-> s[2 * c]]

\* The columns that are read are those between SELECT and FROM.
LEMMA ColumnsRead ==
    ASSUME NEW A, NEW s \in Seq(A), NEW k \in FromAt(s)
    PROVE  parse_column_names(SubSeq(s, 2, k - 1)) = Columns(s, k) /\ Columns(s, k) \in Seq(A)
<1>1. k \in 3 .. Len(s) /\ k % 2 = 1 /\ Len(s) \in Nat
    BY DEF FromAt
<1>2. PICK t : t = SubSeq(s, 2, k - 1)
    OBVIOUS
<1>3. Len(t) = k - 2 /\ \A n \in 1 .. k - 2 : t[n] = s[n + 1]
    <2>1. 2 \in Nat \ {0} /\ k - 1 \in 0 .. Len(s)
        BY <1>1
    <2>2. /\ Len(t) = IF 2 <= k - 1 THEN k - 1 - 2 + 1 ELSE 0
          /\ \A n \in 1 .. Len(t) : t[n] = s[2 + n - 1]
        BY <1>2, <2>1, PieceOfText
    <2> QED
        BY <1>1, <2>2
<1>4. PICK h : h = (k - 1) \div 2
    OBVIOUS
<1>5. h \in Nat /\ 2 * h = k - 1
    BY <1>1, <1>4
<1>6. (Len(t) + 1) \div 2 = h
    BY <1>1, <1>3, <1>4
<1>7. ASSUME NEW c \in 1 .. h
      PROVE  t[2 * c - 1] = s[2 * c] /\ s[2 * c] \in A
    <2>1. 2 * c - 1 \in 1 .. k - 2 /\ 2 * c - 1 + 1 = 2 * c /\ 2 * c \in 1 .. Len(s)
        BY <1>1, <1>5
    <2> QED
        BY <1>3, <2>1, TokenOfText
<1>8. parse_column_names(t) = [c \in 1 .. h |-> t[2 * c - 1]]
    BY <1>6 DEF parse_column_names
<1>9. Columns(s, k) = [c \in 1 .. h |-> s[2 * c]]
    BY <1>4 DEF Columns
<1>10. Columns(s, k) \in [1 .. h -> A]
    BY <1>7, <1>9
<1>11. \A n \in Nat : \A f \in [1 .. n -> A] : f \in Seq(A)
    OBVIOUS
<1> QED
    BY <1>2, <1>5, <1>7, <1>8, <1>9, <1>10, <1>11

\* Where there is nothing behind FROM, or a second semicolon, nothing is derived.
LEMMA NothingDerived ==
    ASSUME NEW A, NEW s \in Seq(A), NEW k \in FromAt(s), s[Len(s)] = Semicolon, ~regex_query(s)
    PROVE  Derivations(Expression(s, k)) = {}
<1>1. k \in 3 .. Len(s) /\ Len(s) \in Nat
    BY DEF FromAt
<1>2. PICK t : t = Expression(s, k)
    OBVIOUS
<1>3. /\ t \in Seq(A) /\ Len(t) = IF k + 1 <= Len(s) - 1 THEN Len(s) - 1 - k ELSE 0
      /\ \A n \in 1 .. Len(t) : t[n] = s[k + n]
    <2>1. k + 1 \in Nat \ {0} /\ Len(s) - 1 \in 0 .. Len(s)
        BY <1>1
    <2>2. /\ t \in Seq(A)
          /\ Len(t) = IF k + 1 <= Len(s) - 1 THEN Len(s) - 1 - (k + 1) + 1 ELSE 0
          /\ \A n \in 1 .. Len(t) : t[n] = s[k + 1 + n - 1]
        BY <1>2, <2>1, PieceOfText DEF Expression
    <2>3. Len(t) \in Nat /\ \A n \in 1 .. Len(t) : k + 1 + n - 1 = k + n
        BY <1>1, <2>2
    <2> QED
        BY <1>1, <2>2, <2>3
<1>4. PICK tree : tree = parse_set_operation(t)
    OBVIOUS
<1>5. /\ \A e : e \in Derivations(t) <=> e = tree /\ e # NULL
      /\ tree # NULL => Balanced(t)
    <2>1. t \in Seq(ToSet(t))
        BY <1>3, OwnTokens
    <2> QED
        BY <1>4, <2>1, ExpressionExact
<1>6. Max(FromAt(s)) = k
    BY OneFrom
<1>7. CASE Len(s) <= k + 1
    <2>1. Len(t) = 0
        BY <1>1, <1>3, <1>7
    <2>2. t = <<>>
        BY <1>3, <2>1
    <2>3. tree = NULL
        <3>1. PICK p \in [Seq(ToSet(t)) -> Trees(ToSet(t)) \cup {NULL}] :
                  IsParse(p, ToSet(t)) /\ parse_set_operation(t) = p[t]
            BY <1>3, OwnTokens, ParseResult
        <3>2. t \in Seq(ToSet(t))
            BY <1>3, OwnTokens
        <3>3. p[t] = ParseStep(p, t)
            BY <3>1, <3>2 DEF IsParse
        <3> QED
            BY <1>4, <2>2, <3>1, <3>3 DEF ParseStep
    <2> QED
        BY <1>2, <1>5, <2>3
<1>8. CASE Len(s) > k + 1
    <2>1. {i \in 1 .. Len(s) : s[i] = Semicolon} # {Len(s)}
        BY <1>6, <1>8 DEF regex_query
    <2>2. PICK i \in 1 .. Len(s) : s[i] = Semicolon /\ i # Len(s)
        BY <1>1, <2>1
    <2>3. i > k
        BY <1>1, <2>2, NoSemicolonBefore
    <2>4. i - k \in 1 .. Len(t) /\ k + (i - k) = i
        BY <1>1, <1>3, <1>8, <2>2, <2>3
    <2>5. t[i - k] = Semicolon
        BY <1>3, <2>2, <2>4
    <2>6. ~Balanced(t)
        BY <2>4, <2>5 DEF Balanced, Matched
    <2> QED
        BY <1>2, <1>5, <2>6
<1> QED
    BY <1>1, <1>7, <1>8

\* A text is taken for a query exactly if the grammar derives one from it, and
\* for that one.
LEMMA QueryRead ==
    ASSUME NEW s, s \in Seq(ToSet(s)), NEW q, q = parse_query(s)
    PROVE  /\ q.op = NULL => Queries(s) = {}
           /\ q.op # NULL => /\ Queries(s) = {[op |-> q.op, column_names |-> q.column_names]}
                             /\ \E A : q.op \in Trees(A)
           /\ q.column_names \in Seq(ToSet(s))
<1> DEFINE A == ToSet(s)
<1>1. Len(s) \in Nat
    OBVIOUS
<1>2. CASE ~regex_query(s)
    <2>1. q = [op |-> NULL, column_names |-> <<>>]
        BY <1>2 DEF parse_query
    <2>2. q.op = NULL /\ q.column_names = <<>>
        BY <2>1
    <2>3. <<>> \in Seq(A)
        OBVIOUS
    <2>4. s # <<>> /\ Last(s) = Semicolon => \A k \in FromAt(s) : Derivations(Expression(s, k)) = {}
        BY <1>2, NothingDerived DEF Last
    <2>5. Queries(s) = {}
        BY <2>4 DEF Queries, Expression
    <2> QED
        BY <2>2, <2>3, <2>5
<1>3. CASE regex_query(s)
    <2>1. PICK k : k \in FromAt(s)
        BY <1>3 DEF regex_query
    <2>2. FromAt(s) = {k} /\ Max(FromAt(s)) = k
        BY <2>1, OneFrom
    <2>3. k \in 3 .. Len(s)
        BY <2>1 DEF FromAt
    <2>4. PICK t, tree : t = Expression(s, k) /\ tree = parse_set_operation(t)
        OBVIOUS
    <2>5. PICK names : names = Columns(s, k)
        OBVIOUS
    <2>6. q = [op |-> tree, column_names |-> names]
        BY <1>3, <2>1, <2>2, <2>4, <2>5, ColumnsRead DEF parse_query, Expression
    <2>7. q.op = tree /\ q.column_names = names
        BY <2>6
    <2>8. names \in Seq(A)
        BY <2>1, <2>5, ColumnsRead
    <2>9. t \in Seq(ToSet(t))
        <3>1. k + 1 \in Nat \ {0} /\ Len(s) - 1 \in 0 .. Len(s)
            BY <1>1, <2>3
        <3>2. t \in Seq(A)
            BY <2>4, <3>1, PieceOfText DEF Expression
        <3> QED
            BY <3>2, OwnTokens
    <2>10. /\ tree \in Trees(ToSet(t)) \cup {NULL}
           /\ \A e : e \in Derivations(t) <=> e = tree /\ e # NULL
        BY <2>4, <2>9, ExpressionExact
    <2>11. s # <<>> /\ Last(s) = Semicolon
        BY <1>1, <1>3, <2>3 DEF regex_query, Last
    <2>12. Queries(s) = {[op |-> e, column_names |-> names] : e \in Derivations(t)}
        BY <2>2, <2>4, <2>5, <2>11 DEF Queries, Expression, Columns
    <2>13. tree = NULL => Queries(s) = {}
        BY <2>10, <2>12
    <2>14. tree # NULL => Queries(s) = {[op |-> tree, column_names |-> names]}
        <3>1. tree # NULL => Derivations(t) = {tree}
            BY <2>10
        <3> QED
            BY <2>12, <3>1
    <2> QED
        BY <2>7, <2>8, <2>10, <2>13, <2>14
<1> QED
    BY <1>2, <1>3

-----------------------------------------------------------------------------
(* The inductive invariant.                                                *)

\* What has been asked and read.
TextRightlyRead ==
    /\ place # "idle" => text \in Texts
    /\ place = "refused" => parse_query(text).op = NULL
    /\ place \notin {"idle", "parse", "refused"} =>
          /\ op = parse_query(text).op /\ op # NULL
          /\ column_names = parse_query(text).column_names

\* What has been evaluated and looked up, and copied.
BitsRight ==
    place \in {"columns", "rows", "answered"} =>
        NamesIn(op) \subseteq SetNames /\ bs = db_run_set_operation(op)

ColumnsRight ==
    place \in {"rows", "answered"} =>
        \A c \in 1 .. Len(column_names) : Known(attrNamesTable, column_names[c])

RowsRight == place = "answered" => rows = Copied

QueryInv == Loaded /\ TextRightlyRead /\ BitsRight /\ ColumnsRight /\ RowsRight /\ QuerySafe

\* The tree that is evaluated is one, and the names of the columns are a sequence.
LEMMA TreeRead ==
    ASSUME TextRightlyRead, place \notin {"idle", "parse", "refused"}
    PROVE  /\ \E A : op \in Trees(A)
           /\ \E A : column_names \in Seq(A)
<1>1. text \in Texts /\ op # NULL /\ op = parse_query(text).op
      /\ column_names = parse_query(text).column_names
    BY DEF TextRightlyRead
<1>2. text \in Seq(ToSet(text))
    BY <1>1, TextsAssumption
<1> QED
    BY <1>1, <1>2, QueryRead

\* A column that is named is an element of the sequence.
LEMMA ColumnNamed ==
    ASSUME NEW A, NEW s \in Seq(A), NEW c \in 1 .. Len(s)
    PROVE  s[c] \in ToSet(s)
BY DEF ToSet

\* The bits of a result that is bounded are the indexes of the keys selected.
LEMMA ResultRight ==
    ASSUME Loaded, TextRightlyRead, BitsRight, place \in {"columns", "rows", "answered"}
    PROVE  /\ BitCount \in Nat /\ \A b \in bs.bits : b \in 0 .. BitCount - 1
           /\ Bounded(op) \/ NoPadding => bs.bits \subseteq 0 .. keyCount - 1
           /\ Meaning(op) \subseteq 1 .. keyCount
           /\ \A k \in 1 .. keyCount : k \in Meaning(op) <=> k - 1 \in bs.bits
<1>1. PICK A : op \in Trees(A)
    BY TreeRead
<1>2. NamesIn(op) \subseteq SetNames /\ bs = db_run_set_operation(op)
    BY DEF BitsRight
<1>3. /\ bs \in BitsetOfKeys /\ Meaning(op) \subseteq DOMAIN keyTable
      /\ Represents(bs, Meaning(op), Bounded(op) \/ NoPadding)
    BY <1>1, <1>2, EvaluationExact
<1>4. bs.integer_count = Words(maxKeyCount) /\ bs.bits \subseteq Positions(Words(maxKeyCount))
    BY <1>3 DEF BitsetOfKeys
<1>5. BitCount = Words(maxKeyCount) * INTEGER_BIT_SIZE
    BY <1>4 DEF BitCount
<1>6. BitCount \in Nat
    BY <1>5, BitForKey, DatabaseAssumption
<1>7. \A b \in bs.bits : b \in 0 .. BitCount - 1
    BY <1>4, <1>5 DEF Positions
<1>8. DOMAIN keyTable = 1 .. keyCount
    BY DEF Loaded
<1> QED
    BY <1>3, <1>6, <1>7, <1>8 DEF Represents

\* A column that is typed holds an entry for every key.
LEMMA KeyHeld ==
    ASSUME Loaded, NEW bit \in 0 .. keyCount - 1, NEW c, column_names[c] \in Typed
    PROVE  Holding(bit, c)
<1>1. bit < maxKeyCount
    BY DatabaseAssumption DEF Loaded
<1> QED
    BY <1>1 DEF Holding, Typed

\* A bounded result fits into the buffers.
LEMMA RowsFit ==
    ASSUME Loaded, TextRightlyRead, BitsRight, place = "rows", Bounded(op) \/ NoPadding
    PROVE  Len(Copied) <= BufferRows
<1>1. BitCount \in Nat /\ bs.bits \subseteq 0 .. keyCount - 1
    BY ResultRight
<1>2. PICK c : c = Copied
    OBVIOUS
<1>3. RowsOf(c, BitCount)
    BY <1>1, <1>2, AllCopied
<1>4. Len(c) \in Nat
    BY <1>3 DEF RowsOf
<1>5. keyCount \in Nat
    BY DatabaseAssumption DEF Loaded
<1>6. CASE Len(c) = 0
    BY <1>2, <1>5, <1>6 DEF BufferRows
<1>7. CASE Len(c) # 0
    <2>1. Len(c) \in 1 .. Len(c)
        BY <1>4, <1>7
    <2>2. c[Len(c)].index \in bs.bits /\ Len(c) <= c[Len(c)].index + 1
        BY <1>3, <2>1 DEF RowsOf
    <2>3. c[Len(c)].index \in 0 .. keyCount - 1
        BY <1>1, <2>2
    <2> QED
        BY <1>2, <1>4, <1>5, <2>2, <2>3 DEF BufferRows
<1> QED
    BY <1>6, <1>7

\* The invariant holds when the database has been loaded.
LEMMA InitInv ==
    ASSUME QueryInit
    PROVE  QueryInv
<1>1. Loaded
    BY DEF QueryInit, Loaded
<1>2. place = "idle"
    BY DEF QueryInit
<1> QED
    BY <1>1, <1>2
    DEF QueryInv, TextRightlyRead, BitsRight, ColumnsRight, RowsRight, QuerySafe, Sound

\* No step touches the database.
LEMMA StaysLoaded ==
    ASSUME Loaded, UNCHANGED dbVars
    PROVE  Loaded'
BY DEF Loaded, Column, dbVars, keyVars, setVars, attrVars

\* Every step keeps the invariant.
LEMMA NextInv ==
    ASSUME QueryInv, [QueryNext]_queryVars
    PROVE  QueryInv'
<1> USE DEF QueryInv
<1>1. CASE Ask
    <2>1. UNCHANGED dbVars /\ place' = "parse" /\ text' \in Texts
        BY <1>1 DEF Ask
    <2>2. Loaded'
        BY <2>1, StaysLoaded
    <2> QED
        BY <2>1, <2>2 DEF TextRightlyRead, BitsRight, ColumnsRight, RowsRight, QuerySafe, Sound
<1>2. CASE ParseQuery
    <2>1. PICK q : q = parse_query(text)
        OBVIOUS
    <2>2. /\ UNCHANGED dbVars /\ UNCHANGED text /\ place = "parse"
          /\ place' = IF q.op = NULL THEN "refused" ELSE "evaluate"
          /\ op' = q.op /\ column_names' = q.column_names
        BY <1>2, <2>1 DEF ParseQuery
    <2>3. Loaded'
        BY <2>2, StaysLoaded
    <2>4. q = parse_query(text')
        BY <2>1, <2>2
    <2>5. TextRightlyRead'
        BY <2>2, <2>4 DEF TextRightlyRead
    <2> QED
        BY <2>2, <2>3, <2>5 DEF BitsRight, ColumnsRight, RowsRight, QuerySafe, Sound
<1>3. CASE RunSetOperation
    <2>1. /\ UNCHANGED <<dbVars, text, op, column_names>> /\ place = "evaluate"
          /\ IF NamesIn(op) \subseteq DOMAIN setNamesTable
             THEN bs' = db_run_set_operation(op) /\ place' = "columns"
             ELSE place' = "killed"
        BY <1>3 DEF RunSetOperation
    <2>2. Loaded'
        BY <2>1, StaysLoaded
    <2>3. TextRightlyRead'
        BY <2>1 DEF TextRightlyRead
    <2>4. ColumnsRight' /\ RowsRight'
        BY <2>1 DEF ColumnsRight, RowsRight
    <2>5. CASE NamesIn(op) \subseteq DOMAIN setNamesTable
        <3>1. bs' = db_run_set_operation(op) /\ place' = "columns"
            BY <2>1, <2>5
        <3>2. db_run_set_operation(op)' = db_run_set_operation(op)
            BY <2>1 DEF db_run_set_operation, dbVars, keyVars, setVars
        <3>3. NamesIn(op)' \subseteq SetNames
            BY <2>1, <2>5 DEF Loaded, NamesIn
        <3>4. BitsRight'
            BY <3>1, <3>2, <3>3 DEF BitsRight
        <3> QED
            BY <2>2, <2>3, <2>4, <3>1, <3>4 DEF QuerySafe
    <2>6. CASE ~(NamesIn(op) \subseteq DOMAIN setNamesTable)
        <3>1. place' = "killed" /\ setNamesTable' = setNamesTable
            BY <2>1, <2>6 DEF dbVars, setVars
        <3>2. ~Sound'
            BY <2>1, <2>6, <3>1 DEF Sound, NamesIn
        <3> QED
            BY <2>2, <2>3, <2>4, <3>1, <3>2 DEF BitsRight, QuerySafe
    <2> QED
        BY <2>5, <2>6
<1>4. CASE LookUpColumns
    <2> DEFINE unknown == {c \in 1 .. Len(column_names) : ~Known(attrNamesTable, column_names[c])}
               behind  == attrCount + 1 .. Len(column_names)
    <2>1. /\ UNCHANGED <<dbVars, text, op, column_names, bs>> /\ place = "columns"
          /\ place' \in {"rows", "killed", "undefined"}
          /\ place' = "rows" => unknown = {}
          /\ place' # "rows" => unknown # {} \/ behind # {}
        BY <1>4 DEF LookUpColumns
    <2>2. Loaded'
        BY <2>1, StaysLoaded
    <2>3. TextRightlyRead'
        BY <2>1 DEF TextRightlyRead
    <2>4. BitsRight'
        <3>1. db_run_set_operation(op)' = db_run_set_operation(op)
            BY <2>1 DEF db_run_set_operation, dbVars, keyVars, setVars
        <3> QED
            BY <2>1, <3>1 DEF BitsRight, NamesIn
    <2>5. ColumnsRight' /\ RowsRight'
        BY <2>1 DEF ColumnsRight, RowsRight, dbVars, attrVars
    <2>6. PICK A : column_names \in Seq(A)
        BY <2>1, TreeRead
    <2>7. Sound' => place' = "rows"
        <3>1. Sound' => ToSet(column_names) \subseteq Typed /\ Len(column_names) <= attrCount
            BY <2>1 DEF Sound, Typed, dbVars, attrVars
        <3>2. Sound' => unknown = {}
            BY <2>6, <3>1, ColumnNamed DEF Typed, Known
        <3>3. Sound' => behind = {}
            <4>1. Len(column_names) \in Nat /\ attrCount = 3
                BY <2>6 DEF Loaded
            <4> QED
                BY <3>1, <4>1
        <3> QED
            BY <2>1, <3>2, <3>3
    <2> QED
        BY <2>2, <2>3, <2>4, <2>5, <2>7 DEF QuerySafe
<1>5. CASE CopyRows
    <2>1. UNCHANGED <<dbVars, text, op, column_names, bs>> /\ place = "rows"
        BY <1>5 DEF CopyRows
    <2>2. \/ place' = "answered" /\ rows' = Copied
          \/ place' = "undefined" /\ Len(Copied) > BufferRows
          \/ place' = "killed" /\ \E b \in bs.bits, c \in 1 .. Len(column_names) : ~Holding(b, c)
        BY <1>5 DEF CopyRows
    <2>3. Loaded'
        BY <2>1, StaysLoaded
    <2>4. TextRightlyRead'
        BY <2>1, <2>2 DEF TextRightlyRead
    <2>5. BitsRight'
        <3>1. db_run_set_operation(op)' = db_run_set_operation(op)
            BY <2>1 DEF db_run_set_operation, dbVars, keyVars, setVars
        <3> QED
            BY <2>1, <3>1 DEF BitsRight, NamesIn
    <2>6. ColumnsRight'
        BY <2>1 DEF ColumnsRight, dbVars, attrVars
    <2>7. RowsRight'
        <3>1. Copied' = Copied
            BY <2>1 DEF Copied, Row, Holding, Entry, dbVars, keyVars, setVars, attrVars
        <3> QED
            BY <2>2, <3>1 DEF RowsRight
    <2>8. Sound' => /\ Bounded(op) \/ NoPadding
                    /\ ToSet(column_names) \subseteq Typed
        <3>1. Sound' => Bounded(op') \/ NoPadding'
            BY DEF Sound
        <3>2. Sound' => ToSet(column_names) \subseteq Typed
            BY <2>1 DEF Sound, Typed, dbVars, attrVars
        <3>3. Bounded(op') = Bounded(op)
            BY <2>1
        <3>4. NoPadding' <=> NoPadding
            BY <2>1 DEF NoPadding, dbVars, keyVars
        <3> QED
            BY <3>1, <3>2, <3>3, <3>4
    <2>9. Sound' => place' # "undefined"
        <3>1. ASSUME Sound' PROVE Len(Copied) <= BufferRows
            BY <2>1, <2>8, <3>1, RowsFit
        <3>2. BitCount \in Nat
            BY <2>1, ResultRight
        <3>3. Len(Copied) \in Nat
            BY <3>2, AllCopied DEF RowsOf
        <3>4. BufferRows \in Int
            BY DEF Loaded, BufferRows
        <3>5. Sound' => ~(Len(Copied) > BufferRows)
            BY <3>1, <3>3, <3>4
        <3> QED
            BY <2>2, <3>5
    <2>10. Sound' => place' # "killed"
        <3>1. ASSUME Sound', NEW b \in bs.bits, NEW c \in 1 .. Len(column_names)
              PROVE  Holding(b, c)
            <4>1. b \in 0 .. keyCount - 1
                BY <2>1, <2>8, <3>1, ResultRight
            <4>2. PICK A : column_names \in Seq(A)
                BY <2>1, TreeRead
            <4>3. column_names[c] \in Typed
                BY <2>8, <3>1, <4>2, ColumnNamed
            <4> QED
                BY <4>1, <4>3, KeyHeld
        <3> QED
            BY <2>2, <3>1
    <2> QED
        BY <2>3, <2>4, <2>5, <2>6, <2>7, <2>9, <2>10 DEF QuerySafe
<1>6. CASE UNCHANGED queryVars
    <2>1. UNCHANGED <<dbVars, place, text, op, column_names, bs, rows>>
        BY <1>6 DEF queryVars
    <2>2. Loaded'
        BY <2>1, StaysLoaded
    <2>3. TextRightlyRead'
        BY <2>1 DEF TextRightlyRead
    <2>4. BitsRight'
        <3>1. db_run_set_operation(op)' = db_run_set_operation(op)
            BY <2>1 DEF db_run_set_operation, dbVars, keyVars, setVars
        <3> QED
            BY <2>1, <3>1 DEF BitsRight, NamesIn
    <2>5. ColumnsRight'
        BY <2>1 DEF ColumnsRight, dbVars, attrVars
    <2>6. RowsRight'
        <3>1. Copied' = Copied
            BY <2>1 DEF Copied, Row, Holding, Entry, dbVars, keyVars, setVars, attrVars
        <3> QED
            BY <2>1, <3>1 DEF RowsRight
    <2>7. QuerySafe'
        <3>1. Bounded(op') = Bounded(op)
            BY <2>1
        <3>2. Sound' => Sound
            BY <2>1, <3>1
            DEF Sound, Typed, NoPadding, NamesIn, dbVars, keyVars, setVars, attrVars
        <3> QED
            BY <2>1, <3>2 DEF QuerySafe
    <2> QED
        BY <2>2, <2>3, <2>4, <2>5, <2>6, <2>7
<1> QED
    BY <1>1, <1>2, <1>3, <1>4, <1>5, <1>6 DEF QueryNext

\* The invariant implies that a text is read exactly.
LEMMA InvParseExact ==
    ASSUME QueryInv
    PROVE  ParseExact
<1>1. ASSUME place \in {"refused", "evaluate"}
      PROVE  text \in Seq(ToSet(text))
    <2>1. text \in Texts
        BY <1>1 DEF QueryInv, TextRightlyRead
    <2> QED
        BY <2>1, TextsAssumption
<1>2. PICK q : q = parse_query(text)
    OBVIOUS
<1>3. place = "refused" => Queries(text) = {}
    <2> SUFFICES ASSUME place = "refused" PROVE Queries(text) = {}
        OBVIOUS
    <2>1. q.op = NULL
        BY <1>2 DEF QueryInv, TextRightlyRead
    <2> QED
        BY <1>1, <1>2, <2>1, QueryRead
<1>4. place = "evaluate" => Queries(text) = {[op |-> op, column_names |-> column_names]}
    <2> SUFFICES ASSUME place = "evaluate"
                 PROVE  Queries(text) = {[op |-> op, column_names |-> column_names]}
        OBVIOUS
    <2>1. q.op # NULL /\ op = q.op /\ column_names = q.column_names
        BY <1>2 DEF QueryInv, TextRightlyRead
    <2> QED
        BY <1>1, <1>2, <2>1, QueryRead
<1> QED
    BY <1>3, <1>4 DEF ParseExact

\* The invariant implies that a query is answered exactly.
LEMMA InvQueryExact ==
    ASSUME QueryInv
    PROVE  QueryExact
<1> SUFFICES ASSUME place = "answered", Bounded(op) \/ NoPadding, ToSet(column_names) \subseteq Typed
             PROVE  /\ {rows[r].index : r \in 1 .. Len(rows)} = {keyTable[k] : k \in Meaning(op)}
                    /\ \A r, s \in 1 .. Len(rows) : r < s => rows[r].index < rows[s].index
                    /\ \A r \in 1 .. Len(rows) : \A k \in DOMAIN keyTable :
                          keyTable[k] = rows[r].index =>
                              rows[r].cells =
                                  [c \in 1 .. Len(column_names) |-> ValueOf(column_names[c], k)]
    BY DEF QueryExact
<1> USE DEF QueryInv
<1>1. /\ BitCount \in Nat /\ \A b \in bs.bits : b \in 0 .. BitCount - 1
      /\ bs.bits \subseteq 0 .. keyCount - 1
      /\ Meaning(op) \subseteq 1 .. keyCount
      /\ \A k \in 1 .. keyCount : k \in Meaning(op) <=> k - 1 \in bs.bits
    BY ResultRight
<1>2. RowsOf(rows, BitCount)
    BY <1>1, AllCopied DEF RowsRight
<1>3. DOMAIN keyTable = 1 .. keyCount /\ \A k \in 1 .. keyCount : keyTable[k] = k - 1
    BY DEF Loaded
<1>4. keyCount \in Nat
    BY DatabaseAssumption DEF Loaded
<1>5. \A r \in 1 .. Len(rows) : \E k \in Meaning(op) : rows[r].index = keyTable[k]
    <2> TAKE r \in 1 .. Len(rows)
    <2>1. rows[r].index \in bs.bits
        BY <1>2 DEF RowsOf
    <2>2. PICK i : i = rows[r].index
        OBVIOUS
    <2>3. i \in 0 .. keyCount - 1
        BY <1>1, <2>1, <2>2
    <2>4. i + 1 \in 1 .. keyCount /\ (i + 1) - 1 = i
        BY <1>4, <2>3
    <2>5. i + 1 \in Meaning(op)
        BY <1>1, <2>1, <2>2, <2>4
    <2> QED
        BY <1>3, <2>2, <2>4, <2>5
<1>6. \A k \in Meaning(op) : \E r \in 1 .. Len(rows) : rows[r].index = keyTable[k]
    <2> TAKE k \in Meaning(op)
    <2>1. k \in 1 .. keyCount /\ k - 1 \in bs.bits
        BY <1>1
    <2>2. k - 1 \in 0 .. BitCount - 1
        BY <1>1, <2>1
    <2> QED
        BY <1>2, <1>3, <2>1, <2>2 DEF RowsOf
<1>7. \A r, s \in 1 .. Len(rows) : r < s => rows[r].index < rows[s].index
    BY <1>2 DEF RowsOf
<1>8. ASSUME NEW r \in 1 .. Len(rows), NEW k \in DOMAIN keyTable, keyTable[k] = rows[r].index
      PROVE  rows[r].cells = [c \in 1 .. Len(column_names) |-> ValueOf(column_names[c], k)]
    <2>1. PICK i : i = rows[r].index
        OBVIOUS
    <2>2. i \in 0 .. keyCount - 1 /\ rows[r] = Row(i)
        BY <1>1, <1>2, <2>1 DEF RowsOf
    <2>3. PICK A : column_names \in Seq(A)
        BY TreeRead
    <2>4. \A c \in 1 .. Len(column_names) : Holding(i, c)
        BY <2>2, <2>3, ColumnNamed, KeyHeld
    <2>5. Row(i).cells = [c \in 1 .. Len(column_names) |->
                             IF Holding(i, c) THEN Entry(attrNamesTable[column_names[c]], i)
                             ELSE Garbage]
        BY DEF Row
    <2>6. \A c \in 1 .. Len(column_names) :
              ValueOf(column_names[c], k) = Entry(attrNamesTable[column_names[c]], i)
        BY <1>8, <2>1 DEF ValueOf
    <2> QED
        BY <2>2, <2>4, <2>5, <2>6
<1> QED
    BY <1>5, <1>6, <1>7, <1>8

\* QueryParser, every text and every tree: a chunk is taken for a query exactly
\* if the grammar derives one from it, and for the only one it derives
\* (query_parser.c cuts texts at their ends and at a comma).
THEOREM ParseExactAlways == QuerySpec => []ParseExact
<1>1. QueryInit => QueryInv
    BY InitInv
<1>2. QueryInv /\ [QueryNext]_queryVars => QueryInv'
    BY NextInv
<1>3. QueryInv => ParseExact
    BY InvParseExact
<1> QED
    BY <1>1, <1>2, <1>3, PTL DEF QuerySpec

\* message_callback_func answers with one row for each key that the operations
\* select, in the order of the keys and with their own values, for every tree
\* whose result has no bit behind the keys.
THEOREM QueryExactAlways == QuerySpec => []QueryExact
<1>1. QueryInit => QueryInv
    BY InitInv
<1>2. QueryInv /\ [QueryNext]_queryVars => QueryInv'
    BY NextInv
<1>3. QueryInv => QueryExact
    BY InvQueryExact
<1> QED
    BY <1>1, <1>2, <1>3, PTL DEF QuerySpec

\* Such a query, with names that are known, never kills the callback process
\* and writes nothing behind the buffers of db_run_query.
THEOREM QuerySafeAlways == QuerySpec => []QuerySafe
<1>1. QueryInit => QueryInv
    BY InitInv
<1>2. QueryInv /\ [QueryNext]_queryVars => QueryInv'
    BY NextInv
<1>3. QueryInv => QuerySafe
    BY DEF QueryInv
<1> QED
    BY <1>1, <1>2, <1>3, PTL DEF QuerySpec

=============================================================================
