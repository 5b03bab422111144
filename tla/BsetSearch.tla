----------------------------- MODULE BsetSearch -----------------------------
(***************************************************************************)
(* Searching one sorted set of keys: the lookup table of the set that is   *)
(* being inserted into, the eytzinger tree of floating point keys of sets  *)
(* that have been written (bset.c, bset.h, eytzinger.h), and the packed    *)
(* keys both compare (bkey.c).                                             *)
(*                                                                         *)
(* A position is inode * FieldSize + offset.  A key is packed if the       *)
(* node's format can represent it and takes one u64 less than otherwise.   *)
(***************************************************************************)
EXTENDS Integers, Sequences, SequencesExt

CONSTANTS
    FieldBits,    \* 64 in the code
    KeyInodes,    \* inode numbers of the keys
    Boxes,        \* <<inode min, inode max, offset min, offset max>> of formats
    WordBits,     \* 64
    ByteBits,     \* 8
    Cacheline,    \* BSET_CACHELINE in u64s
    L1Bytes,      \* L1_CACHE_BYTES in u64s
    RwCapacity,   \* bset_rw_tree_capacity()
    RoCapacity,   \* bset_ro_tree_capacity()
    BfloatWide,   \* BFLOAT_32BIT_NR
    BitsWide,     \* mantissa bits of the nodes below BfloatWide
    BitsNarrow,   \* and of the others
    MaxKeys,      \* keys of the set
    MaxDead,      \* deleted ones among them
    MaxValU64s    \* u64s of a value

VARIABLES
    fmt,    \* b->format
    bkeys,  \* the keys of the set, in order
    aux     \* its auxiliary search tree

bsVars == <<fmt, bkeys, aux>>

FieldSize == 2^FieldBits
Positions == {i * FieldSize + o : i \in KeyInodes, o \in 0 .. FieldSize - 1}
Inode(p) == p \div FieldSize
Offset(p) == p % FieldSize

----------------------------------------------------------------------------
\* Packed keys

RECURSIVE fls(_)
fls(n) == IF n = 0 THEN 0 ELSE 1 + fls(n \div 2)        \* also __fls() + 1
RECURSIVE ffs(_)
ffs(n) == IF n = 0 \/ n % 2 = 1 THEN 0 ELSE 1 + ffs(n \div 2)  \* __ffs(), 0 for 0
ffz(n) == IF n % 2 = 0 THEN 0 ELSE ffs(n + 1)
RoundUp(n, m) == ((n + m - 1) \div m) * m
MinOf(a, b) == IF a < b THEN a ELSE b

set_format_field(bits, min) ==
    [bits |-> bits, offset |-> IF bits >= FieldBits THEN 0 ELSE MinOf(min, FieldSize - 2^bits)]

\* bch_bkey_format_done(): the smallest fields, rounded up while bits are spare
bch_bkey_format_done(box) ==
    LET inode == set_format_field(fls(box[2] - box[1]), box[1])
        offset == set_format_field(fls(box[4] - box[3]), box[3])
        bits == inode.bits + offset.bits
        spare == RoundUp(bits, WordBits) - bits
        r1 == RoundUp(inode.bits, ByteBits) - inode.bits
        s1 == IF r1 <= spare THEN r1 ELSE 0
        r2 == RoundUp(offset.bits, ByteBits) - offset.bits
        s2 == IF r2 <= spare - s1 THEN r2 ELSE 0
    IN  [inode |-> set_format_field(inode.bits + s1, inode.offset),
         offset |-> set_format_field(offset.bits + s2, offset.offset)]

nr_key_bits == fmt.inode.bits + fmt.offset.bits

Fits(f, v) == v >= f.offset /\ fls(v - f.offset) <= f.bits         \* set_inc_field()
Packs(p) == Fits(fmt.inode, Inode(p)) /\ Fits(fmt.offset, Offset(p))
Word(i, o) == (i - fmt.inode.offset) * 2^fmt.offset.bits + o - fmt.offset.offset
Packed(p) == Word(Inode(p), Offset(p))
U64s(k) == (IF Packs(k.p) THEN 1 ELSE 2) + k.val

\* bkey_pack_pos_lossy(): the greatest packed position that is no greater
Lossy(f, v) == f.offset + MinOf(v - f.offset, 2^f.bits - 1)        \* set_inc_field_lossy()


bkey_pack_pos_lossy(p) ==
    LET low == Offset(p) < fmt.offset.offset
        i == Inode(p) - (IF low THEN 1 ELSE 0)
        o == IF low \/ Lossy(fmt.inode, i) # i THEN FieldSize - 1 ELSE Offset(p)
    IN  IF i < fmt.inode.offset THEN [ret |-> "fail", word |-> 0]
        ELSE [ret |-> IF Packs(p) THEN "exact" ELSE "smaller",
              word |-> Word(Lossy(fmt.inode, i), Lossy(fmt.offset, o))]

----------------------------------------------------------------------------
\* Keys of the set.  An index is a pointer; Len(bkeys) + 1 is btree_bkey_last().

End == Len(bkeys) + 1
RECURSIVE OffsetOf(_, _)
OffsetOf(ks, i) == IF i = 1 THEN 0 ELSE OffsetOf(ks, i - 1) + U64s(ks[i - 1])

\* btree_iter_pos_cmp(): a key is after the position searched for
After(k, cmp, strict) == cmp > 0 \/ (cmp = 0 /\ ~strict /\ ~k.dead)

\* For equal positions deleted keys come first, and at most one is live
Ordered(ks) == \A i \in 1 .. Len(ks) - 1 :
    ks[i].p < ks[i + 1].p \/ (ks[i].p = ks[i + 1].p /\ ks[i].dead)
Legal(ks) == Ordered(ks) /\ Len(SelectSeq(ks, LAMBDA k : k.dead)) <= MaxDead

----------------------------------------------------------------------------
\* Eytzinger layout

eytzinger_extra(size) == 2 * (size - 2^(fls(size - 1) - 1))

to_inorder(j, size) ==
    LET extra == eytzinger_extra(size)
        b == fls(j) - 1
        n == (2 * (j - 2^b) + 1) * 2^(fls(size - 1) - 1 - b)
    IN  IF n > extra THEN n - ((n - extra + 1) \div 2) ELSE n

to_eytzinger(n, size) ==
    LET extra == eytzinger_extra(size)
        m == IF n > extra THEN n + (n - extra) ELSE n
        shift == ffs(m)
    IN  m \div 2^(shift + 1) + 2^(fls(size - 1) - 1 - shift)

eytzinger_prev(j, size) ==
    IF 2 * j < size
    THEN LET k == 2 * j * 2^(fls(size) - fls(2 * j)) - 1
         IN  IF k >= size THEN k \div 2 ELSE k
    ELSE j \div 2^(ffs(j) + 1)

----------------------------------------------------------------------------
\* The tree of a written set: node j has the key it stands for and its float

Bits(j) == IF j < BfloatWide THEN BitsWide ELSE BitsNarrow

\* bkey_mantissa(): the bits of the key from exponent up; below the key there
\* are bits of other fields
Mantissa(word, exponent, j, garbage) ==
    IF exponent >= 0 THEN (word \div 2^exponent) % 2^Bits(j)
    ELSE (word * 2^(-exponent) + garbage * (2^(-exponent) - 1)) % 2^Bits(j)

IsPowerOf2(n) == n = 2^(fls(n) - 1)
Failed(f) == f.exponent = 99

RECURSIVE GreatestBit(_, _, _)
GreatestBit(v, w, b) == IF b = 0 \/ v \div 2^b # w \div 2^b THEN b ELSE GreatestBit(v, w, b - 1)
bkey_greatest_differing_bit(l, r) == GreatestBit(Packed(l), Packed(r), nr_key_bits)
bkey_ffs(p) == ffs(Packed(p))

make_bfloat(ks, at, j, max_key) ==
    LET m == ks[at[j]].p
        p == ks[at[j] - 1].p
        l == IF IsPowerOf2(j) THEN 0 ELSE ks[at[j \div 2^(ffs(j) + 1)] - 1].p
        r == IF IsPowerOf2(j + 1) THEN max_key ELSE ks[at[j \div 2^(ffz(j) + 1)]].p
        exponent == bkey_greatest_differing_bit(l, r) - (Bits(j) - 1)
        mant == Mantissa(Packed(m), exponent, j, 1)
        more == exponent > bkey_ffs(m)
    IN  IF ~(Packs(l) /\ Packs(r) /\ Packs(p) /\ Packs(m))
           \/ (exponent > 0 /\ mant = Mantissa(Packed(p), exponent, j, 0) /\ p # m)
           \/ (more /\ mant = 2^Bits(j) - 1)
        THEN [exponent |-> 99, mantissa |-> 0]
        ELSE [exponent |-> exponent, mantissa |-> mant + IF more THEN 1 ELSE 0]

CachelineOf(ks, i) == OffsetOf(ks, i) \div Cacheline
FirstIn(ks, c) == {i \in 2 .. Len(ks) : CachelineOf(ks, i) >= c}

__build_ro_aux_tree(ks) ==
    LET full == MinOf(CachelineOf(ks, Len(ks) + 1), RoCapacity)
        size == CHOOSE n \in 0 .. full :
                  /\ n > 1 => FirstIn(ks, n - 1) # {}
                  /\ \A m \in n + 1 .. full : FirstIn(ks, m - 1) = {}
        at == [j \in 1 .. size - 1 |-> LET s == FirstIn(ks, to_inorder(j, size))
                                       IN CHOOSE i \in s : \A x \in s : i <= x]
        max == ks[Len(ks)].p
    IN  IF full < 2 \/ size < 2 THEN [type |-> "none"]
        ELSE [type |-> "ro", size |-> size, at |-> at, max_key |-> max,
              f |-> [j \in 1 .. size - 1 |-> make_bfloat(ks, at, j, max)]]

RECURSIVE Spine(_, _, _)
Spine(j, child, size) == IF j >= size THEN {} ELSE {j} \cup Spine(2 * j + child, child, size)

\* ro_aux_tree_fix_invalidated_key()
Refloat(ks, i, t) ==
    LET c == CachelineOf(ks, i)
        max == IF i = Len(ks) THEN ks[i].p ELSE t.max_key
        mine == IF c > 0 /\ c < t.size THEN to_eytzinger(c, t.size) ELSE 0
        next == IF c + 1 < t.size THEN to_eytzinger(c + 1, t.size) ELSE 0
        remake == (IF i = Len(ks) THEN Spine(1, 1, t.size) ELSE {})
                  \cup (IF mine # 0 /\ t.at[mine] = i
                        THEN {mine} \cup Spine(2 * mine, 1, t.size) ELSE {})
                  \cup (IF next # 0 /\ t.at[next] - 1 = i
                        THEN {next} \cup Spine(2 * next + 1, 0, t.size) ELSE {})
    IN  [t EXCEPT !.max_key = max,
                  !.f = [j \in 1 .. t.size - 1 |-> IF j \in remake THEN make_bfloat(ks, t.at, j, max)
                                                   ELSE t.f[j]]]

\* bset_search_tree()
RECURSIVE Descend(_, _, _, _)
Descend(n, search, lossy, garbage) ==
    IF n >= aux.size THEN n
    ELSE LET f == aux.f[n]
             k == bkeys[aux.at[n]].p
             right == IF lossy.ret # "fail" /\ ~Failed(f)
                      THEN f.mantissa < Mantissa(lossy.word, f.exponent, n, garbage)
                      ELSE IF lossy.ret # "fail" /\ Packs(k) THEN Packed(k) < lossy.word
                      ELSE k < search
         IN  Descend(2 * n + IF right THEN 1 ELSE 0, search, lossy, garbage)

bset_search_tree(search, lossy, garbage) ==
    LET n == Descend(1, search, lossy, garbage)
        node == n \div 2
    IN  IF n % 2 = 1 THEN aux.at[node]
        ELSE IF to_inorder(node, aux.size) = 1 THEN 1
        ELSE aux.at[eytzinger_prev(node, aux.size)]

----------------------------------------------------------------------------
\* The table of the set that is inserted into: offsets, and positions of all but
\* the first

RwEntry(ks, i) == [offset |-> OffsetOf(ks, i), k |-> ks[i].p]
KeyAt(ks, offset) == CHOOSE i \in 1 .. Len(ks) : OffsetOf(ks, i) = offset

__build_rw_aux_tree(ks) ==
    [type |-> "rw",
     tab |-> FoldLeft(LAMBDA t, i : IF Len(t) < RwCapacity
                                       /\ OffsetOf(ks, i) - t[Len(t)].offset > L1Bytes
                                    THEN Append(t, RwEntry(ks, i)) ELSE t,
                      <<[offset |-> 0, k |-> 0]>>, [i \in 1 .. Len(ks) |-> i])]

\* rw_aux_tree_bsearch(), entries counted from 1
FirstAtLeast(t, offset) == 1 + Len(SelectSeq(t, LAMBDA e : e.offset < offset))

\* bch_bset_fix_lookup_table(): the key at index w replaced clobber u64s by new;
\* ks are the keys as they are now
bch_bset_fix_lookup_table(t, ks, w, clobber, new) ==
    LET where == OffsetOf(ks, w)
        end == OffsetOf(ks, Len(ks) + 1)
        shift == new - clobber
        l0 == FirstAtLeast(t, where)
        same == l0 > 1 /\ l0 <= Len(t) /\ where < end /\ t[l0].offset = where
        t1 == IF same THEN [t EXCEPT ![l0] = RwEntry(ks, w)] ELSE t
        l == IF l0 = 1 \/ same THEN l0 + 1 ELSE l0
        j0 == l + Len(SelectSeq(SubSeq(t1, l, Len(t1)), LAMBDA e : e.offset < where + clobber))
        j == IF j0 <= Len(t1) /\ t1[j0].offset + shift = t1[l - 1].offset THEN j0 + 1 ELSE j0
        t2 == SubSeq(t1, 1, l - 1)
              \o [i \in 1 .. Len(t1) - j + 1 |->
                    [t1[j + i - 1] EXCEPT !.offset = @ + shift]]
        start == KeyAt(ks, t2[l - 1].offset)
        stop == IF l <= Len(t2) THEN t2[l].offset ELSE end
        far == {i \in start + 1 .. Len(ks) : /\ OffsetOf(ks, i) < stop
                                             /\ OffsetOf(ks, i) - t2[l - 1].offset >= L1Bytes}
    IN  IF Len(t2) < RwCapacity /\ stop - t2[l - 1].offset > L1Bytes /\ far # {}
        THEN InsertAt(t2, l, RwEntry(ks, CHOOSE i \in far : \A x \in far : i <= x))
        ELSE t2

bset_search_write_set(search) ==
    KeyAt(bkeys, aux.tab[1 + Len(SelectSeq(Tail(aux.tab), LAMBDA e : e.k < search))].offset)

bkey_cmp_p_or_unp(k, lossy, search) ==
    IF lossy.ret # "fail" /\ Packs(k.p) THEN Packed(k.p) - lossy.word ELSE k.p - search

\* bch_bset_search(): a cacheline, and then a linear search
bch_bset_search(search, strict, garbage) ==
    LET lossy == bkey_pack_pos_lossy(search)
        m == CASE aux.type = "none" -> 1
               [] aux.type = "rw" -> bset_search_write_set(search)
               [] aux.type = "ro" -> bset_search_tree(search, lossy, garbage)
        Cmp(i) == bkey_cmp_p_or_unp(bkeys[i], lossy, search)
        From(n, C(_)) == LET s == {i \in n .. Len(bkeys) : After(bkeys[i], C(i), strict)}
                         IN IF s = {} THEN End ELSE CHOOSE i \in s : \A x \in s : i <= x
        m1 == IF lossy.ret = "fail" THEN m ELSE From(m, Cmp)
    IN  IF aux.type = "ro" /\ search > aux.max_key THEN End
        ELSE IF lossy.ret = "exact" THEN m1
        ELSE From(m1, LAMBDA i : bkeys[i].p - search)

\* __bkey_prev(): some key before this one
__bkey_prev(i) ==
    CASE aux.type = "none" -> 1
      [] aux.type = "rw" ->
           LET j == FirstAtLeast(aux.tab, OffsetOf(bkeys, i)) - 1
           IN  IF j = 0 THEN 1 ELSE KeyAt(bkeys, aux.tab[j].offset)
      [] aux.type = "ro" ->
           LET c == MinOf(aux.size - 1, CachelineOf(bkeys, i))
               s == {n \in 1 .. c : aux.at[to_eytzinger(n, aux.size)] < i}
           IN  IF s = {} THEN 1
               ELSE aux.at[to_eytzinger(CHOOSE n \in s : \A x \in s : n >= x, aux.size)]

----------------------------------------------------------------------------
BsInit ==
    /\ fmt \in {bch_bkey_format_done(box) : box \in Boxes}
    /\ bkeys = <<>>
    /\ aux = [type |-> "rw", tab |-> <<[offset |-> 0, k |-> 0]>>]

BKey == [p : Positions, val : 0 .. MaxValU64s, dead : BOOLEAN]

\* bch_bset_insert() in place of n keys at w, of the same position
bch_bset_insert(w, n, k) ==
    /\ aux.type = "rw" /\ Len(bkeys) - n < MaxKeys
    /\ n = 1 => bkeys[w].p = k.p
    /\ bkeys' = SubSeq(bkeys, 1, w - 1) \o <<k>> \o SubSeq(bkeys, w + n, Len(bkeys))
    /\ Legal(bkeys')
    /\ aux' = [aux EXCEPT !.tab =
                 bch_bset_fix_lookup_table(@, bkeys', w,
                   OffsetOf(bkeys, w + n) - OffsetOf(bkeys, w), U64s(k))]
    /\ UNCHANGED fmt

bch_bset_delete(w) ==
    /\ aux.type = "rw" /\ w <= Len(bkeys) /\ Len(bkeys) > 1
    /\ bkeys' = RemoveAt(bkeys, w)
    /\ aux' = [aux EXCEPT !.tab = bch_bset_fix_lookup_table(@, bkeys', w, U64s(bkeys[w]), 0)]
    /\ UNCHANGED fmt

\* bch_bset_build_aux_tree(): of the set that was written, or anew
bch_bset_build_aux_tree(writeable) ==
    /\ bkeys # <<>> /\ (aux.type # "rw" \/ ~writeable) /\ aux.type # "ro"
    /\ aux' = IF writeable THEN __build_rw_aux_tree(bkeys) ELSE __build_ro_aux_tree(bkeys)
    /\ UNCHANGED <<fmt, bkeys>>

\* bch_bset_fix_invalidated_key(): a key whose end was moved in place
bch_bset_fix_invalidated_key(i, p) ==
    /\ bkeys' = [bkeys EXCEPT ![i].p = p]
    /\ Packs(p) = Packs(bkeys[i].p) /\ p # bkeys[i].p /\ Legal(bkeys')
    /\ aux' = CASE aux.type = "none" -> aux
                [] aux.type = "ro" -> Refloat(bkeys', i, aux)
                [] aux.type = "rw" ->
                     [aux EXCEPT !.tab = [n \in 1 .. Len(@) |->
                        IF @[n].offset = OffsetOf(bkeys, i) THEN RwEntry(bkeys', i) ELSE @[n]]]
    /\ UNCHANGED fmt

BsNext ==
    \/ \E w \in 1 .. End, n \in {0, 1}, k \in BKey : w + n <= End /\ bch_bset_insert(w, n, k)
    \/ \E w \in 1 .. Len(bkeys) : bch_bset_delete(w)
    \/ \E writeable \in BOOLEAN : bch_bset_build_aux_tree(writeable)
    \/ \E i \in 1 .. Len(bkeys), p \in Positions : bch_bset_fix_invalidated_key(i, p)

----------------------------------------------------------------------------
BsTypeOK == bkeys \in Seq(BKey) /\ Len(bkeys) <= MaxKeys /\ aux.type \in {"none", "rw", "ro"}

\* A search finds the first key after the position, whatever the tables, floats
\* that cannot tell two keys apart, positions that do not pack and keys that
\* were changed in place make of it.
SearchRight ==
    bkeys # <<>> => \A s \in Positions, strict \in BOOLEAN, garbage \in {0, 1} :
        LET m == bch_bset_search(s, strict, garbage)
        IN  /\ m # End => After(bkeys[m], bkeys[m].p - s, strict)
            /\ \A i \in 1 .. m - 1 : ~After(bkeys[i], bkeys[i].p - s, strict)

\* bch_bset_verify_rw_aux_tree(): the table names keys, in order, with their
\* positions; and there is always a key before another to walk from.
TableRight ==
    bkeys # <<>> =>
        /\ aux.type = "rw" =>
             /\ aux.tab[1].offset = 0
             /\ \A n \in 2 .. Len(aux.tab) :
                  /\ aux.tab[n].offset > aux.tab[n - 1].offset
                  /\ \E i \in 1 .. Len(bkeys) : aux.tab[n] = RwEntry(bkeys, i)
        /\ \A i \in 2 .. End : __bkey_prev(i) < i

\* Both of the above, for one bset (bset.c).
BsetSafe == SearchRight /\ TableRight
=============================================================================
