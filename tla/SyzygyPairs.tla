----------------------------- MODULE SyzygyPairs -----------------------------
(***************************************************************************)
(* The values of a Syzygy table (setup_pairs and decompress_pairs of       *)
(* syzygy/syzygy.cc).  A table is a sequence of symbols in a prefix code,  *)
(* cut into blocks; a symbol stands for a pair of symbols, down to single  *)
(* values; a sparse index leads to the block of a value.                   *)
(*                                                                         *)
(* A source word of 64 bits is one of WordBits bits here, refilled by      *)
(* half a word as the source does by 32 bits.                              *)
(***************************************************************************)
EXTENDS Integers, Sequences, FiniteSets, SequencesExt, FiniteSetsExt

CONSTANT WordBits

Word == 2 ^ WordBits
HalfBits == WordBits \div 2

(***************************************************************************)
(* A file: symPat (the value of a symbol or its pair), minLen and maxLen   *)
(* of the code, offset (the first symbol with a code of each length: the   *)
(* longest codes have the lowest symbols), blocks of bits, sizeTable,      *)
(* idxBits and indexTable; or a constant.                                  *)
(***************************************************************************)
Symbols(d) == DOMAIN d.symPat
IsValue(d, s) == Len(d.symPat[s]) = 1

(* calc_symLen: one less than the values a symbol stands for, in 8 bits. *)
symLen(d) ==
  LET f[s \in Symbols(d)] ==
        IF IsValue(d, s) THEN 0
        ELSE (f[d.symPat[s][1]] + f[d.symPat[s][2]] + 1) % 256
  IN f

(* The smallest code of each length, moved to the top of a word.  A code   *)
(* below it is a longer one.                                               *)
base(d) ==
  LET f[l \in d.minLen..d.maxLen] ==
        IF l = d.maxLen THEN 0 ELSE (f[l + 1] + d.offset[l] - d.offset[l + 1]) \div 2
  IN [l \in d.minLen..d.maxLen |-> f[l] * 2 ^ (WordBits - l)]

(* Bits from..from + n - 1 of a block as a number; a block ends in zeros. *)
Bits(block, from, n) ==
  FoldLeft(LAMBDA v, i : 2 * v + (IF i < Len(block) THEN block[i + 1] ELSE 0),
           0, [k \in 1..n |-> from + k - 1])

-----------------------------------------------------------------------------
(* decompress_pairs, first part: from the index to a block and a place in  *)
(* it, walking from the block the sparse index names.                      *)
(* Mutant: the walk counts one value too few for every block it leaves. *)
BlockValuesOffByOne(d, b) == d.sizeTable[b]
BlockValues(d, b) == d.sizeTable[b] + 1

Locate(d, idx) ==
  LET span == 2 ^ d.idxBits
      entry == d.indexTable[idx \div span]
      lit == (idx % span) - (span \div 2) + entry.offset
      Back[b \in 0..entry.block] ==       \* values of blocks b..entry.block - 1
        IF b = entry.block THEN 0 ELSE BlockValues(d, b) + Back[b + 1]
      Forth[b \in DOMAIN d.sizeTable] ==  \* values of blocks entry.block..b - 1
        IF b <= entry.block THEN 0 ELSE Forth[b - 1] + BlockValues(d, b - 1)
      back == Max({b \in 0..entry.block : lit + Back[b] >= 0})
      forth == Min({b \in DOMAIN d.sizeTable :
                      b >= entry.block /\ lit - Forth[b] <= d.sizeTable[b]})
  IN IF lit < 0 THEN [block |-> back, lit |-> lit + Back[back]]
     ELSE [block |-> forth, lit |-> lit - Forth[forth]]

(* Second part: symbols are read until the one with the value.  A reader   *)
(* keeps a word of code and how many of its low bits are empty.            *)
NextSymbol(d, code) ==
  LET l == Min({x \in d.minLen..d.maxLen : code >= base(d)[x]})
  IN [len |-> l, sym |-> d.offset[l] + (code - base(d)[l]) \div 2 ^ (WordBits - l)]

Refill(empty) == empty >= HalfBits

Reader(d, block, k) ==   \* when k symbols have been passed
  LET R[n \in 0..k] ==
        IF n = 0 THEN [code |-> Bits(block, 0, WordBits), empty |-> 0, next |-> WordBits, passed |-> 0]
        ELSE LET r == R[n - 1]
                 nx == NextSymbol(d, r.code)
                 code == (r.code * 2 ^ nx.len) % Word
                 empty == r.empty + nx.len
                 passed == r.passed + symLen(d)[nx.sym] + 1
             IN IF Refill(empty)
                THEN [code |-> code + Bits(block, r.next, HalfBits) * 2 ^ (empty - HalfBits),
                      empty |-> empty - HalfBits, next |-> r.next + HalfBits, passed |-> passed]
                ELSE [code |-> code, empty |-> empty, next |-> r.next, passed |-> passed]
  IN R[k]

SymbolAt(d, block, lit) ==
  LET k == CHOOSE n \in 0..lit :
             LET r == Reader(d, block, n)
             IN r.passed <= lit /\ lit < r.passed + symLen(d)[NextSymbol(d, r.code).sym] + 1
      r == Reader(d, block, k)
  IN [sym |-> NextSymbol(d, r.code).sym, lit |-> lit - r.passed]

(* Third part: down the pairs to the value. *)
Expanded(d, sym, lit) ==
  LET E[sl \in Symbols(d) \X (0..255)] ==
        IF symLen(d)[sl[1]] = 0 THEN d.symPat[sl[1]][1]
        ELSE LET left == d.symPat[sl[1]][1]
                 n == symLen(d)[left] + 1
             IN IF sl[2] < n THEN E[<<left, sl[2]>>]
                ELSE E[<<d.symPat[sl[1]][2], sl[2] - n>>]
  IN E[<<sym, lit>>]

decompress_pairs(d, idx) ==
  IF d.idxBits = 0 THEN d.constValue
  ELSE LET place == Locate(d, idx)
           at == SymbolAt(d, d.blocks[place.block], place.lit)
       IN Expanded(d, at.sym, at.lit)

-----------------------------------------------------------------------------
(***************************************************************************)
(* What a file means: the values of its symbols, one after the other.      *)
(* Written builds the file that stands for blocks of symbols.              *)
(***************************************************************************)
Meaning(pat) ==
  LET M[s \in DOMAIN pat] == IF Len(pat[s]) = 1 THEN pat[s] ELSE M[pat[s][1]] \o M[pat[s][2]]
  IN M
BlockMeaning(pat, syms) == FlattenSeq([i \in DOMAIN syms |-> Meaning(pat)[syms[i]]])
TableMeaning(pat, blocks) == FlattenSeq([i \in DOMAIN blocks |-> BlockMeaning(pat, blocks[i])])

(* lens[s]: the length of the code of a symbol; longer codes come first. *)
CodeOf(lens, s) ==
  LET longest == Max({lens[x] : x \in DOMAIN lens})
      value == FoldSet(LAMBDA x, v : v + 2 ^ (longest - lens[x]), 0, {x \in DOMAIN lens : x < s})
      first == value \div 2 ^ (longest - lens[s])
  IN [i \in 1..lens[s] |-> (first \div 2 ^ (lens[s] - i)) % 2]

Written(pat, lens, blocks, idxBits) ==
  LET minLen == Min({lens[s] : s \in DOMAIN lens})
      maxLen == Max({lens[s] : s \in DOMAIN lens})
      count == [b \in DOMAIN blocks |-> Len(BlockMeaning(pat, blocks[b]))]
      Start(b) == FoldLeft(+, 0, SubSeq(count, 1, b - 1))
      size == Start(Len(blocks) + 1)
      span == 2 ^ idxBits
      BlockAt(i) == Max({b \in DOMAIN blocks : Start(b) <= i})
      Middle(e) == e * span + span \div 2
  IN [symPat |-> pat, minLen |-> minLen, maxLen |-> maxLen, idxBits |-> idxBits,
      offset |-> [l \in minLen..maxLen |-> Cardinality({s \in DOMAIN lens : lens[s] > l})],
      blocks |-> [b \in 0..Len(blocks) - 1 |->
                    FlattenSeq([i \in DOMAIN blocks[b + 1] |-> CodeOf(lens, blocks[b + 1][i])])],
      sizeTable |-> [b \in 0..Len(blocks) - 1 |-> count[b + 1] - 1],
      indexTable |-> [e \in 0..(size + span - 1) \div span - 1 |->
                        [block |-> BlockAt(Middle(e)) - 1, offset |-> Middle(e) - Start(BlockAt(Middle(e)))]]]
=============================================================================
