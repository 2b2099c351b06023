-------------------------------- MODULE Syzygy --------------------------------
(***************************************************************************)
(* The Syzygy tablebases (syzygy/syzygy.cc), one part at a time: indexing  *)
(* and decompression of a table are functions, examined for the inputs in  *)
(* Layouts and Contents; the tables in memory and what a probe concludes   *)
(* are state machines of their own.                                        *)
(***************************************************************************)
EXTENDS SyzygyIndex, SyzygyPairs, SyzygyProbe, SyzygyTables

CONSTANTS
  Layouts,   \* of a table: [material, enc, headers, squares]
  Contents   \* of a table: [blocks, idxBits], blocks being symbols of
             \* pattern Pattern with codes of CodeLengths
CONSTANTS Pattern, CodeLengths

VARIABLES
  part,    \* what is examined
  sample   \* the layout or the contents

vars == <<part, sample, probeVars, tablesVars>>

NoProbes == /\ game = <<>> /\ truth = <<>> /\ start = <<>> /\ at = <<>>
            /\ cnt50 = 0 /\ seen = {} /\ result = Running

Init ==
  \/ /\ part = "index" /\ sample \in Layouts /\ NoProbes /\ TablesInit
  \/ /\ part = "pairs" /\ sample \in Contents /\ NoProbes /\ TablesInit
  \/ /\ part = "probe" /\ sample = {} /\ ProbeInit /\ TablesInit
  \/ /\ part = "tables" /\ sample = {} /\ NoProbes /\ TablesInit

Next ==
  \/ part = "probe" /\ ProbeNext /\ UNCHANGED <<part, sample, tablesVars>>
  \/ part = "tables" /\ TablesNext /\ UNCHANGED <<part, sample, probeVars>>

Spec == Init /\ [][Next]_vars

-----------------------------------------------------------------------------
(* An index lies in its table, positions that share one are alike (up to   *)
(* the symmetries of the board and of the colours), and the position with  *)
(* the colours exchanged has the same one.                                 *)
IndicesTellApart ==
  part = "index" =>
    LET be == Entry(sample.material)
        Index(pos) == IndexOf(pos, be, sample.enc, sample.headers)
        all == Placements(sample.material, sample.squares)
        found == {<<Index(pos), Alike(pos, be.hasPawns)>> : pos \in all}
    IN /\ \A f \in found : f[1].index \in 0..f[1].size - 1
       /\ Cardinality(found) = Cardinality({f[1] : f \in found})
       /\ \A pos \in all : Index(pos) = Index(OtherColours(pos))

(* Whatever the blocks and the sparse index, every index leads to the      *)
(* value that was written at that place; and positions that differ in more *)
(* than a symmetry have indices of their own.                              *)
ValuesAreReadBack ==
  /\ IndicesTellApart
  /\ part = "pairs" =>
       LET meaning == TableMeaning(Pattern, sample.blocks)
           file == Written(Pattern, CodeLengths, sample.blocks, sample.idxBits)
       IN \A i \in DOMAIN meaning : decompress_pairs(file, i - 1) = meaning[i]

(* A probe that does not fail tells the truth (syzygy.cc:1479, 1516), and  *)
(* playing what root_probe calls safe keeps the result of the root.        *)
PlayKeepsTheResult ==
  part = "probe" => ProbesTellTheTruth /\ SafeMovesKeepTheResult
=============================================================================
