------------------------------ MODULE MCPdbFile ------------------------------
(***************************************************************************)
(* Instances of PdbFile.  Word is small, so that files longer than Word,   *)
(* and records as long as a uword can tell, occur; IdSpan is small, so     *)
(* that IDs are cut.                                                       *)
(***************************************************************************)
EXTENDS PdbFile

(* Each mixture of DELETED and ARCHIVE, with categories that use the bit   *)
(* of ARCHIVE; an empty record, and the longest there can be.              *)
MCRecords ==
    {[flags |-> {"dirty", ARCHIVE}, cat |-> 9, id |-> 6, len |-> 1],
     [flags |-> {DELETED, ARCHIVE}, cat |-> 7, id |-> 2, len |-> 0],
     [flags |-> {DELETED, "expunged"}, cat |-> 15, id |-> 3, len |-> 5]}

MCBlocks == {0, 1, 4}
=============================================================================
