-------------------------- MODULE MCGenericConduit --------------------------
(* Instances of GenericConduit for TLC.                                    *)
EXTENDS GenericConduit

(* A polite application sets PDB_REC_DELETED together with the other bit.  *)
PoliteArchive == {{DELETED, ARCHIVE}}
(* include/pdb.h: PDB_REC_DELETED is set "perhaps" on an expunged record.  *)
AnyExpunge    == {{DELETED, EXPUNGED}, {EXPUNGED}}

WrittenDirty  == {{DIRTY}}
WrittenAny    == {{}, {DIRTY}}
=============================================================================
