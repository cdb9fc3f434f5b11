-------------------------- MODULE MCSnapshotStore ---------------------------
(* Small instances of SnapshotStore for TLC. *)
EXTENDS SnapshotStore
CONSTANTS p1, p2, r1, meta, detail
MCPublishers == {p1, p2}
MCReaders == {r1}
MCParts == {meta, detail}
=============================================================================
