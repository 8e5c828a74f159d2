----------------------------- MODULE MCFdTable -----------------------------
(* FdTable on three usable descriptors, one exclusive file, one shared file. *)
EXTENDS FdTable
CONSTANTS excl, shared
MCPaths == {excl, shared}
MCShared == {shared}
=============================================================================
