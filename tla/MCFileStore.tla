----------------------------- MODULE MCFileStore -----------------------------
(***************************************************************************)
(* FileStore with one owner for each service that treats files in a way of *)
(* its own.                                                                *)
(***************************************************************************)
EXTENDS FileStore

CONSTANTS f1, f2, u, t, k, c1, c2
===============================================================================
