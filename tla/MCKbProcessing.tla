---------------------------- MODULE MCKbProcessing ----------------------------
(* Instances of KbProcessing for TLC: one document, and requests about it. *)
EXTENDS KbProcessing, TLC

CONSTANTS create, edit, rename, remove, cancel,   \* requests
          kbdoc                                            \* the document

MCOp == [c \in Clients |-> CASE c = create -> "create"
                             [] c = edit -> "edit"
                             [] c = rename -> "rename"
                             [] c = remove -> "remove"
                             [] OTHER -> "cancel"]

MCDocOf == [c \in Clients |-> kbdoc]
Symmetry == Permutations(Texts)

MCJobs == {c \in Clients : MCOp[c] \in {"create", "edit"}}
===============================================================================
