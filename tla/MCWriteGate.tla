---------------------------- MODULE MCWriteGate -----------------------------
(* Instances of WriteGate for TLC.                                         *)
EXTENDS WriteGate

\* A writer of each sort, replacing and merging imports, and the two reads.
MCGateKinds ==
    {"create_order", "receive_order", "delete_order", "update_kit",
     "merge", "replace_all", "export", "summary"}

\* Replacing imports beside a row writer and an export.
MCReplaceKinds == {"replace_all", "delete_order", "export"}

=============================================================================
