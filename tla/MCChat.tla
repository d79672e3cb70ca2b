------------------------------- MODULE MCChat -------------------------------
(* Small instances of Chat for TLC. *)
EXTENDS Chat, TLC

CONSTANTS p1, p2

\* What is sent together: each set is one line of the hazards of the README.
SmallScenes ==
    { {"stream", "chat", "rename"}, {"stream", "rename", "refine_title"},
      {"stream", "upload", "delete_session"}, {"refine_title", "delete_session"},
      {"upload", "delete_document", "delete_session"},
      {"upload", "move_document", "delete_collection"},
      {"create_collection", "rename_collection", "delete_collection", "upload"},
      {"create_folder", "rename_folder", "delete_folder", "organize"} }

Symmetry == Permutations(Slot)

=============================================================================
