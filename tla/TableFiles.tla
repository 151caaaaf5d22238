----------------------------- MODULE TableFiles -----------------------------
(* write_rows opens the file in place: what stops while it writes leaves it *)
(* torn, and a torn file cannot be read.  A file is a table, None or Torn.  *)

CONSTANTS None, Torn

ASSUME MarksAssumption == None # Torn

Whole(file) == file \notin {None, Torn}
=============================================================================
