------------------------------ MODULE Optional ------------------------------
(* Python's None: a field without a value, or a document that is not there. *)
CONSTANT None
=============================================================================
