----------------------------- MODULE NullValue -----------------------------
(* null and undefined, in the modules that are composed with one another.  *)
CONSTANT None
=============================================================================
