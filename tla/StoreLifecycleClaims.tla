------------------------ MODULE StoreLifecycleClaims ------------------------
(***************************************************************************)
(* What comments of the repository say of the store of an account and the  *)
(* code does not keep: the property of a run that finds it violated.       *)
(***************************************************************************)
EXTENDS StoreLifecycle

\* "Nacen con la base y se cierran con ella" (the readers): with the key ring
\* open for good, a store that is open can be read.
OpenIsReadable == <>[](open /\ lock = "open") => []<>readers
=============================================================================
