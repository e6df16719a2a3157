------------------------------- MODULE Written -------------------------------
(***************************************************************************)
(* What is written and read again: nodes, by the server or from it, and    *)
(* the session records of the store.                                       *)
(***************************************************************************)
EXTENDS Codec, StoredRecord

\* What is written, to the server or to the store, is what is read again: nodes of
\* lib/binary-node.js and session records of signal/session_record.js.
WrittenComesBack == NodesComeBack /\ RecordsComeBack
=============================================================================
