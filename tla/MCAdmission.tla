---------------------------- MODULE MCAdmission ----------------------------
(***************************************************************************)
(* Small instances of Admission: requests of one byte and one of two, a    *)
(* queue of two entries and three bytes.                                   *)
(***************************************************************************)
EXTENDS Admission

CONSTANTS r1, r2, r3, u1

\* The big one does not fit a queue that already holds two bytes.
SmallBytes == [r \in Requests |-> IF r = r3 THEN 2 ELSE 1]

=============================================================================
