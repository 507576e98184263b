---------------------------- MODULE MCScheduling ----------------------------
(* Instances of Scheduling for TLC. *)
EXTENDS Scheduling, TLC

CONSTANTS f1,      \* event file
          u1,      \* UID
          ann, bob, \* attendees
          v1, v2   \* versions of the significant fields

OneUidPerFile == [f \in Files |-> u1]

\* Versions of one meeting: who is invited, what it says, the client's SEQUENCE.
SomeEvents ==
  {[att |-> {ann}, content |-> v1, seq |-> 0],
   [att |-> {ann, bob}, content |-> v1, seq |-> 0],
   [att |-> {ann, bob}, content |-> v2, seq |-> 0],
   [att |-> {bob}, content |-> v2, seq |-> 3]}

=============================================================================
