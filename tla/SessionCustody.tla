--------------------------- MODULE SessionCustody ---------------------------
(***************************************************************************)
(* What single-writer custody of a session promises, with no lease, no     *)
(* heartbeat and no clock: the durable session is written in epochs, every *)
(* write is the work of the one writer its epoch was granted to, and an    *)
(* erased session stays empty.  SessionLease implements it.                *)
(*                                                                         *)
(*   epoch    how many grants there have been                              *)
(*   writer   the writer of this epoch, NoHolder once it has left          *)
(*   content  the durable writes, each named by its author                 *)
(*   erased   the session was erased                                       *)
(***************************************************************************)
EXTENDS Naturals, Sequences

CONSTANTS Holders, NoHolder

VARIABLES epoch, writer, content, erased

vars == <<epoch, writer, content, erased>>

Init == /\ epoch = 0
        /\ writer = NoHolder
        /\ content = <<>>
        /\ erased = FALSE

(* A new epoch begins, granted to a writer or to none; the writer before it  *)
(* is a writer no more.                                                      *)
Grant == /\ ~erased
         /\ epoch' = epoch + 1
         /\ writer' \in Holders \cup {NoHolder}
         /\ UNCHANGED <<content, erased>>

(* The writer of this epoch makes one more write durable.                    *)
Commit == /\ writer # NoHolder
          /\ content' = Append(content, writer)
          /\ UNCHANGED <<epoch, writer, erased>>

(* The writer is gone; the epoch stays without one.                          *)
Leave == /\ writer' = NoHolder
         /\ UNCHANGED <<epoch, content, erased>>

(* The session is emptied, in an epoch of its own that nobody writes.        *)
Erase == /\ ~erased
         /\ erased' = TRUE
         /\ epoch' = epoch + 1
         /\ writer' = NoHolder
         /\ content' = <<>>

Next == Grant \/ Commit \/ Leave \/ Erase

Spec == Init /\ [][Next]_vars

=============================================================================
