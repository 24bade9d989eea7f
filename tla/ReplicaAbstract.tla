-------------------------- MODULE ReplicaAbstract --------------------------
(***************************************************************************)
(* What replication promises, without packets, queues or tasks: the right  *)
(* half shows an engine state and a context that the central had before,   *)
(* it moves from older to newer ones and, as long as it keeps running,     *)
(* never back. Engine state and context move on their own, for the code    *)
(* hands them to two different tasks.                                      *)
(***************************************************************************)
EXTENDS Naturals

VARIABLES
    authority,   \* what the central has: [revision, context], serial numbers
    replica      \* what the right half shows

vars == <<authority, replica>>

Boot == [revision |-> 0, context |-> 0]   \* the compiled defaults

Init ==
    /\ authority = [revision |-> 1, context |-> 1]
    /\ replica = Boot

\* The engine or the context of the central changes.
Change ==
    /\ authority' \in {[authority EXCEPT !.revision = @ + 1],
                       [authority EXCEPT !.context = @ + 1]}
    /\ UNCHANGED replica

\* The right half moves forward, to what the central has or had before.
Advance ==
    /\ replica' \in [revision : replica.revision .. authority.revision,
                     context : replica.context .. authority.context]
    /\ UNCHANGED authority

\* The right half resets.
Reboot == replica' = Boot /\ UNCHANGED authority

Next == Change \/ Advance \/ Reboot

Spec == Init /\ [][Next]_vars

=============================================================================
