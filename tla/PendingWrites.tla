---------------------------- MODULE PendingWrites ----------------------------
(***************************************************************************)
(* What the offline write queue promises the person, without saying how:   *)
(* of each object at most one write waits, a later one takes its place, and *)
(* a write stops waiting only when the server has acted on that very write  *)
(* - or when the person gave it up, where that is allowed.                 *)
(***************************************************************************)
EXTENDS Naturals

CONSTANTS
  Obj,          \* the objects that can be written
  MayDiscard    \* whether a write can be given up

VARIABLES
  want,   \* want[o]: the tag of the write that waits, or None
  done    \* done[o]: the tag of the last write of o the server acted on, or None

\* Writes of one object are tagged in the order the person makes them.
Tag  == [id : Nat, rev : Nat]
None == [id |-> 0, rev |-> 0]

Newer(t, u) == t.id > u.id \/ (t.id = u.id /\ t.rev > u.rev)

Init == want = [o \in Obj |-> None] /\ done = [o \in Obj |-> None]

Others(f, o) == \A p \in Obj \ {o} : f'[p] = f[p]

\* The person asks for a write: it takes the place of the one that waits.
Ask(o) ==
  /\ Newer(want'[o], want[o])
  /\ Newer(want'[o], done[o])
  /\ Others(want, o)
  /\ UNCHANGED done

\* The server acts on a write that was asked for, never on an older one than
\* the last.
Deliver(o) ==
  /\ Newer(done'[o], done[o])
  /\ want[o] # None => ~Newer(done'[o], want[o])
  /\ Others(done, o)
  /\ UNCHANGED want

\* The write that waits has arrived.
Forget(o) ==
  /\ want[o] # None /\ done[o] = want[o]
  /\ want'[o] = None
  /\ Others(want, o)
  /\ UNCHANGED done

Discard(o) ==
  /\ MayDiscard
  /\ want'[o] = None
  /\ Others(want, o)
  /\ UNCHANGED done

Next == \E o \in Obj : Ask(o) \/ Deliver(o) \/ Forget(o) \/ Discard(o)

Spec == Init /\ [][Next]_<<want, done>>
=============================================================================
