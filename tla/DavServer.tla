------------------------------ MODULE DavServer ------------------------------
(***************************************************************************)
(* The CalDAV server as sync/src/dav/webdav.rs uses it: conditional PUT and *)
(* DELETE (RFC 4918, RFC 7232), ETags, the collection's getctag and the    *)
(* tokens of sync-collection (RFC 6578).  It is not in the repository:     *)
(* everything here is what the client's code takes for granted.            *)
(***************************************************************************)
EXTENDS DavData

VARIABLES
  srv,     \* srv[o]: what the server holds under o and when it last changed
  srvRev   \* how many changes the collection has seen: its getctag

serverVars == <<srv, srvRev>>

-----------------------------------------------------------------------------
\* The ETag of a resource is the revision that wrote it.  A deleted resource
\* keeps the revision of its deletion, which is how a delta tells of it.
Resource == [raw : Text, chg : Nat]

Held(o) == srv[o].raw # NoContent

\* The precondition of a PUT: If-None-Match "*" without base, else If-Match.
PutAccepted(o, base) ==
  IF base = NoEtag THEN ~Held(o) ELSE Held(o) /\ srv[o].chg = base

\* The precondition of a DELETE: If-Match, always.
DeleteAccepted(o, base) == Held(o) /\ srv[o].chg = base

\* What a report from a token tells of, and what a full report tells of.
ChangedSince(t) == {o \in Obj : srv[o].chg > t}
AllHeld         == {o \in Obj : Held(o)}

ServerTypeOK == srv \in [Obj -> Resource] /\ srvRev \in Nat

\* The collection starts with the objects of initial, all of revision 1.
ServerInit(initial) ==
  /\ srv = [o \in Obj |-> IF o \in initial
                            THEN [raw |-> <<"elsewhere", 1>>, chg |-> 1]
                            ELSE [raw |-> NoContent, chg |-> 0]]
  /\ srvRev = 1

Write(o, raw) ==
  /\ srv' = [srv EXCEPT ![o] = [raw |-> raw, chg |-> srvRev + 1]]
  /\ srvRev' = srvRev + 1

Remove(o) == Write(o, NoContent)

\* Another client of the same account writes or deletes.
RemoteWrite(o)  == Write(o, <<"elsewhere", srvRev + 1>>)
RemoteDelete(o) == Held(o) /\ Remove(o)
=============================================================================
