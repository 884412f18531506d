------------------------------- MODULE DavData -------------------------------
(***************************************************************************)
(* The data the write queue and the DAV server share: the objects of one   *)
(* collection, their contents and their ETags.                             *)
(***************************************************************************)
EXTENDS Naturals, FiniteSets

CONSTANT Obj    \* the hrefs of the collection's objects

\* A content is who wrote it and which of its writes it is: all that the
\* properties tell apart of an iCalendar text.
Content   == {"here", "elsewhere"} \X Nat
NoContent == <<"nothing", 0>>
Text      == Content \cup {NoContent}

\* ETags are numbers, never used twice; 0 is the NULL of the column.
NoEtag == 0
=============================================================================
