------------------------ MODULE MailboxSyncProofs ------------------------
(***************************************************************************)
(* Proofs of the invariants of MailboxSync, for any number of messages, of *)
(* events, any window and any size of batch and chunk.  They come from one *)
(* invariant, in parts: what each variable is (Shape), what the server     *)
(* gave (GivenInv), in what order the UIDVALIDITY of what is kept were     *)
(* read (OrderInv), what the rows name (NamesInv), that what a round plans *)
(* was there when it began (BeforeInv), what the rows say of the messages  *)
(* rules may act on (NewsInv), on which a rule acted (ActsInv), and what a *)
(* token promises (PromiseInv).                                            *)
(***************************************************************************)
EXTENDS MailboxSync, FiniteSetTheorems, NaturalsInduction, WellFoundedInduction, TLAPS

Shown == 1..Len(srv.given)      \* the UIDs the server gave

-----------------------------------------------------------------------------
(* What each variable is, with the fields of each step of a round.         *)

Answer  == [validity : 1..MaxEvents + 1, modseq : Nat, next : 1..NMsgs + 1, exists : 0..NMsgs]
Flags   == PartialFn(Uids, BOOLEAN)
Records == {r \in PartialFn(Uids, StoredRow) : Cardinality(DOMAIN r) <= Chunk}

AtWindow  == [pc : {"clear", "window"}, now : Answer, view : SUBSET Uids]
AtCompare == [pc : {"compare"}, now : Answer, flags : Flags]
AtGone    == [pc : {"gone"}, now : Answer, new : Planned, gone : SUBSET Uids, set : Flags]
AtChunks  == [pc : {"chunks"}, now : Answer, new : Planned, ops : SUBSET Uids, mark : Mark,
              old : SUBSET Msgs]
AtApply   == [pc : {"apply"}, now : Answer, new : Planned, mark : Mark, old : SUBSET Msgs,
              rec : Records]
RoundShape ==
  /\ round \in {Idle} \cup AtWindow \cup AtCompare \cup AtGone \cup AtChunks \cup AtApply
  /\ round.pc = "compare" => Cardinality(DOMAIN round.flags) <= Window

Server  == [validity : Nat, given : Seq(Msgs), present : SUBSET Uids, seen : SUBSET Msgs,
            modseq : Nat]
History == [acted : SUBSET Msgs, twice : SUBSET Msgs, swept : SUBSET Msgs,
            backlog : SUBSET Msgs, dropped : SUBSET Msgs, late : BOOLEAN, mixed : BOOLEAN]
Call    == {NoCall} \cup [op : {"seen", "forget"}, uid : Uids]
Shape ==
  /\ kind \in Kinds /\ inbox \in BOOLEAN /\ came \in 0..NMsgs /\ bound \in Nat
  /\ srv \in Server /\ rows \in PartialFn(Uids, StoredRow) /\ token \in Token
  /\ RoundShape
  /\ call \in Call
  /\ rules \in [mark : Mark, read : Mark, asking : BOOLEAN]
  /\ hist \in History

\* The server gives each message one UID of those it gave, and no message before it came.
GivenInv ==
  /\ srv.validity \in 1..MaxEvents + 1 - bound
  /\ Len(srv.given) <= came /\ srv.present \subseteq Shown
  /\ \A u \in Shown : srv.given[u] <= came
  /\ \A u, v \in Shown : srv.given[u] = srv.given[v] => u = v
  /\ \A u \in DOMAIN rows : rows[u].msg <= came
  /\ round.pc = "apply" => \A u \in DOMAIN round.rec : round.rec[u].msg <= came

-----------------------------------------------------------------------------
(* Of what is kept with its UIDVALIDITY, the token was read after the mark *)
(* of the rules, what the round knows after the token, and a mailbox is    *)
(* started again only over a token of before.                              *)
OrderInv ==
  /\ token.validity <= srv.validity
  /\ rules.mark.validity <= srv.validity /\ rules.read.validity <= srv.validity
  /\ token # NoToken => /\ rules.mark.validity <= token.validity
                        /\ rules.read.validity <= token.validity
  /\ round # Idle => /\ round.now.validity <= srv.validity
                     /\ token.validity <= round.now.validity
                     /\ rules.mark.validity <= round.now.validity
                     /\ rules.read.validity <= round.now.validity
  /\ round.pc = "clear" => token # NoToken /\ token.validity < round.now.validity

\* Each row shows the message its UID names.
Names(f) == \A u \in DOMAIN f : u \in Shown /\ f[u].msg = srv.given[u]
NamesInv ==
  /\ ~hist.mixed /\ token.validity \in {0, srv.validity} => Names(rows)
  /\ ~hist.mixed /\ Alive /\ round.pc # "clear" => Names(rows)
  /\ Alive /\ round.pc = "apply" => Names(round.rec)

\* Before a round is over, the rows it leaves, or plans, have UIDs of before it.
Before(S) == \A u \in S : u < round.now.next
BeforeInv ==
  /\ round.pc \in {"clear", "window"} => Before(round.view)
  /\ round.pc = "compare" => Before(DOMAIN round.flags)
  /\ round.pc = "gone" => Before(round.new) /\ Before(DOMAIN rows \ round.gone)
  /\ round.pc = "chunks" => Before(round.new) /\ Before(DOMAIN rows)
  /\ round.pc = "apply" =>
       Before(round.new) /\ Before(DOMAIN rows) /\ Before(DOMAIN round.rec)

\* Of the messages given from a UID on, the rows are theirs, and no other row is.
OwnRows(from) ==
  \A u \in DOMAIN rows : u >= from => u \in Shown /\ rows[u].msg = srv.given[u]
NoOtherRow(from) ==
  \A u \in DOMAIN rows, v \in Shown : v >= from /\ rows[u].msg = srv.given[v] => u = v
NewsInv ==
  /\ token.validity = srv.validity => OwnRows(token.next) /\ NoOtherRow(token.next)
  /\ rules.read.validity = srv.validity => OwnRows(rules.read.from) /\ NoOtherRow(rules.read.from)
  /\ rules.mark.validity = srv.validity => OwnRows(rules.mark.from) /\ NoOtherRow(rules.mark.from)
  /\ Alive => NoOtherRow(round.now.next)

-----------------------------------------------------------------------------
(* On whom a rule acted, or was not to act, is still stored or was deleted *)
(* while the server had it; and whom a round is about to store, or to act  *)
(* on, is none of them.                                                    *)

Fresh(S, mark, known) ==
  \A u \in S : /\ u \in Shown
               /\ Eligible(mark, srv.validity, u) /\ srv.given[u] \in known =>
                    srv.given[u] \in hist.dropped
ActsInv ==
  /\ rules.mark = NoMark => hist.acted = {} /\ hist.backlog = {}
  /\ \A m \in hist.acted \cup hist.backlog : m <= came
  /\ \A u \in Shown :
       Eligible(rules.mark, srv.validity, u) /\ srv.given[u] \in hist.acted \cup hist.backlog =>
         u \in DOMAIN rows \/ srv.given[u] \in hist.dropped
  /\ round.pc \in {"clear", "window"} /\ Alive => round.view \subseteq Shown
  /\ round.pc = "compare" /\ Alive => DOMAIN round.flags \subseteq Shown
  /\ round.pc = "gone" =>
       /\ round.new \cap DOMAIN rows = {}
       /\ Alive => Fresh(round.new, rules.mark, hist.acted \cup hist.backlog)
  /\ round.pc \in {"chunks", "apply"} =>
       /\ round.mark \in {NoMark, rules.mark}
       /\ Alive => Fresh(round.new, round.mark, hist.acted \cup round.old)
  /\ round.pc = "apply" =>
       /\ round.new \cap DOMAIN round.rec = {}
       /\ Alive => Fresh(DOMAIN round.rec, round.mark, hist.acted \cup round.old)
  /\ round.pc = "chunks" =>
       /\ round.new \cap round.ops = {}
       /\ Alive => /\ Fresh(round.ops, round.mark, hist.acted \cup round.old)
                   /\ \A u \in round.ops : /\ Eligible(round.mark, srv.validity, u)
                                           /\ u \in DOMAIN rows \/ srv.given[u] \in hist.dropped
  /\ hist.swept \cup hist.twice \subseteq hist.dropped

-----------------------------------------------------------------------------
(* What EXAMINE answered, while the server still answers the same, was     *)
(* true of the mailbox as it is now.                                       *)

Counts == kind # "plain" \/ ~inbox
Same(m, s) ==
  /\ s.validity = m.validity /\ s.next = Len(m.given) + 1
  /\ s.exists = Cardinality(m.present) /\ (kind # "plain" => s.modseq = m.modseq)
\* An answer of before: a counter that is the same says that nothing it counts happened.
Past(m, s) ==
  s.validity = m.validity =>
    /\ s.modseq <= m.modseq /\ s.next <= Len(m.given) + 1
    /\ s.next = Len(m.given) + 1 => Cardinality(m.present) <= s.exists
    /\ kind # "plain" /\ s.modseq = m.modseq =>
         /\ s.next = Len(m.given) + 1
         /\ kind = "qresync" => s.exists = Cardinality(m.present)
PastInv ==
  /\ token # NoToken => Past(srv, token)
  /\ round # Idle => /\ Past(srv, round.now)
                     /\ Counts /\ token # NoToken => ~Same(srv, token)

Shows(S) == S = Newest(Window, srv.present)
Tells(f) == kind # "plain" => \A u \in DOMAIN f : f[u] = (srv.given[u] \in srv.seen)
Marks(f) == [u \in DOMAIN f |-> f[u].seen]

\* The flags of the rows that stay, once those that changed are written.
Updated == [u \in DOMAIN rows \ round.gone |->
              IF u \in DOMAIN round.set THEN round.set[u] ELSE rows[u].seen]

TokenPromise ==
  ~hist.late /\ Counts /\ token # NoToken /\ Same(srv, token) =>
    Shows(DOMAIN rows) /\ Tells(Marks(rows))
RoundPromise ==
  round # Idle /\ ~hist.late /\ Same(srv, round.now) =>
    /\ round.pc \in {"clear", "window"} => round.view = srv.present
    /\ round.pc = "compare" => Shows(DOMAIN round.flags) /\ Tells(round.flags)
    /\ round.pc = "gone" => Shows(DOMAIN Updated \cup round.new) /\ Tells(Updated)
    /\ round.pc = "chunks" => Shows(DOMAIN rows \cup round.new) /\ Tells(Marks(rows))
    /\ round.pc = "apply" =>
         /\ Shows(DOMAIN rows \cup round.new \cup DOMAIN round.rec)
         /\ Tells(Marks(rows)) /\ Tells(Marks(round.rec))
PromiseInv == PastInv /\ TokenPromise /\ RoundPromise

IInv == Shape /\ GivenInv /\ OrderInv /\ NamesInv /\ BeforeInv /\ NewsInv /\ ActsInv /\ PromiseInv

-----------------------------------------------------------------------------
(* Sets of UIDs.                                                           *)

LEMMA PartialFnIs ==
  ASSUME NEW S, NEW T, NEW f
  PROVE  f \in PartialFn(S, T) <=> DOMAIN f \subseteq S /\ f \in [DOMAIN f -> T]
  BY DEF PartialFn

LEMMA Constants ==
  /\ NMsgs \in Nat /\ First \in 0..NMsgs /\ MaxEvents \in Nat
  /\ Window \in Nat \ {0} /\ Batch \in Nat \ {0} /\ Chunk \in Nat \ {0}
  BY MailboxAssumption DEF MailboxAssumption

LEMMA UidsAreFew ==
  ASSUME NEW S \in SUBSET Uids
  PROVE  IsFiniteSet(S) /\ Cardinality(S) \in 0..NMsgs /\ S \subseteq Nat
<1>1. IsFiniteSet(Uids) /\ Cardinality(Uids) = NMsgs
  BY Constants, FS_Interval DEF Uids
<1>2. IsFiniteSet(S) /\ Cardinality(S) <= NMsgs
  BY <1>1, FS_Subset
<1> QED BY <1>2, FS_CardinalityType, Constants DEF Uids

\* A set of natural numbers has a least element.
LEMMA LeastNat ==
  ASSUME NEW S, S \subseteq Nat, S # {}
  PROVE  \E x \in S : \A y \in S : x <= y
<1>1. \E x \in S : \A y \in S : ~(<<y, x>> \in OpToRel(<, Nat))
  BY NatLessThanWellFounded, WFMin, Zenon
<1>2. ASSUME NEW x \in S, \A y \in S : ~(<<y, x>> \in OpToRel(<, Nat)), NEW y \in S
      PROVE  x <= y
  <2>1. ~(<<y, x>> \in {ss \in Nat \X Nat : ss[1] < ss[2]})
    BY <1>2, Zenon DEF OpToRel
  <2>2. x \in Nat /\ y \in Nat
    OBVIOUS
  <2> QED BY <2>1, <2>2
<1> QED BY <1>1, <1>2

\* The newest n of them are n at most: above the oldest of these there are fewer.
LEMMA NewestAreFew ==
  ASSUME NEW S \in SUBSET Uids, NEW n \in Nat \ {0}
  PROVE  Newest(n, S) \subseteq S /\ Cardinality(Newest(n, S)) <= n
<1> DEFINE T == Newest(n, S)
<1>1. T \subseteq S /\ S \subseteq Nat /\ T \in SUBSET Uids
  BY UidsAreFew DEF Newest
<1>2. CASE T = {}
  BY <1>1, <1>2, FS_EmptySet
<1>3. CASE T # {}
  <2>1. PICK x \in T : \A y \in T : x <= y
    BY <1>1, <1>3, LeastNat
  <2> DEFINE above == {v \in S : v > x}
  <2>2. Cardinality(above) < n
    BY <2>1, Zenon DEF Newest
  <2>3. IsFiniteSet(above) /\ Cardinality(above) \in Nat
    <3>1. above \in SUBSET Uids
      BY <1>1
    <3> HIDE DEF above
    <3> QED BY <3>1, UidsAreFew
  <2>4. x \in Nat /\ x \notin above
    <3>1. x \in Nat
      BY <1>1, <2>1, Zenon
    <3> QED BY <3>1
  <2>5. T \subseteq above \cup {x}
    <3>1. ASSUME NEW y \in T PROVE y \in above \/ y = x
      <4>1. y \in S /\ y \in Nat /\ x <= y
        BY <1>1, <2>1, Zenon
      <4> QED BY <2>4, <4>1
    <3> QED BY <3>1, Zenon
  <2>6. IsFiniteSet(above \cup {x}) /\ Cardinality(above \cup {x}) = Cardinality(above) + 1
    BY <2>3, <2>4, FS_AddElement
  <2> HIDE DEF above, T
  <2>7. Cardinality(T) <= Cardinality(above \cup {x})
    BY <2>5, <2>6, FS_Subset
  <2>8. Cardinality(T) \in Nat
    BY <1>1, UidsAreFew
  <2> QED BY <1>1, <2>2, <2>3, <2>6, <2>7, <2>8 DEF T
<1> QED BY <1>2, <1>3

-----------------------------------------------------------------------------
(* What the types say, field by field.                                     *)

LEMMA ServerFields ==
  ASSUME srv \in Server
  PROVE  /\ srv.validity \in Nat /\ srv.given \in Seq(Msgs) /\ srv.present \in SUBSET Uids
         /\ srv.seen \in SUBSET Msgs /\ srv.modseq \in Nat
         /\ Len(srv.given) \in Nat /\ Shown = DOMAIN srv.given /\ Shown \subseteq Nat
         /\ \A u \in Shown : srv.given[u] \in Msgs /\ srv.given[u] \in Nat
<1>1. /\ srv.validity \in Nat /\ srv.given \in Seq(Msgs) /\ srv.present \in SUBSET Uids
      /\ srv.seen \in SUBSET Msgs /\ srv.modseq \in Nat
  BY DEF Server
<1>2. Len(srv.given) \in Nat /\ DOMAIN srv.given = 1..Len(srv.given)
  BY <1>1
<1>3. \A u \in 1..Len(srv.given) : srv.given[u] \in Msgs
  BY <1>1
<1>4. Msgs \subseteq Nat /\ Shown \subseteq Nat
  BY <1>2 DEF Msgs, Shown
<1> QED BY <1>1, <1>2, <1>3, <1>4, Zenon DEF Shown

LEMMA RowFields ==
  ASSUME Shape
  PROVE  /\ DOMAIN rows \in SUBSET Uids /\ DOMAIN rows \subseteq Nat
         /\ rows \in [DOMAIN rows -> StoredRow]
         /\ \A u \in DOMAIN rows : rows[u].msg \in Msgs /\ rows[u].msg \in Nat
                                   /\ rows[u].seen \in BOOLEAN
<1>1. DOMAIN rows \subseteq Uids /\ rows \in [DOMAIN rows -> StoredRow]
  BY PartialFnIs, Zenon DEF Shape
<1>2. \A u \in DOMAIN rows : rows[u] \in StoredRow
  BY <1>1, Zenon
<1>3. \A r \in StoredRow : r.msg \in Msgs /\ r.seen \in BOOLEAN
  BY DEF StoredRow
<1>4. Uids \subseteq Nat /\ Msgs \subseteq Nat
  BY DEF Uids, Msgs
<1> QED BY <1>1, <1>2, <1>3, <1>4, Zenon

LEMMA TokenFields ==
  ASSUME Shape
  PROVE  /\ token.validity \in Nat
         /\ token # NoToken => token \in Answer /\ token.validity # 0 /\ token.modseq \in Nat
                               /\ token.next \in Nat /\ token.exists \in Nat
         /\ token.validity = 0 <=> token = NoToken
  BY Constants DEF Shape, Token, Answer, NoToken

LEMMA MarkFields ==
  ASSUME NEW m \in Mark
  PROVE  /\ m.validity \in Nat /\ m.from \in Nat
         /\ m = NoMark <=> m.from = 0
         /\ m = NoMark <=> m.validity = 0
  BY Constants DEF Mark, NoMark

LEMMA RuleFields ==
  ASSUME Shape
  PROVE  rules.mark \in Mark /\ rules.read \in Mark /\ rules.asking \in BOOLEAN
  BY DEF Shape

LEMMA HistFields ==
  ASSUME Shape
  PROVE  /\ hist.acted \in SUBSET Msgs /\ hist.twice \in SUBSET Msgs /\ hist.swept \in SUBSET Msgs
         /\ hist.backlog \in SUBSET Msgs /\ hist.dropped \in SUBSET Msgs
         /\ hist.late \in BOOLEAN /\ hist.mixed \in BOOLEAN
  BY DEF Shape, History

LEMMA RoundIsOneOf ==
  ASSUME Shape
  PROVE  /\ round.pc = "idle" <=> round = Idle
         /\ round.pc \in {"clear", "window"} => round \in AtWindow
         /\ round.pc = "compare" => round \in AtCompare /\ Cardinality(DOMAIN round.flags) <= Window
         /\ round.pc = "gone" => round \in AtGone
         /\ round.pc = "chunks" => round \in AtChunks
         /\ round.pc = "apply" => round \in AtApply
         /\ round.pc \in {"idle", "clear", "window", "compare", "gone", "chunks", "apply"}
  BY DEF Shape, RoundShape, Idle, AtWindow, AtCompare, AtGone, AtChunks, AtApply

LEMMA NowFields ==
  ASSUME Shape, round # Idle
  PROVE  /\ round.now \in Answer /\ round.now.validity \in Nat /\ round.now.modseq \in Nat
         /\ round.now.next \in Nat /\ round.now.exists \in Nat /\ round.now.validity # 0
         /\ round.pc # "idle"
<1>1. round.now \in Answer /\ round.pc # "idle"
  BY DEF Shape, RoundShape, Idle, AtWindow, AtCompare, AtGone, AtChunks, AtApply
<1> QED BY <1>1, Constants DEF Answer

LEMMA IsAlive == ASSUME Shape PROVE Alive <=> round # Idle /\ round.now.validity = srv.validity
  BY RoundIsOneOf DEF Alive

LEMMA StatusFields ==
  ASSUME Shape, GivenInv
  PROVE  /\ Status \in Answer /\ Status.validity = srv.validity /\ Status.modseq = srv.modseq
         /\ Status.next = Len(srv.given) + 1 /\ Status.exists = Cardinality(srv.present)
<1>1. /\ srv.validity \in 1..MaxEvents + 1 /\ srv.modseq \in Nat
      /\ Len(srv.given) + 1 \in 1..NMsgs + 1
  BY Constants, ServerFields DEF Shape, GivenInv
<1>2. Cardinality(srv.present) \in 0..NMsgs
  BY ServerFields, UidsAreFew DEF Shape
<1> QED BY <1>1, <1>2 DEF Status, Answer

-----------------------------------------------------------------------------
(* What a step may do to the server: mark messages or take some out, bring *)
(* one, or give other UIDs to those left.                                  *)

Takes(s, t) ==
  /\ t \in Server /\ t.validity = s.validity /\ t.given = s.given
  /\ t.present \subseteq s.present /\ s.modseq <= t.modseq
  /\ kind # "plain" /\ t.modseq = s.modseq =>
       t.seen = s.seen /\ (kind = "qresync" => t.present = s.present)
Brings(s, t) ==
  /\ t \in Server /\ t.validity = s.validity
  /\ t.given = Append(s.given, came + 1) /\ came < NMsgs
  /\ t.present = s.present \cup {Len(s.given) + 1} /\ t.seen = s.seen
  /\ t.modseq = Raised(s.modseq)
Renumbers(s, t) ==
  /\ t \in Server /\ t.validity = s.validity + 1
  /\ Len(t.given) <= Len(s.given) /\ t.present = 1..Len(t.given)
  /\ \A u \in 1..Len(t.given) : \E v \in s.present : t.given[u] = s.given[v]
  /\ \A u, v \in 1..Len(t.given) : t.given[u] = t.given[v] => u = v

LEMMA TakesNothing == ASSUME srv \in Server PROVE Takes(srv, srv)
  BY ServerFields DEF Takes

LEMMA TakesTwice ==
  ASSUME NEW s \in Server, NEW t, NEW r, Takes(s, t), Takes(t, r)
  PROVE  Takes(s, r)
<1>1. s.modseq \in Nat /\ t.modseq \in Nat /\ r.modseq \in Nat
  BY DEF Takes, Server
<1> QED BY <1>1 DEF Takes

LEMMA MarkTakes ==
  ASSUME NEW s \in Server, NEW S \in SUBSET Msgs
  PROVE  Takes(s, [s EXCEPT !.seen = S, !.modseq = Raised(@)])
<1> DEFINE t == [s EXCEPT !.seen = S, !.modseq = Raised(@)]
<1>1. s.modseq \in Nat /\ Raised(s.modseq) \in Nat
      /\ s.modseq <= Raised(s.modseq) /\ (kind # "plain" => Raised(s.modseq) # s.modseq)
  BY DEF Server, Raised
<1>2. t \in Server
  BY <1>1 DEF Server
<1>3. t.validity = s.validity /\ t.given = s.given /\ t.present = s.present
      /\ t.modseq = Raised(s.modseq)
  BY DEF Server
<1> HIDE DEF t
<1>4. Takes(s, t)
  BY <1>1, <1>2, <1>3 DEF Takes
<1> QED BY <1>4 DEF t

LEMMA ExpungedTakes ==
  ASSUME NEW s \in Server, NEW u \in s.present, kind \in {"plain", "condstore", "qresync"}
  PROVE  Takes(s, Expunged(s, u)) /\ Expunged(s, u).present = s.present \ {u}
<1>1. s.modseq \in Nat /\ Raised(s.modseq) \in Nat
      /\ s.modseq <= Raised(s.modseq) /\ (kind # "plain" => Raised(s.modseq) # s.modseq)
  BY DEF Server, Raised
<1>2. PICK t : t = Expunged(s, u)
  OBVIOUS
<1>3. t = [s EXCEPT !.present = @ \ {u},
                    !.modseq = IF kind = "condstore" THEN @ ELSE Raised(@)]
  BY <1>2 DEF Expunged
<1>4. /\ t.validity = s.validity /\ t.given = s.given /\ t.present = s.present \ {u}
      /\ t.seen = s.seen /\ t.modseq = IF kind = "condstore" THEN s.modseq ELSE Raised(s.modseq)
  BY <1>3 DEF Server
<1>5. t \in Server
  BY <1>1, <1>3 DEF Server
<1>6. Takes(s, t)
  BY <1>1, <1>4, <1>5 DEF Takes
<1> QED BY <1>2, <1>4, <1>6

LEMMA KindIs == ASSUME Shape PROVE kind \in {"plain", "condstore", "qresync"}
  BY MailboxAssumption DEF Shape, MailboxAssumption

LEMMA FlipTakes ==
  ASSUME Shape, GivenInv, NEW u \in srv.present, Flip(u)
  PROVE  Takes(srv, srv')
<1>1. srv.given[u] \in Msgs /\ srv.seen \in SUBSET Msgs
  BY ServerFields DEF Shape, GivenInv
<1>2. srv \in Server
  BY DEF Shape
<1>3. \E S \in SUBSET Msgs : srv' = [srv EXCEPT !.seen = S, !.modseq = Raised(@)]
  <2>1. PICK m : m = srv.given[u]
    OBVIOUS
  <2>2. PICK S : S = IF m \in srv.seen THEN srv.seen \ {m} ELSE srv.seen \cup {m}
    OBVIOUS
  <2>3. S \in SUBSET Msgs
    BY <1>1, <2>1, <2>2
  <2>4. srv' = [srv EXCEPT !.seen = S, !.modseq = Raised(@)]
    BY <2>1, <2>2, <1>2 DEF Flip, Server
  <2> QED BY <2>3, <2>4
<1> QED BY <1>2, <1>3, MarkTakes

LEMMA MarkReadTakes ==
  ASSUME Shape, GivenInv, NEW u, MarkRead(u)
  PROVE  Takes(srv, srv')
<1>1. srv \in Server
  BY DEF Shape
<1>2. CASE srv' = srv
  BY <1>1, <1>2, TakesNothing
<1>3. CASE /\ u \in srv.present
           /\ srv' = [srv EXCEPT !.seen = @ \cup {srv.given[u]}, !.modseq = Raised(@)]
  <2>1. srv.given[u] \in Msgs /\ srv.seen \in SUBSET Msgs
    BY <1>3, ServerFields DEF Shape, GivenInv
  <2>2. PICK S : S = srv.seen \cup {srv.given[u]}
    OBVIOUS
  <2>3. S \in SUBSET Msgs /\ srv' = [srv EXCEPT !.seen = S, !.modseq = Raised(@)]
    BY <1>1, <1>3, <2>1, <2>2 DEF Server
  <2> QED BY <1>1, <2>3, MarkTakes
<1> QED BY <1>2, <1>3 DEF MarkRead

\* A rule marks the message it acts on read, and takes it out unless it is refused.
LEMMA RuleTakes ==
  ASSUME Shape, GivenInv, NEW u \in Shown, RuleActs(u)
  PROVE  Takes(srv, srv')
<1> DEFINE m    == srv.given[u]
           read == IF m \in srv.seen \/ u \notin srv.present THEN srv
                   ELSE [srv EXCEPT !.seen = @ \cup {m}, !.modseq = Raised(@)]
<1>1. srv \in Server /\ kind \in {"plain", "condstore", "qresync"}
  BY KindIs DEF Shape
<1>2. srv' \in {read} \cup {Expunged(read, v) : v \in {u} \cap srv.present}
  BY DEF RuleActs
<1>3. PICK r : r = read
  OBVIOUS
<1>4. Takes(srv, r) /\ r.present = srv.present
  <2>1. CASE r = srv
    BY <1>1, <2>1, TakesNothing
  <2>2. CASE r = [srv EXCEPT !.seen = @ \cup {m}, !.modseq = Raised(@)]
    <3>1. m \in Msgs /\ srv.seen \in SUBSET Msgs
      BY <1>1, ServerFields
    <3>2. PICK S : S = srv.seen \cup {m}
      OBVIOUS
    <3> HIDE DEF m
    <3>3. S \in SUBSET Msgs /\ r = [srv EXCEPT !.seen = S, !.modseq = Raised(@)]
      BY <1>1, <2>2, <3>1, <3>2 DEF Server
    <3>4. r.present = srv.present
      BY <1>1, <3>3 DEF Server
    <3> QED BY <1>1, <3>3, <3>4, MarkTakes
  <2> QED BY <1>3, <2>1, <2>2
<1>5. CASE srv' = r
  BY <1>4, <1>5
<1>6. CASE u \in srv.present /\ srv' = Expunged(r, u)
  <2>1. r \in Server /\ u \in r.present
    BY <1>4, <1>6 DEF Takes
  <2>2. Takes(r, srv')
    BY <1>1, <1>6, <2>1, ExpungedTakes
  <2> QED BY <1>1, <1>4, <2>2, TakesTwice
<1> HIDE DEF read
<1> QED BY <1>2, <1>3, <1>5, <1>6

LEMMA ArriveBrings ==
  ASSUME Shape, GivenInv, Arrive
  PROVE  Brings(srv, srv') /\ came' = came + 1
<1>1. srv \in Server /\ came \in 0..NMsgs /\ came < NMsgs /\ NMsgs \in Nat
  BY Constants DEF Shape, Arrive
<1>2. Len(srv.given) \in Nat /\ Len(srv.given) <= came /\ srv.given \in Seq(Msgs)
      /\ srv.present \in SUBSET Uids /\ srv.modseq \in Nat
  BY <1>1, ServerFields DEF GivenInv
<1>3. came + 1 \in Msgs /\ Len(srv.given) + 1 \in Uids
  BY <1>1, <1>2 DEF Msgs, Uids
<1>4. srv' = [srv EXCEPT !.given = Append(@, came + 1),
                         !.present = @ \cup {Len(srv.given) + 1}, !.modseq = Raised(@)]
  BY DEF Arrive
<1>5. /\ srv'.validity = srv.validity /\ srv'.given = Append(srv.given, came + 1)
      /\ srv'.present = srv.present \cup {Len(srv.given) + 1} /\ srv'.seen = srv.seen
      /\ srv'.modseq = Raised(srv.modseq)
  BY <1>1, <1>4 DEF Server
<1>6. PICK g, p, n : /\ g = Append(srv.given, came + 1)
                     /\ p = srv.present \cup {Len(srv.given) + 1} /\ n = Raised(srv.modseq)
  OBVIOUS
<1>7. g \in Seq(Msgs) /\ p \in SUBSET Uids /\ n \in Nat
  BY <1>2, <1>3, <1>6 DEF Raised
<1>8. srv' \in Server
  BY <1>1, <1>4, <1>6, <1>7 DEF Server
<1> QED BY <1>1, <1>5, <1>8 DEF Brings, Arrive

LEMMA RenumberRenumbers ==
  ASSUME Shape, GivenInv, Renumber
  PROVE  Renumbers(srv, srv') /\ came' = came
<1>1. srv \in Server
  BY DEF Shape
<1> DEFINE n == Cardinality(srv.present)
<1>2. PICK left \in [1..n -> srv.present] :
        /\ \A i, j \in DOMAIN left : i < j => left[i] < left[j]
        /\ srv' = [srv EXCEPT !.validity = @ + 1, !.modseq = Raised(@), !.present = DOMAIN left,
                              !.given = [i \in DOMAIN left |-> srv.given[left[i]]]]
  BY Zenon DEF Renumber
<1>3. n \in Nat /\ n <= Len(srv.given) /\ n <= NMsgs /\ Len(srv.given) \in Nat
  <2>1. IsFiniteSet(1..Len(srv.given)) /\ Cardinality(1..Len(srv.given)) = Len(srv.given)
    <3>1. PICK l \in Nat : l = Len(srv.given)
      BY <1>1, ServerFields
    <3>2. IsFiniteSet(1..l) /\ Cardinality(1..l) = l
      BY FS_Interval
    <3> QED BY <3>1, <3>2
  <2>2. srv.present \subseteq 1..Len(srv.given)
    BY DEF GivenInv, Shown
  <2>3. n <= Cardinality(1..Len(srv.given))
    BY <2>1, <2>2, FS_Subset
  <2> QED BY <1>1, <2>1, <2>3, ServerFields, UidsAreFew
<1>4. PICK g : g = [i \in DOMAIN left |-> srv.given[left[i]]]
  OBVIOUS
<1> HIDE DEF n
<1>5. \A i \in 1..n : left[i] \in srv.present /\ left[i] \in Shown /\ srv.given[left[i]] \in Msgs
  BY <1>1, <1>2, ServerFields DEF GivenInv
<1>6. DOMAIN g = 1..n /\ g \in Seq(Msgs) /\ Len(g) = n /\ \A i \in 1..n : g[i] = srv.given[left[i]]
  <2>1. g \in [1..n -> Msgs]
    BY <1>2, <1>4, <1>5
  <2> QED BY <1>2, <1>3, <1>4, <2>1
<1>7. DOMAIN left = 1..n /\ 1..n \in SUBSET Uids
  BY <1>2, <1>3, Constants DEF Uids
<1>8. /\ srv'.validity = srv.validity + 1 /\ srv'.present = 1..n /\ srv'.given = g
  BY <1>1, <1>2, <1>4, <1>7 DEF Server
<1>9. srv' \in Server
  <2>1. PICK v, q, p : v = srv.validity + 1 /\ q = Raised(srv.modseq) /\ p = DOMAIN left
    OBVIOUS
  <2>2. v \in Nat /\ q \in Nat /\ p \in SUBSET Uids
    BY <1>1, <1>7, <2>1 DEF Server, Raised
  <2> QED BY <1>1, <1>2, <1>4, <1>6, <2>1, <2>2 DEF Server
<1>10. \A i, j \in 1..n : g[i] = g[j] => i = j
  <2>1. ASSUME NEW i \in 1..n, NEW j \in 1..n, g[i] = g[j] PROVE left[i] = left[j]
    BY <1>5, <1>6, <2>1 DEF GivenInv
  <2>2. ASSUME NEW i \in 1..n, NEW j \in 1..n, left[i] = left[j] PROVE i = j
    <3>1. left[i] \in Nat /\ i \in Int /\ j \in Int
      BY <1>1, <1>3, <1>5, ServerFields
    <3>2. ~(i < j) /\ ~(j < i)
      BY <1>2, <1>7, <2>2, <3>1
    <3> QED BY <3>1, <3>2
  <2> QED BY <2>1, <2>2
<1> QED
  <2>1. came' = came
    BY DEF Renumber
  <2> QED BY <1>3, <1>5, <1>6, <1>8, <1>9, <1>10, <2>1 DEF Renumbers

\* What was answered before a change of the server is still of the past, and if it is
\* still true, nothing it tells apart changed.
LEMMA AnswersOfBefore ==
  ASSUME NEW m \in Server, NEW t, NEW s \in Answer, m.present \subseteq 1..Len(m.given),
         s.validity <= m.validity, Past(m, s),
         Takes(m, t) \/ Brings(m, t) \/ Renumbers(m, t)
  PROVE  /\ Past(t, s)
         /\ Same(t, s) => /\ Same(m, s) /\ t.present = m.present /\ t.given = m.given
                          /\ kind # "plain" => t.seen = m.seen
<1>1. /\ m.validity \in Nat /\ m.modseq \in Nat /\ m.given \in Seq(Msgs)
      /\ Len(m.given) \in Nat /\ m.present \in SUBSET Uids
  BY DEF Server
<1>2. t \in Server
  BY DEF Takes, Brings, Renumbers
<1>3. t.validity \in Nat /\ t.modseq \in Nat /\ Len(t.given) \in Nat /\ t.present \in SUBSET Uids
  BY <1>2 DEF Server
<1>4. s.validity \in Nat /\ s.modseq \in Nat /\ s.next \in Nat /\ s.exists \in Nat
  BY Constants DEF Answer
<1>5. /\ IsFiniteSet(m.present) /\ Cardinality(m.present) \in Nat
      /\ IsFiniteSet(t.present) /\ Cardinality(t.present) \in Nat
  BY <1>1, <1>3, UidsAreFew
<1>6. CASE Takes(m, t)
  <2>1. Cardinality(t.present) <= Cardinality(m.present)
        /\ (Cardinality(m.present) = Cardinality(t.present) => t.present = m.present)
    BY <1>5, <1>6, FS_Subset DEF Takes
  <2>2. Past(t, s)
    BY <1>1, <1>3, <1>4, <1>5, <1>6, <2>1 DEF Takes, Past
  <2>3. ASSUME Same(t, s)
        PROVE  /\ Same(m, s) /\ t.present = m.present /\ t.given = m.given
               /\ kind # "plain" => t.seen = m.seen
    <3>1. t.given = m.given /\ s.validity = m.validity /\ s.next = Len(m.given) + 1
      BY <1>6, <2>3 DEF Takes, Same
    <3>2. Cardinality(m.present) <= s.exists /\ s.exists = Cardinality(t.present)
      BY <2>3, <3>1 DEF Past, Same
    <3>3. t.present = m.present
      BY <1>4, <1>5, <2>1, <3>2
    <3>4. kind # "plain" => s.modseq = m.modseq /\ t.modseq = m.modseq
      BY <1>1, <1>3, <1>4, <1>6, <2>3, <3>1 DEF Takes, Same, Past
    <3> QED BY <1>6, <2>3, <3>1, <3>3, <3>4 DEF Takes, Same
  <2> QED BY <2>2, <2>3
<1>7. CASE Brings(m, t)
  <2>1. Len(t.given) = Len(m.given) + 1 /\ t.validity = m.validity /\ t.modseq = Raised(m.modseq)
    BY <1>1, <1>7 DEF Brings
  <2>2. m.modseq <= Raised(m.modseq) /\ (kind # "plain" => m.modseq < Raised(m.modseq))
    BY <1>1 DEF Raised
  <2>3. s.validity = t.validity => s.next < Len(t.given) + 1
    BY <1>1, <1>3, <1>4, <2>1 DEF Past
  <2> QED BY <1>1, <1>3, <1>4, <2>1, <2>2, <2>3 DEF Past, Same
<1>8. CASE Renumbers(m, t)
  <2>1. s.validity # t.validity
    BY <1>1, <1>4, <1>8 DEF Renumbers
  <2> QED BY <2>1 DEF Past, Same
<1> QED BY <1>6, <1>7, <1>8

\* What a change of the server leaves of what it gave.
LEMMA GivenAfter ==
  ASSUME Shape, GivenInv, came' \in 0..NMsgs, bound' \in Nat, bound' <= bound,
         \/ Takes(srv, srv') /\ came' = came
         \/ Brings(srv, srv') /\ came' = came + 1
         \/ Renumbers(srv, srv') /\ came' = came /\ bound' = bound - 1
  PROVE  /\ srv'.validity \in 1..MaxEvents + 1 - bound'
         /\ Len(srv'.given) <= came' /\ srv'.present \subseteq Shown'
         /\ \A u \in Shown' : srv'.given[u] <= came'
         /\ \A u, v \in Shown' : srv'.given[u] = srv'.given[v] => u = v
<1>1. srv \in Server /\ srv' \in Server
  BY DEF Shape, Takes, Brings, Renumbers
<1>2. /\ srv.validity \in Nat /\ Len(srv.given) \in Nat /\ bound \in Nat /\ MaxEvents \in Nat
      /\ came \in Nat /\ \A u \in Shown : srv.given[u] \in Nat
  BY <1>1, ServerFields, Constants DEF Shape
<1>3. CASE Takes(srv, srv') /\ came' = came
  BY <1>2, <1>3 DEF Takes, GivenInv, Shown
<1>4. CASE Brings(srv, srv') /\ came' = came + 1
  <2>1. /\ Len(srv'.given) = Len(srv.given) + 1
        /\ \A u \in Shown : srv'.given[u] = srv.given[u]
        /\ srv'.given[Len(srv.given) + 1] = came + 1
    BY <1>1, <1>2, <1>4, ServerFields DEF Brings, Shown
  <2>2. Shown' = Shown \cup {Len(srv.given) + 1}
    BY <1>2, <2>1 DEF Shown
  <2>3. srv'.present \subseteq Shown' /\ srv'.validity \in 1..MaxEvents + 1 - bound'
    BY <1>2, <1>4, <2>2 DEF Brings, GivenInv
  <2>4. \A u \in Shown' : srv'.given[u] <= came'
    BY <1>2, <1>4, <2>1, <2>2 DEF GivenInv
  <2>5. \A u, v \in Shown' : srv'.given[u] = srv'.given[v] => u = v
    <3>1. \A u \in Shown : srv.given[u] # came + 1
      BY <1>2 DEF GivenInv
    <3> QED BY <2>1, <2>2, <3>1 DEF GivenInv
  <2>6. Len(srv'.given) <= came'
    BY <1>2, <1>4, <2>1 DEF GivenInv
  <2> QED BY <2>3, <2>4, <2>5, <2>6
<1>5. CASE Renumbers(srv, srv') /\ came' = came /\ bound' = bound - 1
  <2>1. Len(srv'.given) \in Nat /\ Len(srv'.given) <= came'
    BY <1>1, <1>2, <1>5 DEF Renumbers, GivenInv, Server
  <2>2. srv'.validity \in 1..MaxEvents + 1 - bound'
    BY <1>2, <1>5 DEF Renumbers, GivenInv
  <2>3. \A u \in Shown' : \E v \in Shown : srv'.given[u] = srv.given[v]
    BY <1>5 DEF Renumbers, GivenInv, Shown
  <2>4. \A u \in Shown' : srv'.given[u] <= came'
    BY <1>5, <2>3 DEF GivenInv
  <2> QED BY <1>5, <2>1, <2>2, <2>4 DEF Renumbers, Shown
<1> QED BY <1>3, <1>4, <1>5

-----------------------------------------------------------------------------
LEMMA InitHolds == Init => IInv
<1> SUFFICES ASSUME Init PROVE IInv
  OBVIOUS
<1>1. /\ srv = [validity |-> 1, given |-> [u \in 1..First |-> u], present |-> 1..First,
                seen |-> {}, modseq |-> 1]
      /\ came = First /\ rows = Empty /\ token = NoToken /\ round = Idle /\ call = NoCall
      /\ rules = [mark |-> NoMark, read |-> NoMark, asking |-> FALSE]
      /\ hist = NoHistory /\ bound = MaxEvents /\ kind \in Kinds /\ inbox \in BOOLEAN
  BY DEF Init
<1>2. /\ srv.validity = 1 /\ Len(srv.given) = First /\ srv.present = 1..First
      /\ \A u \in 1..First : srv.given[u] = u
  BY <1>1, Constants
<1>3. DOMAIN rows = {}
  BY <1>1 DEF Empty
<1>4. round.pc = "idle"
  BY <1>1 DEF Idle
<1>5. Shape
  <2>1. rows \in PartialFn(Uids, StoredRow)
    <3>1. rows \in [DOMAIN rows -> StoredRow]
      BY <1>1, <1>3 DEF Empty
    <3> QED BY <1>3, <3>1, PartialFnIs
  <2>2. srv \in Server
    <3>1. [u \in 1..First |-> u] \in Seq(Msgs)
      <4>1. [u \in 1..First |-> u] \in [1..First -> Msgs]
        BY Constants DEF Msgs
      <4> QED BY <4>1, Constants
    <3>2. 1..First \in SUBSET Uids
      BY Constants DEF Uids
    <3> QED BY <1>1, <3>1, <3>2 DEF Server
  <2>3. hist \in History /\ rules \in [mark : Mark, read : Mark, asking : BOOLEAN]
    BY <1>1 DEF NoHistory, History, Mark
  <2>4. token \in Token /\ call \in Call /\ RoundShape
    BY <1>1 DEF Token, Call, RoundShape, Idle
  <2> QED BY <1>1, <2>1, <2>2, <2>3, <2>4, Constants DEF Shape
<1>6. GivenInv
  BY <1>1, <1>2, <1>3, <1>4, Constants DEF GivenInv, Shown
<1>7. OrderInv /\ NamesInv /\ BeforeInv
  BY <1>1, <1>2, <1>3, <1>4 DEF OrderInv, NamesInv, BeforeInv, NoToken, NoMark, Idle, Names, Alive
<1>8. NewsInv
  BY <1>1, <1>2, <1>3, <1>4 DEF NewsInv, NoToken, NoMark, Alive
<1>9. ActsInv
  BY <1>1, <1>4 DEF ActsInv, NoHistory
<1>10. PromiseInv
  BY <1>1 DEF PromiseInv, PastInv, TokenPromise, RoundPromise
<1> QED BY <1>5, <1>6, <1>7, <1>8, <1>9, <1>10 DEF IInv

-----------------------------------------------------------------------------
(* What the other clients and the first half of the person's calls do:     *)
(* only the server changes.                                                *)

Others ==
  /\ UNCHANGED <<kind, inbox, rows, token, round, rules>>
  /\ call' \in Call /\ bound' \in Nat /\ bound' <= bound /\ came' \in 0..NMsgs
  /\ \/ Takes(srv, srv') /\ came' = came /\ hist' = hist
     \/ Brings(srv, srv') /\ came' = came + 1 /\ hist' = hist
     \/ /\ Renumbers(srv, srv') /\ came' = came /\ bound' = bound - 1
        /\ hist' = [hist EXCEPT !.mixed = @ \/ (token = NoToken /\ DOMAIN rows # {})]

LEMMA EventFacts == ASSUME Shape, Event PROVE bound' \in Nat /\ bound' = bound - 1 /\ bound' <= bound
  BY DEF Shape, Event

LEMMA OthersAre ==
  ASSUME Shape, GivenInv,
         \/ Arrive \/ Renumber \/ (\E u \in srv.present : Flip(u) \/ Expunge(u))
         \/ \E u \in DOMAIN rows : MarkRead(u) \/ MoveMessage(u)
  PROVE  Others
<1>1. /\ srv \in Server /\ kind \in {"plain", "condstore", "qresync"} /\ call \in Call
      /\ bound \in Nat /\ came \in 0..NMsgs
  BY KindIs DEF Shape
<1>2. CASE Arrive
  <2>1. Brings(srv, srv') /\ came' = came + 1
    BY <1>2, ArriveBrings
  <2>2. came' \in 0..NMsgs
    BY <1>1, <1>2, Constants DEF Arrive
  <2> QED BY <1>1, <1>2, <2>1, <2>2 DEF Arrive, Others, service
<1>3. CASE Renumber
  <2>1. Renumbers(srv, srv') /\ came' = came
    BY <1>3, RenumberRenumbers
  <2>2. bound' \in Nat /\ bound' = bound - 1 /\ bound' <= bound
    BY <1>3, EventFacts DEF Renumber
  <2> QED BY <1>1, <1>3, <2>1, <2>2 DEF Renumber, Others, service
<1>4. ASSUME NEW u \in srv.present, Flip(u) PROVE Others
  <2>1. Takes(srv, srv')
    BY <1>4, FlipTakes
  <2>2. bound' \in Nat /\ bound' = bound - 1 /\ bound' <= bound
    BY <1>4, EventFacts DEF Flip
  <2> QED BY <1>1, <1>4, <2>1, <2>2 DEF Flip, Others, service
<1>5. ASSUME NEW u \in srv.present, Expunge(u) PROVE Others
  <2>1. Takes(srv, srv')
    BY <1>1, <1>5, ExpungedTakes DEF Expunge
  <2>2. bound' \in Nat /\ bound' = bound - 1 /\ bound' <= bound
    BY <1>5, EventFacts DEF Expunge
  <2> QED BY <1>1, <1>5, <2>1, <2>2 DEF Expunge, Others, service
<1>6. ASSUME NEW u \in DOMAIN rows, MarkRead(u) PROVE Others
  <2>1. Takes(srv, srv')
    BY <1>6, MarkReadTakes
  <2>2. bound' \in Nat /\ bound' = bound - 1 /\ bound' <= bound
    BY <1>6, EventFacts DEF MarkRead
  <2>3. call' \in Call
    BY <1>6, RowFields DEF MarkRead, Call
  <2> QED BY <1>1, <1>6, <2>1, <2>2, <2>3 DEF MarkRead, Others
<1>7. ASSUME NEW u \in DOMAIN rows, MoveMessage(u) PROVE Others
  <2>1. Takes(srv, srv')
    BY <1>1, <1>7, ExpungedTakes, TakesNothing DEF MoveMessage
  <2>2. bound' \in Nat /\ bound' = bound - 1 /\ bound' <= bound
    BY <1>7, EventFacts DEF MoveMessage
  <2>3. call' \in Call
    BY <1>7, RowFields DEF MoveMessage, Call
  <2> QED BY <1>1, <1>7, <2>1, <2>2, <2>3 DEF MoveMessage, Others
<1> QED BY <1>2, <1>3, <1>4, <1>5, <1>6, <1>7

\* The history is as it was, but for mixed.
LEMMA OthersHist ==
  ASSUME Shape, Others
  PROVE  /\ hist' \in History /\ hist'.acted = hist.acted /\ hist'.twice = hist.twice
         /\ hist'.swept = hist.swept /\ hist'.backlog = hist.backlog
         /\ hist'.dropped = hist.dropped /\ hist'.late = hist.late
<1>1. hist \in History
  BY DEF Shape
<1>2. CASE hist' = hist
  BY <1>1, <1>2
<1>3. CASE hist' # hist
  <2>1. /\ Renumbers(srv, srv')
        /\ hist' = [hist EXCEPT !.mixed = @ \/ (token = NoToken /\ DOMAIN rows # {})]
    BY <1>3 DEF Others
  <2>2. PICK b \in BOOLEAN : b = (hist.mixed \/ (token = NoToken /\ DOMAIN rows # {}))
    BY <1>1 DEF History
  <2>3. hist' = [hist EXCEPT !.mixed = b]
    BY <1>1, <2>1, <2>2 DEF History
  <2>4. /\ hist' \in History /\ hist'.acted = hist.acted /\ hist'.twice = hist.twice
        /\ hist'.swept = hist.swept /\ hist'.backlog = hist.backlog
        /\ hist'.dropped = hist.dropped /\ hist'.late = hist.late
    BY <1>1, <2>3 DEF History
  <2> QED BY <2>4
<1> QED BY <1>2, <1>3

\* Where the UIDs are not given again, those there were name what they named.
LEMMA OthersGiven ==
  ASSUME Shape, GivenInv, OrderInv, Others
  PROVE  \/ /\ srv'.validity = srv.validity /\ Alive' = Alive
            /\ \A u \in Shown : u \in Shown' /\ srv'.given[u] = srv.given[u]
            /\ \A u \in Shown' : u \in Shown \/ srv'.given[u] = came + 1
            /\ hist' = hist
         \/ /\ srv'.validity = srv.validity + 1 /\ ~Alive' /\ Renumbers(srv, srv')
            /\ hist'.mixed = (hist.mixed \/ (token = NoToken /\ DOMAIN rows # {}))
<1>1. /\ srv \in Server /\ srv.validity \in Nat /\ Len(srv.given) \in Nat
      /\ srv.given \in Seq(Msgs)
  BY ServerFields DEF Shape
<1>2. round' = round
  BY DEF Others
<1>3. CASE Takes(srv, srv') /\ hist' = hist
  BY <1>1, <1>2, <1>3 DEF Takes, Shown, Alive
<1>4. CASE Brings(srv, srv') /\ hist' = hist
  <2>1. /\ Len(srv'.given) = Len(srv.given) + 1
        /\ \A u \in Shown : srv'.given[u] = srv.given[u]
        /\ srv'.given[Len(srv.given) + 1] = came + 1
    BY <1>1, <1>4, ServerFields DEF Brings, Shown
  <2>2. Shown' = Shown \cup {Len(srv.given) + 1}
    BY <1>1, <2>1 DEF Shown
  <2>3. srv'.validity = srv.validity /\ Alive' = Alive
    BY <1>2, <1>4 DEF Brings, Alive
  <2> QED BY <1>4, <2>1, <2>2, <2>3
<1>5. CASE /\ Renumbers(srv, srv')
           /\ hist' = [hist EXCEPT !.mixed = @ \/ (token = NoToken /\ DOMAIN rows # {})]
  <2>1. srv'.validity = srv.validity + 1
    BY <1>5 DEF Renumbers
  <2>2. ~Alive'
    <3>1. round # Idle => round.now.validity \in Nat /\ round.now.validity <= srv.validity
      BY NowFields DEF OrderInv
    <3> QED BY <1>1, <1>2, <2>1, <3>1 DEF Alive, Idle
  <2>3. hist'.mixed = (hist.mixed \/ (token = NoToken /\ DOMAIN rows # {}))
    BY <1>5 DEF Shape, History
  <2> QED BY <1>5, <2>1, <2>2, <2>3
<1> QED BY <1>3, <1>4, <1>5 DEF Others

LEMMA OthersKeepShape ==
  ASSUME Shape, GivenInv, OrderInv, Others
  PROVE  Shape' /\ GivenInv'
<1>1. Shape'
  <2>1. srv' \in Server
    BY DEF Others, Takes, Brings, Renumbers
  <2> QED BY <2>1, OthersHist DEF Shape, RoundShape, Others
<1>2. GivenInv'
  <2>1. /\ srv'.validity \in 1..MaxEvents + 1 - bound'
        /\ Len(srv'.given) <= came' /\ srv'.present \subseteq Shown'
        /\ \A u \in Shown' : srv'.given[u] <= came'
        /\ \A u, v \in Shown' : srv'.given[u] = srv'.given[v] => u = v
    BY GivenAfter DEF Others
  <2>2. came \in Nat /\ came <= came' /\ came' \in Nat
    BY Constants DEF Others, Shape
  <2>3. \A u \in DOMAIN rows' : rows'[u].msg <= came'
    BY <2>2, RowFields DEF GivenInv, Others
  <2>4. round'.pc = "apply" => \A u \in DOMAIN round'.rec : round'.rec[u].msg <= came'
    <3>1. ASSUME round.pc = "apply", NEW u \in DOMAIN round.rec
          PROVE  round.rec[u].msg <= came'
      <4>1. round.rec \in PartialFn(Uids, StoredRow)
        BY <3>1, RoundIsOneOf DEF AtApply, Records
      <4>2. round.rec[u] \in StoredRow
        BY <3>1, <4>1, PartialFnIs
      <4>3. round.rec[u].msg \in Nat /\ round.rec[u].msg <= came
        BY <3>1, <4>2 DEF StoredRow, Msgs, GivenInv
      <4> QED BY <2>2, <4>3
    <3> QED BY <3>1 DEF Others
  <2> QED BY <2>1, <2>3, <2>4 DEF GivenInv
<1> QED BY <1>1, <1>2

LEMMA OthersKeepOrder ==
  ASSUME Shape, GivenInv, OrderInv, Others
  PROVE  OrderInv'
<1>1. srv.validity \in Nat /\ srv'.validity \in Nat /\ srv.validity <= srv'.validity
  BY ServerFields, OthersGiven DEF Shape
<1>2. token.validity \in Nat /\ rules.mark.validity \in Nat /\ rules.read.validity \in Nat
  BY TokenFields, RuleFields, MarkFields
<1>3. round # Idle => round.now.validity \in Nat
  BY NowFields
<1> QED BY <1>1, <1>2, <1>3 DEF OrderInv, Others

LEMMA OthersKeepNames ==
  ASSUME Shape, GivenInv, OrderInv, NamesInv, Others
  PROVE  NamesInv'
<1>1. UNCHANGED <<rows, token, round>>
  BY DEF Others
<1>2. CASE /\ srv'.validity = srv.validity /\ Alive' = Alive
           /\ \A u \in Shown : u \in Shown' /\ srv'.given[u] = srv.given[u]
           /\ hist' = hist
  <2>1. Names(rows) => Names(rows)'
    BY <1>1, <1>2 DEF Names
  <2>2. Names(round.rec) => Names(round.rec)'
    BY <1>1, <1>2 DEF Names
  <2> QED BY <1>1, <1>2, <2>1, <2>2 DEF NamesInv
<1>3. CASE /\ srv'.validity = srv.validity + 1 /\ ~Alive'
           /\ hist'.mixed = (hist.mixed \/ (token = NoToken /\ DOMAIN rows # {}))
  <2>1. token.validity # srv'.validity
    BY <1>3, TokenFields, ServerFields DEF OrderInv, Shape
  <2>2. token.validity = 0 => token = NoToken
    BY TokenFields
  <2>3. ~hist'.mixed /\ token'.validity \in {0, srv'.validity} => DOMAIN rows' = {}
    BY <1>1, <1>3, <2>1, <2>2
  <2> QED BY <1>3, <2>3 DEF NamesInv, Names
<1> QED BY <1>2, <1>3, OthersGiven

LEMMA OthersKeepNews ==
  ASSUME Shape, GivenInv, OrderInv, BeforeInv, NewsInv, Others
  PROVE  BeforeInv' /\ NewsInv'
<1>1. UNCHANGED <<rows, token, round, rules>>
  BY DEF Others
<1>2. BeforeInv'
  BY <1>1 DEF BeforeInv, Before
<1>3. CASE /\ srv'.validity = srv.validity /\ Alive' = Alive
           /\ \A u \in Shown : u \in Shown' /\ srv'.given[u] = srv.given[u]
           /\ \A u \in Shown' : u \in Shown \/ srv'.given[u] = came + 1
  <2>1. \A u \in DOMAIN rows : rows[u].msg # came + 1
    BY RowFields DEF GivenInv, Shape
  <2>2. \A from : OwnRows(from) =>
                    \A u \in DOMAIN rows : u >= from => u \in Shown' /\ rows[u].msg = srv'.given[u]
    BY <1>3 DEF OwnRows
  <2>3. \A from : NoOtherRow(from) =>
                    \A u \in DOMAIN rows, v \in Shown' :
                       v >= from /\ rows[u].msg = srv'.given[v] => u = v
    BY <1>3, <2>1 DEF NoOtherRow
  <2> QED BY <1>1, <1>2, <1>3, <2>2, <2>3 DEF NewsInv, OwnRows, NoOtherRow
<1>4. CASE srv'.validity = srv.validity + 1 /\ ~Alive'
  <2>1. /\ token.validity # srv'.validity /\ rules.mark.validity # srv'.validity
        /\ rules.read.validity # srv'.validity
    BY <1>4, TokenFields, RuleFields, MarkFields, ServerFields DEF OrderInv, Shape
  <2> QED BY <1>1, <1>2, <1>4, <2>1 DEF NewsInv
<1> QED BY <1>3, <1>4, OthersGiven

LEMMA OthersKeepActs ==
  ASSUME Shape, GivenInv, OrderInv, ActsInv, Others
  PROVE  ActsInv'
<1>1. UNCHANGED <<rows, round, rules>>
  BY DEF Others
<1>2. /\ hist'.acted = hist.acted /\ hist'.twice = hist.twice /\ hist'.swept = hist.swept
      /\ hist'.backlog = hist.backlog /\ hist'.dropped = hist.dropped
  BY OthersHist
<1>3. /\ came \in Nat /\ came' \in Nat /\ came <= came'
      /\ \A m \in hist.acted \cup hist.backlog : m \in Nat /\ m <= came
  BY Constants, HistFields DEF ActsInv, Others, Shape, Msgs
<1>4. \A m \in hist'.acted \cup hist'.backlog : m <= came'
  BY <1>2, <1>3
<1>5. CASE /\ srv'.validity = srv.validity /\ Alive' = Alive
           /\ \A u \in Shown : u \in Shown' /\ srv'.given[u] = srv.given[u]
           /\ \A u \in Shown' : u \in Shown \/ srv'.given[u] = came + 1
  <2>1. \A u \in Shown' :
          Eligible(rules.mark, srv'.validity, u) /\ srv'.given[u] \in hist.acted \cup hist.backlog
            => u \in DOMAIN rows \/ srv'.given[u] \in hist.dropped
    BY <1>3, <1>5 DEF ActsInv
  <2>2. \A S, mark, known : Fresh(S, mark, known) =>
          \A u \in S : /\ u \in Shown'
                       /\ Eligible(mark, srv'.validity, u) /\ srv'.given[u] \in known =>
                            srv'.given[u] \in hist.dropped
    BY <1>5 DEF Fresh
  <2>3. Fresh(round.new, rules.mark, hist.acted \cup hist.backlog) =>
        Fresh(round.new, rules.mark, hist.acted \cup hist.backlog)'
    BY <1>1, <1>2, <2>2 DEF Fresh
  <2>4. \A S, known : Fresh(S, round.mark, known) =>
          \A u \in S : /\ u \in Shown'
                       /\ Eligible(round.mark, srv'.validity, u) /\ srv'.given[u] \in known =>
                            srv'.given[u] \in hist.dropped
    BY <2>2
  <2>5. /\ Fresh(round.new, round.mark, hist.acted \cup round.old) =>
             Fresh(round.new, round.mark, hist.acted \cup round.old)'
        /\ Fresh(DOMAIN round.rec, round.mark, hist.acted \cup round.old) =>
             Fresh(DOMAIN round.rec, round.mark, hist.acted \cup round.old)'
        /\ Fresh(round.ops, round.mark, hist.acted \cup round.old) =>
             Fresh(round.ops, round.mark, hist.acted \cup round.old)'
    BY <1>1, <1>2, <2>4 DEF Fresh
  <2>6. round.pc = "chunks" /\ Alive =>
          \A u \in round.ops : /\ Eligible(round.mark, srv'.validity, u)
                               /\ u \in DOMAIN rows \/ srv'.given[u] \in hist.dropped
    BY <1>5 DEF ActsInv, Fresh
  <2>7. \A S : S \subseteq Shown => S \subseteq Shown'
    BY <1>5
  <2> QED BY <1>1, <1>2, <1>4, <1>5, <2>1, <2>3, <2>5, <2>6, <2>7 DEF ActsInv
<1>6. CASE srv'.validity = srv.validity + 1 /\ ~Alive'
  <2>1. \A u : ~Eligible(rules.mark, srv'.validity, u)
    BY <1>6, RuleFields, MarkFields, ServerFields DEF OrderInv, Eligible, Shape
  <2> QED BY <1>1, <1>2, <1>4, <1>6, <2>1 DEF ActsInv
<1> QED BY <1>5, <1>6, OthersGiven

LEMMA OthersKeepPromise ==
  ASSUME Shape, GivenInv, OrderInv, PromiseInv, Others
  PROVE  PromiseInv'
<1>1. UNCHANGED <<kind, inbox, rows, token, round>> /\ hist'.late = hist.late
  BY OthersHist DEF Others
<1>2. /\ srv \in Server /\ srv.present \subseteq 1..Len(srv.given)
      /\ Takes(srv, srv') \/ Brings(srv, srv') \/ Renumbers(srv, srv')
  BY DEF Shape, GivenInv, Shown, Others
<1>3. \A s \in Answer : s.validity <= srv.validity /\ Past(srv, s) =>
        /\ Past(srv', s)
        /\ Same(srv', s) => /\ Same(srv, s) /\ srv'.present = srv.present /\ srv'.given = srv.given
                            /\ kind # "plain" => srv'.seen = srv.seen
  BY <1>2, AnswersOfBefore
<1>4. token # NoToken =>
        /\ Past(srv', token)
        /\ Same(srv', token) => /\ Same(srv, token) /\ srv'.present = srv.present
                                /\ srv'.given = srv.given
                                /\ kind # "plain" => srv'.seen = srv.seen
  BY <1>3, TokenFields DEF OrderInv, PromiseInv, PastInv
<1>5. round # Idle =>
        /\ Past(srv', round.now)
        /\ Same(srv', round.now) => /\ Same(srv, round.now) /\ srv'.present = srv.present
                                    /\ srv'.given = srv.given
                                    /\ kind # "plain" => srv'.seen = srv.seen
  BY <1>3, NowFields DEF OrderInv, PromiseInv, PastInv
<1>6. /\ token # NoToken => Past(srv, token)' /\ (Same(srv, token)' => Same(srv', token))
      /\ round # Idle => Past(srv, round.now)' /\ (Same(srv, round.now)' => Same(srv', round.now))
  BY <1>1, <1>4, <1>5 DEF Past, Same
<1>7. PastInv'
  BY <1>1, <1>4, <1>6 DEF PromiseInv, PastInv, Counts
<1>8. TokenPromise'
  <2>1. SUFFICES ASSUME ~hist.late, Counts, token # NoToken, Same(srv, token)'
                 PROVE  Shows(DOMAIN rows)' /\ Tells(Marks(rows))'
    BY <1>1 DEF TokenPromise, Counts
  <2>2. /\ Same(srv, token) /\ srv'.present = srv.present /\ srv'.given = srv.given
        /\ kind # "plain" => srv'.seen = srv.seen
    BY <1>4, <1>6, <2>1
  <2>3. Shows(DOMAIN rows) /\ Tells(Marks(rows))
    BY <2>1, <2>2 DEF PromiseInv, TokenPromise
  <2> QED BY <1>1, <2>2, <2>3 DEF Shows, Tells, Marks
<1>9. RoundPromise'
  <2>1. SUFFICES ASSUME ~hist.late, round # Idle, Same(srv, round.now)'
                 PROVE  RoundPromise'
    BY <1>1 DEF RoundPromise
  <2>2. /\ Same(srv, round.now) /\ srv'.present = srv.present /\ srv'.given = srv.given
        /\ kind # "plain" => srv'.seen = srv.seen
    BY <1>5, <1>6, <2>1
  <2>3. /\ round.pc \in {"clear", "window"} => round.view = srv.present
        /\ round.pc = "compare" => Shows(DOMAIN round.flags) /\ Tells(round.flags)
        /\ round.pc = "gone" => Shows(DOMAIN Updated \cup round.new) /\ Tells(Updated)
        /\ round.pc = "chunks" => Shows(DOMAIN rows \cup round.new) /\ Tells(Marks(rows))
        /\ round.pc = "apply" =>
             /\ Shows(DOMAIN rows \cup round.new \cup DOMAIN round.rec)
             /\ Tells(Marks(rows)) /\ Tells(Marks(round.rec))
    BY <2>1, <2>2 DEF PromiseInv, RoundPromise
  <2>4. \A S : Shows(S) => S = Newest(Window, srv'.present)
    BY <2>2 DEF Shows
  <2>5. \A f : Tells(f) => (kind # "plain" => \A u \in DOMAIN f : f[u] = (srv'.given[u] \in srv'.seen))
    BY <2>2 DEF Tells
  <2>6. Updated' = Updated /\ Marks(rows)' = Marks(rows) /\ Marks(round.rec)' = Marks(round.rec)
    BY <1>1 DEF Updated, Marks
  <2> HIDE DEF Updated, Marks
  <2> QED BY <1>1, <2>2, <2>3, <2>4, <2>5, <2>6 DEF RoundPromise, Shows, Tells
<1> QED BY <1>7, <1>8, <1>9 DEF PromiseInv

LEMMA OthersKeepAll == ASSUME IInv, Others PROVE IInv'
  BY OthersKeepShape, OthersKeepOrder, OthersKeepNames, OthersKeepNews, OthersKeepActs,
     OthersKeepPromise DEF IInv

-----------------------------------------------------------------------------
(* What the calls write in the store, a round that is cut and a store that *)
(* is made again: rows are marked or deleted, and a round may be over.     *)

Leaves(S) == DOMAIN rows' = DOMAIN rows \ S /\ \A u \in DOMAIN rows' : rows'[u] = rows[u]

LEMMA WithoutFacts ==
  ASSUME Shape, NEW S, rows' = Without(rows, S)
  PROVE  Leaves(S) /\ rows' \in PartialFn(Uids, StoredRow)
<1>1. Leaves(S)
  BY DEF Without, Leaves
<1>2. rows' \in [DOMAIN rows' -> StoredRow] /\ DOMAIN rows' \subseteq Uids
  <2>1. rows' = [u \in DOMAIN rows' |-> rows[u]]
    BY DEF Without
  <2>2. \A u \in DOMAIN rows' : rows[u] \in StoredRow
    BY <1>1, RowFields DEF Leaves
  <2> QED BY <1>1, <2>1, <2>2, RowFields DEF Leaves
<1> QED BY <1>1, <1>2, PartialFnIs

\* Rows show what they showed, but for those that are gone, and those are dropped.
Lessens ==
  /\ DOMAIN rows' \subseteq DOMAIN rows
  /\ \A u \in DOMAIN rows' : rows'[u].msg = rows[u].msg
  /\ \A u \in DOMAIN rows : u \in DOMAIN rows' \/ rows[u].msg \in hist'.dropped

Stores ==
  /\ UNCHANGED <<kind, inbox, srv, came>>
  /\ bound' <= bound /\ round' \in {round, Idle}
  /\ Lessens
  /\ \/ token' = token
     \/ token' = NoToken /\ round' = Idle /\ DOMAIN rows' = {}
  /\ rules'.mark = rules.mark
  /\ \/ rules'.read \in {rules.read, NoMark}
     \/ token # NoToken /\ rules'.read = [validity |-> token.validity, from |-> token.next]
  /\ hist'.acted = hist.acted /\ hist'.backlog = hist.backlog /\ hist'.twice = hist.twice
  /\ hist'.swept = hist.swept /\ hist'.mixed = hist.mixed
  /\ hist.dropped \subseteq hist'.dropped

\* Nothing is promised any more, or the rows of the messages the server has are still
\* there, and are marked as they were or as it says.
Tell ==
  ~hist'.late /\ (token' # NoToken \/ round' # Idle) =>
    /\ ~hist.late
    /\ \A u \in DOMAIN rows \cap srv.present :
         /\ u \in DOMAIN rows'
         /\ rows'[u].seen \in {rows[u].seen, srv.given[u] \in srv.seen}

LEMMA StoresKeepsGiven ==
  ASSUME Shape, GivenInv, Stores, bound' \in Nat
  PROVE  GivenInv'
<1>1. srv.validity \in Nat /\ bound \in Nat /\ MaxEvents \in Nat
  BY Constants, ServerFields DEF Shape
<1>2. srv'.validity \in 1..MaxEvents + 1 - bound'
  BY <1>1 DEF GivenInv, Stores
<1>3. \A u \in DOMAIN rows' : rows'[u].msg <= came'
  BY DEF Stores, Lessens, GivenInv
<1>4. round'.pc = "apply" => \A u \in DOMAIN round'.rec : round'.rec[u].msg <= came'
  BY DEF Stores, Idle, GivenInv
<1> QED BY <1>2, <1>3, <1>4 DEF GivenInv, Stores, Shown

LEMMA StoresKeepsOrder ==
  ASSUME Shape, OrderInv, Stores
  PROVE  OrderInv'
<1>1. /\ token.validity \in Nat /\ srv.validity \in Nat
      /\ NoMark.validity = 0 /\ NoToken.validity = 0
  BY TokenFields, ServerFields DEF Shape, NoMark, NoToken
<1>2. round # Idle => round.now.validity \in Nat
  BY NowFields
<1>3. UNCHANGED srv /\ rules'.mark = rules.mark
  BY DEF Stores
<1>4. /\ rules'.read.validity <= srv.validity
      /\ token # NoToken => rules'.read.validity <= token.validity
      /\ round # Idle => rules'.read.validity <= round.now.validity
  BY <1>1, <1>2 DEF Stores, OrderInv
<1>5. CASE token' = token /\ round' = round
  BY <1>3, <1>4, <1>5 DEF OrderInv
<1>6. CASE token' = token /\ round' = Idle
  BY <1>3, <1>4, <1>6 DEF OrderInv, Idle
<1>7. CASE token' = NoToken /\ round' = Idle
  BY <1>1, <1>3, <1>4, <1>7 DEF OrderInv, Idle
<1> QED BY <1>5, <1>6, <1>7 DEF Stores

LEMMA StoresKeepsNames ==
  ASSUME Shape, NamesInv, BeforeInv, Stores
  PROVE  NamesInv' /\ BeforeInv'
<1>1. Names(rows) => Names(rows)'
  BY DEF Names, Stores, Lessens, Shown
<1>2. Names(round.rec) => (round' = round => Names(round.rec)')
  BY DEF Names, Stores, Shown
<1>3. Alive' => Alive /\ round' = round
  BY DEF Stores, Alive, Idle
<1>4. NamesInv'
  <2>1. ~hist'.mixed /\ token'.validity \in {0, srv'.validity} => Names(rows)'
    <3>1. CASE token' = token
      BY <1>1, <3>1 DEF Stores, NamesInv
    <3>2. CASE DOMAIN rows' = {}
      BY <3>2 DEF Names
    <3> QED BY <3>1, <3>2 DEF Stores
  <2> QED BY <1>1, <1>2, <1>3, <2>1 DEF NamesInv, Stores
<1>5. BeforeInv'
  <2>1. CASE round' = round
    BY <2>1 DEF BeforeInv, Before, Stores, Lessens
  <2>2. CASE round' = Idle
    BY <2>2 DEF BeforeInv, Idle
  <2> QED BY <2>1, <2>2 DEF Stores
<1> QED BY <1>4, <1>5

LEMMA StoresKeepsNews ==
  ASSUME Shape, GivenInv, NewsInv, Stores
  PROVE  NewsInv'
<1>1. /\ \A from : OwnRows(from) =>
           \A u \in DOMAIN rows' : u >= from => u \in Shown /\ rows'[u].msg = srv.given[u]
      /\ \A from : NoOtherRow(from) =>
           \A u \in DOMAIN rows', v \in Shown : v >= from /\ rows'[u].msg = srv.given[v] => u = v
  BY DEF Stores, Lessens, OwnRows, NoOtherRow
<1>2. /\ srv' = srv /\ Shown' = Shown /\ NoMark.validity = 0 /\ NoToken.validity = 0
      /\ srv.validity # 0 /\ rules'.mark = rules.mark
      /\ (Alive' => Alive /\ round' = round)
  BY DEF Stores, GivenInv, NoMark, NoToken, Shown, Alive, Idle
<1>3. token'.validity = srv.validity => OwnRows(token.next)' /\ NoOtherRow(token.next)'
  BY <1>1, <1>2 DEF Stores, NewsInv, OwnRows, NoOtherRow
<1>4. rules'.read.validity = srv.validity =>
        OwnRows(rules.read.from)' /\ NoOtherRow(rules.read.from)'
  <2>1. CASE rules'.read = rules.read
    BY <1>1, <1>2, <2>1 DEF NewsInv, OwnRows, NoOtherRow
  <2>2. CASE rules'.read = NoMark
    BY <1>2, <2>2
  <2>3. CASE rules'.read = [validity |-> token.validity, from |-> token.next]
    BY <1>1, <1>2, <2>3 DEF NewsInv, OwnRows, NoOtherRow
  <2> QED BY <2>1, <2>2, <2>3 DEF Stores
<1>5. rules'.mark.validity = srv.validity =>
        OwnRows(rules.mark.from)' /\ NoOtherRow(rules.mark.from)'
  BY <1>1, <1>2 DEF NewsInv, OwnRows, NoOtherRow
<1>6. Alive' => NoOtherRow(round.now.next)'
  BY <1>1, <1>2 DEF NewsInv, NoOtherRow
<1> QED BY <1>2, <1>3, <1>4, <1>5, <1>6 DEF NewsInv

\* The rows of the messages rules may act on are theirs.
LEMMA NewsAreTheirs ==
  ASSUME Shape, NewsInv, NEW u \in DOMAIN rows, Eligible(rules.mark, srv.validity, u)
  PROVE  u \in Shown /\ rows[u].msg = srv.given[u]
  BY DEF NewsInv, OwnRows, Eligible

LEMMA StoresKeepsActs ==
  ASSUME Shape, NewsInv, ActsInv, Stores
  PROVE  ActsInv'
<1>1. /\ srv' = srv /\ Shown' = Shown /\ came' = came /\ rules'.mark = rules.mark
      /\ hist'.acted = hist.acted /\ hist'.backlog = hist.backlog /\ hist'.twice = hist.twice
      /\ hist'.swept = hist.swept /\ hist.dropped \subseteq hist'.dropped
      /\ DOMAIN rows' \subseteq DOMAIN rows
  BY DEF Stores, Shown, Lessens
<1>2. ASSUME NEW u \in DOMAIN rows, Eligible(rules.mark, srv.validity, u)
      PROVE  u \in DOMAIN rows' \/ srv.given[u] \in hist'.dropped
  BY <1>2, NewsAreTheirs DEF Stores, Lessens
<1>3. \A u \in Shown :
        Eligible(rules.mark, srv.validity, u) /\ srv.given[u] \in hist.acted \cup hist.backlog
          => u \in DOMAIN rows' \/ srv.given[u] \in hist'.dropped
  BY <1>1, <1>2 DEF ActsInv
<1>4. \A S, mark, known : Fresh(S, mark, known) =>
        \A u \in S : /\ u \in Shown
                     /\ Eligible(mark, srv.validity, u) /\ srv.given[u] \in known =>
                          srv.given[u] \in hist'.dropped
  BY <1>1 DEF Fresh
<1>5. CASE round' = Idle
  BY <1>1, <1>3, <1>5 DEF ActsInv, Idle
<1>6. CASE round' = round
  <2>1. Alive' = Alive
    BY <1>1, <1>6 DEF Alive
  <2>2. /\ Fresh(round.new, rules.mark, hist.acted \cup hist.backlog) =>
             Fresh(round.new, rules.mark, hist.acted \cup hist.backlog)'
        /\ Fresh(round.new, round.mark, hist.acted \cup round.old) =>
             Fresh(round.new, round.mark, hist.acted \cup round.old)'
        /\ Fresh(DOMAIN round.rec, round.mark, hist.acted \cup round.old) =>
             Fresh(DOMAIN round.rec, round.mark, hist.acted \cup round.old)'
        /\ Fresh(round.ops, round.mark, hist.acted \cup round.old) =>
             Fresh(round.ops, round.mark, hist.acted \cup round.old)'
    BY <1>1, <1>4, <1>6 DEF Fresh
  <2>3. ASSUME round.pc = "chunks", Alive, NEW u \in round.ops
        PROVE  u \in DOMAIN rows' \/ srv.given[u] \in hist'.dropped
    <3>1. Eligible(round.mark, srv.validity, u) /\ round.mark \in {NoMark, rules.mark}
          /\ (u \in DOMAIN rows \/ srv.given[u] \in hist.dropped)
      BY <2>3 DEF ActsInv
    <3>2. round.mark = rules.mark
      BY <3>1 DEF Eligible, NoMark
    <3> QED BY <1>1, <1>2, <3>1, <3>2
  <2> QED BY <1>1, <1>3, <1>6, <2>1, <2>2, <2>3 DEF ActsInv
<1> QED BY <1>5, <1>6 DEF Stores

LEMMA StoresKeepsPromise ==
  ASSUME Shape, GivenInv, PromiseInv, Stores, Tell
  PROVE  PromiseInv'
<1>1. UNCHANGED <<kind, inbox, srv>>
  BY DEF Stores
<1>2. PastInv'
  <2>1. token' \in {token, NoToken} /\ round' \in {round, Idle}
    BY DEF Stores
  <2> QED BY <1>1, <2>1 DEF PromiseInv, PastInv, Past, Same, Counts
<1>3. Newest(Window, srv.present) \subseteq srv.present
  BY ServerFields, NewestAreFew, Constants DEF Shape
<1>4. ASSUME ~hist'.late, token' # NoToken \/ round' # Idle,
             NEW S \in SUBSET DOMAIN rows, S \subseteq srv.present
      PROVE  /\ S \subseteq DOMAIN rows'
             /\ \A u \in S : rows'[u].seen \in {rows[u].seen, srv.given[u] \in srv.seen}
  BY <1>4 DEF Tell
<1>5. TokenPromise'
  <2>1. SUFFICES ASSUME ~hist'.late, Counts, token # NoToken, token' = token, Same(srv, token)
                 PROVE  Shows(DOMAIN rows)' /\ Tells(Marks(rows))'
    BY <1>1 DEF TokenPromise, Counts, Stores, Same
  <2>2. Shows(DOMAIN rows) /\ Tells(Marks(rows))
    BY <2>1 DEF PromiseInv, TokenPromise, Tell
  <2>3. DOMAIN rows \subseteq DOMAIN rows'
    BY <1>3, <1>4, <2>1, <2>2 DEF Shows
  <2>4. DOMAIN rows' = DOMAIN rows
    BY <2>3 DEF Stores, Lessens
  <2>5. \A u \in DOMAIN rows' : rows'[u].seen \in {rows[u].seen, srv.given[u] \in srv.seen}
    BY <1>3, <1>4, <2>1, <2>2, <2>4 DEF Shows
  <2> QED BY <1>1, <2>2, <2>4, <2>5 DEF Shows, Tells, Marks
<1>6. RoundPromise'
  <2>1. SUFFICES ASSUME ~hist'.late, round # Idle, round' = round, Same(srv, round.now)
                 PROVE  RoundPromise'
    BY <1>1 DEF RoundPromise, Stores, Same
  <2>2. /\ round.pc \in {"clear", "window"} => round.view = srv.present
        /\ round.pc = "compare" => Shows(DOMAIN round.flags) /\ Tells(round.flags)
        /\ round.pc = "gone" => Shows(DOMAIN Updated \cup round.new) /\ Tells(Updated)
        /\ round.pc = "chunks" => Shows(DOMAIN rows \cup round.new) /\ Tells(Marks(rows))
        /\ round.pc = "apply" =>
             /\ Shows(DOMAIN rows \cup round.new \cup DOMAIN round.rec)
             /\ Tells(Marks(rows)) /\ Tells(Marks(round.rec))
    BY <2>1 DEF PromiseInv, RoundPromise, Tell
  <2>3. round.pc = "compare" => Shows(DOMAIN round.flags)' /\ Tells(round.flags)'
    BY <1>1, <2>1, <2>2 DEF Shows, Tells
  <2>4. ASSUME DOMAIN rows \subseteq srv.present, Tells(Marks(rows))
        PROVE  DOMAIN rows' = DOMAIN rows /\ Tells(Marks(rows))'
    <3>1. DOMAIN rows' = DOMAIN rows
      BY <1>4, <2>1, <2>4 DEF Stores, Lessens
    <3>2. \A u \in DOMAIN rows' : rows'[u].seen \in {rows[u].seen, srv.given[u] \in srv.seen}
      BY <1>4, <2>1, <2>4, <3>1
    <3> QED BY <1>1, <2>4, <3>1, <3>2 DEF Tells, Marks
  <2>5. round.pc = "chunks" => Shows(DOMAIN rows \cup round.new)' /\ Tells(Marks(rows))'
    <3>1. round.pc = "chunks" => DOMAIN rows \subseteq srv.present
      BY <1>3, <2>2 DEF Shows
    <3> QED BY <1>1, <2>1, <2>2, <2>4, <3>1 DEF Shows
  <2>6. round.pc = "apply" =>
          /\ Shows(DOMAIN rows \cup round.new \cup DOMAIN round.rec)'
          /\ Tells(Marks(rows))' /\ Tells(Marks(round.rec))'
    <3>1. round.pc = "apply" => DOMAIN rows \subseteq srv.present
      BY <1>3, <2>2 DEF Shows
    <3>2. Tells(Marks(round.rec)) => Tells(Marks(round.rec))'
      BY <1>1, <2>1 DEF Tells, Marks
    <3> QED BY <1>1, <2>1, <2>2, <2>4, <3>1, <3>2 DEF Shows
  <2>7. ASSUME round.pc = "gone" PROVE Shows(DOMAIN Updated \cup round.new)' /\ Tells(Updated)'
    <3> DEFINE kept == DOMAIN rows \ round.gone
    <3>1. DOMAIN Updated = kept /\ DOMAIN Updated' = DOMAIN rows' \ round.gone
      BY <2>1 DEF Updated
    <3>2. kept \subseteq srv.present
      BY <1>3, <2>2, <2>7, <3>1 DEF Shows
    <3>3. /\ kept \subseteq DOMAIN rows'
          /\ \A u \in kept : rows'[u].seen \in {rows[u].seen, srv.given[u] \in srv.seen}
      BY <1>4, <2>1, <3>2
    <3>4. DOMAIN Updated' = kept
      BY <3>1, <3>3 DEF Stores, Lessens
    <3>5. \A u \in kept : Updated'[u] \in {Updated[u], srv.given[u] \in srv.seen}
      BY <2>1, <3>1, <3>3, <3>4 DEF Updated
    <3>6. Shows(DOMAIN Updated \cup round.new)'
      BY <1>1, <2>1, <2>2, <2>7, <3>1, <3>4 DEF Shows
    <3>7. Tells(Updated)'
      <4> HIDE DEF kept
      <4>1. Tells(Updated)
        BY <2>2, <2>7
      <4> QED BY <1>1, <3>1, <3>4, <3>5, <4>1 DEF Tells
    <3> QED BY <3>6, <3>7
  <2> QED BY <1>1, <2>1, <2>2, <2>3, <2>5, <2>6, <2>7 DEF RoundPromise
<1> QED BY <1>2, <1>5, <1>6 DEF PromiseInv

LEMMA StoresKeepsAll ==
  ASSUME IInv, Stores, Tell, Shape'
  PROVE  IInv'
<1>1. bound' \in Nat
  BY DEF Shape
<1> QED BY <1>1, StoresKeepsGiven, StoresKeepsOrder, StoresKeepsNames, StoresKeepsNews,
           StoresKeepsActs, StoresKeepsPromise DEF IInv

LEMMA SameRows ==
  ASSUME UNCHANGED rows, hist' = hist
  PROVE  Lessens /\ Tell
  BY DEF Lessens, Tell

\* Deleting rows and keeping which messages they had.
LEMMA DropFacts ==
  ASSUME Shape, NEW S
  PROVE  /\ Drop(S) \in History
         /\ Drop(S).dropped = hist.dropped \cup {rows[u].msg : u \in S \cap DOMAIN rows}
         /\ Drop(S).acted = hist.acted /\ Drop(S).backlog = hist.backlog
         /\ Drop(S).twice = hist.twice /\ Drop(S).swept = hist.swept
         /\ Drop(S).mixed = hist.mixed /\ Drop(S).late = hist.late
<1>1. PICK D : D = hist.dropped \cup {rows[u].msg : u \in S \cap DOMAIN rows}
  OBVIOUS
<1>2. D \in SUBSET Msgs
  BY <1>1, RowFields, HistFields
<1>3. hist \in History /\ Drop(S) = [hist EXCEPT !.dropped = D]
  BY <1>1 DEF Shape, Drop, History
<1> QED BY <1>1, <1>2, <1>3 DEF History

LEMMA StoreMarkSeenStores ==
  ASSUME Shape, StoreMarkSeen
  PROVE  Shape' /\ Stores /\ Tell
<1> DEFINE u == call.uid
           stale == u \in DOMAIN rows /\ ~rows[u].seen /\ u \in srv.present
                    /\ srv.given[u] \notin srv.seen
<1>1. /\ rows' = IF u \in DOMAIN rows THEN [rows EXCEPT ![u].seen = TRUE] ELSE rows
      /\ hist' = [hist EXCEPT !.late = @ \/ stale]
      /\ UNCHANGED <<kind, inbox, srv, came, token, round, rules, bound>> /\ call' = NoCall
  BY DEF StoreMarkSeen
<1>2. /\ DOMAIN rows' = DOMAIN rows
      /\ \A v \in DOMAIN rows : /\ rows'[v] \in StoredRow /\ rows'[v].msg = rows[v].msg
                                /\ rows'[v].seen = IF v = u THEN TRUE ELSE rows[v].seen
  <2>1. \A v \in DOMAIN rows : rows[v] \in StoredRow
    BY RowFields
  <2>2. \A r \in StoredRow : /\ [r EXCEPT !.seen = TRUE] \in StoredRow
                             /\ [r EXCEPT !.seen = TRUE].msg = r.msg
                             /\ [r EXCEPT !.seen = TRUE].seen = TRUE /\ r.seen \in BOOLEAN
    BY DEF StoredRow
  <2>3. CASE u \notin DOMAIN rows
    BY <1>1, <2>1, <2>2, <2>3
  <2>4. CASE u \in DOMAIN rows
    <3>1. rows' = [rows EXCEPT ![u] = [rows[u] EXCEPT !.seen = TRUE]]
      BY <1>1, <2>4
    <3>2. DOMAIN rows' = DOMAIN rows /\ rows'[u] = [rows[u] EXCEPT !.seen = TRUE]
          /\ \A v \in DOMAIN rows \ {u} : rows'[v] = rows[v]
      BY <2>4, <3>1
    <3> HIDE DEF u
    <3>3. /\ rows'[u] \in StoredRow /\ rows'[u].msg = rows[u].msg /\ rows'[u].seen = TRUE
      <4>1. rows[u] \in StoredRow
        BY <2>1, <2>4
      <4> QED BY <2>2, <3>2, <4>1
    <3>4. \A v \in DOMAIN rows \ {u} :
            rows'[v] \in StoredRow /\ rows'[v].msg = rows[v].msg /\ rows'[v].seen = rows[v].seen
      BY <2>1, <3>2
    <3> QED BY <3>2, <3>3, <3>4
  <2> QED BY <2>3, <2>4
<1> HIDE DEF stale
<1>3. PICK b \in BOOLEAN : b = (hist.late \/ stale)
  <2>1. (hist.late \/ stale) \in BOOLEAN
    BY Zenon
  <2> QED BY <2>1
<1>4. /\ hist' \in History /\ hist'.acted = hist.acted /\ hist'.backlog = hist.backlog
      /\ hist'.twice = hist.twice /\ hist'.swept = hist.swept /\ hist'.mixed = hist.mixed
      /\ hist'.dropped = hist.dropped /\ hist'.late = b
  <2>1. hist' = [hist EXCEPT !.late = b] /\ hist \in History
    BY <1>1, <1>3 DEF Shape, History
  <2> QED BY <2>1 DEF History
<1>5. Shape'
  <2>1. rows' \in PartialFn(Uids, StoredRow)
    <3>1. rows' \in [DOMAIN rows' -> StoredRow]
      <4>1. rows' = [v \in DOMAIN rows |-> rows'[v]]
        <5>1. CASE u \in DOMAIN rows
          BY <1>1, <5>1
        <5>2. CASE u \notin DOMAIN rows
          BY <1>1, <5>2, RowFields
        <5> QED BY <5>1, <5>2
      <4> QED BY <1>2, <4>1
    <3> QED BY <1>2, <3>1, RowFields, PartialFnIs
  <2> QED BY <1>1, <1>4, <2>1 DEF Shape, RoundShape, Call
<1>6. Stores
  <2>1. Lessens
    BY <1>2 DEF Lessens
  <2>2. bound' <= bound
    BY <1>1 DEF Shape
  <2> QED BY <1>1, <1>4, <2>1, <2>2 DEF Stores
<1>7. Tell
  <2>1. ASSUME ~hist'.late, NEW v \in DOMAIN rows \cap srv.present
        PROVE  rows'[v].seen \in {rows[v].seen, srv.given[v] \in srv.seen}
    <3>1. ~(hist.late \/ stale)
      BY <1>3, <1>4, <2>1
    <3> USE DEF stale
    <3>2. CASE v # u \/ rows[v].seen
      <4>1. rows[v].seen \in BOOLEAN
        BY <2>1, RowFields
      <4> QED BY <1>2, <2>1, <3>2, <4>1
    <3>3. CASE v = u /\ ~rows[v].seen
      BY <1>2, <2>1, <3>1, <3>3
    <3> QED BY <3>2, <3>3
  <2>2. ~hist'.late => ~hist.late
    BY <1>3, <1>4
  <2> QED BY <1>2, <2>1, <2>2 DEF Tell
<1> QED BY <1>5, <1>6, <1>7

LEMMA StoreForgetStores ==
  ASSUME Shape, StoreForget
  PROVE  Shape' /\ Stores /\ Tell
<1>1. PICK u : u = call.uid
  OBVIOUS
<1>2. /\ rows' = Without(rows, {u})
      /\ hist' = [Drop({u}) EXCEPT !.late = @ \/ u \in DOMAIN rows \cap srv.present]
      /\ UNCHANGED <<kind, inbox, srv, came, token, round, rules, bound>> /\ call' = NoCall
  BY <1>1 DEF StoreForget
<1>3. PICK d \in History : d = Drop({u})
  BY DropFacts
<1>4. PICK b \in BOOLEAN : b = (d.late \/ u \in DOMAIN rows \cap srv.present)
  BY DEF History
<1>5. hist' = [d EXCEPT !.late = b]
  BY <1>2, <1>3, <1>4 DEF History
<1>6. /\ hist' \in History /\ hist'.acted = d.acted /\ hist'.backlog = d.backlog
      /\ hist'.twice = d.twice /\ hist'.swept = d.swept /\ hist'.mixed = d.mixed
      /\ hist'.dropped = d.dropped /\ hist'.late = b
  BY <1>5 DEF History
<1>7. Leaves({u}) /\ rows' \in PartialFn(Uids, StoredRow)
  BY <1>2, WithoutFacts
<1>8. Shape'
  BY <1>2, <1>6, <1>7 DEF Shape, RoundShape, Call
<1>9. d.dropped = hist.dropped \cup {rows[v].msg : v \in {u} \cap DOMAIN rows}
  BY <1>3, DropFacts
<1>10. Lessens
  BY <1>6, <1>7, <1>9 DEF Leaves, Lessens
<1>11. Stores
  <2>1. bound' <= bound
    BY <1>2 DEF Shape
  <2>2. hist.dropped \subseteq hist'.dropped
    BY <1>6, <1>9
  <2>3. /\ hist'.acted = hist.acted /\ hist'.backlog = hist.backlog /\ hist'.twice = hist.twice
        /\ hist'.swept = hist.swept /\ hist'.mixed = hist.mixed
    BY <1>3, <1>6, DropFacts
  <2> QED BY <1>2, <1>10, <2>1, <2>2, <2>3 DEF Stores
<1>12. Tell
  <2>1. d.late = hist.late
    BY <1>3, DropFacts
  <2> QED BY <1>4, <1>6, <1>7, <2>1 DEF Leaves, Tell
<1> QED BY <1>8, <1>11, <1>12

LEMMA OtherStores ==
  ASSUME Shape, StoreFails \/ AskRule \/ Cut
  PROVE  Shape' /\ Stores /\ Tell
<1>1. /\ UNCHANGED <<kind, inbox, srv, came, rows, token, hist>>
      /\ bound' \in Nat /\ bound' <= bound /\ call' \in Call
      /\ round' \in {round, Idle} /\ rules'.mark = rules.mark
      /\ rules' \in [mark : Mark, read : Mark, asking : BOOLEAN]
      /\ \/ rules'.read \in {rules.read, NoMark}
         \/ token # NoToken /\ rules'.read = [validity |-> token.validity, from |-> token.next]
  <2>1. bound \in Nat /\ call \in Call /\ rules \in [mark : Mark, read : Mark, asking : BOOLEAN]
        /\ NoMark \in Mark /\ NoCall \in Call
    BY DEF Shape, Mark, Call
  <2>2. CASE StoreFails
    BY <2>1, <2>2, EventFacts DEF StoreFails
  <2>3. CASE AskRule
    <3>1. PICK m : m = IF token = NoToken THEN NoMark
                       ELSE [validity |-> token.validity, from |-> token.next]
      OBVIOUS
    <3>2. m \in Mark
      BY <2>1, <3>1, TokenFields DEF Mark, Answer
    <3>3. rules' = [rules EXCEPT !.asking = TRUE, !.read = m]
      BY <2>3, <3>1 DEF AskRule
    <3>4. rules'.mark = rules.mark /\ rules'.read = m
          /\ rules' \in [mark : Mark, read : Mark, asking : BOOLEAN]
      BY <2>1, <3>2, <3>3
    <3> QED BY <2>1, <2>3, <3>1, <3>4, EventFacts DEF AskRule
  <2>4. CASE Cut
    <3>1. UNCHANGED <<kind, inbox, srv, came, rows, token, hist>> /\ round' = Idle
      BY <2>4 DEF Cut
    <3>2. CASE Event /\ UNCHANGED <<call, rules>>
      BY <2>1, <3>1, <3>2, EventFacts
    <3>3. CASE Event /\ call' = NoCall /\ rules' = [rules EXCEPT !.asking = FALSE, !.read = NoMark]
      BY <2>1, <3>1, <3>3, EventFacts
    <3>4. CASE UNCHANGED <<bound, call, rules>>
      BY <2>1, <3>1, <3>4
    <3> QED BY <2>4, <3>2, <3>3, <3>4 DEF Cut
  <2> QED BY <2>2, <2>3, <2>4
<1>2. Lessens /\ Tell
  BY <1>1, SameRows
<1>3. Stores
  BY <1>1, <1>2 DEF Stores
<1>4. Shape'
  <2>1. RoundShape'
    BY <1>1 DEF Shape, RoundShape, Idle
  <2> QED BY <1>1, <2>1 DEF Shape
<1> QED BY <1>2, <1>3, <1>4

LEMMA RebuildStores ==
  ASSUME Shape, Rebuild
  PROVE  Shape' /\ Stores /\ Tell
<1>1. /\ round' = Idle /\ rows' = Empty /\ token' = NoToken /\ hist' = Drop(DOMAIN rows)
      /\ UNCHANGED <<kind, inbox, srv, came, call, rules>>
      /\ bound' \in Nat /\ bound' <= bound
  BY EventFacts DEF Rebuild
<1>2. DOMAIN rows' = {} /\ rows' \in [DOMAIN rows' -> StoredRow]
  BY <1>1 DEF Empty
<1>3. /\ hist' \in History
      /\ hist'.dropped = hist.dropped \cup {rows[u].msg : u \in DOMAIN rows \cap DOMAIN rows}
      /\ hist'.acted = hist.acted /\ hist'.backlog = hist.backlog
      /\ hist'.twice = hist.twice /\ hist'.swept = hist.swept
      /\ hist'.mixed = hist.mixed /\ hist'.late = hist.late
  BY <1>1, DropFacts
<1>4. Shape'
  <2>1. rows' \in PartialFn(Uids, StoredRow)
    BY <1>2, PartialFnIs
  <2> QED BY <1>1, <1>3, <2>1 DEF Shape, RoundShape, Idle, Token
<1>5. Stores
  <2>1. Lessens
    BY <1>2, <1>3 DEF Lessens
  <2> QED BY <1>1, <1>2, <1>3, <2>1 DEF Stores
<1>6. Tell
  BY <1>1 DEF Tell
<1> QED BY <1>4, <1>5, <1>6

-----------------------------------------------------------------------------
\* A rule is made: the first one fixes the mark, and what is stored is not for them.
LEMMA MakeRuleKeeps ==
  ASSUME IInv, MakeRule
  PROVE  IInv'
<1>1. PICK mark : mark = IF rules.mark = NoMark THEN rules.read ELSE rules.mark
  OBVIOUS
<1>2. /\ rules' = [asking |-> FALSE, read |-> NoMark, mark |-> mark]
      /\ hist' = IF mark # NoMark THEN [hist EXCEPT !.backlog = @ \cup Held(rows)] ELSE hist
      /\ UNCHANGED <<kind, inbox, srv, came, rows, token, round, call, bound>>
  BY <1>1 DEF MakeRule
<1>3. Shape /\ GivenInv /\ OrderInv /\ NamesInv /\ BeforeInv /\ NewsInv /\ ActsInv /\ PromiseInv
  BY DEF IInv
<1>4. /\ rules'.mark = mark /\ rules'.read = NoMark /\ mark \in Mark /\ NoMark \in Mark
      /\ NoMark.validity = 0 /\ rules' \in [mark : Mark, read : Mark, asking : BOOLEAN]
  BY <1>1, <1>2, <1>3, RuleFields DEF NoMark, Mark
<1>5. PICK B : B = IF mark # NoMark THEN hist.backlog \cup Held(rows) ELSE hist.backlog
  OBVIOUS
<1>6. /\ hist' \in History /\ hist'.backlog = B /\ hist'.acted = hist.acted
      /\ hist'.twice = hist.twice /\ hist'.swept = hist.swept /\ hist'.dropped = hist.dropped
      /\ hist'.mixed = hist.mixed /\ hist'.late = hist.late
  <2>1. B \in SUBSET Msgs
    BY <1>3, <1>5, HistFields, RowFields DEF Held
  <2>2. hist \in History /\ hist' = [hist EXCEPT !.backlog = B]
    BY <1>2, <1>3, <1>5 DEF Shape, History
  <2> QED BY <2>1, <2>2 DEF History
<1>7. Shape' /\ GivenInv'
  BY <1>2, <1>3, <1>4, <1>6 DEF Shape, GivenInv, RoundShape, Shown
<1>8. OrderInv'
  <2>1. srv.validity \in Nat /\ token.validity \in Nat /\ (round # Idle => round.now.validity \in Nat)
    BY <1>3, ServerFields, TokenFields, NowFields DEF Shape
  <2> QED BY <1>1, <1>2, <1>3, <1>4, <2>1 DEF OrderInv
<1>9. NamesInv' /\ BeforeInv'
  BY <1>2, <1>3, <1>6 DEF NamesInv, BeforeInv, Names, Before, Alive, Shown
<1>10. NewsInv'
  <2>1. srv.validity # 0
    BY <1>3 DEF GivenInv
  <2>2. mark.validity = srv.validity => OwnRows(mark.from) /\ NoOtherRow(mark.from)
    BY <1>1, <1>3 DEF NewsInv
  <2> QED BY <1>2, <1>3, <1>4, <2>1, <2>2 DEF NewsInv, OwnRows, NoOtherRow, Alive, Shown
<1>11. ActsInv'
  <2>1. \A m \in hist'.acted \cup hist'.backlog : m <= came
    BY <1>3, <1>5, <1>6 DEF ActsInv, GivenInv, Held
  <2>2. ASSUME NEW u \in Shown, Eligible(mark, srv.validity, u),
               srv.given[u] \in hist.acted \cup B
        PROVE  \/ u \in DOMAIN rows
               \/ mark = rules.mark /\ srv.given[u] \in hist.acted \cup hist.backlog
    <3>1. mark # NoMark
      BY <2>2 DEF Eligible, NoMark
    <3>2. CASE srv.given[u] \in hist.acted \cup hist.backlog
      BY <1>1, <1>3, <3>2 DEF ActsInv
    <3>3. CASE srv.given[u] \in Held(rows)
      <4>1. PICK v \in DOMAIN rows : rows[v].msg = srv.given[u]
        BY <3>3 DEF Held
      <4>2. NoOtherRow(mark.from) /\ u >= mark.from
        BY <1>1, <1>3, <2>2 DEF NewsInv, Eligible
      <4> QED BY <4>1, <4>2 DEF NoOtherRow
    <3> QED BY <1>5, <2>2, <3>1, <3>2, <3>3
  <2>3. \A u \in Shown : Eligible(mark, srv.validity, u) /\ srv.given[u] \in hist.acted \cup B
          => u \in DOMAIN rows \/ srv.given[u] \in hist.dropped
    BY <1>3, <2>2 DEF ActsInv
  <2>4. round.pc = "gone" /\ Alive => Fresh(round.new, rules.mark, hist.acted \cup hist.backlog)'
    <3>1. ASSUME round.pc = "gone", Alive, NEW u \in round.new
          PROVE  /\ u \in Shown
                 /\ Eligible(mark, srv.validity, u) /\ srv.given[u] \in hist.acted \cup B =>
                      srv.given[u] \in hist.dropped
      <4>1. u \in Shown /\ u \notin DOMAIN rows
        BY <1>3, <3>1 DEF ActsInv, Fresh
      <4>2. Eligible(rules.mark, srv.validity, u) /\ srv.given[u] \in hist.acted \cup hist.backlog
              => srv.given[u] \in hist.dropped
        BY <1>3, <3>1 DEF ActsInv, Fresh
      <4> QED BY <2>2, <4>1, <4>2
    <3> QED BY <1>2, <1>4, <1>6, <3>1 DEF Fresh, Shown
  <2>5. round.pc \in {"chunks", "apply"} => round.mark \in {NoMark, mark}
    BY <1>1, <1>3 DEF ActsInv
  <2>6. /\ Fresh(round.new, round.mark, hist.acted \cup round.old) =>
             Fresh(round.new, round.mark, hist.acted \cup round.old)'
        /\ Fresh(DOMAIN round.rec, round.mark, hist.acted \cup round.old) =>
             Fresh(DOMAIN round.rec, round.mark, hist.acted \cup round.old)'
        /\ Fresh(round.ops, round.mark, hist.acted \cup round.old) =>
             Fresh(round.ops, round.mark, hist.acted \cup round.old)'
    BY <1>2, <1>6 DEF Fresh, Shown
  <2>7. Alive' = Alive /\ Shown' = Shown
    BY <1>2 DEF Alive, Shown
  <2>8. mark = NoMark => hist'.acted = {} /\ hist'.backlog = {}
    <3>1. mark = NoMark => rules.mark = NoMark
      BY <1>1
    <3> QED BY <1>3, <1>5, <1>6, <3>1 DEF ActsInv
  <2>9. /\ round.pc \in {"clear", "window"} /\ Alive => round.view \subseteq Shown
        /\ round.pc = "compare" /\ Alive => DOMAIN round.flags \subseteq Shown
        /\ round.pc = "gone" => round.new \cap DOMAIN rows = {}
        /\ round.pc \in {"chunks", "apply"} =>
             (Alive => Fresh(round.new, round.mark, hist.acted \cup round.old))
        /\ round.pc = "apply" =>
             /\ round.new \cap DOMAIN round.rec = {}
             /\ Alive => Fresh(DOMAIN round.rec, round.mark, hist.acted \cup round.old)
        /\ round.pc = "chunks" =>
             /\ round.new \cap round.ops = {}
             /\ Alive => /\ Fresh(round.ops, round.mark, hist.acted \cup round.old)
                         /\ \A u \in round.ops :
                              /\ Eligible(round.mark, srv.validity, u)
                              /\ u \in DOMAIN rows \/ srv.given[u] \in hist.dropped
        /\ hist.swept \cup hist.twice \subseteq hist.dropped
    BY <1>3 DEF ActsInv
  <2> HIDE DEF Fresh
  <2> QED BY <1>2, <1>4, <1>6, <2>1, <2>3, <2>4, <2>5, <2>6, <2>7, <2>8, <2>9 DEF ActsInv
<1>12. PromiseInv'
  <2>1. PastInv'
    BY <1>2, <1>3 DEF PromiseInv, PastInv, Past, Same, Counts
  <2>2. TokenPromise'
    BY <1>2, <1>3, <1>6 DEF PromiseInv, TokenPromise, Same, Counts, Shows, Tells, Marks
  <2>3. RoundPromise'
    BY <1>2, <1>3, <1>6 DEF PromiseInv, RoundPromise, Same, Shows, Tells, Marks, Updated
  <2> QED BY <2>1, <2>2, <2>3 DEF PromiseInv
<1> QED BY <1>7, <1>8, <1>9, <1>10, <1>11, <1>12 DEF IInv

-----------------------------------------------------------------------------
(* The round, step by step.  First, those in which only what it has in its *)
(* hand changes.                                                           *)

Still == UNCHANGED <<kind, inbox, srv, came, rows, token, call, rules, hist, bound>>

LEMMA RoundMoves ==
  ASSUME IInv, Still, round # Idle, round' # Idle, round'.now = round.now,
         round'.pc # "clear", round.pc = "clear" => Names(rows), RoundShape',
         round'.pc = "apply" => /\ Names(round'.rec)
                                /\ \A u \in DOMAIN round'.rec : round'.rec[u].msg <= came
  PROVE  Shape' /\ GivenInv' /\ OrderInv' /\ NamesInv' /\ NewsInv' /\ PastInv' /\ TokenPromise'
<1>1. Shape /\ GivenInv /\ OrderInv /\ NamesInv /\ NewsInv /\ PastInv /\ TokenPromise
  BY DEF IInv, PromiseInv
<1>2. UNCHANGED <<kind, inbox, srv, came, rows, token, call, rules, hist, bound>> /\ Shown' = Shown
  BY DEF Still, Shown
<1>3. Shape' /\ GivenInv'
  BY <1>1, <1>2 DEF Shape, GivenInv
<1>4. Alive' = Alive
  <2>1. round.pc # "idle" /\ round'.pc # "idle"
    BY <1>1, <1>3, NowFields, RoundIsOneOf DEF Shape, RoundShape, Idle, AtWindow, AtCompare,
       AtGone, AtChunks, AtApply
  <2> QED BY <1>2, <2>1 DEF Alive
<1>5. OrderInv'
  BY <1>1, <1>2 DEF OrderInv
<1>6. Names(rows)' = Names(rows) /\ (Names(round'.rec) => Names(round.rec)')
  BY <1>2 DEF Names
<1>7. NamesInv'
  BY <1>1, <1>2, <1>4, <1>6 DEF NamesInv
<1>8. NewsInv'
  BY <1>1, <1>2, <1>4 DEF NewsInv, OwnRows, NoOtherRow
<1>9. PastInv' /\ TokenPromise'
  BY <1>1, <1>2 DEF PastInv, TokenPromise, Past, Same, Counts, Shows, Tells, Marks
<1> QED BY <1>3, <1>5, <1>7, <1>8, <1>9

\* What ActsInv says whatever the round does.
LEMMA ActsOfAll ==
  ASSUME ActsInv, Still
  PROVE  /\ rules.mark = NoMark => hist.acted = {} /\ hist.backlog = {}
         /\ \A m \in hist.acted \cup hist.backlog : m <= came
         /\ \A u \in Shown :
              Eligible(rules.mark, srv.validity, u)
              /\ srv.given[u] \in hist.acted \cup hist.backlog =>
                u \in DOMAIN rows \/ srv.given[u] \in hist.dropped
         /\ hist.swept \cup hist.twice \subseteq hist.dropped
         /\ UNCHANGED <<srv, came, rows, rules, hist>> /\ Shown' = Shown
  BY DEF ActsInv, Still, Shown

LEMMA ExamineKeeps == ASSUME IInv, Examine PROVE IInv'
<1>1. Shape /\ GivenInv /\ OrderInv /\ NamesInv /\ NewsInv /\ ActsInv /\ PastInv /\ TokenPromise
  BY DEF IInv, PromiseInv
<1>2. /\ Still /\ round = Idle /\ Decide(token, Status) # "skip"
      /\ round' = [pc |-> IF Decide(token, Status) = "reset" THEN "clear" ELSE "window",
                   now |-> Status, view |-> srv.present]
  BY DEF Examine, Still
<1>3. UNCHANGED <<kind, inbox, srv, came, rows, token, call, rules, hist, bound>> /\ Shown' = Shown
  BY <1>2 DEF Still, Shown
<1>4. /\ Status \in Answer /\ Status.validity = srv.validity /\ Status.modseq = srv.modseq
      /\ Status.next = Len(srv.given) + 1 /\ Status.exists = Cardinality(srv.present)
  BY <1>1, StatusFields
<1>5. /\ srv \in Server /\ srv.validity \in Nat /\ srv.validity # 0 /\ srv.modseq \in Nat
      /\ srv.present \in SUBSET Uids /\ Len(srv.given) \in Nat /\ Shown \subseteq Nat
      /\ Cardinality(srv.present) \in Nat
  BY <1>1, ServerFields, UidsAreFew DEF Shape, GivenInv
<1>6. PICK p \in {"clear", "window"} : p = IF Decide(token, Status) = "reset" THEN "clear" ELSE "window"
  OBVIOUS
<1>7. /\ round'.pc = p /\ round'.now = Status /\ round'.view = srv.present
      /\ round' \in AtWindow /\ round' # Idle /\ round'.pc # "idle"
  BY <1>2, <1>4, <1>5, <1>6 DEF AtWindow, Idle
<1>8. p = "clear" => token # NoToken /\ token.validity # srv.validity
  BY <1>4, <1>6 DEF Decide
<1>9. p = "window" => token.validity \in {0, srv.validity}
  BY <1>4, <1>6 DEF Decide, NoToken
<1>10. Shape' /\ GivenInv'
  BY <1>1, <1>3, <1>7 DEF Shape, RoundShape, GivenInv
<1>11. OrderInv'
  <2>1. token.validity \in Nat
    BY <1>1, TokenFields
  <2> QED BY <1>1, <1>3, <1>4, <1>5, <1>7, <1>8, <2>1 DEF OrderInv
<1>12. NamesInv'
  <2>1. Names(rows)' = Names(rows)
    BY <1>3 DEF Names
  <2> QED BY <1>1, <1>3, <1>6, <1>7, <1>9, <2>1 DEF NamesInv
<1>13. BeforeInv'
  <2>1. \A u \in srv.present : u < Len(srv.given) + 1
    BY <1>1, <1>5 DEF GivenInv, Shown
  <2> QED BY <1>4, <1>6, <1>7, <2>1 DEF BeforeInv, Before
<1>14. NewsInv'
  <2>1. NoOtherRow(round.now.next)'
    <3>1. \A v \in Shown : ~(v >= Len(srv.given) + 1)
      BY <1>5 DEF Shown
    <3> QED BY <1>3, <1>4, <1>7, <3>1 DEF NoOtherRow
  <2> QED BY <1>1, <1>3, <2>1 DEF NewsInv, OwnRows, NoOtherRow
<1>15. ActsInv'
  <2>1. srv.present \subseteq Shown
    BY <1>1 DEF GivenInv
  <2> QED BY <1>1, <1>2, <1>3, <1>6, <1>7, <2>1, ActsOfAll DEF ActsInv
<1>16. PromiseInv'
  <2>1. Past(srv, Status)
    BY <1>4, <1>5 DEF Past
  <2>2. Counts /\ token # NoToken => ~Same(srv, token)
    BY <1>2, <1>4 DEF Counts, Same, Decide, Unchanged
  <2>3. PastInv'
    BY <1>1, <1>3, <1>7, <2>1, <2>2 DEF PastInv, Past, Same, Counts
  <2>4. TokenPromise'
    BY <1>1, <1>3 DEF TokenPromise, Same, Counts, Shows, Tells, Marks
  <2>5. RoundPromise'
    BY <1>3, <1>6, <1>7 DEF RoundPromise
  <2> QED BY <2>3, <2>4, <2>5 DEF PromiseInv
<1> QED BY <1>10, <1>11, <1>12, <1>13, <1>14, <1>15, <1>16 DEF IInv

LEMMA ClearedKeeps ==
  ASSUME IInv, ClearChunk, rows = Empty
  PROVE  IInv'
<1>1. Shape /\ GivenInv /\ ActsInv /\ RoundPromise /\ BeforeInv
  BY DEF IInv, PromiseInv
<1>2. Still /\ round.pc = "clear" /\ round' = [round EXCEPT !.pc = "window"] /\ DOMAIN rows = {}
  BY DEF ClearChunk, Still, Empty
<1>3. round \in AtWindow
  BY <1>1, <1>2, RoundIsOneOf
<1>4. /\ round'.pc = "window" /\ round'.now = round.now /\ round'.view = round.view
      /\ round' \in AtWindow /\ round' # Idle /\ round # Idle
  BY <1>2, <1>3 DEF AtWindow, Idle
<1>5. UNCHANGED <<kind, srv, hist>> /\ Shown' = Shown /\ Alive' = Alive
  BY <1>2, <1>4 DEF Still, Shown, Alive
<1>6. Shape' /\ GivenInv' /\ OrderInv' /\ NamesInv' /\ NewsInv' /\ PastInv' /\ TokenPromise'
  BY <1>2, <1>4, RoundMoves DEF Names, RoundShape
<1>7. BeforeInv'
  BY <1>1, <1>2, <1>4 DEF BeforeInv, Before
<1>8. ActsInv'
  <2>1. Alive => round.view \subseteq Shown
    BY <1>1, <1>2 DEF ActsInv
  <2> QED BY <1>1, <1>2, <1>4, <1>5, <2>1, ActsOfAll DEF ActsInv
<1>9. RoundPromise'
  BY <1>1, <1>2, <1>4, <1>5 DEF RoundPromise, Same
<1> QED BY <1>6, <1>7, <1>8, <1>9 DEF IInv, PromiseInv

\* While the rows are cleared the token is of before the server renumbered, and so is
\* the mark of the rules: nothing is promised, and nothing will be acted on.
LEMMA ClearingKeeps ==
  ASSUME IInv, ClearChunk, rows # Empty
  PROVE  IInv'
<1>1. Shape /\ GivenInv /\ OrderInv /\ NamesInv /\ BeforeInv /\ NewsInv /\ ActsInv
      /\ PastInv /\ RoundPromise
  BY DEF IInv, PromiseInv
<1>2. /\ round.pc = "clear"
      /\ UNCHANGED <<kind, inbox, srv, came, token, round, call, rules, hist, bound>>
      /\ Shown' = Shown
  BY DEF ClearChunk, Shown
<1>3. PICK S : rows' = Without(rows, S)
  BY DEF ClearChunk
<1>4. Leaves(S) /\ rows' \in PartialFn(Uids, StoredRow)
  BY <1>1, <1>3, WithoutFacts
<1>5. /\ DOMAIN rows' \subseteq DOMAIN rows
      /\ \A u \in DOMAIN rows' : rows'[u] = rows[u]
  BY <1>4 DEF Leaves
<1>6. token # NoToken /\ token.validity # srv.validity /\ rules.mark.validity # srv.validity
  <2>1. round # Idle /\ round.now.validity \in Nat
    BY <1>1, <1>2, NowFields DEF Idle
  <2>2. srv.validity \in Nat /\ token.validity \in Nat /\ rules.mark.validity \in Nat
    BY <1>1, ServerFields, TokenFields, RuleFields, MarkFields DEF Shape
  <2> QED BY <1>1, <1>2, <2>1, <2>2 DEF OrderInv
<1>7. Shape' /\ GivenInv'
  BY <1>1, <1>2, <1>4, <1>5 DEF Shape, RoundShape, GivenInv
<1>8. OrderInv'
  BY <1>1, <1>2 DEF OrderInv
<1>9. NamesInv' /\ BeforeInv'
  <2>1. Names(rows) => Names(rows)'
    BY <1>2, <1>5 DEF Names
  <2> QED BY <1>1, <1>2, <2>1 DEF NamesInv, BeforeInv, Before, Alive
<1>10. NewsInv'
  BY <1>1, <1>2, <1>5 DEF NewsInv, OwnRows, NoOtherRow, Alive
<1>11. ActsInv'
  <2>1. \A u : ~Eligible(rules.mark, srv.validity, u)
    BY <1>6 DEF Eligible
  <2> QED BY <1>1, <1>2, <2>1 DEF ActsInv, Alive
<1>12. PromiseInv'
  <2>1. ~Same(srv, token)
    BY <1>6 DEF Same
  <2>2. PastInv' /\ TokenPromise'
    BY <1>1, <1>2, <2>1 DEF PastInv, TokenPromise, Past, Same, Counts
  <2>3. RoundPromise'
    BY <1>1, <1>2 DEF RoundPromise, Same
  <2> QED BY <2>2, <2>3 DEF PromiseInv
<1> QED BY <1>7, <1>8, <1>9, <1>10, <1>11, <1>12 DEF IInv

LEMMA ReadWindowKeeps == ASSUME IInv, ReadWindow PROVE IInv'
<1>1. Shape /\ GivenInv /\ ActsInv /\ RoundPromise /\ BeforeInv
  BY DEF IInv, PromiseInv
<1>2. PICK flags : flags = [u \in Newest(Window, round.view) \cap srv.present
                              |-> srv.given[u] \in srv.seen]
  OBVIOUS
<1>3. /\ Still /\ round.pc = "window" /\ Alive
      /\ round' = [pc |-> "compare", now |-> round.now, flags |-> flags]
  BY <1>2 DEF ReadWindow, Still
<1>4. round.view \in SUBSET Uids /\ round.now \in Answer /\ round # Idle
  BY <1>1, <1>3, RoundIsOneOf DEF AtWindow, Idle
<1>5. /\ Newest(Window, round.view) \subseteq round.view
      /\ Cardinality(Newest(Window, round.view)) <= Window
      /\ IsFiniteSet(Newest(Window, round.view))
  <2>1. Newest(Window, round.view) \subseteq round.view
        /\ Cardinality(Newest(Window, round.view)) <= Window
    BY <1>4, NewestAreFew, Constants
  <2>2. IsFiniteSet(Newest(Window, round.view))
    BY <1>4, <2>1, UidsAreFew
  <2> QED BY <2>1, <2>2
<1>6. DOMAIN flags = Newest(Window, round.view) \cap srv.present
      /\ \A u \in DOMAIN flags : flags[u] = (srv.given[u] \in srv.seen)
  BY <1>2
<1>7. flags \in Flags /\ Cardinality(DOMAIN flags) <= Window
  <2>1. flags \in [DOMAIN flags -> BOOLEAN]
    BY <1>2
  <2>2. DOMAIN flags \subseteq Uids
    BY <1>4, <1>5, <1>6
  <2>3. Cardinality(DOMAIN flags) <= Cardinality(Newest(Window, round.view))
    BY <1>5, <1>6, FS_Subset
  <2>4. Cardinality(DOMAIN flags) \in Nat /\ Cardinality(Newest(Window, round.view)) \in Nat
    BY <1>4, <1>5, <2>2, UidsAreFew
  <2> QED BY <1>5, <2>1, <2>2, <2>3, <2>4, PartialFnIs, Constants DEF Flags
<1>8. /\ round'.pc = "compare" /\ round'.now = round.now /\ round'.flags = flags
      /\ round' \in AtCompare /\ round' # Idle
  BY <1>3, <1>4, <1>7 DEF AtCompare, Idle
<1>9. UNCHANGED <<kind, srv, hist>> /\ Shown' = Shown /\ Alive' = Alive
  BY <1>3, <1>8 DEF Still, Shown, Alive
<1>10. Shape' /\ GivenInv' /\ OrderInv' /\ NamesInv' /\ NewsInv' /\ PastInv' /\ TokenPromise'
  BY <1>3, <1>4, <1>7, <1>8, RoundMoves DEF RoundShape
<1>11. BeforeInv'
  BY <1>1, <1>3, <1>5, <1>6, <1>8 DEF BeforeInv, Before
<1>12. ActsInv'
  <2>1. DOMAIN flags \subseteq Shown
    BY <1>1, <1>6 DEF GivenInv
  <2> QED BY <1>1, <1>3, <1>8, <1>9, <2>1, ActsOfAll DEF ActsInv
<1>13. RoundPromise'
  <2>1. SUFFICES ASSUME ~hist.late, Same(srv, round.now)
                 PROVE  Shows(DOMAIN flags) /\ Tells(flags)
    BY <1>8, <1>9 DEF RoundPromise, Same, Shows, Tells
  <2>2. round.view = srv.present
    BY <1>1, <1>3, <1>4, <2>1 DEF RoundPromise
  <2> QED BY <1>5, <1>6, <2>2 DEF Shows, Tells
<1> QED BY <1>10, <1>11, <1>12, <1>13 DEF IInv, PromiseInv

LEMMA CompareKeeps == ASSUME IInv, Compare PROVE IInv'
<1>1. Shape /\ GivenInv /\ ActsInv /\ RoundPromise /\ BeforeInv
  BY DEF IInv, PromiseInv
<1>2. PICK flags : flags = round.flags
  OBVIOUS
<1>3. PICK new, gone, set :
        /\ new = DOMAIN flags \ DOMAIN rows /\ gone = DOMAIN rows \ DOMAIN flags
        /\ set = [u \in Changed(flags) |-> flags[u]]
  OBVIOUS
<1>4. /\ Still /\ round.pc = "compare"
      /\ round' = [pc |-> "gone", now |-> round.now, new |-> new, gone |-> gone, set |-> set]
  BY <1>2, <1>3 DEF Compare, Still, New, Gone
<1>5. flags \in Flags /\ Cardinality(DOMAIN flags) <= Window /\ round.now \in Answer /\ round # Idle
  BY <1>1, <1>2, <1>4, RoundIsOneOf DEF AtCompare, Idle
<1>6. DOMAIN flags \subseteq Uids /\ flags \in [DOMAIN flags -> BOOLEAN]
  BY <1>5, PartialFnIs DEF Flags
<1>7. new \in Planned /\ gone \in SUBSET Uids /\ set \in Flags
  <2>1. IsFiniteSet(DOMAIN flags) /\ Cardinality(DOMAIN flags) \in Nat
    BY <1>6, UidsAreFew
  <2>2. Cardinality(new) <= Cardinality(DOMAIN flags) /\ new \in SUBSET Uids
    BY <1>3, <1>6, <2>1, FS_Subset
  <2>3. Cardinality(new) \in Nat
    BY <2>2, UidsAreFew
  <2>4. set \in [DOMAIN set -> BOOLEAN] /\ DOMAIN set \subseteq Uids
    BY <1>3, <1>6 DEF Changed
  <2> QED BY <1>1, <1>3, <1>5, <2>1, <2>2, <2>3, <2>4, PartialFnIs, RowFields, Constants
          DEF Planned, Flags
<1>8. /\ round'.pc = "gone" /\ round'.now = round.now /\ round'.new = new /\ round'.gone = gone
      /\ round'.set = set /\ round' \in AtGone /\ round' # Idle
  BY <1>4, <1>5, <1>7 DEF AtGone, Idle
<1>9. UNCHANGED <<kind, srv, hist, rows, rules>> /\ Shown' = Shown /\ Alive' = Alive
  BY <1>4, <1>8 DEF Still, Shown, Alive
<1>10. Shape' /\ GivenInv' /\ OrderInv' /\ NamesInv' /\ NewsInv' /\ PastInv' /\ TokenPromise'
  BY <1>4, <1>5, <1>8, RoundMoves DEF RoundShape
<1>11. BeforeInv'
  <2>1. DOMAIN rows \ gone \subseteq DOMAIN flags /\ new \subseteq DOMAIN flags
    BY <1>3
  <2> QED BY <1>1, <1>2, <1>4, <1>8, <1>9, <2>1 DEF BeforeInv, Before
<1>12. ActsInv'
  <2>1. Alive => Fresh(new, rules.mark, hist.acted \cup hist.backlog)
    BY <1>1, <1>2, <1>3, <1>4 DEF ActsInv, Fresh
  <2>2. Fresh(new, rules.mark, hist.acted \cup hist.backlog) =>
          Fresh(round.new, rules.mark, hist.acted \cup hist.backlog)'
    BY <1>8, <1>9 DEF Fresh
  <2>3. new \cap DOMAIN rows = {}
    BY <1>3
  <2> HIDE DEF Fresh
  <2> QED BY <1>1, <1>4, <1>8, <1>9, <2>1, <2>2, <2>3, ActsOfAll DEF ActsInv
<1>13. RoundPromise'
  <2>1. SUFFICES ASSUME ~hist.late, Same(srv, round.now)
                 PROVE  Shows(DOMAIN Updated \cup round.new)' /\ Tells(Updated)'
    BY <1>8, <1>9 DEF RoundPromise, Same
  <2>2. Shows(DOMAIN flags) /\ Tells(flags)
    BY <1>1, <1>2, <1>4, <1>5, <2>1 DEF RoundPromise
  <2>3. Updated' = [u \in DOMAIN rows \ gone |-> IF u \in DOMAIN set THEN set[u] ELSE rows[u].seen]
    BY <1>8, <1>9 DEF Updated
  <2>4. DOMAIN Updated' \cup new = DOMAIN flags
    BY <1>3, <2>3
  <2>5. \A u \in DOMAIN Updated' : u \in DOMAIN flags /\ Updated'[u] = flags[u]
    BY <1>3, <2>3 DEF Changed
  <2> QED BY <1>8, <1>9, <2>2, <2>4, <2>5 DEF Shows, Tells
<1> QED BY <1>10, <1>11, <1>12, <1>13 DEF IInv, PromiseInv

LEMMA DropGoneKeeps == ASSUME IInv, DropGone PROVE IInv'
<1>1. Shape /\ GivenInv /\ OrderInv /\ NamesInv /\ BeforeInv /\ NewsInv /\ ActsInv
      /\ PastInv /\ RoundPromise /\ TokenPromise
  BY DEF IInv, PromiseInv
<1>2. PICK S : S = Oldest(Batch, round.gone)
  OBVIOUS
<1>3. /\ round.pc = "gone" /\ S \subseteq round.gone
      /\ rows' = Without(rows, S) /\ round' = [round EXCEPT !.gone = @ \ S] /\ hist' = Drop(S)
      /\ UNCHANGED <<kind, inbox, srv, came, token, call, rules, bound>> /\ Shown' = Shown
  BY <1>2 DEF DropGone, Shown, Oldest
<1>4. Leaves(S) /\ rows' \in PartialFn(Uids, StoredRow)
  BY <1>1, <1>3, WithoutFacts
<1>5. /\ hist' \in History
      /\ hist'.dropped = hist.dropped \cup {rows[u].msg : u \in S \cap DOMAIN rows}
      /\ hist'.acted = hist.acted /\ hist'.backlog = hist.backlog
      /\ hist'.twice = hist.twice /\ hist'.swept = hist.swept
      /\ hist'.mixed = hist.mixed /\ hist'.late = hist.late
  BY <1>1, <1>3, DropFacts
<1>6. round \in AtGone
  BY <1>1, <1>3, RoundIsOneOf
<1>7. /\ round' \in AtGone /\ round'.pc = "gone" /\ round'.now = round.now
      /\ round'.new = round.new /\ round'.set = round.set /\ round'.gone = round.gone \ S
      /\ round # Idle /\ round' # Idle
  BY <1>3, <1>6 DEF AtGone, Idle
<1>8. /\ DOMAIN rows' = DOMAIN rows \ S /\ \A u \in DOMAIN rows' : rows'[u] = rows[u]
      /\ DOMAIN rows' \ round'.gone = DOMAIN rows \ round.gone
  BY <1>3, <1>4, <1>7 DEF Leaves
<1>9. Alive' = Alive
  BY <1>3, <1>7 DEF Alive
<1>10. Shape' /\ GivenInv'
  BY <1>1, <1>3, <1>4, <1>5, <1>7, <1>8 DEF Shape, RoundShape, GivenInv
<1>11. OrderInv'
  BY <1>1, <1>3, <1>7 DEF OrderInv
<1>12. NamesInv'
  <2>1. Names(rows) => Names(rows)'
    BY <1>3, <1>8 DEF Names
  <2> QED BY <1>1, <1>3, <1>5, <1>7, <1>9, <2>1 DEF NamesInv
<1>13. BeforeInv'
  BY <1>1, <1>3, <1>7, <1>8 DEF BeforeInv, Before
<1>14. NewsInv'
  BY <1>1, <1>3, <1>7, <1>8, <1>9 DEF NewsInv, OwnRows, NoOtherRow
<1>15. ActsInv'
  <2>1. \A u \in Shown :
          Eligible(rules.mark, srv.validity, u)
          /\ srv.given[u] \in hist.acted \cup hist.backlog =>
            u \in DOMAIN rows' \/ srv.given[u] \in hist'.dropped
    <3>1. ASSUME NEW u \in DOMAIN rows, Eligible(rules.mark, srv.validity, u)
          PROVE  u \in DOMAIN rows' \/ srv.given[u] \in hist'.dropped
      BY <1>1, <1>5, <1>8, <3>1, NewsAreTheirs
    <3> QED BY <1>1, <1>5, <3>1 DEF ActsInv
  <2>2. Alive => Fresh(round.new, rules.mark, hist.acted \cup hist.backlog)'
    <3>1. Alive => Fresh(round.new, rules.mark, hist.acted \cup hist.backlog)
      BY <1>1, <1>3 DEF ActsInv
    <3> QED BY <1>3, <1>5, <1>7, <3>1 DEF Fresh
  <2>3. round'.new \cap DOMAIN rows' = {}
    BY <1>1, <1>3, <1>7, <1>8 DEF ActsInv
  <2>4. /\ rules.mark = NoMark => hist.acted = {} /\ hist.backlog = {}
        /\ \A m \in hist.acted \cup hist.backlog : m <= came
        /\ hist.swept \cup hist.twice \subseteq hist.dropped
    BY <1>1 DEF ActsInv
  <2> HIDE DEF Fresh
  <2> QED BY <1>3, <1>5, <1>7, <1>9, <2>1, <2>2, <2>3, <2>4 DEF ActsInv
<1>16. PromiseInv'
  <2>1. PastInv'
    BY <1>1, <1>3, <1>7 DEF PastInv, Past, Same, Counts
  <2>2. TokenPromise'
    BY <1>1, <1>3, <1>7, <2>1 DEF PastInv, TokenPromise, Same, Counts
  <2>3. RoundPromise'
    <3>1. SUFFICES ASSUME ~hist.late, Same(srv, round.now)
                   PROVE  Shows(DOMAIN Updated \cup round.new)' /\ Tells(Updated)'
      BY <1>3, <1>5, <1>7 DEF RoundPromise, Same
    <3>2. Shows(DOMAIN Updated \cup round.new) /\ Tells(Updated)
      BY <1>1, <1>3, <1>7, <3>1 DEF RoundPromise
    <3>3. Updated' = Updated
      BY <1>7, <1>8 DEF Updated
    <3> HIDE DEF Updated
    <3> QED BY <1>3, <1>7, <3>2, <3>3 DEF Shows, Tells
  <2> QED BY <2>1, <2>2, <2>3 DEF PromiseInv
<1> QED BY <1>10, <1>11, <1>12, <1>13, <1>14, <1>15, <1>16 DEF IInv

LEMMA UpdateFlagsKeeps == ASSUME IInv, UpdateFlags PROVE IInv'
<1>1. Shape /\ GivenInv /\ OrderInv /\ NamesInv /\ BeforeInv /\ NewsInv /\ ActsInv
      /\ PastInv /\ RoundPromise /\ TokenPromise
  BY DEF IInv, PromiseInv
<1>2. PICK mark : mark = IF inbox THEN rules.mark ELSE NoMark
  OBVIOUS
<1>3. /\ round.pc = "gone" /\ round.gone = {}
      /\ rows' = [u \in DOMAIN rows |-> IF u \in DOMAIN round.set
                                          THEN [rows[u] EXCEPT !.seen = round.set[u]] ELSE rows[u]]
      /\ round' = [pc |-> "chunks", now |-> round.now, new |-> round.new, ops |-> {},
                   mark |-> mark, old |-> hist.backlog]
      /\ UNCHANGED <<kind, inbox, srv, came, token, call, rules, hist, bound>> /\ Shown' = Shown
  BY <1>2 DEF UpdateFlags, Shown
<1>4. round \in AtGone /\ round # Idle /\ round.now \in Answer /\ round.new \in Planned
      /\ round.set \in Flags
  BY <1>1, <1>3, RoundIsOneOf DEF AtGone, Idle
<1>5. mark \in Mark /\ hist.backlog \in SUBSET Msgs
  BY <1>1, <1>2, RuleFields, HistFields DEF Mark
<1>6. /\ round' \in AtChunks /\ round'.pc = "chunks" /\ round'.now = round.now
      /\ round'.new = round.new /\ round'.ops = {} /\ round'.mark = mark
      /\ round'.old = hist.backlog /\ round' # Idle
  BY <1>3, <1>4, <1>5 DEF AtChunks, Idle
<1>7. /\ DOMAIN rows' = DOMAIN rows
      /\ \A u \in DOMAIN rows : /\ rows'[u] \in StoredRow /\ rows'[u].msg = rows[u].msg
                                /\ rows'[u].seen = Updated[u]
  <2>1. \A u \in DOMAIN round.set : round.set[u] \in BOOLEAN
    BY <1>4, PartialFnIs DEF Flags
  <2>2. \A u \in DOMAIN rows : rows[u] \in StoredRow
    BY <1>1, RowFields
  <2>3. \A r \in StoredRow, b \in BOOLEAN :
          /\ [r EXCEPT !.seen = b] \in StoredRow /\ [r EXCEPT !.seen = b].msg = r.msg
          /\ [r EXCEPT !.seen = b].seen = b
    BY DEF StoredRow
  <2>4. \A u \in DOMAIN rows :
          Updated[u] = IF u \in DOMAIN round.set THEN round.set[u] ELSE rows[u].seen
    BY <1>3 DEF Updated
  <2>5. \A u \in DOMAIN rows :
          rows'[u] = IF u \in DOMAIN round.set
                       THEN [rows[u] EXCEPT !.seen = round.set[u]] ELSE rows[u]
    BY <1>3
  <2>6. DOMAIN rows' = DOMAIN rows
    BY <1>3
  <2> HIDE DEF Updated
  <2>7. ASSUME NEW u \in DOMAIN rows
        PROVE  /\ rows'[u] \in StoredRow /\ rows'[u].msg = rows[u].msg
               /\ rows'[u].seen = Updated[u]
    <3>1. CASE u \in DOMAIN round.set
      <4>1. PICK b \in BOOLEAN : b = round.set[u]
        BY <2>1, <3>1
      <4>2. PICK r \in StoredRow : r = rows[u]
        BY <2>2
      <4>3. rows'[u] = [r EXCEPT !.seen = b] /\ Updated[u] = b
        BY <2>4, <2>5, <3>1, <4>1, <4>2
      <4> QED BY <2>3, <4>2, <4>3
    <3>2. CASE u \notin DOMAIN round.set
      BY <2>2, <2>4, <2>5, <3>2
    <3> QED BY <3>1, <3>2
  <2> QED BY <2>6, <2>7
<1>8. rows' \in PartialFn(Uids, StoredRow)
  <2>1. rows' = [u \in DOMAIN rows |-> rows'[u]]
    BY <1>3
  <2>2. rows' \in [DOMAIN rows' -> StoredRow]
    BY <1>7, <2>1
  <2> QED BY <1>1, <1>7, <2>2, RowFields, PartialFnIs
<1>9. Alive' = Alive
  BY <1>3, <1>6 DEF Alive
<1>10. Shape' /\ GivenInv'
  BY <1>1, <1>3, <1>6, <1>7, <1>8 DEF Shape, RoundShape, GivenInv
<1>11. OrderInv'
  BY <1>1, <1>3, <1>4, <1>6 DEF OrderInv
<1>12. NamesInv'
  <2>1. Names(rows) => Names(rows)'
    BY <1>3, <1>7 DEF Names
  <2> QED BY <1>1, <1>3, <1>6, <1>9, <2>1 DEF NamesInv
<1>13. BeforeInv'
  <2>1. DOMAIN rows \ round.gone = DOMAIN rows
    BY <1>3
  <2> QED BY <1>1, <1>3, <1>6, <1>7, <2>1 DEF BeforeInv, Before
<1>14. NewsInv'
  BY <1>1, <1>3, <1>6, <1>7, <1>9 DEF NewsInv, OwnRows, NoOtherRow
<1>15. ActsInv'
  <2>1. Alive => Fresh(round.new, mark, hist.acted \cup hist.backlog)
    <3>1. Alive => Fresh(round.new, rules.mark, hist.acted \cup hist.backlog)
      BY <1>1, <1>3 DEF ActsInv
    <3> QED BY <1>2, <3>1 DEF Fresh, Eligible, NoMark
  <2>2. Alive => Fresh(round.new, round.mark, hist.acted \cup round.old)'
    BY <1>3, <1>6, <2>1 DEF Fresh
  <2>3. /\ rules.mark = NoMark => hist.acted = {} /\ hist.backlog = {}
        /\ \A m \in hist.acted \cup hist.backlog : m <= came
        /\ hist.swept \cup hist.twice \subseteq hist.dropped
        /\ \A u \in Shown :
             Eligible(rules.mark, srv.validity, u)
             /\ srv.given[u] \in hist.acted \cup hist.backlog =>
               u \in DOMAIN rows \/ srv.given[u] \in hist.dropped
    BY <1>1 DEF ActsInv
  <2>4. Fresh(round.ops, round.mark, hist.acted \cup round.old)'
    BY <1>6 DEF Fresh
  <2> HIDE DEF Fresh
  <2> QED BY <1>2, <1>3, <1>6, <1>7, <1>9, <2>2, <2>3, <2>4 DEF ActsInv
<1>16. PromiseInv'
  <2>1. PastInv'
    BY <1>1, <1>3, <1>4, <1>6 DEF PastInv, Past, Same, Counts
  <2>2. TokenPromise'
    BY <1>1, <1>3, <1>4, <2>1 DEF PastInv, TokenPromise, Same, Counts
  <2>3. RoundPromise'
    <3>1. SUFFICES ASSUME ~hist.late, Same(srv, round.now)
                   PROVE  Shows(DOMAIN rows \cup round.new)' /\ Tells(Marks(rows))'
      BY <1>3, <1>6 DEF RoundPromise, Same
    <3>2. Shows(DOMAIN Updated \cup round.new) /\ Tells(Updated)
      BY <1>1, <1>3, <1>4, <3>1 DEF RoundPromise
    <3>3. DOMAIN Updated = DOMAIN rows
      BY <1>3 DEF Updated
    <3> HIDE DEF Updated
    <3> QED BY <1>3, <1>6, <1>7, <3>2, <3>3 DEF Shows, Tells, Marks
  <2> QED BY <2>1, <2>2, <2>3 DEF PromiseInv
<1> QED BY <1>10, <1>11, <1>12, <1>13, <1>14, <1>15, <1>16 DEF IInv

LEMMA HeadersKeeps == ASSUME IInv, Headers PROVE IInv'
<1>1. Shape /\ GivenInv /\ ActsInv /\ RoundPromise /\ BeforeInv
  BY DEF IInv, PromiseInv
<1>2. PICK S : S = Newest(Chunk, round.new)
  OBVIOUS
<1>3. PICK rec : rec = Fetched(S \cap srv.present)
  OBVIOUS
<1>4. /\ Still /\ round.pc = "chunks" /\ Alive
      /\ round' = [pc |-> "apply", now |-> round.now, new |-> round.new \ S, mark |-> round.mark,
                   old |-> round.old, rec |-> rec]
  BY <1>2, <1>3 DEF Headers, Still
<1>5. /\ round # Idle /\ round.now \in Answer /\ round.new \in Planned /\ round.mark \in Mark
      /\ round.old \in SUBSET Msgs
  BY <1>1, <1>4, RoundIsOneOf DEF AtChunks, Idle
<1>6. /\ S \subseteq round.new /\ Cardinality(S) <= Chunk /\ IsFiniteSet(S)
      /\ round.new \in SUBSET Uids /\ Cardinality(S) \in Nat
  <2>1. round.new \in SUBSET Uids
    BY <1>5 DEF Planned
  <2>2. S \subseteq round.new /\ Cardinality(S) <= Chunk
    BY <1>2, <2>1, NewestAreFew, Constants
  <2> QED BY <2>1, <2>2, UidsAreFew
<1>7. round.new \ S \in Planned
  <2>1. IsFiniteSet(round.new) /\ Cardinality(round.new) \in Nat
        /\ Cardinality(round.new) <= Window
    BY <1>5, <1>6, UidsAreFew DEF Planned
  <2>2. Cardinality(round.new \ S) <= Cardinality(round.new) /\ round.new \ S \in SUBSET Uids
    BY <1>6, <2>1, FS_Subset
  <2>3. Cardinality(round.new \ S) \in Nat
    BY <2>2, UidsAreFew
  <2> QED BY <2>1, <2>2, <2>3, Constants DEF Planned
<1>8. /\ DOMAIN rec = S \cap srv.present
      /\ \A u \in DOMAIN rec : /\ u \in Shown /\ rec[u].msg = srv.given[u]
                               /\ rec[u].seen = (srv.given[u] \in srv.seen)
                               /\ rec[u] \in StoredRow
  <2>1. \A u \in srv.present : u \in Shown /\ srv.given[u] \in Msgs
    BY <1>1, ServerFields DEF Shape, GivenInv
  <2> QED BY <1>3, <2>1 DEF Fetched, StoredRow
<1>9. rec \in Records
  <2>1. rec \in [DOMAIN rec -> StoredRow]
    <3>1. rec = [u \in DOMAIN rec |-> rec[u]]
      BY <1>3 DEF Fetched
    <3> QED BY <1>8, <3>1
  <2>2. DOMAIN rec \subseteq Uids
    BY <1>6, <1>8
  <2>3. Cardinality(DOMAIN rec) <= Cardinality(S)
    BY <1>6, <1>8, FS_Subset
  <2>4. Cardinality(DOMAIN rec) \in Nat
    BY <2>2, UidsAreFew
  <2> QED BY <1>6, <2>1, <2>2, <2>3, <2>4, PartialFnIs, Constants DEF Records
<1>10. /\ round' \in AtApply /\ round'.pc = "apply" /\ round'.now = round.now
       /\ round'.new = round.new \ S /\ round'.mark = round.mark /\ round'.old = round.old
       /\ round'.rec = rec /\ round' # Idle
  BY <1>4, <1>5, <1>7, <1>9 DEF AtApply, Idle
<1>11. UNCHANGED <<kind, srv, hist, rows, rules>> /\ Shown' = Shown /\ Alive' = Alive
  BY <1>4, <1>10 DEF Still, Shown, Alive
<1>12. Names(rec) /\ \A u \in DOMAIN rec : rec[u].msg <= came
  BY <1>1, <1>8 DEF Names, GivenInv
<1>13. Shape' /\ GivenInv' /\ OrderInv' /\ NamesInv' /\ NewsInv' /\ PastInv' /\ TokenPromise'
  BY <1>4, <1>5, <1>10, <1>12, RoundMoves DEF RoundShape
<1>14. BeforeInv'
  BY <1>1, <1>4, <1>6, <1>8, <1>10, <1>11 DEF BeforeInv, Before
<1>15. ActsInv'
  <2>1. Fresh(round.new, round.mark, hist.acted \cup round.old)
        /\ round.mark \in {NoMark, rules.mark}
    BY <1>1, <1>4 DEF ActsInv
  <2>2. Fresh(round.new \ S, round.mark, hist.acted \cup round.old)
        /\ Fresh(DOMAIN rec, round.mark, hist.acted \cup round.old)
    BY <1>6, <1>8, <2>1 DEF Fresh
  <2>3. Fresh(round.new, round.mark, hist.acted \cup round.old)'
        /\ Fresh(DOMAIN round.rec, round.mark, hist.acted \cup round.old)'
    BY <1>10, <1>11, <2>2 DEF Fresh
  <2>4. round'.new \cap DOMAIN round'.rec = {}
    BY <1>8, <1>10
  <2> HIDE DEF Fresh
  <2> QED BY <1>1, <1>4, <1>10, <1>11, <2>1, <2>3, <2>4, ActsOfAll DEF ActsInv
<1>16. RoundPromise'
  <2>1. SUFFICES ASSUME ~hist.late, Same(srv, round.now)
                 PROVE  /\ Shows(DOMAIN rows \cup round.new \cup DOMAIN round.rec)'
                        /\ Tells(Marks(rows))' /\ Tells(Marks(round.rec))'
    BY <1>10, <1>11 DEF RoundPromise, Same
  <2>2. Shows(DOMAIN rows \cup round.new) /\ Tells(Marks(rows))
    BY <1>1, <1>4, <1>5, <2>1 DEF RoundPromise
  <2>3. Newest(Window, srv.present) \subseteq srv.present
    BY DEF Newest
  <2>4. DOMAIN rows \cup (round.new \ S) \cup DOMAIN rec = DOMAIN rows \cup round.new
    BY <1>6, <1>8, <2>2, <2>3 DEF Shows
  <2>5. Shows(DOMAIN rows \cup round.new \cup DOMAIN round.rec)'
    BY <1>10, <1>11, <2>2, <2>4 DEF Shows
  <2>6. Tells(Marks(rows))' /\ Tells(Marks(round.rec))'
    BY <1>8, <1>10, <1>11, <2>2 DEF Tells, Marks
  <2> QED BY <2>5, <2>6
<1> QED BY <1>13, <1>14, <1>15, <1>16 DEF IInv, PromiseInv

LEMMA WithFacts ==
  ASSUME Shape, NEW f \in Records, rows' = With(rows, f)
  PROVE  /\ DOMAIN rows' = DOMAIN rows \cup DOMAIN f /\ rows' \in PartialFn(Uids, StoredRow)
         /\ \A u \in DOMAIN f : rows'[u] = f[u]
         /\ \A u \in DOMAIN rows \ DOMAIN f : rows'[u] = rows[u]
<1>1. /\ DOMAIN rows' = DOMAIN rows \cup DOMAIN f
      /\ \A u \in DOMAIN f : rows'[u] = f[u]
      /\ \A u \in DOMAIN rows \ DOMAIN f : rows'[u] = rows[u]
  BY DEF With
<1>2. DOMAIN f \subseteq Uids /\ \A u \in DOMAIN f : f[u] \in StoredRow
  BY PartialFnIs DEF Records
<1>3. DOMAIN rows \subseteq Uids /\ \A u \in DOMAIN rows : rows[u] \in StoredRow
  BY RowFields
<1>4. rows' \in [DOMAIN rows' -> StoredRow]
  <2>1. rows' = [u \in DOMAIN rows' |-> rows'[u]]
    BY DEF With
  <2>2. \A u \in DOMAIN rows' : rows'[u] \in StoredRow
    BY <1>1, <1>2, <1>3
  <2> QED BY <2>1, <2>2
<1> QED BY <1>1, <1>2, <1>3, <1>4, PartialFnIs

LEMMA ApplyKeeps == ASSUME IInv, Apply PROVE IInv'
<1>1. Shape /\ GivenInv /\ OrderInv /\ NamesInv /\ BeforeInv /\ NewsInv /\ ActsInv
      /\ PastInv /\ RoundPromise /\ TokenPromise
  BY DEF IInv, PromiseInv
<1>2. PICK rec : rec = round.rec
  OBVIOUS
<1>3. PICK ops : ops = PlanOps(round.mark, round.now.validity, DOMAIN rec)
  OBVIOUS
<1>4. /\ round.pc = "apply" /\ rows' = With(rows, rec)
      /\ round' = [pc |-> "chunks", now |-> round.now, new |-> round.new, mark |-> round.mark,
                   old |-> round.old, ops |-> ops]
      /\ hist' = [hist EXCEPT !.mixed = @ \/ (token = NoToken /\ ~Alive)]
      /\ UNCHANGED <<kind, inbox, srv, came, token, call, rules, bound>> /\ Shown' = Shown
  BY <1>2, <1>3 DEF Apply, Shown
<1>5. /\ round \in AtApply /\ round # Idle /\ round.now \in Answer /\ round.new \in Planned
      /\ round.mark \in Mark /\ round.old \in SUBSET Msgs /\ rec \in Records
  BY <1>1, <1>2, <1>4, RoundIsOneOf DEF AtApply, Idle
<1>6. /\ DOMAIN rows' = DOMAIN rows \cup DOMAIN rec /\ rows' \in PartialFn(Uids, StoredRow)
      /\ \A u \in DOMAIN rec : rows'[u] = rec[u]
      /\ \A u \in DOMAIN rows \ DOMAIN rec : rows'[u] = rows[u]
  BY <1>1, <1>4, <1>5, WithFacts
<1>7. DOMAIN rec \subseteq Uids /\ ops \subseteq DOMAIN rec
  BY <1>3, <1>5, PartialFnIs DEF Records, PlanOps
<1>8. /\ round' \in AtChunks /\ round'.pc = "chunks" /\ round'.now = round.now
      /\ round'.new = round.new /\ round'.ops = ops /\ round'.mark = round.mark
      /\ round'.old = round.old /\ round' # Idle
  BY <1>4, <1>5, <1>7 DEF AtChunks, Idle
<1>9. Alive' = Alive /\ (Alive <=> round.now.validity = srv.validity)
  BY <1>4, <1>8 DEF Alive
<1>10. /\ hist' \in History /\ hist'.acted = hist.acted /\ hist'.backlog = hist.backlog
       /\ hist'.twice = hist.twice /\ hist'.swept = hist.swept /\ hist'.dropped = hist.dropped
       /\ hist'.late = hist.late
       /\ ~hist'.mixed => ~hist.mixed /\ (token # NoToken \/ Alive)
  <2>1. PICK b : b = (hist.mixed \/ (token = NoToken /\ ~Alive))
    OBVIOUS
  <2>2. b \in BOOLEAN
    BY <2>1, Zenon
  <2>3. hist \in History /\ hist' = [hist EXCEPT !.mixed = b]
    BY <1>1, <1>4, <2>1 DEF Shape, History
  <2>4. /\ hist' \in History /\ hist'.acted = hist.acted /\ hist'.backlog = hist.backlog
        /\ hist'.twice = hist.twice /\ hist'.swept = hist.swept /\ hist'.dropped = hist.dropped
        /\ hist'.late = hist.late /\ hist'.mixed = b
    BY <2>2, <2>3 DEF History
  <2> QED BY <2>1, <2>4
<1>11. ~Alive => /\ token.validity # srv.validity /\ rules.mark.validity # srv.validity
                 /\ rules.read.validity # srv.validity
  <2>1. /\ srv.validity \in Nat /\ token.validity \in Nat /\ rules.mark.validity \in Nat
        /\ rules.read.validity \in Nat /\ round.now.validity \in Nat
    BY <1>1, <1>5, ServerFields, TokenFields, RuleFields, MarkFields, NowFields DEF Shape
  <2> QED BY <1>1, <1>5, <1>9, <2>1 DEF OrderInv
<1>12. Alive => \A u \in DOMAIN rec : u \in Shown /\ rec[u].msg = srv.given[u]
  BY <1>1, <1>2, <1>4 DEF NamesInv, Names
<1>13. Shape' /\ GivenInv'
  <2>1. \A u \in DOMAIN rows' : rows'[u].msg <= came
    BY <1>1, <1>2, <1>4, <1>6 DEF GivenInv
  <2> QED BY <1>1, <1>4, <1>6, <1>8, <1>10, <2>1 DEF Shape, RoundShape, GivenInv
<1>14. OrderInv'
  BY <1>1, <1>4, <1>5, <1>8 DEF OrderInv
<1>15. NamesInv'
  <2>1. Alive /\ Names(rows) => Names(rows)'
    BY <1>4, <1>6, <1>12 DEF Names
  <2>2. ~hist'.mixed /\ token.validity \in {0, srv.validity} => Alive
    BY <1>1, <1>10, <1>11, TokenFields
  <2> QED BY <1>1, <1>4, <1>8, <1>9, <1>10, <2>1, <2>2 DEF NamesInv
<1>16. BeforeInv'
  BY <1>1, <1>2, <1>4, <1>6, <1>8 DEF BeforeInv, Before
<1>17. NewsInv'
  <2>1. CASE Alive
    <3>1. \A from : OwnRows(from) =>
            \A u \in DOMAIN rows' : u >= from => u \in Shown /\ rows'[u].msg = srv.given[u]
      BY <1>6, <1>12, <2>1 DEF OwnRows
    <3>2. ASSUME NEW from, NoOtherRow(from), NEW u \in DOMAIN rows', NEW v \in Shown,
                 v >= from, rows'[u].msg = srv.given[v]
          PROVE  u = v
      <4>1. CASE u \in DOMAIN rec
        BY <1>1, <1>6, <1>12, <2>1, <3>2, <4>1 DEF GivenInv
      <4>2. CASE u \in DOMAIN rows \ DOMAIN rec
        BY <1>6, <3>2, <4>2 DEF NoOtherRow
      <4> QED BY <1>6, <4>1, <4>2
    <3> QED BY <1>1, <1>4, <1>8, <1>9, <2>1, <3>1, <3>2 DEF NewsInv, OwnRows, NoOtherRow
  <2>2. CASE ~Alive
    BY <1>4, <1>9, <1>11, <2>2 DEF NewsInv
  <2> QED BY <2>1, <2>2
<1>18. ActsInv'
  <2>1. /\ rules.mark = NoMark => hist.acted = {} /\ hist.backlog = {}
        /\ \A m \in hist.acted \cup hist.backlog : m <= came
        /\ \A u \in Shown :
             Eligible(rules.mark, srv.validity, u)
             /\ srv.given[u] \in hist.acted \cup hist.backlog =>
               u \in DOMAIN rows \/ srv.given[u] \in hist.dropped
        /\ round.mark \in {NoMark, rules.mark}
        /\ Alive => Fresh(round.new, round.mark, hist.acted \cup round.old)
        /\ round.new \cap DOMAIN rec = {}
        /\ Alive => Fresh(DOMAIN rec, round.mark, hist.acted \cup round.old)
        /\ hist.swept \cup hist.twice \subseteq hist.dropped
    BY <1>1, <1>2, <1>4 DEF ActsInv
  <2>2. Alive => \A u \in ops : Eligible(round.mark, srv.validity, u) /\ u \in DOMAIN rows'
    BY <1>3, <1>6, <1>7, <1>9 DEF PlanOps
  <2>3. /\ Alive => Fresh(round.new, round.mark, hist.acted \cup round.old)'
        /\ Alive => Fresh(round.ops, round.mark, hist.acted \cup round.old)'
    BY <1>4, <1>7, <1>8, <1>10, <2>1 DEF Fresh
  <2>4. round.new \cap ops = {}
    BY <1>7, <2>1
  <2> HIDE DEF Fresh
  <2> QED BY <1>4, <1>6, <1>8, <1>9, <1>10, <2>1, <2>2, <2>3, <2>4 DEF ActsInv
<1>19. PromiseInv'
  <2>1. PastInv'
    BY <1>1, <1>4, <1>5, <1>8 DEF PastInv, Past, Same, Counts
  <2>2. TokenPromise'
    BY <1>1, <1>4, <1>5, <2>1 DEF PastInv, TokenPromise, Same, Counts
  <2>3. RoundPromise'
    <3>1. SUFFICES ASSUME ~hist.late, Same(srv, round.now)
                   PROVE  Shows(DOMAIN rows \cup round.new)' /\ Tells(Marks(rows))'
      BY <1>4, <1>8, <1>10 DEF RoundPromise, Same
    <3>2. /\ Shows(DOMAIN rows \cup round.new \cup DOMAIN rec)
          /\ Tells(Marks(rows)) /\ Tells(Marks(rec))
      BY <1>1, <1>2, <1>4, <1>5, <3>1 DEF RoundPromise
    <3>3. DOMAIN rows' \cup round.new = DOMAIN rows \cup round.new \cup DOMAIN rec
      BY <1>6
    <3>4. kind # "plain" => \A u \in DOMAIN rows' : rows'[u].seen = (srv.given[u] \in srv.seen)
      BY <1>6, <3>2 DEF Tells, Marks
    <3> QED BY <1>4, <1>8, <3>2, <3>3, <3>4 DEF Shows, Tells, Marks
  <2> QED BY <2>1, <2>2, <2>3 DEF PromiseInv
<1> QED BY <1>13, <1>14, <1>15, <1>16, <1>17, <1>18, <1>19 DEF IInv

LEMMA SaveTokenKeeps == ASSUME IInv, SaveToken PROVE IInv'
<1>1. Shape /\ GivenInv /\ OrderInv /\ NamesInv /\ BeforeInv /\ NewsInv /\ ActsInv
      /\ PastInv /\ RoundPromise /\ TokenPromise
  BY DEF IInv, PromiseInv
<1>2. /\ round.pc = "chunks" /\ round.new = {} /\ token' = round.now /\ round' = Idle
      /\ UNCHANGED <<kind, inbox, srv, came, rows, call, rules, hist, bound>> /\ Shown' = Shown
  BY DEF SaveToken, Saved, Shown
<1>3. /\ round # Idle /\ round.now \in Answer /\ round.now.validity \in Nat
      /\ round.now.validity # 0 /\ round.now.next \in Nat
  BY <1>1, <1>2, NowFields DEF Idle
<1>4. round'.pc = "idle" /\ ~Alive' /\ token' # NoToken /\ token' \in Token
      /\ (round.now.validity = srv.validity => Alive)
  BY <1>2, <1>3 DEF Idle, Alive, NoToken, Token, Answer
<1>5. Shape' /\ GivenInv'
  BY <1>1, <1>2, <1>4 DEF Shape, RoundShape, GivenInv, Idle
<1>6. OrderInv'
  BY <1>1, <1>2, <1>3, <1>4 DEF OrderInv
<1>7. NamesInv' /\ BeforeInv'
  <2>1. Names(rows)' = Names(rows)
    BY <1>2 DEF Names
  <2> QED BY <1>1, <1>2, <1>3, <1>4, <2>1 DEF NamesInv, BeforeInv
<1>8. NewsInv'
  <2>1. OwnRows(round.now.next)
    <3>1. \A u \in DOMAIN rows : u \in Nat /\ u < round.now.next
      BY <1>1, <1>2, RowFields DEF BeforeInv, Before
    <3> QED BY <1>3, <3>1 DEF OwnRows
  <2> QED BY <1>1, <1>2, <1>4, <2>1 DEF NewsInv, OwnRows, NoOtherRow
<1>9. ActsInv'
  <2>1. /\ rules.mark = NoMark => hist.acted = {} /\ hist.backlog = {}
        /\ \A m \in hist.acted \cup hist.backlog : m <= came
        /\ \A u \in Shown :
             Eligible(rules.mark, srv.validity, u)
             /\ srv.given[u] \in hist.acted \cup hist.backlog =>
               u \in DOMAIN rows \/ srv.given[u] \in hist.dropped
        /\ hist.swept \cup hist.twice \subseteq hist.dropped
    BY <1>1 DEF ActsInv
  <2> QED BY <1>2, <1>4, <2>1 DEF ActsInv
<1>10. PromiseInv'
  <2>1. PastInv'
    BY <1>1, <1>2, <1>3 DEF PastInv, Past
  <2>2. TokenPromise'
    <3>1. ~hist.late /\ Same(srv, round.now) => Shows(DOMAIN rows) /\ Tells(Marks(rows))
      BY <1>1, <1>2, <1>3 DEF RoundPromise
    <3> QED BY <1>2, <3>1 DEF TokenPromise, Same, Shows, Tells, Marks
  <2>3. RoundPromise'
    BY <1>2 DEF RoundPromise
  <2> QED BY <2>1, <2>2, <2>3 DEF PromiseInv
<1> QED BY <1>5, <1>6, <1>7, <1>8, <1>9, <1>10 DEF IInv

LEMMA RuleActsKeeps == ASSUME IInv, NEW u \in Uids, RuleActs(u) PROVE IInv'
<1>1. Shape /\ GivenInv /\ OrderInv /\ NamesInv /\ BeforeInv /\ NewsInv /\ ActsInv
      /\ PastInv /\ RoundPromise /\ TokenPromise
  BY DEF IInv, PromiseInv
<1>2. /\ round.pc = "chunks" /\ u \in round.ops /\ Alive
      /\ round' = [round EXCEPT !.ops = @ \ {u}]
      /\ UNCHANGED <<kind, inbox, came, rows, token, call, rules, bound>>
  BY DEF RuleActs
<1>3. round \in AtChunks /\ round # Idle
  BY <1>1, <1>2, RoundIsOneOf DEF Idle
<1>4. /\ round' \in AtChunks /\ round'.pc = "chunks" /\ round'.now = round.now
      /\ round'.new = round.new /\ round'.ops = round.ops \ {u} /\ round'.mark = round.mark
      /\ round'.old = round.old /\ round' # Idle
  BY <1>2, <1>3 DEF AtChunks, Idle
<1>5. /\ Fresh(round.ops, round.mark, hist.acted \cup round.old)
      /\ Fresh(round.new, round.mark, hist.acted \cup round.old)
      /\ round.new \cap round.ops = {} /\ round.mark \in {NoMark, rules.mark}
      /\ \A v \in round.ops : /\ Eligible(round.mark, srv.validity, v)
                              /\ v \in DOMAIN rows \/ srv.given[v] \in hist.dropped
  BY <1>1, <1>2 DEF ActsInv
<1>6. u \in Shown
  BY <1>2, <1>5 DEF Fresh
<1>7. PICK m : m = srv.given[u]
  OBVIOUS
<1>8. m \in Msgs /\ m <= came
  BY <1>1, <1>6, <1>7, ServerFields DEF Shape, GivenInv
<1>9. Takes(srv, srv') /\ srv \in Server
  BY <1>1, <1>6, RuleTakes DEF Shape
<1>10. /\ srv' \in Server /\ srv'.validity = srv.validity /\ srv'.given = srv.given
       /\ srv'.present \subseteq srv.present /\ Shown' = Shown
  BY <1>9 DEF Takes, Shown
<1>11. PICK A, T, W : /\ A = hist.acted \cup {m}
                      /\ T = IF m \in hist.acted THEN hist.twice \cup {m} ELSE hist.twice
                      /\ W = IF m \in round.old THEN hist.swept \cup {m} ELSE hist.swept
  OBVIOUS
<1>12. /\ hist' \in History /\ hist'.acted = A /\ hist'.twice = T /\ hist'.swept = W
       /\ hist'.backlog = hist.backlog /\ hist'.dropped = hist.dropped
       /\ hist'.mixed = hist.mixed /\ hist'.late = hist.late
  <2>1. A \in SUBSET Msgs /\ T \in SUBSET Msgs /\ W \in SUBSET Msgs
    BY <1>1, <1>8, <1>11, HistFields
  <2>2. hist \in History /\ hist' = [hist EXCEPT !.acted = A, !.twice = T, !.swept = W]
    BY <1>1, <1>7, <1>11 DEF Shape, History, RuleActs
  <2> QED BY <2>1, <2>2 DEF History
<1>13. Alive'
  BY <1>2, <1>4, <1>10 DEF Alive
<1>14. Shape' /\ GivenInv'
  <2>1. Shape'
    BY <1>1, <1>2, <1>4, <1>10, <1>12 DEF Shape, RoundShape
  <2>2. GivenInv'
    BY <1>1, <1>2, <1>4, <1>10 DEF GivenInv
  <2> QED BY <2>1, <2>2
<1>15. OrderInv'
  BY <1>1, <1>2, <1>3, <1>4, <1>10 DEF OrderInv
<1>16. NamesInv' /\ BeforeInv'
  <2>1. Names(rows)' = Names(rows)
    BY <1>2, <1>10 DEF Names
  <2> QED BY <1>1, <1>2, <1>4, <1>10, <1>12, <1>13, <2>1 DEF NamesInv, BeforeInv, Before
<1>17. NewsInv'
  BY <1>1, <1>2, <1>4, <1>10, <1>13 DEF NewsInv, OwnRows, NoOtherRow
<1>18. ActsInv'
  <2>1. /\ \A m_1 \in hist.acted \cup hist.backlog : m_1 <= came
        /\ \A v \in Shown :
             Eligible(rules.mark, srv.validity, v)
             /\ srv.given[v] \in hist.acted \cup hist.backlog =>
               v \in DOMAIN rows \/ srv.given[v] \in hist.dropped
        /\ hist.swept \cup hist.twice \subseteq hist.dropped
    BY <1>1 DEF ActsInv
  <2>2. \A v \in Shown : srv.given[v] = m => v = u
    BY <1>1, <1>6, <1>7 DEF GivenInv
  <2>3. rules.mark # NoMark
    BY <1>2, <1>5 DEF Eligible, NoMark
  <2>4. \A m_1 \in hist'.acted \cup hist'.backlog : m_1 <= came
    BY <1>8, <1>11, <1>12, <2>1
  <2>5. \A v \in Shown :
          Eligible(rules.mark, srv.validity, v) /\ srv.given[v] \in A \cup hist.backlog =>
            v \in DOMAIN rows \/ srv.given[v] \in hist.dropped
    BY <1>2, <1>5, <1>11, <2>1, <2>2
  <2>6. /\ Fresh(round.ops \ {u}, round.mark, A \cup round.old)
        /\ Fresh(round.new, round.mark, A \cup round.old)
    BY <1>2, <1>5, <1>11, <2>2 DEF Fresh
  <2>7. /\ Fresh(round.new, round.mark, hist.acted \cup round.old)'
        /\ Fresh(round.ops, round.mark, hist.acted \cup round.old)'
    BY <1>4, <1>10, <1>12, <2>6 DEF Fresh
  <2>8. T \cup W \subseteq hist.dropped
    <3>1. m \in hist.acted \cup round.old => m \in hist.dropped
      BY <1>2, <1>5, <1>7 DEF Fresh
    <3> QED BY <1>11, <2>1, <3>1
  <2> HIDE DEF Fresh
  <2> QED BY <1>2, <1>4, <1>5, <1>10, <1>12, <1>13, <2>3, <2>4, <2>5, <2>7, <2>8 DEF ActsInv
<1>19. PromiseInv'
  <2>1. \A s \in Answer : s.validity <= srv.validity /\ Past(srv, s) =>
          /\ Past(srv', s)
          /\ Same(srv', s) => /\ Same(srv, s) /\ srv'.present = srv.present
                              /\ srv'.given = srv.given
                              /\ kind # "plain" => srv'.seen = srv.seen
    <3>1. srv.present \subseteq 1..Len(srv.given)
      BY <1>1 DEF GivenInv, Shown
    <3> QED BY <1>9, <3>1, AnswersOfBefore
  <2>2. token # NoToken => Past(srv', token) /\ (Same(srv', token) => Same(srv, token))
    BY <1>1, <2>1, TokenFields DEF OrderInv, PastInv
  <2>3. /\ Past(srv', round.now)
        /\ Same(srv', round.now) => /\ Same(srv, round.now) /\ srv'.present = srv.present
                                    /\ srv'.given = srv.given
                                    /\ kind # "plain" => srv'.seen = srv.seen
    BY <1>1, <1>3, <2>1, NowFields DEF OrderInv, PastInv
  <2>4. /\ token # NoToken => Past(srv, token)' /\ (Same(srv, token)' => Same(srv', token))
        /\ Past(srv, round.now)' /\ (Same(srv, round.now)' => Same(srv', round.now))
    BY <1>2, <1>4, <2>2, <2>3 DEF Past, Same
  <2>5. PastInv'
    BY <1>1, <1>2, <1>3, <2>2, <2>4 DEF PastInv, Counts
  <2>6. TokenPromise'
    BY <1>2, <1>4, <2>5 DEF PastInv, TokenPromise, Counts
  <2>7. RoundPromise'
    <3>1. SUFFICES ASSUME ~hist.late, Same(srv, round.now)'
                   PROVE  Shows(DOMAIN rows \cup round.new)' /\ Tells(Marks(rows))'
      BY <1>4, <1>12 DEF RoundPromise
    <3>2. /\ Same(srv, round.now) /\ srv'.present = srv.present
          /\ srv'.given = srv.given /\ (kind # "plain" => srv'.seen = srv.seen)
      BY <2>3, <2>4, <3>1
    <3>3. Shows(DOMAIN rows \cup round.new) /\ Tells(Marks(rows))
      BY <1>1, <1>2, <1>3, <3>1, <3>2 DEF RoundPromise
    <3> QED BY <1>2, <1>4, <3>2, <3>3 DEF Shows, Tells, Marks
  <2> QED BY <2>5, <2>6, <2>7 DEF PromiseInv
<1> QED BY <1>14, <1>15, <1>16, <1>17, <1>18, <1>19 DEF IInv

-----------------------------------------------------------------------------
LEMMA NextKeeps == IInv /\ [Next]_vars => IInv'
<1> SUFFICES ASSUME IInv, [Next]_vars PROVE IInv'
  OBVIOUS
<1>1. Shape /\ GivenInv
  BY DEF IInv
<1>2. CASE \/ Arrive \/ Renumber \/ (\E u \in srv.present : Flip(u) \/ Expunge(u))
           \/ \E u \in DOMAIN rows : MarkRead(u) \/ MoveMessage(u)
  BY <1>1, <1>2, OthersAre, OthersKeepAll
<1>3. CASE StoreMarkSeen \/ StoreForget \/ StoreFails \/ AskRule \/ Cut \/ Rebuild
  <2>1. Shape' /\ Stores /\ Tell
    BY <1>1, <1>3, StoreMarkSeenStores, StoreForgetStores, OtherStores, RebuildStores
  <2> QED BY <2>1, StoresKeepsAll
<1>4. CASE MakeRule
  BY <1>4, MakeRuleKeeps
<1>5. CASE RoundSteps
  <2>1. CASE ClearChunk
    BY <2>1, ClearedKeeps, ClearingKeeps
  <2>2. CASE \E u \in Uids : RuleActs(u)
    BY <2>2, RuleActsKeeps
  <2>3. CASE ~Alive /\ Cut
    BY <1>1, <2>3, OtherStores, StoresKeepsAll
  <2> QED BY <1>5, <2>1, <2>2, <2>3, ExamineKeeps, ReadWindowKeeps, CompareKeeps, DropGoneKeeps,
             UpdateFlagsKeeps, HeadersKeeps, ApplyKeeps, SaveTokenKeeps DEF RoundSteps
<1>6. CASE UNCHANGED vars
  <2>1. UNCHANGED <<kind, inbox, srv, came, rows, token, round, call, rules, hist, bound>>
    BY <1>6 DEF vars, service
  <2>2. Shape' /\ Stores /\ Tell
    <3>1. Shape' /\ bound' <= bound
      BY <1>1, <2>1 DEF Shape, RoundShape
    <3> QED BY <2>1, <3>1, SameRows DEF Stores
  <2> QED BY <2>2, StoresKeepsAll
<1> QED BY <1>2, <1>3, <1>4, <1>5, <1>6 DEF Next, CallSteps

LEMMA AlwaysIInv == Spec => []IInv
  BY InitHolds, NextKeeps, PTL DEF Spec

\* Every variable keeps its type, and a round never plans more than its window, nor
\* holds more than a chunk, for any number of messages and size of batch, window and
\* chunk (email_sync.rs, sync_mailbox).
THEOREM MailboxTypeOK == Spec => []TypeOK
<1>1. IInv => TypeOK
  <2> SUFFICES ASSUME IInv PROVE TypeOK
    OBVIOUS
  <2>1. Shape /\ GivenInv
    BY DEF IInv
  <2>2. /\ srv.validity \in 1..MaxEvents + 1 /\ srv.given \in Seq(Msgs)
        /\ srv.present \subseteq 1..Len(srv.given) /\ srv.seen \subseteq Msgs /\ srv.modseq \in Nat
    BY <2>1, ServerFields, Constants DEF Shape, GivenInv, Shown
  <2>3. RoundOK
    <3>1. round = Idle \/ round.pc # "idle"
      BY <2>1, RoundIsOneOf
    <3>2. CASE round.pc = "idle"
      BY <3>1, <3>2 DEF RoundOK
    <3>3. CASE round.pc \in {"clear", "window"}
      BY <2>1, <3>3, RoundIsOneOf DEF AtWindow, RoundOK
    <3>4. CASE round.pc = "compare"
      BY <2>1, <3>4, RoundIsOneOf DEF AtCompare, Flags, RoundOK
    <3>5. CASE round.pc = "gone"
      BY <2>1, <3>5, RoundIsOneOf DEF AtGone, Flags, RoundOK
    <3>6. CASE round.pc = "apply"
      BY <2>1, <3>6, RoundIsOneOf DEF AtApply, Records, RoundOK
    <3>7. CASE round.pc = "chunks"
      BY <2>1, <3>7, RoundIsOneOf DEF AtChunks, RoundOK
    <3> QED BY <2>1, <3>2, <3>3, <3>4, <3>5, <3>6, <3>7, RoundIsOneOf
  <2>4. hist.acted \cup hist.twice \cup hist.swept \cup hist.backlog \cup hist.dropped \subseteq Msgs
    BY <2>1, HistFields
  <2> QED BY <2>1, <2>2, <2>3, <2>4, RuleFields DEF Shape, TypeOK, Call
<1> QED BY <1>1, AlwaysIInv, PTL

\* A row names the message that its UID names now, whatever was cut, renumbered, deleted
\* or written late, once the mailbox has a token of this UIDVALIDITY (email_sync.rs,
\* decide and clear_mailbox_chunk).
THEOREM RowsName == Spec => []RowsNameTheirMessages
<1>1. IInv => RowsNameTheirMessages
  BY DEF IInv, NamesInv, Names, RowsNameTheirMessages
<1> QED BY <1>1, AlwaysIInv, PTL

\* A rule acts on a message once, and on none that was stored when it was made, unless
\* its row was deleted while the server had it (rules.rs, is_eligible; email_sync.rs,
\* which loads the rules before it stores).
THEOREM RulesActOnce == Spec => []RulesActOnNewsOnce
<1>1. IInv => RulesActOnNewsOnce
  BY DEF IInv, ActsInv, RulesActOnNewsOnce
<1> QED BY <1>1, AlwaysIInv, PTL

\* A mailbox the next round skips is as the server has it: its token is of an EXAMINE
\* from which the server did not change, and the round that saved it read, compared and
\* wrote all of its window since (email_sync.rs, decide and set_mailbox_modseq).
THEOREM SkippedIsCurrent == Spec => []SettledIsCurrent
<1>1. IInv => SettledIsCurrent
  <2> SUFFICES ASSUME IInv, token # NoToken, Decide(token, Status) = "skip", ~hist.late, ~Unnoticed
               PROVE  Current
    BY DEF SettledIsCurrent
  <2>1. Shape /\ GivenInv /\ PastInv /\ TokenPromise
    BY DEF IInv, PromiseInv
  <2>2. /\ Status.validity = srv.validity /\ Status.modseq = srv.modseq
        /\ Status.next = Len(srv.given) + 1 /\ Status.exists = Cardinality(srv.present)
    BY <2>1, StatusFields
  <2>3. token.validity = srv.validity /\ Unchanged(token, Status)
    BY <2>2 DEF Decide
  <2>4. Same(srv, token) /\ Counts /\ (kind = "plain" => ~inbox)
    <3>1. kind = "plain" => /\ token.next = Len(srv.given) + 1
                            /\ token.exists = Cardinality(srv.present) /\ ~inbox
      BY <2>2, <2>3 DEF Unchanged
    <3>2. kind # "plain" => token.modseq = srv.modseq
      BY <2>2, <2>3 DEF Unchanged
    <3>3. kind # "plain" => /\ token.next = Len(srv.given) + 1
                            /\ token.exists = Cardinality(srv.present)
      BY <2>1, <2>3, <3>2, KindIs DEF PastInv, Past, Unnoticed
    <3> QED BY <2>3, <3>1, <3>2, <3>3 DEF Same, Counts
  <2>5. Shows(DOMAIN rows) /\ Tells(Marks(rows))
    BY <2>1, <2>4 DEF TokenPromise
  <2>6. kind # "plain" => \A u \in DOMAIN rows : rows[u].seen = (srv.given[u] \in srv.seen)
    BY <2>5 DEF Tells, Marks
  <2> QED BY <2>4, <2>5, <2>6 DEF Current, Shows
<1> QED BY <1>1, AlwaysIInv, PTL
=============================================================================
