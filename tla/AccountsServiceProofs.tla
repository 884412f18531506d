------------------------ MODULE AccountsServiceProofs ------------------------
(***************************************************************************)
(* What is proved of the accounts service, for any calls, flows and        *)
(* resources: the types, and that accounts.json and secrets.json agree     *)
(* however the calls interleave and wherever the service dies.             *)
(*                                                                         *)
(* The effect of each step is said once: XMoves for the calls, XWrites for *)
(* secrets.json, XKeepsAccounts for accounts.json.  Each part of the       *)
(* inductive invariant IInv, at the end, is then kept step by step.        *)
(***************************************************************************)
EXTENDS AccountsService, TLAPS

\* Ages are kept in their set, and keep their order.
Spans == Lives \cup {Never}
LEMMA OlderType ==
  /\ \A n \in Spans : Older(n) \in Spans
  /\ \A n \in Spans \cup {None} : Older(n) \in Spans \cup {None} /\ (Older(n) = None <=> n = None)
  /\ \A n, m \in Spans : n <= m => Older(n) <= Older(m)
  BY ServiceAssumption DEF ServiceAssumption, Older, Spans, Lives, Never, None

LEMMA IdleType ==
  /\ Idle.pc = "idle" /\ Idle.flow \in Flows /\ Idle.res \in Resources
  /\ Idle.date = 0 /\ Idle.life = 0 /\ Idle.gen = 0
  /\ Idle = [pc |-> Idle.pc, flow |-> Idle.flow, res |-> Idle.res, date |-> Idle.date,
             life |-> Idle.life, gen |-> Idle.gen]
  BY ServiceAssumption DEF ServiceAssumption, Idle

LEMMA SpanFacts ==
  /\ 0 \in Spans /\ Never \in Spans /\ \A n \in 1..MaxLife : n \in Spans
  /\ 0 \in 0..MaxGen /\ 1 \in 0..MaxGen /\ \A n \in 1..MaxGen : n \in 0..MaxGen
  BY ServiceAssumption DEF ServiceAssumption, Spans, Lives, Never

\* The records a call may be.
Pc == Steps \cup {"idle"}
Gen == 0..MaxGen
CallType == [pc : Pc, flow : Flows, res : Resources, date : Spans, life : Spans, gen : Gen]
AccountType == {Gone} \cup [kept : {TRUE}, date : [Resources -> Spans], reauth : BOOLEAN]
SecretType == [tokens : [AccessKeys -> Spans \cup {None}], refresh : Gen]
BoundType == [faults : 0..MaxFaults, revokes : 0..MaxRevokes, crashes : 0..MaxCrashes]

Typed ==
  /\ kind \in [Flows -> {"none", "oauth", "nextcloud", "password"}]
  /\ pending \in [Flows -> 0..Ttl]
  /\ code \in [Flows -> {"none", "approved", "used"}]
  /\ grant \in [Flows -> Gen]
  /\ account \in [Flows -> AccountType]
  /\ secret \in [Flows -> SecretType]
  /\ call \in [Calls -> CallType]
  /\ candado \in Calls \cup {Free} /\ candados \in [Flows -> Calls \cup {Free}]
  /\ made \subseteq Flows /\ discarded \subseteq Flows /\ rushed \subseteq Flows
  /\ misread \subseteq Flows /\ short \subseteq Flows /\ left \subseteq Flows
  /\ bound \in BoundType

LEMMA TypedIsTypeOK == Typed <=> TypeOK
  <1>1. Lives \cup {None, Never} = Spans \cup {None}
    BY DEF Spans
  <1>2. QED
    BY <1>1 DEF TypeOK, Typed, AccountType, SecretType, CallType, Spans, Gen, Pc, BoundType

LEMMA InitTyped == Init => Typed
  <1> SUFFICES ASSUME Init PROVE Typed
    OBVIOUS
  <1>1. NoSecrets \in SecretType
    BY SpanFacts DEF NoSecrets, SecretType, Gen
  <1>2. Idle \in CallType
    BY SpanFacts, IdleType DEF CallType, Gen, Pc
  <1>3. QED
    BY <1>1, <1>2, ServiceAssumption, SpanFacts
    DEF Init, Typed, ServiceAssumption, AccountType, Gen, BoundType

LEMMA BaseTypes ==
  /\ Idle \in CallType /\ NoSecrets \in SecretType /\ Gone \in AccountType
  /\ 0 \in Spans /\ Never \in Spans /\ \A n \in 1..MaxLife : n \in Spans
  /\ 0 \in Gen /\ 1 \in Gen /\ \A n \in 1..MaxGen : n \in Gen
  /\ \A pc \in Steps : pc \in Pc
  BY IdleType, SpanFacts DEF CallType, Gen, Pc, NoSecrets, SecretType, AccountType

\* The writes of the record of a call.
LEMMA EndsTyped ==
  ASSUME Typed, NEW c \in Calls, Ends(c)
  PROVE  call' \in [Calls -> CallType]
  BY BaseTypes DEF Typed, Ends

LEMMA GoTyped ==
  ASSUME Typed, NEW c \in Calls, NEW pc \in Steps, Go(c, pc)
  PROVE  call' \in [Calls -> CallType]
  <1>1. call \in [Calls -> CallType] /\ call[c] \in CallType /\ pc \in Pc
    BY BaseTypes DEF Typed
  <1>2. [call[c] EXCEPT !.pc = pc] \in CallType
    BY <1>1 DEF CallType
  <1>3. call' = [call EXCEPT ![c] = [call[c] EXCEPT !.pc = pc]]
    BY Zenon DEF Go
  <1>4. QED
    BY <1>1, <1>2, <1>3

LEMMA OnlyTyped ==
  ASSUME Typed, NEW c \in Calls, NEW pc \in Steps, Only(c, pc)
  PROVE  call' \in [Calls -> CallType]
  <1>1. call \in [Calls -> CallType] /\ call[c] \in CallType /\ pc \in Pc
    BY BaseTypes DEF Typed
  <1>2. [call[c] EXCEPT !.pc = pc, !.date = 0, !.life = 0, !.gen = 0] \in CallType
    BY <1>1, BaseTypes DEF CallType
  <1>3. QED
    BY <1>1, <1>2 DEF Only

LEMMA BeginsTyped ==
  ASSUME Typed, NEW c \in Calls, NEW pc \in Steps, NEW f \in Flows, Begins(c, pc, f)
  PROVE  call' \in [Calls -> CallType]
  <1>1. call \in [Calls -> CallType] /\ pc \in Pc
    BY BaseTypes DEF Typed
  <1>2. [Idle EXCEPT !.pc = pc, !.flow = f] \in CallType
    BY <1>1, BaseTypes DEF CallType
  <1>3. QED
    BY <1>1, <1>2 DEF Begins

\* The writes of secrets.json, and what is read of accounts.json.
LEMMA SecretTyped ==
  ASSUME Typed, NEW f \in Flows
  PROVE  /\ \A g \in Gen : [secret EXCEPT ![f].refresh = g] \in [Flows -> SecretType]
         /\ \A k \in AccessKeys, n \in Spans \cup {None} :
              [secret EXCEPT ![f].tokens[k] = n] \in [Flows -> SecretType]
  <1>1. secret \in [Flows -> SecretType] /\ secret[f] \in SecretType
    BY DEF Typed
  <1>2. ASSUME NEW g \in Gen
        PROVE  [secret EXCEPT ![f].refresh = g] \in [Flows -> SecretType]
    <2>1. [secret[f] EXCEPT !.refresh = g] \in SecretType
      BY <1>1, <1>2 DEF SecretType
    <2>2. QED
      BY <1>1, <2>1
  <1>3. ASSUME NEW k \in AccessKeys, NEW n \in Spans \cup {None}
        PROVE  [secret EXCEPT ![f].tokens[k] = n] \in [Flows -> SecretType]
    <2>1. [secret[f].tokens EXCEPT ![k] = n] \in [AccessKeys -> Spans \cup {None}]
      BY <1>1, <1>3 DEF SecretType
    <2>2. [secret[f] EXCEPT !.tokens = [secret[f].tokens EXCEPT ![k] = n]] \in SecretType
      BY <1>1, <2>1 DEF SecretType
    <2>3. QED
      BY <1>1, <2>2
  <1>4. QED
    BY <1>2, <1>3

LEMMA AccountTyped ==
  ASSUME Typed, NEW f \in Flows, Exists(f)
  PROVE  /\ account[f] \in [kept : {TRUE}, date : [Resources -> Spans], reauth : BOOLEAN]
         /\ \A r \in Resources : account[f].date[r] \in Spans
  <1>1. account[f] \in AccountType /\ account[f].kept
    BY DEF Typed, Exists
  <1>2. account[f] # Gone
    BY <1>1 DEF Gone
  <1>3. QED
    BY <1>1, <1>2 DEF AccountType

LEMMA FaultTyped == Typed /\ Fault => bound' \in BoundType
  BY ServiceAssumption DEF Typed, Fault, BoundType, ServiceAssumption

\* Each step keeps the types.
LEMMA BeginTyped ==
  ASSUME Typed, NEW f \in Flows, NEW k \in {"oauth", "nextcloud"}, Begin(f, k)
  PROVE  Typed'
  <1>1. kind' \in [Flows -> {"none", "oauth", "nextcloud", "password"}]
    BY DEF Begin, Typed
  <1>2. pending' \in [Flows -> 0..Ttl]
    BY ServiceAssumption DEF Begin, Typed, ServiceAssumption
  <1>3. QED
    BY <1>1, <1>2 DEF Begin, Typed, disk, locks, history

LEMMA ExchangeTyped ==
  ASSUME Typed, NEW c \in Calls, Exchange(c)
  PROVE  Typed'
  <1>1. call \in [Calls -> CallType] /\ call[c] \in CallType /\ Flow(c) \in Flows
    BY DEF Typed, CallType, Flow
  <1>2. call' \in [Calls -> CallType]
    <2>1. ASSUME NEW life \in 1..MaxLife, NEW gen \in {0, 1}, NEW date \in {life, Never},
                   call' = [call EXCEPT ![c].pc = "add", ![c].life = life,
                                        ![c].date = date, ![c].gen = gen]
            PROVE  call' \in [Calls -> CallType]
      <3>1. life \in Spans /\ date \in Spans /\ gen \in Gen /\ "add" \in Pc
        BY BaseTypes DEF Steps
      <3>2. call' = [call EXCEPT ![c] = [call[c] EXCEPT !.pc = "add", !.life = life,
                                                        !.date = date, !.gen = gen]]
        BY <2>1, Zenon
      <3>3. [call[c] EXCEPT !.pc = "add", !.life = life, !.date = date, !.gen = gen] \in CallType
        BY <1>1, <3>1 DEF CallType
      <3>4. QED
        BY <1>1, <3>2, <3>3, Zenon
    <2>2. Ends(c) \/ Silence(c) => call' \in [Calls -> CallType]
      BY EndsTyped, OnlyTyped DEF Silence, Steps
    <2>3. QED
      BY <2>1, <2>2, Zenon DEF Exchange, Loses
  <1>3. bound' \in BoundType
    BY FaultTyped DEF Exchange, Loses, Typed
  <1>4. QED
    BY <1>1, <1>2, <1>3, BaseTypes DEF Exchange, Typed, disk, locks, history


LEMMA PollAnswerTyped ==
  ASSUME Typed, NEW c \in Calls, PollAnswer(c)
  PROVE  Typed'
  <1>1. call \in [Calls -> CallType] /\ call[c] \in CallType /\ Flow(c) \in Flows
    BY DEF Typed, CallType, Flow
  <1>2. [call[c] EXCEPT !.pc = "add", !.life = Never, !.date = Never] \in CallType
    BY <1>1, BaseTypes DEF CallType, Pc, Steps
  <1>3. call' \in [Calls -> CallType]
    <2>1. Ends(c) => call' \in [Calls -> CallType]
      BY EndsTyped
    <2>2. ~Ends(c) => call' = [call EXCEPT ![c] =
                         [call[c] EXCEPT !.pc = "add", !.life = Never, !.date = Never]]
      BY Zenon DEF PollAnswer
    <2>3. QED
      BY <1>1, <1>2, <2>1, <2>2
  <1>4. bound' \in BoundType
    BY FaultTyped DEF PollAnswer, Fails, Typed
  <1>5. QED
    BY <1>1, <1>3, <1>4, BaseTypes DEF PollAnswer, Typed, disk, locks, history

LEMMA RegisterTyped ==
  ASSUME Typed, NEW c \in Calls, NEW f \in Flows, Register(c, f)
  PROVE  Typed'
  <1>1. [Idle EXCEPT !.pc = "add", !.flow = f, !.life = Never, !.date = Never] \in CallType
    BY BaseTypes DEF CallType, Pc, Steps
  <1>2. QED
    BY <1>1 DEF Register, Typed, disk, locks, history

LEMMA AddAccountTyped ==
  ASSUME Typed, NEW c \in Calls, AddAccount(c)
  PROVE  Typed'
  <1>1. call[c] \in CallType /\ Flow(c) \in Flows /\ call[c].date \in Spans
    BY DEF Typed, CallType, Flow
  <1>2. AccountWith(call[c].date) \in AccountType
    BY <1>1 DEF AccountWith, AccountType
  <1>3. (Go(c, "access") \/ Ends(c)) => call' \in [Calls -> CallType]
    BY EndsTyped, GoTyped, OnlyTyped DEF Steps
  <1>4. bound' \in BoundType /\ call' \in [Calls -> CallType]
    BY <1>3, FaultTyped DEF AddAccount, Typed
  <1>5. QED
    BY <1>1, <1>2, <1>4 DEF AddAccount, Typed

LEMMA StoreAccessTyped ==
  ASSUME Typed, NEW c \in Calls, StoreAccess(c)
  PROVE  Typed'
  <1>1. call[c] \in CallType /\ Flow(c) \in Flows /\ call[c].life \in Spans
    BY DEF Typed, CallType, Flow
  <1>2. (Go(c, "refresh") \/ Only(c, "unpend") \/ Ends(c)) => call' \in [Calls -> CallType]
    BY EndsTyped, GoTyped, OnlyTyped DEF Steps
  <1>3. /\ bound' \in BoundType /\ call' \in [Calls -> CallType]
        /\ candado' \in Calls \cup {Free}
    <2>1. bound' \in BoundType
      BY FaultTyped DEF StoreAccess, Typed
    <2>2. call' \in [Calls -> CallType]
      BY <1>2, Zenon DEF StoreAccess
    <2>3. candado' \in Calls \cup {Free}
      BY DEF StoreAccess, Typed
    <2>4. QED
      BY <2>1, <2>2, <2>3
  <1>4. secret' \in [Flows -> SecretType]
    <2>1. /\ secret \in [Flows -> SecretType] /\ "access" \in AccessKeys
          /\ [secret EXCEPT ![Flow(c)].tokens["access"] = call[c].life] \in [Flows -> SecretType]
      BY <1>1, SecretTyped DEF Typed, AccessKeys
    <2>2. \/ secret' = secret
          \/ secret' = [secret EXCEPT ![Flow(c)].tokens["access"] = call[c].life]
      BY Zenon DEF StoreAccess
    <2>3. QED
      BY <2>1, <2>2
  <1>5. short' \subseteq Flows
    BY <1>1 DEF StoreAccess, Typed
  <1>6. QED
    BY <1>3, <1>4, <1>5 DEF StoreAccess, Typed

LEMMA StoreRefreshTyped ==
  ASSUME Typed, NEW c \in Calls, StoreRefresh(c)
  PROVE  Typed'
  <1>1. call[c] \in CallType /\ Flow(c) \in Flows /\ call[c].gen \in Gen
    BY DEF Typed, CallType, Flow
  <1>2. call' \in [Calls -> CallType]
    BY EndsTyped DEF StoreRefresh
  <1>3. bound' \in BoundType
    BY FaultTyped DEF StoreRefresh, Typed
  <1>4. secret' \in [Flows -> SecretType]
    BY <1>1, SecretTyped DEF StoreRefresh, Typed
  <1>5. QED
    BY <1>2, <1>3, <1>4 DEF StoreRefresh, Typed, history

LEMMA UnpendTyped ==
  ASSUME Typed, NEW c \in Calls, Unpend(c)
  PROVE  Typed'
  <1>1. call' \in [Calls -> CallType]
    BY EndsTyped DEF Unpend
  <1>2. pending \in [Flows -> 0..Ttl] /\ 0 \in 0..Ttl
    BY ServiceAssumption DEF ServiceAssumption, Typed
  <1>3. pending' \in [Flows -> 0..Ttl]
    BY <1>2 DEF Unpend
  <1>4. QED
    BY <1>1, <1>3 DEF Unpend, Typed, disk, locks, history

\* The way out of the lock of an account.
LEMMA LocksTyped ==
  ASSUME Typed, NEW c \in Calls
  PROVE  /\ LetGo(c) => candados' \in [Flows -> Calls \cup {Free}]
         /\ Refuses(c) => candados' \in [Flows -> Calls \cup {Free}] /\ call' \in [Calls -> CallType]
         /\ Revoked(c) => candados' \in [Flows -> Calls \cup {Free}] /\ call' \in [Calls -> CallType]
         /\ Serves(c) => candados' \in [Flows -> Calls \cup {Free}] /\ call' \in [Calls -> CallType]
  <1>1. LetGo(c) => candados' \in [Flows -> Calls \cup {Free}]
    BY DEF LetGo, Typed
  <1>2. (Ends(c) \/ Only(c, "good") \/ Only(c, "bad")) => call' \in [Calls -> CallType]
    BY EndsTyped, GoTyped, OnlyTyped DEF Steps
  <1>3. QED
    BY <1>1, <1>2 DEF Refuses, Revoked, Serves

LEMMA GetAccessTokenTyped ==
  ASSUME Typed, NEW c \in Calls, NEW f \in Flows, NEW r \in Resources, GetAccessToken(c, f, r)
  PROVE  Typed'
  <1>1. [Idle EXCEPT !.pc = "plan", !.flow = f, !.res = r] \in CallType
    BY BaseTypes DEF CallType, Pc, Steps
  <1>2. QED
    BY <1>1 DEF GetAccessToken, Typed, disk, locks, history

LEMMA LoadPlanTyped ==
  ASSUME Typed, NEW c \in Calls, LoadPlan(c)
  PROVE  Typed'
  <1>1. call \in [Calls -> CallType] /\ call[c] \in CallType
        /\ Flow(c) \in Flows /\ call[c].res \in Resources
    BY DEF Typed, CallType, Flow
  <1>2. ASSUME Exists(Flow(c)), NEW date, date = account[Flow(c)].date[call[c].res],
               call' = [call EXCEPT ![c].pc = "cache", ![c].date = date]
        PROVE  call' \in [Calls -> CallType]
    <2>1. date \in Spans
      BY <1>1, <1>2, AccountTyped
    <2>2. QED
      BY <1>1, <1>2, <2>1, BaseTypes DEF CallType, Pc, Steps
  <1>3. /\ candados' \in [Flows -> Calls \cup {Free}] /\ call' \in [Calls -> CallType]
        /\ bound' \in BoundType
    BY <1>2, LocksTyped, FaultTyped DEF LoadPlan, Typed, Fails
  <1>4. QED
    BY <1>3 DEF LoadPlan, Typed, disk, history

LEMMA ReadCacheTyped ==
  ASSUME Typed, NEW c \in Calls, ReadCache(c)
  PROVE  Typed'
  <1>1. (Only(c, "ask") \/ Only(c, "lock")) => call' \in [Calls -> CallType]
    BY OnlyTyped DEF Steps
  <1>2. candados' \in [Flows -> Calls \cup {Free}] /\ call' \in [Calls -> CallType]
    BY <1>1, LocksTyped DEF ReadCache, Typed
  <1>3. /\ bound' \in BoundType /\ Flow(c) \in Flows
        /\ rushed' \subseteq Flows /\ misread' \subseteq Flows
    BY FaultTyped DEF ReadCache, Fails, Typed, CallType, Flow
  <1>4. QED
    BY <1>2, <1>3 DEF ReadCache, Typed, disk

LEMMA TakeLockTyped ==
  ASSUME Typed, NEW c \in Calls, TakeLock(c)
  PROVE  Typed'
  <1>1. call' \in [Calls -> CallType]
    BY GoTyped DEF TakeLock, Steps
  <1>2. QED
    BY <1>1 DEF TakeLock, Typed, disk, history

LEMMA ReadRefreshTyped ==
  ASSUME Typed, NEW c \in Calls, ReadRefresh(c)
  PROVE  Typed'
  <1>1. /\ call \in [Calls -> CallType] /\ call[c] \in CallType
        /\ Flow(c) \in Flows /\ secret[Flow(c)].refresh \in Gen
    BY DEF Typed, CallType, Flow, SecretType
  <1>2. [call[c] EXCEPT !.pc = "answer", !.gen = secret[Flow(c)].refresh] \in CallType
    BY <1>1, BaseTypes DEF CallType, Steps
  <1>3. /\ bound' \in BoundType /\ rushed' \subseteq Flows /\ misread' \subseteq Flows
    BY <1>1, FaultTyped DEF ReadRefresh, Fails, Typed
  <1>4. CASE Revoked(c)
    BY <1>3, <1>4, LocksTyped DEF ReadRefresh, Typed, disk
  <1>5. CASE ~Revoked(c)
    <2>1. call' = [call EXCEPT ![c] = [call[c] EXCEPT !.pc = "answer", !.gen = secret[Flow(c)].refresh]]
      BY <1>5, Zenon DEF ReadRefresh
    <2>2. call' \in [Calls -> CallType]
      BY <1>1, <1>2, <2>1
    <2>3. QED
      BY <1>3, <1>5, <2>2 DEF ReadRefresh, Typed, disk
  <1>6. QED
    BY <1>4, <1>5

LEMMA AnswerTyped ==
  ASSUME Typed, NEW c \in Calls, Answer(c)
  PROVE  Typed'
  <1>1. /\ call \in [Calls -> CallType] /\ call[c] \in CallType
        /\ Flow(c) \in Flows /\ grant \in [Flows -> Gen]
    BY DEF Typed, CallType, Flow
  <1>2. ASSUME NEW gen \in 1..MaxGen, NEW life \in 1..MaxLife, NEW date \in {life, Never},
               call' = [call EXCEPT ![c].pc = "persist", ![c].gen = gen,
                                    ![c].life = life, ![c].date = date]
        PROVE  call' \in [Calls -> CallType]
    <2>1. life \in Spans /\ date \in Spans /\ gen \in Gen /\ "persist" \in Pc
      BY BaseTypes DEF Steps
    <2>2. [call[c] EXCEPT !.pc = "persist", !.gen = gen, !.life = life, !.date = date] \in CallType
      BY <1>1, <2>1 DEF CallType
    <2>3. call' = [call EXCEPT ![c] = [call[c] EXCEPT !.pc = "persist", !.gen = gen,
                                                      !.life = life, !.date = date]]
      BY <1>2, Zenon
    <2>4. QED
      BY <1>1, <2>2, <2>3, Zenon
  <1>3. (Unanswered(c) \/ Revoked(c)) =>
           call' \in [Calls -> CallType] /\ candados' \in [Flows -> Calls \cup {Free}]
    BY LocksTyped, OnlyTyped DEF Unanswered, Silence, Steps, Typed
  <1>4. /\ call' \in [Calls -> CallType] /\ candados' \in [Flows -> Calls \cup {Free}]
        /\ bound' \in BoundType
    <2>1. ASSUME NEW gen \in 1..MaxGen,
                 \/ /\ \E life \in 1..MaxLife : \E date \in {life, Never} :
                         call' = [call EXCEPT ![c].pc = "persist", ![c].gen = gen,
                                              ![c].life = life, ![c].date = date]
                    /\ UNCHANGED <<candados, bound>>
                 \/ Unanswered(c)
          PROVE  /\ call' \in [Calls -> CallType] /\ candados' \in [Flows -> Calls \cup {Free}]
                 /\ bound' \in BoundType
      <3>1. CASE Unanswered(c)
        BY <1>3, <3>1, FaultTyped DEF Unanswered
      <3>2. CASE /\ \E life \in 1..MaxLife : \E date \in {life, Never} :
                      call' = [call EXCEPT ![c].pc = "persist", ![c].gen = gen,
                                           ![c].life = life, ![c].date = date]
                 /\ UNCHANGED <<candados, bound>>
        <4>1. call' \in [Calls -> CallType]
          BY <1>2, <3>2, Zenon
        <4>2. QED
          BY <3>2, <4>1 DEF Typed
      <3>3. QED
        BY <2>1, <3>1, <3>2
    <2>2. CASE Unanswered(c)
      BY <1>3, <2>2, FaultTyped DEF Unanswered
    <2>3. CASE Revoked(c) /\ UNCHANGED bound
      BY <1>3, <2>3 DEF Typed
    <2>4. QED
      BY <2>1, <2>2, <2>3, Zenon DEF Answer
  <1>5. grant' \in [Flows -> Gen]
    BY <1>1, BaseTypes DEF Answer
  <1>6. QED
    BY <1>4, <1>5 DEF Answer, Typed, disk, history

LEMMA PersistTyped ==
  ASSUME Typed, NEW c \in Calls, Persist(c)
  PROVE  Typed'
  <1>1. /\ call[c] \in CallType /\ Flow(c) \in Flows
        /\ call[c].life \in Spans /\ call[c].gen \in Gen /\ call[c].res \in Resources
        /\ secret \in [Flows -> SecretType] /\ secret[Flow(c)] \in SecretType
    BY DEF Typed, CallType, Flow
  <1>2. AccessKey(Flow(c), call[c].res) \in AccessKeys
    BY <1>1 DEF AccessKey, AccessKeys
  <1>3. Put(c) => secret' \in [Flows -> SecretType]
    <2> DEFINE f == Flow(c)
               tokens == [secret[f].tokens EXCEPT ![AccessKey(f, call[c].res)] = call[c].life]
               new == [secret[f] EXCEPT !.tokens = tokens, !.refresh = call[c].gen]
    <2>1. tokens \in [AccessKeys -> Spans \cup {None}]
      BY <1>1, <1>2 DEF SecretType
    <2>2. new \in SecretType
      <3> HIDE DEF tokens
      <3> QED
        BY <1>1, <2>1 DEF SecretType
    <2>3. Put(c) => secret' = [secret EXCEPT ![f] = new]
      BY Zenon DEF Put
    <2>4. QED
      <3> HIDE DEF new, f
      <3> QED
        BY <1>1, <2>2, <2>3
  <1>4. (Go(c, "orphan") \/ Refuses(c)) => call' \in [Calls -> CallType]
    BY GoTyped, LocksTyped DEF Steps
  <1>5. bound' \in BoundType
    BY FaultTyped DEF Persist, Fails, Typed
  <1>6. /\ call' \in [Calls -> CallType] /\ secret' \in [Flows -> SecretType]
        /\ candados' \in [Flows -> Calls \cup {Free}]
    BY <1>1, <1>3, <1>4, LocksTyped DEF Persist, Typed
  <1>7. QED
    BY <1>5, <1>6 DEF Persist, Typed, history

LEMMA DropOrphanTyped ==
  ASSUME Typed, NEW c \in Calls, DropOrphan(c)
  PROVE  Typed'
  <1>1. call[c] \in CallType /\ Flow(c) \in Flows /\ secret \in [Flows -> SecretType]
    BY DEF Typed, CallType, Flow
  <1>2. [secret EXCEPT ![Flow(c)].tokens["access"] = None] \in [Flows -> SecretType]
    BY <1>1, SecretTyped DEF AccessKeys
  <1>3. Go(c, "date") => call' \in [Calls -> CallType]
    BY GoTyped DEF Steps
  <1>4. /\ call' \in [Calls -> CallType] /\ bound' \in BoundType
        /\ candados' \in [Flows -> Calls \cup {Free}]
    BY <1>3, FaultTyped, LocksTyped DEF DropOrphan, Typed
  <1>5. secret' \in [Flows -> SecretType] /\ short' \subseteq Flows
    BY <1>1, <1>2 DEF DropOrphan, Typed
  <1>6. QED
    BY <1>4, <1>5 DEF DropOrphan, Typed

\* A write of the dates of an account, and of its mark.
LEMMA AccountWrites ==
  ASSUME Typed, NEW f \in Flows, Exists(f)
  PROVE  /\ \A b \in BOOLEAN : [account EXCEPT ![f].reauth = b] \in [Flows -> AccountType]
         /\ \A dates \in [Resources -> Spans] :
              [account EXCEPT ![f].date = dates] \in [Flows -> AccountType]
  <1> DEFINE Kept == [kept : {TRUE}, date : [Resources -> Spans], reauth : BOOLEAN]
  <1>1. account \in [Flows -> AccountType] /\ account[f] \in Kept
    BY AccountTyped DEF Typed
  <1>2. ASSUME NEW b \in BOOLEAN
        PROVE  [account EXCEPT ![f].reauth = b] \in [Flows -> AccountType]
    <2>1. [account[f] EXCEPT !.reauth = b] \in Kept
      BY <1>1, <1>2
    <2>2. QED
      BY <1>1, <2>1 DEF AccountType
  <1>3. ASSUME NEW dates \in [Resources -> Spans]
        PROVE  [account EXCEPT ![f].date = dates] \in [Flows -> AccountType]
    <2>1. [account[f] EXCEPT !.date = dates] \in Kept
      BY <1>1, <1>3
    <2>2. QED
      BY <1>1, <2>1 DEF AccountType
  <1>4. QED
    BY <1>2, <1>3

LEMMA NoteDateTyped ==
  ASSUME Typed, NEW c \in Calls, NoteDate(c)
  PROVE  Typed'
  <1>1. /\ call[c] \in CallType /\ Flow(c) \in Flows /\ call[c].date \in Spans
        /\ account \in [Flows -> AccountType]
    BY DEF Typed, CallType, Flow
  <1>2. Dated(c) \in [Flows -> AccountType]
    <2> DEFINE dates == [r \in Resources |->
                IF r \in SharesToken(Flow(c), call[c].res) THEN call[c].date
                                                           ELSE account[Flow(c)].date[r]]
    <2>1. CASE Exists(Flow(c))
      <3>1. dates \in [Resources -> Spans]
        BY <1>1, <2>1, AccountTyped
      <3>2. Dated(c) = [account EXCEPT ![Flow(c)].date = dates]
        BY <2>1, Zenon DEF Dated
      <3>3. QED
        <4> HIDE DEF dates
        <4> QED
          BY <1>1, <2>1, <3>1, <3>2, AccountWrites
    <2>2. CASE ~Exists(Flow(c))
      BY <1>1, <2>2 DEF Dated
    <2>3. QED
      BY <2>1, <2>2
  <1>3. /\ call' \in [Calls -> CallType] /\ bound' \in BoundType
        /\ candados' \in [Flows -> Calls \cup {Free}]
    BY FaultTyped, LocksTyped DEF NoteDate, Typed
  <1>4. account' \in [Flows -> AccountType] /\ short' \subseteq Flows
    BY <1>1, <1>2 DEF NoteDate, Typed
  <1>5. QED
    BY <1>3, <1>4 DEF NoteDate, Typed

LEMMA MarkTyped ==
  ASSUME Typed, NEW c \in Calls, NEW needs \in BOOLEAN, Mark(c, needs)
  PROVE  Typed'
  <1>1. Flow(c) \in Flows /\ account \in [Flows -> AccountType]
    BY DEF Typed, CallType, Flow
  <1>2. account' \in [Flows -> AccountType]
    BY <1>1, AccountWrites DEF Mark
  <1>3. call' \in [Calls -> CallType] /\ bound' \in BoundType
    BY EndsTyped, FaultTyped DEF Mark, Typed
  <1>4. QED
    BY <1>2, <1>3 DEF Mark, Typed, locks, history

LEMMA StartRemovalTyped ==
  ASSUME Typed, NEW c \in Calls, StartRemoval(c)
  PROVE  Typed'
  <1>1. /\ call \in [Calls -> CallType] /\ call[c] \in CallType
        /\ Flow(c) \in Flows /\ secret[Flow(c)].refresh \in Gen
    BY DEF Typed, CallType, Flow, SecretType
  <1>2. ASSUME NEW gen \in Gen,
               call' = [call EXCEPT ![c].pc = "revoke", ![c].gen = gen]
        PROVE  call' \in [Calls -> CallType]
    <2>1. [call[c] EXCEPT !.pc = "revoke", !.gen = gen] \in CallType
      BY <1>1, <1>2, BaseTypes DEF CallType, Steps
    <2>2. call' = [call EXCEPT ![c] = [call[c] EXCEPT !.pc = "revoke", !.gen = gen]]
      BY <1>2, Zenon
    <2>3. QED
      BY <1>1, <2>1, <2>2
  <1>3. (IF kind[Flow(c)] = "oauth" THEN secret[Flow(c)].refresh ELSE 1) \in Gen
    BY <1>1, BaseTypes
  <1>4. Go(c, "delete") => call' \in [Calls -> CallType]
    BY GoTyped DEF Steps
  <1>5. call' \in [Calls -> CallType]
    BY <1>2, <1>3, <1>4, Zenon DEF StartRemoval
  <1>6. QED
    BY <1>5 DEF StartRemoval, Typed, disk, history

LEMMA RevokeAnswerTyped ==
  ASSUME Typed, NEW c \in Calls, RevokeAnswer(c)
  PROVE  Typed'
  <1>1. /\ call \in [Calls -> CallType] /\ call[c] \in CallType
        /\ Flow(c) \in Flows /\ grant \in [Flows -> Gen]
    BY DEF Typed, CallType, Flow
  <1>2. [call[c] EXCEPT !.pc = "delete", !.gen = 0] \in CallType
    BY <1>1, BaseTypes DEF CallType, Steps
  <1>3. call' = [call EXCEPT ![c] = [call[c] EXCEPT !.pc = "delete", !.gen = 0]]
    BY Zenon DEF RevokeAnswer
  <1>4. call' \in [Calls -> CallType]
    BY <1>1, <1>2, <1>3
  <1>5. grant' \in [Flows -> Gen]
    BY <1>1, BaseTypes DEF RevokeAnswer
  <1>6. bound' \in BoundType
    BY FaultTyped DEF RevokeAnswer, Typed
  <1>7. QED
    BY <1>4, <1>5, <1>6 DEF RevokeAnswer, Typed, disk, locks, history

LEMMA DeleteAccountTyped ==
  ASSUME Typed, NEW c \in Calls, DeleteAccount(c)
  PROVE  Typed'
  <1>1. Go(c, "forget") => call' \in [Calls -> CallType]
    BY GoTyped DEF Steps
  <1>2. call' \in [Calls -> CallType] /\ bound' \in BoundType
    BY <1>1, EndsTyped, FaultTyped DEF DeleteAccount, Typed
  <1>3. account' \in [Flows -> AccountType]
    BY BaseTypes DEF DeleteAccount, Typed
  <1>4. QED
    BY <1>2, <1>3 DEF DeleteAccount, Typed, history

LEMMA ForgetTyped ==
  ASSUME Typed, NEW c \in Calls, Forget(c)
  PROVE  Typed'
  <1>1. Flow(c) \in Flows
    BY DEF Typed, CallType, Flow
  <1>2. call' \in [Calls -> CallType] /\ bound' \in BoundType
    BY EndsTyped, FaultTyped DEF Forget, Typed
  <1>3. secret' \in [Flows -> SecretType] /\ left' \subseteq Flows
    BY <1>1, BaseTypes DEF Forget, Typed
  <1>4. QED
    BY <1>2, <1>3 DEF Forget, Typed

LEMMA CrashTyped ==
  ASSUME Typed, Crash
  PROVE  Typed'
  <1>1. \A c \in Calls : Flow(c) \in Flows
    BY DEF Typed, CallType, Flow
  <1>2. call' \in [Calls -> CallType]
    BY BaseTypes DEF Crash
  <1>3. bound' \in BoundType
    BY ServiceAssumption DEF ServiceAssumption, Crash, Typed, BoundType
  <1>4. left' \subseteq Flows /\ short' \subseteq Flows
    BY <1>1 DEF Crash, Typed
  <1>5. pending' \in [Flows -> 0..Ttl]
    BY ServiceAssumption DEF ServiceAssumption, Crash
  <1>6. QED
    BY <1>2, <1>3, <1>4, <1>5 DEF Crash, Typed, disk

LEMMA TickTyped ==
  ASSUME Typed, Tick
  PROVE  Typed'
  <1>1. pending' \in [Flows -> 0..Ttl]
    <2>1. \A f \in Flows : pending[f] \in 0..Ttl
      BY DEF Typed
    <2>2. \A f \in Flows : (IF pending[f] > 0 THEN pending[f] - 1 ELSE 0) \in 0..Ttl
      BY <2>1, ServiceAssumption DEF ServiceAssumption
    <2>3. QED
      BY <2>2, Zenon DEF Tick
  <1>2. account' \in [Flows -> AccountType]
    <2>1. ASSUME NEW f \in Flows, Exists(f)
          PROVE  [account[f] EXCEPT !.date = [r \in Resources |-> Older(@[r])]] \in AccountType
      <3> DEFINE dates == [r \in Resources |-> Older(account[f].date[r])]
      <3>1. dates \in [Resources -> Spans]
        BY <2>1, AccountTyped, OlderType
      <3>2. [account[f] EXCEPT !.date = dates] \in AccountType
        <4> HIDE DEF dates
        <4> QED
          BY <2>1, <3>1, AccountTyped DEF AccountType
      <3>3. QED
        BY <3>2
    <2>2. QED
      BY <2>1, BaseTypes, Zenon DEF Tick
  <1>3. secret' \in [Flows -> SecretType]
    <2>1. ASSUME NEW f \in Flows
          PROVE  [secret[f] EXCEPT !.tokens = [k \in AccessKeys |-> Older(@[k])]] \in SecretType
      <3> DEFINE tokens == [k \in AccessKeys |-> Older(secret[f].tokens[k])]
      <3>1. secret[f] \in SecretType
        BY DEF Typed
      <3>2. tokens \in [AccessKeys -> Spans \cup {None}]
        BY <3>1, OlderType DEF SecretType
      <3>3. [secret[f] EXCEPT !.tokens = tokens] \in SecretType
        <4> HIDE DEF tokens
        <4> QED
          BY <3>1, <3>2 DEF SecretType
      <3>4. QED
        BY <3>3
    <2>2. QED
      BY <2>1, Zenon DEF Tick
  <1>4. call' \in [Calls -> CallType]
    <2>1. ASSUME NEW c \in Calls
          PROVE  [call[c] EXCEPT !.date = Older(@), !.life = Older(@)] \in CallType
      <3>1. call[c] \in CallType
        BY DEF Typed
      <3>2. Older(call[c].date) \in Spans /\ Older(call[c].life) \in Spans
        BY <3>1, OlderType DEF CallType
      <3>3. QED
        BY <3>1, <3>2 DEF CallType
    <2>2. QED
      BY <2>1, Zenon DEF Tick
  <1>5. QED
    BY <1>1, <1>2, <1>3, <1>4 DEF Tick, Typed, locks, history

LEMMA TypedStep == Typed /\ [Next]_vars => Typed'
  <1> SUFFICES ASSUME Typed, [Next]_vars
               PROVE  Typed'
    OBVIOUS
  <1>1. ASSUME NEW f \in Flows, Approve(f) \/ CancelAuth(f) \/ PersonRevokes(f)
        PROVE  Typed'
    <2>1. CASE Approve(f)
      BY <2>1 DEF Approve, Typed, disk, locks, history
    <2>2. CASE CancelAuth(f)
      <3>1. pending' \in [Flows -> 0..Ttl]
        BY <2>2, ServiceAssumption DEF ServiceAssumption, Typed, CancelAuth
      <3>2. QED
        BY <2>2, <3>1 DEF CancelAuth, Typed, disk, locks
    <2>3. CASE PersonRevokes(f)
      <3>1. grant' \in [Flows -> Gen] /\ bound' \in BoundType
        BY <2>3, BaseTypes, ServiceAssumption
        DEF ServiceAssumption, Typed, PersonRevokes, BoundType
      <3>2. QED
        BY <2>3, <3>1 DEF PersonRevokes, Typed, disk, locks, history
    <2>4. QED
      BY <1>1, <2>1, <2>2, <2>3
  <1>2. ASSUME NEW c \in Calls, NEW f \in Flows,
               CompleteAuth(c, f) \/ PollNextcloud(c, f) \/ Register(c, f) \/ RemoveAccount(c, f)
        PROVE  Typed'
    <2>1. \A pc \in Steps : Begins(c, pc, f) => call' \in [Calls -> CallType]
      BY BeginsTyped
    <2>2. CASE CompleteAuth(c, f)
      <3>1. pending' \in [Flows -> 0..Ttl]
        BY <2>2, ServiceAssumption DEF ServiceAssumption, Typed, CompleteAuth, TakeOauth
      <3>2. call' \in [Calls -> CallType]
        BY <2>1, <2>2 DEF CompleteAuth, TakeOauth, Steps
      <3>3. QED
        BY <2>2, <3>1, <3>2 DEF CompleteAuth, Typed, disk, locks, history
    <2>3. CASE PollNextcloud(c, f)
      <3>1. call' \in [Calls -> CallType]
        BY <2>1, <2>3 DEF PollNextcloud, Steps
      <3>2. QED
        BY <2>3, <3>1 DEF PollNextcloud, Typed, disk, locks, history
    <2>4. CASE RemoveAccount(c, f)
      <3>1. call' \in [Calls -> CallType]
        BY <2>1, <2>4 DEF RemoveAccount, Steps
      <3>2. QED
        BY <2>4, <3>1 DEF RemoveAccount, Typed, disk, locks, history
    <2>5. QED
      BY <1>2, <2>2, <2>3, <2>4, RegisterTyped
  <1>3. ASSUME NEW c \in Calls, Goes(c)
        PROVE  Typed'
    BY <1>3, ExchangeTyped, PollAnswerTyped, StoreAccessTyped, StoreRefreshTyped, UnpendTyped,
       LoadPlanTyped, ReadCacheTyped, ReadRefreshTyped, AnswerTyped, PersistTyped,
       DropOrphanTyped, NoteDateTyped, RevokeAnswerTyped, DeleteAccountTyped, ForgetTyped
    DEF Goes
  <1>4. ASSUME NEW c \in Calls, Waits(c)
        PROVE  Typed'
    BY <1>4, AddAccountTyped, TakeLockTyped, MarkTyped, StartRemovalTyped
    DEF Waits, MarkGood, MarkBad
  <1>5. CASE UNCHANGED vars
    BY <1>5 DEF vars, disk, locks, history, Typed
  <1>6. QED
    BY <1>1, <1>2, <1>3, <1>4, <1>5, BeginTyped, GetAccessTokenTyped, TickTyped, CrashTyped
    DEF Next, Asks
-----------------------------------------------------------------------------
\* What a step does to the calls: the others stay as they were; the one of the
\* step goes on to another pc, about the same flow, or ends.
Others(c)  == \A d \in Calls : d # c => call'[d] = call[d]
To(c, pc)  == /\ call'[c].pc = pc /\ call'[c].flow = call[c].flow /\ call'[c].res = call[c].res
              /\ Others(c)
Keeps(c)   == call'[c].date = call[c].date /\ call'[c].life = call[c].life /\ call'[c].gen = call[c].gen
Idles(c)   == call'[c].pc = "idle" /\ Others(c)
Starts(c, pc, f) == /\ call[c].pc = "idle" /\ call'[c].pc = pc /\ call'[c].flow = f /\ Others(c)

LEMMA GoMoves ==
  ASSUME Typed, NEW c \in Calls, NEW pc, Go(c, pc)
  PROVE  To(c, pc) /\ Keeps(c)
  BY DEF Typed, CallType, Go, To, Keeps, Others

LEMMA OnlyMoves ==
  ASSUME Typed, NEW c \in Calls, NEW pc, Only(c, pc)
  PROVE  To(c, pc)
  BY DEF Typed, CallType, Only, To, Others

LEMMA EndsMoves ==
  ASSUME Typed, NEW c \in Calls, Ends(c)
  PROVE  Idles(c)
  BY IdleType DEF Typed, CallType, Ends, Idles, Others

LEMMA BeginsMoves ==
  ASSUME Typed, NEW c \in Calls, NEW pc, NEW f, Begins(c, pc, f)
  PROVE  Starts(c, pc, f)
  BY BaseTypes DEF Typed, CallType, Begins, Starts, Others, At

LEMMA ExchangeMoves ==
  ASSUME Typed, NEW c \in Calls, Exchange(c)
  PROVE  \/ To(c, "add") /\ code[Flow(c)] = "approved" /\ code' = [code EXCEPT ![Flow(c)] = "used"]
         \/ Idles(c) \/ To(c, "silence")
  <1>1. (\E life \in 1..MaxLife, gen \in {0, 1} : \E date \in {life, Never} :
           call' = [call EXCEPT ![c].pc = "add", ![c].life = life, ![c].date = date, ![c].gen = gen])
        => To(c, "add")
    BY DEF Typed, CallType, To, Others
  <1>2. (Ends(c) => Idles(c)) /\ (Silence(c) => To(c, "silence"))
    BY EndsMoves, OnlyMoves DEF Silence
  <1>3. \/ Idles(c) \/ To(c, "silence")
        \/ /\ code[Flow(c)] = "approved" /\ code' = [code EXCEPT ![Flow(c)] = "used"]
           /\ \E life \in 1..MaxLife, gen \in {0, 1} : \E date \in {life, Never} :
                call' = [call EXCEPT ![c].pc = "add", ![c].life = life,
                                     ![c].date = date, ![c].gen = gen]
    BY <1>2 DEF Exchange, Loses
  <1>4. QED
    BY <1>1, <1>3

LEMMA PollAnswerMoves ==
  ASSUME Typed, NEW c \in Calls, PollAnswer(c)
  PROVE  \/ To(c, "add") /\ code[Flow(c)] = "approved" /\ code' = [code EXCEPT ![Flow(c)] = "used"]
         \/ Idles(c)
  <1>1. call' = [call EXCEPT ![c].pc = "add", ![c].life = Never, ![c].date = Never] => To(c, "add")
    BY DEF Typed, CallType, To, Others
  <1>2. Ends(c) => Idles(c)
    BY EndsMoves
  <1>3. QED
    BY <1>1, <1>2, Zenon DEF PollAnswer

LEMMA RegisterMoves ==
  ASSUME Typed, NEW c \in Calls, NEW f \in Flows, Register(c, f)
  PROVE  Starts(c, "add", f)
  BY BaseTypes DEF Typed, CallType, Register, Starts, Others, At

LEMMA AddAccountMoves ==
  ASSUME Typed, NEW c \in Calls, AddAccount(c)
  PROVE  \/ To(c, "access") /\ Keeps(c) /\ candado' = c /\ made' = made \cup {Flow(c)}
            /\ account' = [account EXCEPT ![Flow(c)] = AccountWith(call[c].date)]
         \/ Idles(c) /\ UNCHANGED <<account, made, candado>>
  BY GoMoves, EndsMoves DEF AddAccount

LEMMA StoreAccessMoves ==
  ASSUME Typed, NEW c \in Calls, StoreAccess(c)
  PROVE  \/ To(c, "refresh") /\ candado' = candado
         \/ (To(c, "unpend") \/ Idles(c)) /\ candado' = Free
  BY GoMoves, OnlyMoves, EndsMoves DEF StoreAccess

LEMMA GetAccessTokenMoves ==
  ASSUME Typed, NEW c \in Calls, NEW f \in Flows, NEW r \in Resources, GetAccessToken(c, f, r)
  PROVE  Starts(c, "plan", f)
  BY BaseTypes DEF Typed, CallType, GetAccessToken, Starts, Others, At

LEMMA LoadPlanMoves ==
  ASSUME Typed, NEW c \in Calls, LoadPlan(c)
  PROVE  \/ To(c, "cache") /\ candados' = candados
         \/ Idles(c) /\ LetGo(c)
  <1>1. (\E date : call' = [call EXCEPT ![c].pc = "cache", ![c].date = date]) => To(c, "cache")
    BY DEF Typed, CallType, To, Others
  <1>2. Ends(c) => Idles(c)
    BY EndsMoves
  <1>3. QED
    BY <1>1, <1>2 DEF LoadPlan, Refuses

LEMMA ReadCacheMoves ==
  ASSUME Typed, NEW c \in Calls, ReadCache(c)
  PROVE  \/ To(c, "good") /\ LetGo(c) /\ UNCHANGED <<rushed, misread>>
         \/ To(c, "ask") /\ Holds(c) /\ candados' = candados
         \/ To(c, "lock") /\ candados' = candados
  BY OnlyMoves DEF ReadCache, Serves

LEMMA ReadRefreshMoves ==
  ASSUME Typed, NEW c \in Calls, ReadRefresh(c)
  PROVE  \/ /\ To(c, "bad") /\ LetGo(c)
            /\ rushed' = IF StillStoring(Flow(c)) THEN rushed \cup {Flow(c)} ELSE rushed
            /\ misread' = IF secret[Flow(c)].refresh # 0 THEN misread \cup {Flow(c)} ELSE misread
         \/ /\ secret[Flow(c)].refresh # 0 /\ To(c, "answer") /\ candados' = candados
            /\ call'[c].gen = secret[Flow(c)].refresh /\ UNCHANGED <<rushed, misread>>
  <1>1. call' = [call EXCEPT ![c].pc = "answer", ![c].gen = secret[Flow(c)].refresh]
          => To(c, "answer") /\ call'[c].gen = secret[Flow(c)].refresh
    BY DEF Typed, CallType, To, Others
  <1>2. Only(c, "bad") => To(c, "bad")
    BY OnlyMoves
  <1>3. QED
    BY <1>1, <1>2, Zenon DEF ReadRefresh, Revoked

\* A renewal that got no answer ends without its lock, or stays with it.
GivesUp(c) == (Idles(c) /\ LetGo(c)) \/ (To(c, "silence") /\ candados' = candados)
LEMMA AnswerMoves ==
  ASSUME Typed, NEW c \in Calls, Answer(c)
  PROVE  \/ /\ call[c].gen = grant[Flow(c)] /\ To(c, "persist") /\ candados' = candados
            /\ call'[c].date \in {call'[c].life, Never} /\ call'[c].gen # 0
         \/ call[c].gen = grant[Flow(c)] /\ GivesUp(c)
         \/ call[c].gen # grant[Flow(c)] /\ To(c, "bad") /\ LetGo(c) /\ grant' = grant
         \/ GivesUp(c) /\ grant' = grant
  <1>1. ASSUME NEW gen \in 1..MaxGen, NEW life \in 1..MaxLife, NEW date \in {life, Never},
               call' = [call EXCEPT ![c].pc = "persist", ![c].gen = gen,
                                    ![c].life = life, ![c].date = date]
        PROVE  To(c, "persist") /\ call'[c].date \in {call'[c].life, Never} /\ call'[c].gen # 0
    <2>1. gen # 0
      OBVIOUS
    <2>2. call'[c].gen = gen /\ call'[c].life = life /\ call'[c].date = date /\ To(c, "persist")
      BY <1>1 DEF Typed, CallType, To, Others
    <2>3. QED
      BY <2>1, <2>2
  <1>2. (Unanswered(c) => GivesUp(c)) /\ (Only(c, "bad") => To(c, "bad"))
    BY EndsMoves, OnlyMoves DEF Unanswered, Refuses, Silence, GivesUp
  <1>3. QED
    BY <1>1, <1>2, Zenon DEF Answer, Revoked

LEMMA PersistMoves ==
  ASSUME Typed, NEW c \in Calls, Persist(c)
  PROVE  \/ Exists(Flow(c)) /\ Put(c) /\ To(c, "orphan") /\ Keeps(c) /\ candados' = candados
         \/ Idles(c) /\ LetGo(c) /\ secret' = secret
  BY GoMoves, EndsMoves DEF Persist, Refuses

LEMMA DropOrphanMoves ==
  ASSUME Typed, NEW c \in Calls, DropOrphan(c)
  PROVE  \/ To(c, "date") /\ Keeps(c) /\ candados' = candados /\ short' = short
         \/ Idles(c) /\ LetGo(c) /\ short' = short \cup {Flow(c)} /\ secret' = secret
  BY GoMoves, EndsMoves DEF DropOrphan, Refuses

LEMMA NoteDateMoves ==
  ASSUME Typed, NEW c \in Calls, NoteDate(c)
  PROVE  /\ LetGo(c) /\ (To(c, "good") \/ Idles(c))
         /\ \/ call[c].date # Never /\ account' = Dated(c) /\ short' = short
            \/ account' = account /\ short' = short \cup {Flow(c)}
  BY OnlyMoves, EndsMoves DEF NoteDate, Refuses, Serves

LEMMA StartRemovalMoves ==
  ASSUME Typed, NEW c \in Calls, StartRemoval(c)
  PROVE  To(c, "revoke") \/ To(c, "delete")
  <1>1. ASSUME NEW gen, call' = [call EXCEPT ![c].pc = "revoke", ![c].gen = gen]
        PROVE  To(c, "revoke")
    BY <1>1 DEF Typed, CallType, To, Others
  <1>2. Go(c, "delete") => To(c, "delete")
    BY GoMoves
  <1>3. QED
    BY <1>1, <1>2, Zenon DEF StartRemoval

LEMMA RevokeAnswerMoves ==
  ASSUME Typed, NEW c \in Calls, RevokeAnswer(c)
  PROVE  To(c, "delete")
  BY DEF Typed, CallType, To, Others, RevokeAnswer

LEMMA DeleteAccountMoves ==
  ASSUME Typed, NEW c \in Calls, DeleteAccount(c)
  PROVE  \/ To(c, "forget") /\ candado' = candado /\ account' = [account EXCEPT ![Flow(c)] = Gone]
         \/ Idles(c) /\ candado' = Free /\ account' = account
  BY GoMoves, EndsMoves DEF DeleteAccount

LEMMA TickMoves ==
  ASSUME Typed, Tick, NEW c \in Calls
  PROVE  /\ call'[c].pc = call[c].pc /\ call'[c].flow = call[c].flow /\ call'[c].res = call[c].res
         /\ call'[c].gen = call[c].gen
         /\ call'[c].date = Older(call[c].date) /\ call'[c].life = Older(call[c].life)
  BY DEF Typed, CallType, Tick
-----------------------------------------------------------------------------
\* Who holds the lock of the person, and that of an account.
InLock   == {"access", "refresh", "revoke", "delete", "forget"}
Storing  == {"access", "refresh"}
Renewing == {"ask", "answer", "persist", "orphan", "date"}

LockInv ==
  \A c \in Calls :
    /\ call[c].pc \in InLock => candado = c
    /\ call[c].pc \in Storing => Exists(Flow(c))
    /\ At(c, "forget") => ~Exists(Flow(c))
    /\ call[c].pc \in Renewing => candados[Flow(c)] = c

LEMMA InitLock == Init => LockInv
  BY IdleType DEF Init, LockInv, InLock, Storing, Renewing, At

LEMMA LetGoKeeps ==
  ASSUME Typed, NEW c \in Calls, LetGo(c), NEW d \in Calls, d # c
  PROVE  candados[Flow(d)] = d => candados'[Flow(d)] = d
  BY ServiceAssumption DEF ServiceAssumption, LetGo, Holds, Typed, Free, CallType, Flow

\* The steps that write an account but make none and remove none.
LEMMA NoteDateKeepsAccounts ==
  ASSUME Typed, NEW c \in Calls, NoteDate(c), NEW f \in Flows
  PROVE  /\ Exists(f)' <=> Exists(f)
         /\ Exists(f) => account'[f].reauth = account[f].reauth
         /\ f # Flow(c) => account'[f] = account[f]
  <1>1. account \in [Flows -> AccountType] /\ Flow(c) \in Flows
    BY DEF Typed, CallType, Flow
  <1>2. CASE account' = account
    BY <1>2 DEF Exists
  <1>3. CASE account' = Dated(c)
    <2>1. CASE ~Exists(Flow(c))
      BY <1>3, <2>1 DEF Dated, Exists
    <2>2. CASE Exists(Flow(c))
      <3> DEFINE dates == [r \in Resources |->
                  IF r \in SharesToken(Flow(c), call[c].res) THEN call[c].date
                                                             ELSE account[Flow(c)].date[r]]
      <3>1. account' = [account EXCEPT ![Flow(c)].date = dates]
        BY <1>3, <2>2, Zenon DEF Dated
      <3>2. account[Flow(c)] \in [kept : {TRUE}, date : [Resources -> Spans], reauth : BOOLEAN]
        BY <1>1, <2>2, AccountTyped
      <3>3. QED
        <4> HIDE DEF dates
        <4> QED
          BY <1>1, <3>1, <3>2 DEF Exists
    <2>3. QED
      BY <2>1, <2>2
  <1>4. QED
    BY <1>2, <1>3 DEF NoteDate

LEMMA MarkKeepsAccounts ==
  ASSUME Typed, NEW c \in Calls, NEW needs \in BOOLEAN, Mark(c, needs), NEW f \in Flows
  PROVE  /\ Exists(f)' <=> Exists(f)
         /\ Exists(f) => account'[f].date = account[f].date
         /\ Exists(f) => account'[f].reauth \in {account[f].reauth, needs}
         /\ f # Flow(c) => account'[f] = account[f]
  <1>1. account \in [Flows -> AccountType] /\ Flow(c) \in Flows
    BY DEF Typed, CallType, Flow
  <1>2. CASE account' = account
    BY <1>2 DEF Exists
  <1>3. CASE Exists(Flow(c)) /\ account' = [account EXCEPT ![Flow(c)].reauth = needs]
    <2>1. account[Flow(c)] \in [kept : {TRUE}, date : [Resources -> Spans], reauth : BOOLEAN]
      BY <1>1, <1>3, AccountTyped
    <2>2. QED
      BY <1>1, <1>3, <2>1 DEF Exists
  <1>4. QED
    BY <1>2, <1>3 DEF Mark

LEMMA TickKeepsAccounts ==
  ASSUME Typed, Tick, NEW f \in Flows
  PROVE  /\ Exists(f)' <=> Exists(f)
         /\ Exists(f) => account'[f].reauth = account[f].reauth
         /\ Exists(f) => \A r \in Resources : account'[f].date[r] = Older(account[f].date[r])
  <1>1. CASE ~Exists(f)
    <2>1. account'[f] = Gone
      BY <1>1, Zenon DEF Tick
    <2>2. QED
      BY <1>1, <2>1 DEF Exists, Gone
  <1>2. CASE Exists(f)
    <2> DEFINE dates == [r \in Resources |-> Older(account[f].date[r])]
    <2>1. account'[f] = [account[f] EXCEPT !.date = dates]
      BY <1>2, Zenon DEF Tick
    <2>2. account[f] \in [kept : {TRUE}, date : [Resources -> Spans], reauth : BOOLEAN]
      BY <1>2, AccountTyped
    <2>3. /\ account'[f].kept = account[f].kept /\ account'[f].reauth = account[f].reauth
          /\ account'[f].date = dates
      <3> HIDE DEF dates
      <3> QED
        BY <2>1, <2>2
    <2>4. QED
      BY <1>2, <2>3 DEF Exists
  <1>3. QED
    BY <1>1, <1>2

LEMMA LockStep == Typed /\ LockInv /\ [Next]_vars => LockInv'
  <1> SUFFICES ASSUME Typed, LockInv, [Next]_vars
               PROVE  LockInv'
    OBVIOUS
  <1> USE DEF LockInv, InLock, Storing, Renewing, At, Flow, Others, To, Idles, disk, locks, history
  <1>0. /\ \A c \in Calls : call[c].flow \in Flows
        /\ account \in [Flows -> AccountType] /\ candados \in [Flows -> Calls \cup {Free}]
        /\ Free \notin Calls
    BY ServiceAssumption DEF ServiceAssumption, Free, Typed, CallType
  <1>1. ASSUME NEW c \in Calls, Exchange(c)
        PROVE  LockInv'
    BY <1>1, ExchangeMoves DEF Exchange, Exists
  <1>2. ASSUME NEW c \in Calls, PollAnswer(c)
        PROVE  LockInv'
    BY <1>2, PollAnswerMoves DEF PollAnswer, Exists
  <1>3. ASSUME NEW c \in Calls, StoreAccess(c)
        PROVE  LockInv'
    BY <1>3, StoreAccessMoves DEF StoreAccess, Exists
  <1>4. ASSUME NEW c \in Calls, StoreRefresh(c)
        PROVE  LockInv'
    BY <1>4, EndsMoves DEF StoreRefresh, Exists
  <1>5. ASSUME NEW c \in Calls, Unpend(c)
        PROVE  LockInv'
    BY <1>5, EndsMoves DEF Unpend, Exists
  <1>6. ASSUME NEW c \in Calls, LoadPlan(c)
        PROVE  LockInv'
    BY <1>6, LoadPlanMoves, LetGoKeeps DEF LoadPlan, Exists
  <1>7. ASSUME NEW c \in Calls, ReadCache(c)
        PROVE  LockInv'
    BY <1>7, ReadCacheMoves, LetGoKeeps DEF ReadCache, Exists, Holds
  <1>8. ASSUME NEW c \in Calls, ReadRefresh(c)
        PROVE  LockInv'
    BY <1>8, ReadRefreshMoves, LetGoKeeps DEF ReadRefresh, Exists
  <1>9. ASSUME NEW c \in Calls, Answer(c)
        PROVE  LockInv'
    <2>1. UNCHANGED <<account, candado>> /\ At(c, "answer")
      BY <1>9 DEF Answer
    <2>2. QED
      BY <1>9, <2>1, AnswerMoves, LetGoKeeps DEF GivesUp, Exists
  <1>10. ASSUME NEW c \in Calls, Persist(c)
         PROVE  LockInv'
    BY <1>10, PersistMoves, LetGoKeeps DEF Persist, Exists
  <1>11. ASSUME NEW c \in Calls, DropOrphan(c)
         PROVE  LockInv'
    BY <1>11, DropOrphanMoves, LetGoKeeps DEF DropOrphan, Exists
  <1>13. ASSUME NEW c \in Calls, RevokeAnswer(c)
         PROVE  LockInv'
    BY <1>13, RevokeAnswerMoves DEF RevokeAnswer, Exists
  <1>15. ASSUME NEW c \in Calls, Forget(c)
         PROVE  LockInv'
    BY <1>15, EndsMoves DEF Forget, Exists
  <1>17. ASSUME NEW c \in Calls, TakeLock(c)
         PROVE  LockInv'
    BY <1>0, <1>17, GoMoves DEF TakeLock, Exists
  <1>19. ASSUME NEW c \in Calls, StartRemoval(c)
         PROVE  LockInv'
    BY <1>0, <1>19, StartRemovalMoves DEF StartRemoval, Exists
  <1>12. ASSUME NEW c \in Calls, NoteDate(c)
         PROVE  LockInv'
    BY <1>0, <1>12, NoteDateMoves, NoteDateKeepsAccounts, LetGoKeeps DEF NoteDate
  <1>14. ASSUME NEW c \in Calls, DeleteAccount(c)
         PROVE  LockInv'
    <2>1. \A f \in Flows : account'[f] = account[f] \/ account'[f] = Gone
      BY <1>0, <1>14 DEF DeleteAccount
    <2>2. \A f \in Flows : f # Flow(c) => account'[f] = account[f]
      BY <1>0, <1>14 DEF DeleteAccount
    <2>3. CASE To(c, "forget") /\ account' = [account EXCEPT ![Flow(c)] = Gone] /\ candado' = candado
      <3>1. account'[Flow(c)] = Gone /\ ~Gone.kept
        BY <1>0, <2>3 DEF Gone
      <3>2. \A d \in Calls : d # c => call[d].pc \notin InLock
        BY <1>14 DEF DeleteAccount
      <3>3. QED
        BY <1>0, <1>14, <2>3, <3>1, <3>2 DEF DeleteAccount, Exists
    <2>4. CASE Idles(c) /\ candado' = Free /\ account' = account
      BY <1>0, <1>14, <2>4 DEF DeleteAccount, Exists
    <2>5. QED
      BY <1>14, <2>3, <2>4, DeleteAccountMoves
  <1>16. ASSUME NEW c \in Calls, AddAccount(c)
         PROVE  LockInv'
    <2>1. \A d \in Calls : call[d].pc \notin InLock
      BY <1>0, <1>16 DEF AddAccount
    <2>2. CASE To(c, "access") /\ candado' = c
                 /\ account' = [account EXCEPT ![Flow(c)] = AccountWith(call[c].date)]
      <3>1. account'[Flow(c)].kept
        BY <1>0, <2>2 DEF AccountWith
      <3>2. QED
        BY <1>16, <2>1, <2>2, <3>1 DEF AddAccount, Exists
    <2>3. CASE Idles(c) /\ UNCHANGED <<account, candado>>
      BY <1>16, <2>1, <2>3 DEF AddAccount, Exists
    <2>4. QED
      BY <1>16, <2>2, <2>3, AddAccountMoves
  <1>18. ASSUME NEW c \in Calls, NEW needs \in BOOLEAN, Mark(c, needs)
         PROVE  LockInv'
    BY <1>0, <1>18, EndsMoves, MarkKeepsAccounts DEF Mark
  <1>20. ASSUME NEW c \in Calls, NEW f \in Flows,
                CompleteAuth(c, f) \/ PollNextcloud(c, f) \/ RemoveAccount(c, f) \/ Register(c, f)
         PROVE  LockInv'
    <2>1. UNCHANGED <<account, candado, candados>>
      BY <1>20 DEF CompleteAuth, PollNextcloud, RemoveAccount, Register
    <2>2. \E pc \in {"exchange", "poll", "remove", "add"} : Starts(c, pc, f)
      BY <1>20, BeginsMoves, RegisterMoves DEF CompleteAuth, TakeOauth, PollNextcloud, RemoveAccount
    <2>3. QED
      BY <2>1, <2>2 DEF Starts, Exists
  <1>21. ASSUME NEW c \in Calls, NEW f \in Flows, NEW r \in Resources, GetAccessToken(c, f, r)
         PROVE  LockInv'
    <2>1. UNCHANGED <<account, candado, candados>>
      BY <1>21 DEF GetAccessToken
    <2>2. QED
      BY <1>21, <2>1, GetAccessTokenMoves DEF Starts, Exists
  <1>22. CASE Tick
    BY <1>0, <1>22, TickMoves, TickKeepsAccounts DEF Tick
  <1>23. CASE Crash
    BY <1>23, IdleType DEF Crash
  <1>24. CASE UNCHANGED <<account, call, candado, candados>>
    BY <1>24 DEF Exists
  <1>25. ASSUME NEW c \in Calls, Goes(c)
         PROVE  LockInv'
    BY <1>25, <1>1, <1>2, <1>3, <1>4, <1>5, <1>6, <1>7, <1>8, <1>9, <1>10, <1>11, <1>12,
       <1>13, <1>14, <1>15, Zenon DEF Goes
  <1>26. ASSUME NEW c \in Calls, Waits(c)
         PROVE  LockInv'
    BY <1>26, <1>16, <1>17, <1>18, <1>19 DEF Waits, MarkGood, MarkBad
  <1>27. ASSUME NEW f \in Flows, Approve(f) \/ CancelAuth(f) \/ PersonRevokes(f)
         PROVE  LockInv'
    BY <1>24, <1>27 DEF Approve, CancelAuth, PersonRevokes
  <1>28. ASSUME NEW f \in Flows, NEW k \in {"oauth", "nextcloud"}, Begin(f, k)
         PROVE  LockInv'
    BY <1>24, <1>28 DEF Begin
  <1>29. CASE UNCHANGED vars
    BY <1>24, <1>29 DEF vars
  <1>30. QED
    BY <1>20, <1>21, <1>22, <1>23, <1>25, <1>26, <1>27, <1>28, <1>29
    DEF Next, Asks
-----------------------------------------------------------------------------
Connecting == {"exchange", "poll", "add"}
Making     == {"exchange", "add"}

\* What may still become an account.
Ready(f) ==
  /\ kind[f] # "none" /\ f \notin made
  /\ kind[f] = "oauth" => pending[f] = 0 /\ f \notin discarded

FlowInv ==
  /\ \A f \in Flows :
       /\ pending[f] > 0 /\ kind[f] = "oauth" => f \notin made \cup discarded
       /\ pending[f] > 0 \/ f \in made \cup discarded => kind[f] # "none"
       /\ f \in made /\ kind[f] = "nextcloud" => code[f] = "used"
       /\ Exists(f) => f \in made
  /\ \A c \in Calls :
       /\ At(c, "exchange") => Ready(Flow(c)) /\ kind[Flow(c)] = "oauth"
       /\ At(c, "poll") => kind[Flow(c)] = "nextcloud"
       /\ At(c, "add") => /\ Ready(Flow(c))
                          /\ kind[Flow(c)] = "nextcloud" => code[Flow(c)] = "used"
       /\ call[c].pc \notin Connecting \cup {"idle", "silence"} => Flow(c) \in made
  /\ \A c, d \in Calls :
       call[c].pc \in Making /\ call[d].pc \in Making /\ Flow(c) = Flow(d) => c = d

LEMMA InitFlow == Init => FlowInv
  BY IdleType DEF Init, FlowInv, Connecting, Making, At, Exists, Gone

\* The steps of a call about an account that was made.
LEMMA LaterKeepsFlows ==
  ASSUME Typed, FlowInv, NEW c \in Calls,
         call[c].pc \notin Connecting \cup {"idle", "silence"},
         Idles(c) \/ \E pc \in Steps \ Connecting : To(c, pc),
         UNCHANGED <<kind, code, made, discarded>>,
         \A f \in Flows : pending'[f] \in {pending[f], 0},
         \A f \in Flows : Exists(f)' => Exists(f)
  PROVE  FlowInv'
  <1>0. (\A d \in Calls : call[d].flow \in Flows) /\ "idle" \notin Steps
    BY DEF Typed, CallType, Steps
  <1>1. \A f \in Flows : Ready(f) => Ready(f)'
    BY DEF Ready
  <1>2. \A f \in Flows : pending'[f] > 0 => pending[f] > 0
    OBVIOUS
  <1>3. \A d \in Calls : \/ call'[d] = call[d]
                         \/ /\ d = c /\ call'[d].flow = call[d].flow
                            /\ call'[d].pc \notin Connecting
                         \/ d = c /\ call'[d].pc = "idle"
    BY DEF Idles, To, Others
  <1>4. \A f \in Flows :
       /\ pending'[f] > 0 /\ kind'[f] = "oauth" => f \notin made' \cup discarded'
       /\ pending'[f] > 0 \/ f \in made' \cup discarded' => kind'[f] # "none"
       /\ f \in made' /\ kind'[f] = "nextcloud" => code'[f] = "used"
       /\ Exists(f)' => f \in made'
    BY <1>2 DEF FlowInv
  <1>5. \A d \in Calls :
       /\ At(d, "exchange")' => Ready(Flow(d))' /\ kind'[Flow(d)'] = "oauth"
       /\ At(d, "poll")' => kind'[Flow(d)'] = "nextcloud"
       /\ At(d, "add")' => /\ Ready(Flow(d))'
                           /\ kind'[Flow(d)'] = "nextcloud" => code'[Flow(d)'] = "used"
       /\ call'[d].pc \notin Connecting \cup {"idle", "silence"} => Flow(d)' \in made'
    BY <1>0, <1>1, <1>3 DEF FlowInv, At, Flow, Connecting, Ready
  <1>6. \A d, e \in Calls :
       call'[d].pc \in Making /\ call'[e].pc \in Making /\ Flow(d)' = Flow(e)' => d = e
    BY <1>3 DEF FlowInv, Flow, Connecting, Making
  <1>7. QED
    BY <1>4, <1>5, <1>6 DEF FlowInv

LEMMA FlowStep == Typed /\ FlowInv /\ [Next]_vars => FlowInv'
  <1> SUFFICES ASSUME Typed, FlowInv, [Next]_vars
               PROVE  FlowInv'
    OBVIOUS
  <1> USE DEF disk, locks, history
  <1>0. /\ \A c \in Calls : call[c].flow \in Flows
        /\ account \in [Flows -> AccountType] /\ made \subseteq Flows
        /\ pending \in [Flows -> 0..Ttl] /\ code \in [Flows -> {"none", "approved", "used"}]
        /\ kind \in [Flows -> {"none", "oauth", "nextcloud", "password"}]
    BY DEF Typed, CallType
  <1>1. ASSUME NEW c \in Calls, Exchange(c)
        PROVE  FlowInv'
    <2>1. /\ UNCHANGED <<kind, pending, account, made, discarded>> /\ At(c, "exchange")
          /\ \A f \in Flows : code[f] = "used" => code'[f] = "used"
      BY <1>0, <1>1 DEF Exchange
    <2>2. CASE Idles(c)
      BY <1>0, <2>1, <2>2 DEF FlowInv, Idles, Others, Connecting, Making, Ready, At, Flow, Exists
    <2>3. CASE To(c, "add")
      BY <1>0, <2>1, <2>3 DEF FlowInv, To, Others, Connecting, Making, Ready, At, Flow, Exists
    <2>4. CASE To(c, "silence")
      BY <1>0, <2>1, <2>4 DEF FlowInv, To, Others, Connecting, Making, Ready, At, Flow, Exists
    <2>5. QED
      BY <1>1, <2>2, <2>3, <2>4, ExchangeMoves
  <1>2. ASSUME NEW c \in Calls, PollAnswer(c)
        PROVE  FlowInv'
    <2>1. /\ UNCHANGED <<kind, pending, account, made, discarded>> /\ At(c, "poll")
          /\ \A f \in Flows : code[f] = "used" => code'[f] = "used"
      BY <1>0, <1>2 DEF PollAnswer
    <2>2. CASE Idles(c)
      BY <1>0, <2>1, <2>2 DEF FlowInv, Idles, Others, Connecting, Making, Ready, At, Flow, Exists
    <2>3. CASE /\ To(c, "add") /\ code[Flow(c)] = "approved"
               /\ code' = [code EXCEPT ![Flow(c)] = "used"]
      <3>1. code'[Flow(c)] = "used" /\ code[Flow(c)] # "used" /\ kind[Flow(c)] = "nextcloud"
        BY <1>0, <2>1, <2>3 DEF FlowInv, Flow
      <3>2. Flow(c) \notin made /\ \A d \in Calls : call[d].pc \in Making => Flow(d) # Flow(c)
        BY <1>0, <3>1 DEF FlowInv, Making, At, Flow
      <3>3. QED
        BY <1>0, <2>1, <2>3, <3>1, <3>2
        DEF FlowInv, To, Others, Connecting, Making, Ready, At, Flow, Exists
    <2>4. QED
      BY <1>2, <2>2, <2>3, PollAnswerMoves
  <1>3. ASSUME NEW c \in Calls, AddAccount(c)
        PROVE  FlowInv'
    <2>1. /\ UNCHANGED <<kind, pending, code, discarded>> /\ At(c, "add")
      BY <1>3 DEF AddAccount
    <2>2. CASE Idles(c) /\ UNCHANGED <<account, made, candado>>
      BY <1>0, <2>1, <2>2 DEF FlowInv, Idles, Others, Connecting, Making, Ready, At, Flow, Exists
    <2>3. CASE /\ To(c, "access") /\ made' = made \cup {Flow(c)}
               /\ account' = [account EXCEPT ![Flow(c)] = AccountWith(call[c].date)]
      <3>1. \A f \in Flows : f # Flow(c) => account'[f] = account[f]
        BY <1>0, <2>3
      <3>2. \A d \in Calls : d # c /\ call[d].pc \in Making => Flow(d) # Flow(c)
        BY <2>1 DEF FlowInv, Making, At
      <3>3. QED
        BY <1>0, <2>1, <2>3, <3>1, <3>2
        DEF FlowInv, To, Others, Connecting, Making, Ready, At, Flow, Exists
    <2>4. QED
      BY <1>3, <2>2, <2>3, AddAccountMoves
  <1>4. ASSUME NEW c \in Calls, NEW f \in Flows, CompleteAuth(c, f)
        PROVE  FlowInv'
    <2>1. /\ UNCHANGED <<kind, code, account, made, discarded>> /\ Starts(c, "exchange", f)
          /\ kind[f] = "oauth" /\ pending[f] > 0 /\ pending' = [pending EXCEPT ![f] = 0]
      BY <1>4, BeginsMoves DEF CompleteAuth, TakeOauth
    <2>2. \A d \in Calls : call[d].pc \in Making => Flow(d) # f
      BY <1>0, <2>1 DEF FlowInv, Making, Ready, At
    <2>3. pending'[f] = 0 /\ \A g \in Flows : g # f => pending'[g] = pending[g]
      BY <1>0, <2>1
    <2>4. QED
      BY <1>0, <2>1, <2>2, <2>3
      DEF FlowInv, Starts, Others, Connecting, Making, Ready, At, Flow, Exists
  <1>5. ASSUME NEW c \in Calls, NEW f \in Flows, PollNextcloud(c, f)
        PROVE  FlowInv'
    <2>1. /\ UNCHANGED <<kind, code, pending, account, made, discarded>> /\ Starts(c, "poll", f)
          /\ kind[f] = "nextcloud"
      BY <1>5, BeginsMoves DEF PollNextcloud
    <2>2. QED
      BY <1>0, <2>1 DEF FlowInv, Starts, Others, Connecting, Making, Ready, At, Flow, Exists
  <1>6. ASSUME NEW c \in Calls, NEW f \in Flows, Register(c, f)
        PROVE  FlowInv'
    <2>1. /\ UNCHANGED <<pending, code, account, made, discarded>> /\ Starts(c, "add", f)
          /\ kind[f] = "none" /\ kind' = [kind EXCEPT ![f] = "password"]
      BY <1>6, RegisterMoves DEF Register
    <2>2. /\ \A d \in Calls : call[d].pc \in Making => Flow(d) # f
          /\ f \notin made \cup discarded /\ ~(pending[f] > 0)
      BY <1>0, <2>1 DEF FlowInv, Making, Ready, At
    <2>3. kind'[f] = "password" /\ \A g \in Flows : g # f => kind'[g] = kind[g]
      BY <1>0, <2>1
    <2>4. \A d \in Calls : At(d, "poll") => Flow(d) # f
      BY <2>1 DEF FlowInv
    <2>5. QED
      BY <1>0, <2>1, <2>2, <2>3, <2>4
      DEF FlowInv, Starts, Others, Connecting, Making, Ready, At, Flow, Exists
  <1>7. ASSUME NEW c \in Calls, NEW f \in Flows, RemoveAccount(c, f)
        PROVE  FlowInv'
    <2>1. /\ UNCHANGED <<kind, code, pending, account, made, discarded>> /\ Starts(c, "remove", f)
          /\ f \in made
      BY <1>7, BeginsMoves DEF RemoveAccount
    <2>2. QED
      BY <1>0, <2>1 DEF FlowInv, Starts, Others, Connecting, Making, Ready, At, Flow, Exists
  <1>8. ASSUME NEW c \in Calls, NEW f \in Flows, NEW r \in Resources, GetAccessToken(c, f, r)
        PROVE  FlowInv'
    <2>1. /\ UNCHANGED <<kind, code, pending, account, made, discarded>> /\ Starts(c, "plan", f)
          /\ f \in made
      BY <1>8, GetAccessTokenMoves DEF GetAccessToken, FlowInv
    <2>2. QED
      BY <1>0, <2>1 DEF FlowInv, Starts, Others, Connecting, Making, Ready, At, Flow, Exists
  <1>9. ASSUME NEW f \in Flows, NEW k \in {"oauth", "nextcloud"}, Begin(f, k)
        PROVE  FlowInv'
    <2>1. /\ UNCHANGED <<code, account, made, discarded, call>> /\ kind[f] = "none"
          /\ kind' = [kind EXCEPT ![f] = k] /\ pending' = [pending EXCEPT ![f] = Ttl]
      BY <1>9 DEF Begin
    <2>2. /\ \A d \in Calls : call[d].pc \in Making \cup {"poll"} => Flow(d) # f
          /\ f \notin made \cup discarded
      BY <1>0, <2>1 DEF FlowInv, Making, Ready, At
    <2>3. kind'[f] = k /\ \A g \in Flows : g # f => kind'[g] = kind[g] /\ pending'[g] = pending[g]
      BY <1>0, <2>1
    <2>4. QED
      BY <1>0, <2>1, <2>2, <2>3
      DEF FlowInv, Connecting, Making, Ready, At, Flow, Exists
  <1>10. ASSUME NEW f \in Flows, Approve(f)
         PROVE  FlowInv'
    <2>1. /\ UNCHANGED <<kind, pending, account, made, discarded, call>>
          /\ \A g \in Flows : code[g] = "used" => code'[g] = "used"
      BY <1>0, <1>10 DEF Approve
    <2>2. QED
      BY <1>0, <2>1 DEF FlowInv, Connecting, Making, Ready, At, Flow, Exists
  <1>11. ASSUME NEW f \in Flows, CancelAuth(f)
         PROVE  FlowInv'
    <2>1. /\ UNCHANGED <<kind, code, account, made, call>> /\ pending[f] > 0
          /\ discarded' = discarded \cup {f}
          /\ pending'[f] = 0 /\ \A g \in Flows : g # f => pending'[g] = pending[g]
      BY <1>0, <1>11 DEF CancelAuth
    <2>2. ~(pending'[f] > 0) /\ pending[f] # 0 /\ kind[f] # "none"
      BY <1>0, <2>1 DEF FlowInv
    <2>3. QED
      BY <1>0, <2>1, <2>2 DEF FlowInv, Connecting, Making, Ready, At, Flow, Exists
  <1>12. CASE Tick
    <2>1. UNCHANGED <<kind, code, made, discarded>>
      BY <1>12 DEF Tick
    <2>2. \A f \in Flows : (pending'[f] > 0 => pending[f] > 0) /\ (pending[f] = 0 => pending'[f] = 0)
      <3>1. pending' = [f \in Flows |-> IF pending[f] > 0 THEN pending[f] - 1 ELSE 0]
        BY <1>12, Zenon DEF Tick
      <3>2. QED
        BY <1>0, <3>1
    <2>3. \A f \in Flows : Exists(f)' <=> Exists(f)
      BY <1>12, TickKeepsAccounts
    <2>4. \A c \in Calls : call'[c].pc = call[c].pc /\ call'[c].flow = call[c].flow
      BY <1>12, TickMoves
    <2>5. QED
      BY <1>0, <2>1, <2>2, <2>3, <2>4 DEF FlowInv, Connecting, Making, Ready, At, Flow
  <1>13. CASE Crash
    <2>1. UNCHANGED <<kind, code, account, made, discarded>>
          /\ (\A f \in Flows : pending'[f] = 0) /\ \A c \in Calls : call'[c].pc = "idle"
      BY <1>13, IdleType DEF Crash
    <2>2. QED
      BY <1>0, <2>1 DEF FlowInv, Connecting, Making, Ready, At, Flow, Exists
  <1>14. CASE UNCHANGED <<kind, pending, code, account, made, discarded, call>>
    BY <1>14 DEF FlowInv, Connecting, Making, Ready, At, Flow, Exists
  <1>15. ASSUME NEW c \in Calls, Goes(c), ~Exchange(c), ~PollAnswer(c)
         PROVE  FlowInv'
    <2>1. call[c].pc \notin Connecting \cup {"idle", "silence"}
      BY <1>15 DEF Goes, StoreAccess, StoreRefresh, Unpend, LoadPlan, ReadCache, ReadRefresh,
                   Answer, Persist, DropOrphan, NoteDate, RevokeAnswer, DeleteAccount, Forget,
                   Connecting, At
    <2>2. \/ Idles(c)
          \/ \E pc \in Steps \ Connecting : To(c, pc)
      BY <1>15, StoreAccessMoves, LoadPlanMoves, ReadCacheMoves, ReadRefreshMoves, AnswerMoves,
         PersistMoves, DropOrphanMoves, NoteDateMoves, RevokeAnswerMoves, DeleteAccountMoves,
         EndsMoves
      DEF Goes, StoreRefresh, Unpend, Forget, GivesUp, Steps, Connecting
    <2>3. UNCHANGED <<kind, code, made, discarded>>
      BY <1>15 DEF Goes, StoreAccess, StoreRefresh, Unpend, LoadPlan, ReadCache, ReadRefresh,
                   Answer, Persist, DropOrphan, NoteDate, RevokeAnswer, DeleteAccount, Forget
    <2>4. \A f \in Flows : pending'[f] \in {pending[f], 0}
      BY <1>0, <1>15
      DEF Goes, StoreAccess, StoreRefresh, Unpend, LoadPlan, ReadCache, ReadRefresh,
          Answer, Persist, DropOrphan, NoteDate, RevokeAnswer, DeleteAccount, Forget
    <2>5. \A f \in Flows : Exists(f)' => Exists(f)
      <3>1. CASE NoteDate(c)
        BY <3>1, NoteDateKeepsAccounts
      <3>2. CASE DeleteAccount(c)
        BY <1>0, <3>2 DEF DeleteAccount, Exists, Gone
      <3>3. CASE account' = account
        BY <3>3 DEF Exists
      <3>4. QED
        BY <1>15, <3>1, <3>2, <3>3
        DEF Goes, StoreAccess, StoreRefresh, Unpend, LoadPlan, ReadCache, ReadRefresh,
            Answer, Persist, DropOrphan, RevokeAnswer, Forget
    <2>6. QED
      BY <2>1, <2>2, <2>3, <2>4, <2>5, LaterKeepsFlows
  <1>16. ASSUME NEW c \in Calls, TakeLock(c) \/ MarkGood(c) \/ MarkBad(c) \/ StartRemoval(c)
         PROVE  FlowInv'
    <2>1. /\ call[c].pc \notin Connecting \cup {"idle", "silence"}
          /\ UNCHANGED <<kind, code, pending, made, discarded>>
      BY <1>16 DEF TakeLock, MarkGood, MarkBad, Mark, StartRemoval, Connecting, At
    <2>2. \/ Idles(c)
          \/ \E pc \in Steps \ Connecting : To(c, pc)
      BY <1>16, GoMoves, EndsMoves, StartRemovalMoves
      DEF TakeLock, MarkGood, MarkBad, Mark, Steps, Connecting
    <2>3. \A f \in Flows : Exists(f)' => Exists(f)
      BY <1>16, MarkKeepsAccounts DEF TakeLock, MarkGood, MarkBad, StartRemoval, Exists
    <2>4. QED
      BY <2>1, <2>2, <2>3, LaterKeepsFlows
  <1>17. QED
    BY <1>1, <1>2, <1>3, <1>4, <1>5, <1>6, <1>7, <1>8, <1>9, <1>10, <1>11, <1>12, <1>13, <1>14,
       <1>15, <1>16
    DEF Next, Waits, Asks, PersonRevokes, vars
-----------------------------------------------------------------------------
\* A secret with nothing in it, and what the steps write in one.
Empty(s) == s.refresh = 0 /\ \A k \in AccessKeys : s.tokens[k] = None

LEMMA NoSecretsIsEmpty ==
  ASSUME NEW s \in SecretType
  PROVE  s = NoSecrets <=> Empty(s)
  <1>1. s = NoSecrets => Empty(s)
    BY DEF NoSecrets, Empty
  <1>2. ASSUME Empty(s)
        PROVE  s = NoSecrets
    <2>1. s.tokens = [k \in AccessKeys |-> None]
      BY <1>2 DEF Empty, SecretType
    <2>2. s = [tokens |-> s.tokens, refresh |-> s.refresh]
      BY DEF SecretType
    <2>3. QED
      BY <1>2, <2>1, <2>2, Zenon DEF Empty, NoSecrets
  <1>3. QED
    BY <1>1, <1>2

OtherSecrets(f) == \A g \in Flows : g # f => secret'[g] = secret[g]

LEMMA StoreAccessWrites ==
  ASSUME Typed, NEW c \in Calls, StoreAccess(c)
  PROVE  /\ OtherSecrets(Flow(c))
         /\ secret'[Flow(c)].refresh = secret[Flow(c)].refresh
         /\ \A k \in AccessKeys : k # "access" =>
              secret'[Flow(c)].tokens[k] = secret[Flow(c)].tokens[k]
         /\ \/ secret' = secret /\ Idles(c)
            \/ /\ secret'[Flow(c)].tokens["access"] = call[c].life
               /\ short' = IF call[c].date # call[c].life THEN short \cup {Flow(c)} ELSE short
  <1>1. secret \in [Flows -> SecretType] /\ Flow(c) \in Flows /\ secret[Flow(c)] \in SecretType
        /\ "access" \in AccessKeys
    BY DEF Typed, CallType, Flow, AccessKeys
  <1>2. CASE secret' = secret /\ Ends(c)
    BY <1>2, EndsMoves DEF OtherSecrets
  <1>3. CASE /\ secret' = [secret EXCEPT ![Flow(c)].tokens["access"] = call[c].life]
             /\ short' = IF call[c].date # call[c].life THEN short \cup {Flow(c)} ELSE short
    BY <1>1, <1>3 DEF OtherSecrets, SecretType
  <1>4. QED
    BY <1>2, <1>3 DEF StoreAccess

LEMMA StoreRefreshWrites ==
  ASSUME Typed, NEW c \in Calls, StoreRefresh(c)
  PROVE  /\ OtherSecrets(Flow(c))
         /\ secret'[Flow(c)].tokens = secret[Flow(c)].tokens
  <1>1. secret \in [Flows -> SecretType] /\ Flow(c) \in Flows /\ secret[Flow(c)] \in SecretType
    BY DEF Typed, CallType, Flow
  <1>2. CASE secret' = secret
    BY <1>2 DEF OtherSecrets
  <1>3. CASE secret' = [secret EXCEPT ![Flow(c)].refresh = call[c].gen]
    BY <1>1, <1>3 DEF OtherSecrets, SecretType
  <1>4. QED
    BY <1>2, <1>3 DEF StoreRefresh

LEMMA PutWrites ==
  ASSUME Typed, NEW c \in Calls, Put(c)
  PROVE  /\ OtherSecrets(Flow(c))
         /\ secret'[Flow(c)].refresh = call[c].gen
         /\ secret'[Flow(c)].tokens[AccessKey(Flow(c), call[c].res)] = call[c].life
         /\ \A k \in AccessKeys : k # AccessKey(Flow(c), call[c].res) =>
              secret'[Flow(c)].tokens[k] = secret[Flow(c)].tokens[k]
  <1>1. /\ secret \in [Flows -> SecretType] /\ Flow(c) \in Flows /\ secret[Flow(c)] \in SecretType
        /\ call[c].res \in Resources
    BY DEF Typed, CallType, Flow
  <1>2. AccessKey(Flow(c), call[c].res) \in AccessKeys
    BY <1>1 DEF AccessKey, AccessKeys
  <1>3. QED
    BY <1>1, <1>2 DEF Put, OtherSecrets, SecretType

LEMMA DropOrphanWrites ==
  ASSUME Typed, NEW c \in Calls, DropOrphan(c)
  PROVE  /\ OtherSecrets(Flow(c))
         /\ secret'[Flow(c)].refresh = secret[Flow(c)].refresh
         /\ \A k \in AccessKeys : secret'[Flow(c)].tokens[k] # secret[Flow(c)].tokens[k] =>
              k = "access" /\ Mixes(Flow(c)) /\ secret'[Flow(c)].tokens[k] = None
  <1>1. secret \in [Flows -> SecretType] /\ Flow(c) \in Flows /\ secret[Flow(c)] \in SecretType
        /\ "access" \in AccessKeys
    BY DEF Typed, CallType, Flow, AccessKeys
  <1>2. CASE secret' = secret
    BY <1>2 DEF OtherSecrets
  <1>3. CASE Mixes(Flow(c)) /\ secret' = [secret EXCEPT ![Flow(c)].tokens["access"] = None]
    BY <1>1, <1>3 DEF OtherSecrets, SecretType
  <1>4. QED
    BY <1>2, <1>3 DEF DropOrphan

LEMMA TickWrites ==
  ASSUME Typed, Tick, NEW f \in Flows
  PROVE  /\ secret'[f].refresh = secret[f].refresh
         /\ \A k \in AccessKeys : secret'[f].tokens[k] = Older(secret[f].tokens[k])
  <1> DEFINE tokens == [k \in AccessKeys |-> Older(secret[f].tokens[k])]
  <1>1. secret'[f] = [secret[f] EXCEPT !.tokens = tokens]
    BY Zenon DEF Tick
  <1>2. secret[f] \in SecretType
    BY DEF Typed
  <1>3. secret'[f].refresh = secret[f].refresh /\ secret'[f].tokens = tokens
    <2> HIDE DEF tokens
    <2> QED
      BY <1>1, <1>2 DEF SecretType
  <1>4. QED
    BY <1>3

LEMMA ForgetWrites ==
  ASSUME Typed, NEW c \in Calls, Forget(c)
  PROVE  /\ OtherSecrets(Flow(c))
         /\ \/ secret'[Flow(c)] = NoSecrets /\ left' = left \ {Flow(c)}
            \/ secret' = secret /\ left' = left \cup {Flow(c)}
  BY DEF Forget, OtherSecrets, Typed, CallType, Flow
-----------------------------------------------------------------------------
\* What is in the secrets of an account at each step of a call about it.
Held == {"answer", "persist", "orphan", "date"}

SecretInv ==
  /\ \A f \in Flows : f \notin made => Empty(secret[f])
  /\ \A c \in Calls :
       /\ At(c, "access") => Empty(secret[Flow(c)])
       /\ At(c, "refresh") => secret[Flow(c)].refresh = 0
       /\ call[c].pc \in {"answer", "persist"} => call[c].gen # 0
       /\ call[c].pc \in Held /\ Exists(Flow(c)) => secret[Flow(c)].refresh # 0
       /\ At(c, "answer") /\ Exists(Flow(c)) => call[c].gen = secret[Flow(c)].refresh

LEMMA InitSecret == Init => SecretInv
  BY IdleType DEF Init, SecretInv, Held, At, Empty, NoSecrets

\* The steps that leave the secrets and the accounts as they are.
LEMMA QuietKeepsSecrets ==
  ASSUME Typed, SecretInv, NEW c \in Calls,
         \/ Idles(c) 
         \/ \E pc \in Pc \ (Held \cup Storing) : To(c, pc)
         \/ \E pc \in Pc \ (Held \cup Storing), f \in Flows : Starts(c, pc, f),
         secret' = secret, made \subseteq made',
         \A f \in Flows : Exists(f)' => Exists(f)
  PROVE  SecretInv'
  <1>0. \A d \in Calls : call[d].flow \in Flows
    BY DEF Typed, CallType
  <1>1. \A d \in Calls : \/ call'[d] = call[d]
                         \/ d = c /\ call'[d].pc \notin Held \cup Storing
    BY DEF Idles, To, Starts, Others, Held, Storing
  <1>2. \A f \in Flows : f \notin made' => Empty(secret'[f])
    BY DEF SecretInv
  <1>3. QED
    BY <1>0, <1>1, <1>2 DEF SecretInv, Held, Storing, At, Flow, Empty

LEMMA SecretStep ==
  Typed /\ LockInv /\ FlowInv /\ SecretInv /\ [Next]_vars => SecretInv'
  <1> SUFFICES ASSUME Typed, LockInv, FlowInv, SecretInv, [Next]_vars
               PROVE  SecretInv'
    OBVIOUS
  <1> USE DEF disk, locks, history
  <1>0. /\ \A c \in Calls : call[c].flow \in Flows
        /\ made \subseteq Flows /\ secret \in [Flows -> SecretType]
        /\ account \in [Flows -> AccountType]
    BY DEF Typed, CallType
  \* The four that write secrets, and what cannot go on meanwhile.
  <1>1. ASSUME NEW c \in Calls, StoreAccess(c)
        PROVE  SecretInv'
    <2>1. /\ UNCHANGED <<made, account>> /\ At(c, "access") /\ Exists(Flow(c)) /\ candado = c
          /\ Empty(secret[Flow(c)])
      BY <1>1 DEF StoreAccess, LockInv, SecretInv, InLock, Storing, At
    <2>2. secret'[Flow(c)].refresh = 0 /\ OtherSecrets(Flow(c))
      BY <1>1, <2>1, StoreAccessWrites DEF Empty
    <2>3. \A d \in Calls : d # c =>
            call'[d] = call[d] /\ call[d].pc \notin Storing
            /\ (Flow(d) = Flow(c) => call[d].pc \notin Held)
      BY <1>1, <2>1, StoreAccessMoves
      DEF LockInv, SecretInv, InLock, Storing, Held, Empty, To, Idles, Others, At
    <2>4. \/ call'[c].pc = "refresh" /\ call'[c].flow = Flow(c)
          \/ call'[c].pc \in {"unpend", "idle"}
      BY <1>1, StoreAccessMoves DEF To, Idles, Flow
    <2>5. Flow(c) \in made
      BY <1>0, <2>1 DEF FlowInv, Flow
    <2>6. QED
      BY <1>0, <2>1, <2>2, <2>3, <2>4, <2>5
      DEF SecretInv, OtherSecrets, Held, Storing, Empty, At, Flow, Exists
  <1>2. ASSUME NEW c \in Calls, StoreRefresh(c)
        PROVE  SecretInv'
    <2>1. /\ UNCHANGED <<made, account>> /\ At(c, "refresh") /\ Exists(Flow(c)) /\ candado = c
          /\ secret[Flow(c)].refresh = 0 /\ OtherSecrets(Flow(c)) /\ Idles(c)
      BY <1>2, StoreRefreshWrites, EndsMoves
      DEF StoreRefresh, LockInv, SecretInv, InLock, Storing, At
    <2>2. \A d \in Calls : d # c =>
            call'[d] = call[d] /\ call[d].pc \notin Storing
            /\ (Flow(d) = Flow(c) => call[d].pc \notin Held)
      BY <2>1 DEF LockInv, SecretInv, InLock, Storing, Held, Idles, Others, At
    <2>3. Flow(c) \in made /\ call'[c].pc = "idle"
      BY <1>0, <2>1 DEF FlowInv, Flow, Idles
    <2>4. QED
      BY <1>0, <2>1, <2>2, <2>3
      DEF SecretInv, OtherSecrets, Held, Storing, Empty, At, Flow, Exists
  <1>3. ASSUME NEW c \in Calls, Persist(c)
        PROVE  SecretInv'
    <2>1. UNCHANGED <<made, account>> /\ At(c, "persist")
      BY <1>3 DEF Persist
    <2>2. CASE Idles(c) /\ secret' = secret
      BY <1>0, <2>1, <2>2, QuietKeepsSecrets DEF Exists
    <2>3. CASE Exists(Flow(c)) /\ Put(c) /\ To(c, "orphan")
      <3>1. /\ secret'[Flow(c)].refresh # 0 /\ OtherSecrets(Flow(c)) /\ secret[Flow(c)].refresh # 0
            /\ candados[Flow(c)] = c /\ Flow(c) \in made
        BY <1>0, <2>1, <2>3, PutWrites DEF SecretInv, LockInv, FlowInv, Held, Renewing, At, Flow
      <3>2. \A d \in Calls : d # c =>
              call'[d] = call[d]
              /\ (Flow(d) = Flow(c) => call[d].pc \notin Storing \cup Held)
        BY <2>3, <3>1 DEF LockInv, SecretInv, Renewing, Storing, Held, Empty, To, Others, At
      <3>3. call'[c].pc = "orphan" /\ call'[c].flow = Flow(c)
        BY <2>3 DEF To, Flow
      <3>4. QED
        BY <1>0, <2>1, <3>1, <3>2, <3>3
        DEF SecretInv, OtherSecrets, Held, Storing, Empty, At, Flow, Exists
    <2>4. QED
      BY <1>3, <2>2, <2>3, PersistMoves
  <1>4. ASSUME NEW c \in Calls, DropOrphan(c)
        PROVE  SecretInv'
    <2>1. /\ UNCHANGED <<made, account>> /\ At(c, "orphan") /\ OtherSecrets(Flow(c))
          /\ secret'[Flow(c)].refresh = secret[Flow(c)].refresh /\ Flow(c) \in made
      BY <1>0, <1>4, DropOrphanWrites DEF DropOrphan, FlowInv, Connecting, At
    <2>2. \/ call'[c].pc = "date" /\ call'[c].flow = Flow(c)
          \/ call'[c].pc = "idle"
      BY <1>4, DropOrphanMoves DEF To, Idles, Flow
    <2>3. \A d \in Calls : d # c =>
            call'[d] = call[d] /\ (Flow(d) = Flow(c) => ~At(d, "access"))
      BY <1>4, <2>1, DropOrphanMoves
      DEF LockInv, SecretInv, Storing, Held, Empty, To, Idles, Others, At
    <2>4. QED
      BY <1>0, <2>1, <2>2, <2>3 DEF SecretInv, OtherSecrets, Held, Empty, At, Flow, Exists
  <1>5. ASSUME NEW c \in Calls, Forget(c)
        PROVE  SecretInv'
    <2>1. /\ UNCHANGED <<made, account>> /\ At(c, "forget") /\ ~Exists(Flow(c)) /\ Idles(c)
          /\ OtherSecrets(Flow(c)) /\ Flow(c) \in made
          /\ \A d \in Calls : call[d].pc \in Storing => Exists(Flow(d))
      BY <1>5, ForgetWrites, EndsMoves DEF Forget, LockInv, FlowInv, Connecting, At
    <2>2. QED
      BY <1>0, <2>1
      DEF SecretInv, OtherSecrets, Held, Storing, Empty, At, Flow, Exists, Idles, Others
  <1>6. ASSUME NEW c \in Calls, AddAccount(c)
        PROVE  SecretInv'
    <2>1. secret' = secret /\ At(c, "add") /\ Empty(secret[Flow(c)])
      BY <1>0, <1>6 DEF AddAccount, FlowInv, SecretInv, Ready, At, Flow
    <2>2. CASE Idles(c) /\ UNCHANGED <<account, made, candado>>
      BY <1>0, <2>1, <2>2, QuietKeepsSecrets DEF Exists
    <2>3. CASE /\ To(c, "access") /\ made' = made \cup {Flow(c)}
               /\ account' = [account EXCEPT ![Flow(c)] = AccountWith(call[c].date)]
      <3>1. \A d \in Calls : d # c => call'[d] = call[d] /\ (Flow(d) = Flow(c) => call[d].pc \notin Held)
        BY <1>0, <2>1, <2>3 DEF To, Others, FlowInv, Ready, Connecting, Held, At
      <3>2. call'[c].pc = "access" /\ call'[c].flow = Flow(c)
        BY <2>3 DEF To, Flow
      <3>3. \A f \in Flows : f # Flow(c) => account'[f] = account[f]
        BY <1>0, <2>3
      <3>4. QED
        BY <1>0, <2>1, <2>3, <3>1, <3>2, <3>3 DEF SecretInv, Held, Empty, At, Flow, Exists
    <2>4. QED
      BY <1>6, <2>2, <2>3, AddAccountMoves
  <1>7. ASSUME NEW c \in Calls, ReadRefresh(c)
        PROVE  SecretInv'
    <2>1. UNCHANGED <<made, account, secret>>
      BY <1>7 DEF ReadRefresh
    <2>2. CASE To(c, "bad")
      BY <2>1, <2>2, QuietKeepsSecrets DEF Exists, Pc, Steps, Held, Storing
    <2>3. CASE /\ secret[Flow(c)].refresh # 0 /\ To(c, "answer")
               /\ call'[c].gen = secret[Flow(c)].refresh
      BY <1>0, <2>1, <2>3 DEF SecretInv, To, Others, Held, Empty, At, Flow, Exists
    <2>4. QED
      BY <1>7, <2>2, <2>3, ReadRefreshMoves
  <1>8. ASSUME NEW c \in Calls, Answer(c)
        PROVE  SecretInv'
    <2>1. UNCHANGED <<made, account, secret>> /\ At(c, "answer")
      BY <1>8 DEF Answer
    <2>2. CASE To(c, "bad") \/ Idles(c) \/ To(c, "silence")
      BY <2>1, <2>2, QuietKeepsSecrets DEF Exists, Pc, Steps, Held, Storing
    <2>3. CASE To(c, "persist") /\ call'[c].gen # 0
      BY <1>0, <2>1, <2>3 DEF SecretInv, To, Others, Held, Empty, At, Flow, Exists
    <2>4. QED
      BY <1>8, <2>2, <2>3, AnswerMoves DEF GivesUp
  <1>9. CASE Tick
    <2>1. \A f \in Flows : Empty(secret[f]) => Empty(secret'[f])
      BY <1>9, TickWrites DEF Empty, Older, None
    <2>2. (\A f \in Flows : (Exists(f)' <=> Exists(f)) /\ secret'[f].refresh = secret[f].refresh)
          /\ made' = made
      BY <1>9, TickWrites, TickKeepsAccounts DEF Tick
    <2>3. \A c \in Calls : call'[c].pc = call[c].pc /\ call'[c].flow = call[c].flow
                           /\ call'[c].gen = call[c].gen
      BY <1>9, TickMoves
    <2>4. QED
      BY <1>0, <2>1, <2>2, <2>3 DEF SecretInv, Held, At, Flow
  <1>10. CASE Crash
    BY <1>10, IdleType DEF Crash, SecretInv, Held, At
  \* The rest reads secrets at most.
  <1>11. ASSUME NEW c \in Calls,
                Exchange(c) \/ PollAnswer(c) \/ Unpend(c) \/ LoadPlan(c) \/ ReadCache(c)
                \/ NoteDate(c) \/ RevokeAnswer(c) \/ DeleteAccount(c)
         PROVE  SecretInv'
    <2>1. secret' = secret /\ made' = made
      BY <1>11 DEF Exchange, PollAnswer, Unpend, LoadPlan, ReadCache, NoteDate, RevokeAnswer,
                   DeleteAccount
    <2>2. \/ Idles(c)
          \/ \E pc \in Pc \ (Held \cup Storing) : To(c, pc)
      BY <1>11, ExchangeMoves, PollAnswerMoves, EndsMoves, LoadPlanMoves, ReadCacheMoves,
         NoteDateMoves, RevokeAnswerMoves, DeleteAccountMoves
      DEF Unpend, Pc, Steps, Held, Storing
    <2>3. \A f \in Flows : Exists(f)' => Exists(f)
      <3>1. CASE NoteDate(c)
        BY <3>1, NoteDateKeepsAccounts
      <3>2. CASE DeleteAccount(c)
        BY <1>0, <3>2 DEF DeleteAccount, Exists, Gone
      <3>3. CASE account' = account
        BY <3>3 DEF Exists
      <3>4. QED
        BY <1>11, <3>1, <3>2, <3>3
        DEF Exchange, PollAnswer, Unpend, LoadPlan, ReadCache, RevokeAnswer
    <2>4. QED
      BY <2>1, <2>2, <2>3, QuietKeepsSecrets
  <1>12. ASSUME NEW c \in Calls, TakeLock(c) \/ MarkGood(c) \/ MarkBad(c) \/ StartRemoval(c)
         PROVE  SecretInv'
    <2>1. secret' = secret /\ made' = made
      BY <1>12 DEF TakeLock, MarkGood, MarkBad, Mark, StartRemoval
    <2>2. \/ Idles(c)
          \/ \E pc \in Pc \ (Held \cup Storing) : To(c, pc)
      BY <1>12, GoMoves, EndsMoves, StartRemovalMoves
      DEF TakeLock, MarkGood, MarkBad, Mark, Pc, Steps, Held, Storing
    <2>3. \A f \in Flows : Exists(f)' => Exists(f)
      BY <1>12, MarkKeepsAccounts DEF TakeLock, MarkGood, MarkBad, StartRemoval, Exists
    <2>4. QED
      BY <2>1, <2>2, <2>3, QuietKeepsSecrets
  <1>13. ASSUME NEW c \in Calls, NEW f \in Flows,
                \/ CompleteAuth(c, f) \/ PollNextcloud(c, f) \/ RemoveAccount(c, f) \/ Register(c, f)
                \/ \E r \in Resources : GetAccessToken(c, f, r)
         PROVE  SecretInv'
    <2>1. UNCHANGED <<account, secret, made>>
      BY <1>13 DEF CompleteAuth, PollNextcloud, RemoveAccount, Register, GetAccessToken
    <2>2. \E pc \in {"exchange", "poll", "remove", "add", "plan"} : Starts(c, pc, f)
      BY <1>13, BeginsMoves, RegisterMoves, GetAccessTokenMoves
      DEF CompleteAuth, TakeOauth, PollNextcloud, RemoveAccount
    <2>3. \E pc \in Pc \ (Held \cup Storing) : Starts(c, pc, f)
      BY <2>2 DEF Pc, Steps, Held, Storing
    <2>4. QED
      BY <2>1, <2>3, QuietKeepsSecrets DEF Exists
  <1>14. CASE UNCHANGED <<secret, account, call, made>>
    BY <1>14 DEF SecretInv, Held, Empty, At, Flow, Exists
  <1>15. QED
    BY <1>1, <1>2, <1>3, <1>4, <1>5, <1>6, <1>7, <1>8, <1>9, <1>10, <1>11, <1>12, <1>13, <1>14
    DEF Next, Goes, Waits, Asks, Begin, Approve, CancelAuth, PersonRevokes, vars
-----------------------------------------------------------------------------
\* No secret outlives its account.
HaveInv ==
  \A f \in Flows : ~Exists(f) /\ ~Empty(secret[f]) =>
    f \in left \/ \E c \in Calls : Flow(c) = f /\ At(c, "forget")

LEMMA HaveIsSecretsHaveAccount == Typed => (HaveInv <=> SecretsHaveAccount)
  <1>1. Typed => \A f \in Flows : ~Empty(secret[f]) <=> HasSecrets(f)
    BY NoSecretsIsEmpty DEF Typed, HasSecrets
  <1>2. QED
    BY <1>1 DEF HaveInv, SecretsHaveAccount

LEMMA InitHave == Init => HaveInv
  BY DEF Init, HaveInv, Empty, NoSecrets

\* The steps of calls that are not at the last step of a removal, and make no
\* secret of an account that is not there.
LEMMA QuietKeepsHave ==
  ASSUME Typed, HaveInv, NEW c \in Calls, ~At(c, "forget"), Others(c), left \subseteq left',
         \A f \in Flows : Exists(f) => Exists(f)',
         \A f \in Flows : ~Exists(f) /\ Empty(secret[f]) => Exists(f)' \/ Empty(secret'[f])
  PROVE  HaveInv'
  BY DEF HaveInv, Others, At, Flow

LEMMA HaveStep ==
  Typed /\ LockInv /\ HaveInv /\ [Next]_vars => HaveInv'
  <1> SUFFICES ASSUME Typed, LockInv, HaveInv, [Next]_vars
               PROVE  HaveInv'
    OBVIOUS
  <1> USE DEF disk, locks, history
  <1>0. /\ \A c \in Calls : call[c].flow \in Flows
        /\ secret \in [Flows -> SecretType] /\ account \in [Flows -> AccountType]
    BY DEF Typed, CallType
  <1>1. ASSUME NEW c \in Calls, StoreAccess(c) \/ StoreRefresh(c)
        PROVE  HaveInv'
    <2>1. /\ UNCHANGED <<account, left>> /\ Exists(Flow(c)) /\ OtherSecrets(Flow(c)) /\ Others(c)
          /\ ~At(c, "forget")
      BY <1>1, StoreAccessWrites, StoreAccessMoves, StoreRefreshWrites, EndsMoves
      DEF StoreAccess, StoreRefresh, LockInv, Storing, At, To, Idles
    <2>2. QED
      BY <1>0, <2>1, QuietKeepsHave DEF OtherSecrets, Exists
  <1>2. ASSUME NEW c \in Calls, Persist(c)
        PROVE  HaveInv'
    <2>1. /\ UNCHANGED <<account, left>> /\ ~At(c, "forget") /\ Others(c)
          /\ secret' = secret \/ (Exists(Flow(c)) /\ OtherSecrets(Flow(c)))
      BY <1>2, PersistMoves, PutWrites DEF Persist, At, To, Idles
    <2>2. QED
      BY <1>0, <2>1, QuietKeepsHave DEF OtherSecrets, Exists
  <1>3. ASSUME NEW c \in Calls, DropOrphan(c)
        PROVE  HaveInv'
    <2>1. UNCHANGED <<account, left>> /\ ~At(c, "forget") /\ Others(c)
      BY <1>3, DropOrphanMoves DEF DropOrphan, At, To, Idles
    <2>2. \A f \in Flows : Empty(secret[f]) => Empty(secret'[f])
      BY <1>0, <1>3, DropOrphanWrites DEF OtherSecrets, Empty
    <2>3. QED
      BY <2>1, <2>2, QuietKeepsHave DEF Exists
  <1>4. ASSUME NEW c \in Calls, DeleteAccount(c)
        PROVE  HaveInv'
    <2>1. UNCHANGED <<secret, left>> /\ At(c, "delete")
      BY <1>4 DEF DeleteAccount
    <2>2. CASE Idles(c) /\ account' = account
      BY <2>1, <2>2, QuietKeepsHave DEF Exists, Idles, At
    <2>3. CASE To(c, "forget") /\ account' = [account EXCEPT ![Flow(c)] = Gone]
      <3>1. \A f \in Flows : f # Flow(c) => account'[f] = account[f]
        BY <1>0, <2>3
      <3>2. At(c, "forget")' /\ Flow(c)' = Flow(c)
            /\ \A d \in Calls : At(d, "forget") => At(d, "forget")' /\ Flow(d)' = Flow(d)
        BY <2>1, <2>3 DEF To, Others, At, Flow
      <3>3. QED
        BY <2>1, <3>1, <3>2 DEF HaveInv, Exists
    <2>4. QED
      BY <1>4, <2>2, <2>3, DeleteAccountMoves
  <1>5. ASSUME NEW c \in Calls, Forget(c)
        PROVE  HaveInv'
    <2>1. account' = account /\ Idles(c) /\ OtherSecrets(Flow(c)) /\ At(c, "forget")
          /\ \/ Empty(secret'[Flow(c)]) /\ left' = left \ {Flow(c)}
             \/ secret' = secret /\ left' = left \cup {Flow(c)}
      BY <1>5, ForgetWrites, EndsMoves DEF Forget, Empty, NoSecrets
    <2>2. QED
      BY <1>0, <2>1 DEF HaveInv, OtherSecrets, Idles, Others, At, Flow, Exists
  <1>6. ASSUME NEW c \in Calls, AddAccount(c)
        PROVE  HaveInv'
    <2>1. UNCHANGED <<secret, left>> /\ ~At(c, "forget") /\ Others(c)
      BY <1>6, AddAccountMoves DEF AddAccount, At, To, Idles
    <2>2. \A f \in Flows : Exists(f) => Exists(f)'
      BY <1>0, <1>6 DEF AddAccount, AccountWith, Exists
    <2>3. QED
      BY <2>1, <2>2, QuietKeepsHave
  <1>7. CASE Tick
    <2>1. \A f \in Flows : Empty(secret[f]) => Empty(secret'[f])
      BY <1>7, TickWrites DEF Empty, Older, None
    <2>2. left' = left /\ \A f \in Flows : Exists(f)' <=> Exists(f)
      BY <1>7, TickKeepsAccounts DEF Tick
    <2>3. \A c \in Calls : call'[c].pc = call[c].pc /\ call'[c].flow = call[c].flow
      BY <1>7, TickMoves
    <2>4. QED
      BY <1>0, <2>1, <2>2, <2>3 DEF HaveInv, At, Flow
  <1>8. CASE Crash
    <2>1. UNCHANGED <<account, secret>>
          /\ left' = left \cup {Flow(c) : c \in {d \in Calls : At(d, "forget")}}
      BY <1>8 DEF Crash
    <2>2. QED
      BY <2>1 DEF HaveInv, Exists
  <1>9. ASSUME NEW c \in Calls,
               Exchange(c) \/ PollAnswer(c) \/ Unpend(c) \/ LoadPlan(c) \/ ReadCache(c)
               \/ ReadRefresh(c) \/ Answer(c) \/ RevokeAnswer(c)
               \/ TakeLock(c) \/ StartRemoval(c)
        PROVE  HaveInv'
    <2>1. UNCHANGED <<account, secret, left>> /\ ~At(c, "forget")
      BY <1>9 DEF Exchange, PollAnswer, Unpend, LoadPlan, ReadCache, ReadRefresh, Answer,
                  RevokeAnswer, TakeLock, StartRemoval, At
    <2>2. Others(c)
      BY <1>9, ExchangeMoves, PollAnswerMoves, EndsMoves, LoadPlanMoves, ReadCacheMoves,
         ReadRefreshMoves, AnswerMoves, RevokeAnswerMoves, GoMoves, StartRemovalMoves
      DEF Unpend, TakeLock, GivesUp, To, Idles
    <2>3. QED
      BY <2>1, <2>2, QuietKeepsHave DEF Exists
  <1>10. ASSUME NEW c \in Calls, NoteDate(c) \/ MarkGood(c) \/ MarkBad(c)
         PROVE  HaveInv'
    <2>1. UNCHANGED <<secret, left>> /\ ~At(c, "forget") /\ Others(c)
      BY <1>10, NoteDateMoves, EndsMoves DEF NoteDate, MarkGood, MarkBad, Mark, At, To, Idles
    <2>2. \A f \in Flows : Exists(f)' <=> Exists(f)
      BY <1>10, NoteDateKeepsAccounts, MarkKeepsAccounts DEF MarkGood, MarkBad
    <2>3. QED
      BY <2>1, <2>2, QuietKeepsHave
  <1>11. ASSUME NEW c \in Calls, NEW f \in Flows,
                \/ CompleteAuth(c, f) \/ PollNextcloud(c, f) \/ RemoveAccount(c, f) \/ Register(c, f)
                \/ \E r \in Resources : GetAccessToken(c, f, r)
         PROVE  HaveInv'
    <2>1. UNCHANGED <<account, secret, left>>
      BY <1>11 DEF CompleteAuth, PollNextcloud, RemoveAccount, Register, GetAccessToken
    <2>2. \E pc \in {"exchange", "poll", "remove", "add", "plan"} : Starts(c, pc, f)
      BY <1>11, BeginsMoves, RegisterMoves, GetAccessTokenMoves
      DEF CompleteAuth, TakeOauth, PollNextcloud, RemoveAccount
    <2>3. QED
      BY <2>1, <2>2, QuietKeepsHave DEF Exists, Starts, At
  <1>12. CASE UNCHANGED <<secret, account, call, left>>
    BY <1>12 DEF HaveInv, Empty, At, Flow, Exists
  <1>13. QED
    BY <1>1, <1>2, <1>3, <1>4, <1>5, <1>6, <1>7, <1>8, <1>9, <1>10, <1>11, <1>12
    DEF Next, Goes, Waits, Asks, Begin, Approve, CancelAuth, PersonRevokes, vars
-----------------------------------------------------------------------------
\* When an account is to be connected again: its refresh token is not the one the
\* provider accepts, and no call under way is about to store another; or it was looked for
\* too early, or could not be read.
Writing == {"access", "refresh", "persist"}
Over(f) ==
  \/ f \in rushed \cup misread
  \/ /\ \A c \in Calls : Flow(c) = f => call[c].pc \notin Writing
     /\ secret[f].refresh = 0 \/ secret[f].refresh # grant[f]

ReauthInv ==
  /\ \A f \in Flows : Exists(f) /\ account[f].reauth => Over(f)
  /\ \A c \in Calls : At(c, "bad") /\ Exists(Flow(c)) => Over(Flow(c))

LEMMA InitReauth == Init => ReauthInv
  BY IdleType DEF Init, ReauthInv, Exists, Gone, At

\* The steps that keep what is over as it is.
LEMMA QuietKeepsReauth ==
  ASSUME Typed, ReauthInv, NEW c \in Calls, Others(c),
         At(c, "bad")' => Flow(c)' = Flow(c) /\ (Exists(Flow(c)) => Over(Flow(c))'),
         \A f \in Flows : /\ Exists(f)' => Exists(f)
                          /\ Exists(f)' /\ account'[f].reauth => account[f].reauth \/ Over(f)'
                          /\ Exists(f) /\ Over(f) => Over(f)'
  PROVE  ReauthInv'
  <1>0. \A d \in Calls : call[d].flow \in Flows
    BY DEF Typed, CallType
  <1>1. \A f \in Flows : Exists(f)' /\ account'[f].reauth => Over(f)'
    BY DEF ReauthInv
  <1>2. \A d \in Calls : At(d, "bad")' /\ Exists(Flow(d))' => Over(Flow(d))'
    <2>1. ASSUME NEW d \in Calls, d # c, At(d, "bad")', Exists(Flow(d))'
          PROVE  Over(Flow(d))'
      <3>1. call'[d] = call[d]
        BY <2>1 DEF Others
      <3>2. Flow(d)' = Flow(d) /\ Exists(Flow(d)) /\ Over(Flow(d)) /\ Flow(d) \in Flows
        BY <1>0, <2>1, <3>1 DEF ReauthInv, At, Flow, Exists
      <3>3. QED
        BY <3>2
    <2>2. ASSUME At(c, "bad")', Exists(Flow(c))'
          PROVE  Over(Flow(c))'
      <3>1. Flow(c)' = Flow(c) /\ Exists(Flow(c)) /\ Flow(c) \in Flows
        BY <1>0, <2>2 DEF Flow, Exists
      <3>2. QED
        BY <2>2, <3>1
    <2>3. QED
      BY <2>1, <2>2
  <1>3. QED
    BY <1>1, <1>2 DEF ReauthInv

\* An account stays over while its secrets, what the provider accepts and who
\* writes do not change, or change for the account of a writer.
LEMMA OverStays ==
  ASSUME Typed, NEW c \in Calls, Others(c),
         rushed \subseteq rushed', misread \subseteq misread',
         \/ call'[c].pc \notin Writing
         \/ call[c].pc \in Writing /\ call'[c].flow = call[c].flow,
         NEW f \in Flows, Over(f),
         \/ secret'[f].refresh = secret[f].refresh /\ grant'[f] \in {grant[f], 0}
         \/ f = Flow(c) /\ call[c].pc \in Writing
  PROVE  Over(f)'
  <1>1. CASE f \in rushed \cup misread
    BY <1>1 DEF Over
  <1>2. CASE f \notin rushed \cup misread
    <2>1. /\ \A d \in Calls : Flow(d) = f => call[d].pc \notin Writing
          /\ secret[f].refresh = 0 \/ secret[f].refresh # grant[f]
      BY <1>2 DEF Over
    <2>2. \A d \in Calls : Flow(d)' = f => call'[d].pc \notin Writing
      BY <2>1 DEF Others, Flow
    <2>3. secret'[f].refresh = 0 \/ secret'[f].refresh # grant'[f]
      BY <2>1
    <2>4. QED
      BY <2>2, <2>3 DEF Over
  <1>3. QED
    BY <1>1, <1>2

LEMMA ReauthStep ==
  Typed /\ LockInv /\ FlowInv /\ SecretInv /\ ReauthInv /\ [Next]_vars => ReauthInv'
  <1> SUFFICES ASSUME Typed, LockInv, FlowInv, SecretInv, ReauthInv, [Next]_vars
               PROVE  ReauthInv'
    OBVIOUS
  <1> USE DEF disk, locks, history
  <1>0. /\ \A c \in Calls : call[c].flow \in Flows /\ Flow(c) \in Flows
        /\ account \in [Flows -> AccountType] /\ grant \in [Flows -> Gen]
    BY DEF Typed, CallType, Flow
  \* The writers: what is over of their account is so because it was rushed.
  <1>1. ASSUME NEW c \in Calls, StoreAccess(c) \/ StoreRefresh(c) \/ Persist(c)
        PROVE  ReauthInv'
    <2>1. /\ UNCHANGED <<account, grant>> /\ UNCHANGED <<rushed, misread>> /\ call[c].pc \in Writing
      BY <1>1 DEF StoreAccess, StoreRefresh, Persist, Writing, At
    <2>2. /\ Others(c)
          /\ \/ call'[c].pc \in {"idle", "unpend", "orphan"}
             \/ call'[c].pc = "refresh" /\ call'[c].flow = call[c].flow
      BY <1>1, StoreAccessMoves, EndsMoves, PersistMoves DEF StoreRefresh, To, Idles
    <2>3. OtherSecrets(Flow(c))
      BY <1>1, StoreAccessWrites, StoreRefreshWrites, PutWrites, PersistMoves DEF OtherSecrets
    <2>4. ASSUME NEW f \in Flows, Over(f)
          PROVE  Over(f)'
      BY <2>1, <2>2, <2>3, <2>4, OverStays DEF OtherSecrets, Writing
    <2>5. QED
      BY <2>1, <2>2, <2>4, QuietKeepsReauth DEF Exists, At
  <1>2. ASSUME NEW c \in Calls, AddAccount(c)
        PROVE  ReauthInv'
    <2>1. UNCHANGED <<secret, grant, rushed, misread>> /\ At(c, "add") /\ Flow(c) \notin made
          /\ ~Exists(Flow(c))
      BY <1>0, <1>2 DEF AddAccount, FlowInv, Ready
    <2>2. CASE Idles(c) /\ account' = account
      <3>1. \A f \in Flows : Over(f) => Over(f)'
        BY <2>1, <2>2, OverStays DEF Idles, Writing
      <3>2. QED
        BY <2>1, <2>2, <3>1, QuietKeepsReauth DEF Idles, Exists, At
    <2>3. CASE /\ To(c, "access")
               /\ account' = [account EXCEPT ![Flow(c)] = AccountWith(call[c].date)]
      <3>1. /\ \A f \in Flows : f # Flow(c) => account'[f] = account[f]
            /\ ~account'[Flow(c)].reauth
        BY <1>0, <2>3 DEF AccountWith
      <3>2. ASSUME NEW f \in Flows, f # Flow(c), Over(f)
            PROVE  Over(f)'
        <4>1. \A d \in Calls : Flow(d)' = f => d # c /\ call'[d] = call[d] /\ Flow(d) = f
          BY <2>3, <3>2 DEF To, Others, Flow
        <4>2. QED
          BY <2>1, <3>2, <4>1 DEF Over
      <3>3. \A d \in Calls : At(d, "bad")' => d # c /\ call'[d] = call[d] /\ Flow(d) # Flow(c)
        BY <2>1, <2>3 DEF To, Others, At, FlowInv, Connecting
      <3>4. \A f \in Flows : Exists(f)' /\ account'[f].reauth => Over(f)'
        BY <3>1, <3>2 DEF ReauthInv, Exists
      <3>5. \A d \in Calls : At(d, "bad")' /\ Exists(Flow(d))' => Over(Flow(d))'
        <4>1. ASSUME NEW d \in Calls, At(d, "bad")', Exists(Flow(d))'
              PROVE  Over(Flow(d))'
          <5>1. call'[d] = call[d] /\ Flow(d) # Flow(c) /\ Flow(d)' = Flow(d) /\ Flow(d) \in Flows
            BY <1>0, <3>3, <4>1 DEF Flow
          <5>2. Exists(Flow(d)) /\ At(d, "bad")
            BY <3>1, <4>1, <5>1 DEF Exists, At
          <5>3. QED
            BY <3>2, <5>1, <5>2 DEF ReauthInv
        <4>2. QED
          BY <4>1
      <3>6. QED
        BY <3>4, <3>5 DEF ReauthInv
    <2>4. QED
      BY <1>2, <2>2, <2>3, AddAccountMoves
  <1>3. ASSUME NEW c \in Calls, ReadRefresh(c)
        PROVE  ReauthInv'
    <2>1. UNCHANGED <<account, secret, grant>> /\ At(c, "ask") /\ Others(c)
          /\ rushed \subseteq rushed' /\ misread \subseteq misread'
          /\ call'[c].pc \in {"bad", "answer"}
      BY <1>3, ReadRefreshMoves DEF ReadRefresh, To
    <2>2. \A f \in Flows : Over(f) => Over(f)'
      BY <2>1, OverStays DEF Writing
    <2>3. CASE To(c, "answer")
      BY <2>1, <2>2, <2>3, QuietKeepsReauth DEF To, Exists, At
    <2>4. CASE /\ To(c, "bad")
               /\ rushed' = IF StillStoring(Flow(c)) THEN rushed \cup {Flow(c)} ELSE rushed
               /\ misread' = IF secret[Flow(c)].refresh # 0 THEN misread \cup {Flow(c)} ELSE misread
      <3>1. candados[Flow(c)] = c
        BY <2>1 DEF LockInv, Renewing, At
      <3>2. \A d \in Calls : Flow(d) = Flow(c) => call[d].pc # "persist"
        BY <2>1, <3>1 DEF LockInv, Renewing, At
      <3>3. Over(Flow(c))'
        <4>1. CASE StillStoring(Flow(c)) \/ secret[Flow(c)].refresh # 0
          BY <2>4, <4>1 DEF Over, To, Flow
        <4>2. CASE ~StillStoring(Flow(c)) /\ secret[Flow(c)].refresh = 0
          <5>1. \A d \in Calls : Flow(d) = Flow(c) => call[d].pc \notin Writing
            BY <3>2, <4>2 DEF StillStoring, Writing
          <5>2. \A d \in Calls : Flow(d)' = Flow(c) => call'[d].pc \notin Writing
            BY <2>4, <5>1 DEF To, Others, Flow, Writing
          <5>3. Flow(c)' = Flow(c) /\ secret'[Flow(c)].refresh = 0
            BY <2>1, <2>4, <4>2 DEF To, Flow
          <5>4. QED
            BY <5>2, <5>3 DEF Over
        <4>3. QED
          BY <4>1, <4>2
      <3>4. Flow(c)' = Flow(c)
        BY <2>4 DEF To, Flow
      <3>5. QED
        BY <2>1, <2>2, <3>3, <3>4, QuietKeepsReauth DEF Exists
    <2>5. QED
      BY <1>3, <2>3, <2>4, ReadRefreshMoves
  <1>4. ASSUME NEW c \in Calls, Answer(c)
        PROVE  ReauthInv'
    <2>1. UNCHANGED <<account, secret, rushed, misread>> /\ At(c, "answer") /\ Others(c)
          /\ \A f \in Flows : f # Flow(c) => grant'[f] = grant[f]
      BY <1>0, <1>4, AnswerMoves DEF Answer, GivesUp, To, Idles
    <2>2. /\ call[c].gen # 0 /\ candados[Flow(c)] = c
          /\ Exists(Flow(c)) => call[c].gen = secret[Flow(c)].refresh
      BY <2>1 DEF SecretInv, LockInv, Renewing, At
    <2>3. CASE /\ call[c].gen = grant[Flow(c)]
               /\ To(c, "persist") \/ Idles(c) \/ To(c, "silence")
      <3>1. ASSUME NEW f \in Flows, Exists(f), Over(f)
            PROVE  Over(f)'
        <4>1. CASE f \in rushed \cup misread
          BY <2>1, <4>1 DEF Over
        <4>2. CASE f \notin rushed \cup misread
          <5>1. f # Flow(c)
            BY <2>2, <2>3, <3>1, <4>2 DEF Over
          <5>2. \A d \in Calls : Flow(d)' = f => call'[d].pc \notin Writing
            BY <2>3, <3>1, <4>2, <5>1 DEF Over, To, Idles, Others, Flow, Writing
          <5>3. QED
            BY <2>1, <3>1, <4>2, <5>1, <5>2 DEF Over
        <4>3. QED
          BY <4>1, <4>2
      <3>2. ~At(c, "bad")'
        BY <2>3 DEF To, Idles, At
      <3>3. QED
        BY <2>1, <3>1, <3>2, QuietKeepsReauth DEF Exists
    <2>4. CASE grant' = grant /\ (To(c, "bad") \/ Idles(c) \/ To(c, "silence"))
               /\ (To(c, "bad") => call[c].gen # grant[Flow(c)])
      <3>1. call'[c].pc \in {"bad", "idle", "silence"}
        BY <2>4 DEF To, Idles
      <3>2. \A f \in Flows : Over(f) => Over(f)'
        BY <2>1, <2>4, <3>1, OverStays DEF Writing
      <3>3. ASSUME At(c, "bad")', Exists(Flow(c))
            PROVE  Over(Flow(c))
        <4>1. call[c].gen # grant[Flow(c)] /\ secret[Flow(c)].refresh # 0
          BY <2>2, <2>4, <3>3 DEF To, Idles, At
        <4>2. \A d \in Calls : Flow(d) = Flow(c) => call[d].pc \notin Writing
          BY <2>1, <2>2, <4>1 DEF SecretInv, LockInv, Renewing, Writing, Empty, At
        <4>3. QED
          BY <2>2, <3>3, <4>1, <4>2 DEF Over
      <3>4. At(c, "bad")' => Flow(c)' = Flow(c)
        BY <2>4 DEF To, Idles, At, Flow
      <3>5. QED
        BY <1>0, <2>1, <3>2, <3>3, <3>4, QuietKeepsReauth DEF Exists
    <2>5. QED
      BY <1>4, <2>3, <2>4, AnswerMoves DEF GivesUp, To
  <1>5. ASSUME NEW c \in Calls, Exchange(c) \/ PollAnswer(c)
        PROVE  ReauthInv'
    <2>1. UNCHANGED <<account, secret, rushed, misread>> /\ Others(c)
          /\ call'[c].pc \in {"add", "idle", "silence"}
      BY <1>5, ExchangeMoves, PollAnswerMoves DEF Exchange, PollAnswer, To, Idles
    <2>2. \A f \in Flows : grant'[f] # grant[f] => f \notin made
      <3>1. CASE Exchange(c)
        BY <1>0, <3>1 DEF Exchange, FlowInv, Ready
      <3>2. CASE PollAnswer(c)
        <4>1. kind[Flow(c)] = "nextcloud" /\ (grant' # grant => code[Flow(c)] = "approved")
          BY <3>2 DEF PollAnswer, FlowInv
        <4>2. \A f \in Flows : grant'[f] # grant[f] => f = Flow(c)
          BY <1>0, <3>2 DEF PollAnswer
        <4>3. QED
          BY <1>0, <4>1, <4>2 DEF FlowInv
      <3>3. QED
        BY <1>5, <3>1, <3>2
    <2>3. \A f \in Flows : Exists(f) => grant'[f] = grant[f]
      BY <2>2 DEF FlowInv
    <2>4. \A f \in Flows : Exists(f) /\ Over(f) => Over(f)'
      BY <2>1, <2>3, OverStays DEF Writing
    <2>5. QED
      BY <2>1, <2>4, QuietKeepsReauth DEF Exists, At
  <1>6. ASSUME NEW c \in Calls,
               Unpend(c) \/ LoadPlan(c) \/ ReadCache(c) \/ RevokeAnswer(c)
               \/ TakeLock(c) \/ StartRemoval(c)
        PROVE  ReauthInv'
    <2>1. UNCHANGED <<account, secret>> /\ rushed \subseteq rushed' /\ misread \subseteq misread'
          /\ \A f \in Flows : grant'[f] \in {grant[f], 0}
      BY <1>0, <1>6 DEF Unpend, LoadPlan, ReadCache, RevokeAnswer, TakeLock, StartRemoval
    <2>2. Others(c) /\ call'[c].pc \notin Writing \cup {"bad"}
      BY <1>6, EndsMoves, LoadPlanMoves, ReadCacheMoves, RevokeAnswerMoves, GoMoves, StartRemovalMoves
      DEF Unpend, TakeLock, To, Idles, Writing
    <2>3. \A f \in Flows : Over(f) => Over(f)'
      BY <2>1, <2>2, OverStays
    <2>4. QED
      BY <2>1, <2>2, <2>3, QuietKeepsReauth DEF Exists, At
  <1>7. ASSUME NEW c \in Calls, DropOrphan(c) \/ NoteDate(c) \/ DeleteAccount(c) \/ Forget(c)
        PROVE  ReauthInv'
    <2>1. UNCHANGED <<grant, rushed, misread>>
      BY <1>7 DEF DropOrphan, NoteDate, DeleteAccount, Forget
    <2>2. Others(c) /\ call'[c].pc \notin Writing \cup {"bad"}
      BY <1>7, DropOrphanMoves, NoteDateMoves, DeleteAccountMoves, EndsMoves
      DEF Forget, To, Idles, Writing
    <2>3. \A f \in Flows : Exists(f) => secret'[f].refresh = secret[f].refresh
      <3>1. CASE DropOrphan(c)
        BY <1>0, <3>1, DropOrphanWrites DEF OtherSecrets
      <3>2. CASE Forget(c)
        <4>1. ~Exists(Flow(c))
          BY <3>2 DEF Forget, LockInv
        <4>2. QED
          BY <1>0, <3>2, <4>1, ForgetWrites DEF OtherSecrets
      <3>3. CASE secret' = secret
        BY <3>3
      <3>4. QED
        BY <1>7, <3>1, <3>2, <3>3 DEF NoteDate, DeleteAccount
    <2>4. \A f \in Flows : /\ Exists(f)' => Exists(f)
                           /\ Exists(f)' /\ account'[f].reauth => account[f].reauth
      <3>1. CASE NoteDate(c)
        BY <3>1, NoteDateKeepsAccounts
      <3>2. CASE DeleteAccount(c)
        <4>1. \A f \in Flows : account'[f] = account[f] \/ account'[f] = Gone
          BY <1>0, <3>2 DEF DeleteAccount
        <4>2. QED
          BY <4>1 DEF Exists, Gone
      <3>3. CASE account' = account
        BY <3>3 DEF Exists
      <3>4. QED
        BY <1>7, <3>1, <3>2, <3>3 DEF DropOrphan, Forget
    <2>5. \A f \in Flows : Exists(f) /\ Over(f) => Over(f)'
      BY <2>1, <2>2, <2>3, OverStays
    <2>6. QED
      BY <2>1, <2>2, <2>4, <2>5, QuietKeepsReauth DEF At
  <1>8. ASSUME NEW c \in Calls, MarkGood(c) \/ MarkBad(c)
        PROVE  ReauthInv'
    <2>1. UNCHANGED <<secret, grant, rushed, misread>> /\ Idles(c)
      BY <1>8, EndsMoves DEF MarkGood, MarkBad, Mark
    <2>2. \A f \in Flows : Over(f) => Over(f)'
      BY <2>1, OverStays DEF Idles, Writing
    <2>3. ASSUME NEW f \in Flows, Exists(f)', account'[f].reauth
          PROVE  account[f].reauth \/ Over(f)'
      <3>1. CASE MarkGood(c)
        <4>1. Mark(c, FALSE)
          BY <3>1 DEF MarkGood
        <4>2. Exists(f) /\ account'[f].reauth \in {account[f].reauth, FALSE}
          BY <2>3, <4>1, MarkKeepsAccounts
        <4>3. QED
          BY <2>3, <4>2
      <3>2. CASE MarkBad(c)
        <4>1. Mark(c, TRUE) /\ At(c, "bad")
          BY <3>2 DEF MarkBad
        <4>2. Exists(f) /\ (f # Flow(c) => account'[f] = account[f])
          BY <2>3, <4>1, MarkKeepsAccounts
        <4>3. f = Flow(c) => Over(f)
          BY <4>1, <4>2 DEF ReauthInv
        <4>4. QED
          BY <2>2, <2>3, <4>2, <4>3
      <3>3. QED
        BY <1>8, <3>1, <3>2
    <2>4. \A f \in Flows : Exists(f)' => Exists(f)
      BY <1>8, MarkKeepsAccounts DEF MarkGood, MarkBad
    <2>5. QED
      BY <2>1, <2>2, <2>3, <2>4, QuietKeepsReauth DEF Idles, At
  <1>9. ASSUME NEW c \in Calls, NEW f \in Flows,
               \/ CompleteAuth(c, f) \/ PollNextcloud(c, f) \/ RemoveAccount(c, f) \/ Register(c, f)
               \/ \E r \in Resources : GetAccessToken(c, f, r)
        PROVE  ReauthInv'
    <2>1. UNCHANGED <<account, secret, grant, rushed, misread>>
      BY <1>9 DEF CompleteAuth, PollNextcloud, RemoveAccount, Register, GetAccessToken
    <2>2. \E pc \in {"exchange", "poll", "remove", "add", "plan"} : Starts(c, pc, f)
      BY <1>9, BeginsMoves, RegisterMoves, GetAccessTokenMoves
      DEF CompleteAuth, TakeOauth, PollNextcloud, RemoveAccount
    <2>3. Others(c) /\ call'[c].pc \notin Writing \cup {"bad"}
      BY <2>2 DEF Starts, Writing
    <2>4. \A g \in Flows : Over(g) => Over(g)'
      BY <2>1, <2>3, OverStays
    <2>5. QED
      BY <2>1, <2>3, <2>4, QuietKeepsReauth DEF Exists, At
  <1>10. ASSUME NEW g \in Flows, PersonRevokes(g)
         PROVE  ReauthInv'
    <2>1. UNCHANGED <<account, secret, call, rushed, misread>> /\ \A f \in Flows : grant'[f] \in {grant[f], 0}
      BY <1>0, <1>10 DEF PersonRevokes
    <2>2. \A f \in Flows : Over(f) => Over(f)'
      BY <2>1 DEF Over, Flow
    <2>3. QED
      BY <1>0, <2>1, <2>2 DEF ReauthInv, Exists, At, Flow
  <1>11. CASE Tick
    <2>1. /\ UNCHANGED <<grant, rushed, misread>>
          /\ \A f \in Flows : /\ secret'[f].refresh = secret[f].refresh
                              /\ Exists(f)' <=> Exists(f)
                              /\ Exists(f) => account'[f].reauth = account[f].reauth
      BY <1>11, TickWrites, TickKeepsAccounts DEF Tick
    <2>2. \A c \in Calls : call'[c].pc = call[c].pc /\ call'[c].flow = call[c].flow
      BY <1>11, TickMoves
    <2>3. \A f \in Flows : Over(f) => Over(f)'
      BY <2>1, <2>2 DEF Over, Flow
    <2>4. \A f \in Flows : Exists(f)' /\ account'[f].reauth => Over(f)'
      BY <2>1, <2>3 DEF ReauthInv
    <2>5. \A c \in Calls : At(c, "bad")' /\ Exists(Flow(c))' => Over(Flow(c))'
      <3>1. ASSUME NEW c \in Calls, At(c, "bad")', Exists(Flow(c))'
            PROVE  Over(Flow(c))'
        <4>1. At(c, "bad") /\ Flow(c)' = Flow(c) /\ Exists(Flow(c))
          BY <1>0, <2>1, <2>2, <3>1 DEF At, Flow
        <4>2. QED
          BY <1>0, <2>3, <4>1 DEF ReauthInv
      <3>2. QED
        BY <3>1
    <2>6. QED
      BY <2>4, <2>5 DEF ReauthInv
  <1>12. CASE Crash
    <2>1. UNCHANGED <<account, secret, grant, rushed, misread>> /\ \A c \in Calls : call'[c].pc = "idle"
      BY <1>12, IdleType DEF Crash
    <2>2. \A f \in Flows : Over(f) => Over(f)'
      BY <2>1 DEF Over, Writing
    <2>3. QED
      BY <2>1, <2>2 DEF ReauthInv, Exists, At
  <1>13. CASE UNCHANGED <<account, secret, grant, rushed, misread, call>>
    BY <1>13 DEF ReauthInv, Over, Exists, At, Flow
  <1>14. QED
    BY <1>1, <1>2, <1>3, <1>4, <1>5, <1>6, <1>7, <1>8, <1>9, <1>10, <1>11, <1>12, <1>13
    DEF Next, Goes, Waits, Asks, Begin, Approve, CancelAuth, vars
-----------------------------------------------------------------------------
\* An account with an application password has nothing to be renewed with: it is to
\* be connected again when the password is not there and nobody is storing it; or was
\* looked for too early, or could not be read.
Missing(f) ==
  \/ f \in rushed \cup misread
  \/ /\ secret[f].tokens["access"] = None
     /\ \A c \in Calls : Flow(c) = f => ~At(c, "access")

PasswordAccount(f) ==
  kind[f] # "oauth" =>
    /\ secret[f].refresh = 0
    /\ Exists(f) => /\ \A r \in Resources : account[f].date[r] = Never
                    /\ account[f].reauth => Missing(f)

PasswordCall(c) ==
  kind[Flow(c)] # "oauth" =>
    /\ call[c].pc \notin Held \cup {"exchange", "refresh"}
    /\ call[c].pc \in {"poll", "add", "access"} => call[c].gen = 0
    /\ call[c].pc \in {"add", "cache"} => call[c].date = Never
    /\ call[c].pc \in {"ask", "bad"} => Missing(Flow(c))

PasswordInv == (\A f \in Flows : PasswordAccount(f)) /\ \A c \in Calls : PasswordCall(c)

LEMMA InitPassword == Init => PasswordInv
  BY IdleType DEF Init, PasswordInv, PasswordAccount, PasswordCall, Held, Exists, Gone, NoSecrets

LEMMA MissingStays ==
  ASSUME NEW c \in Calls, Others(c), rushed \subseteq rushed', misread \subseteq misread',
         NEW f \in Flows, Missing(f),
         \/ secret'[f].tokens["access"] \in {secret[f].tokens["access"], None}
         \/ At(c, "access") /\ Flow(c) = f,
         At(c, "access")' /\ Flow(c)' = f => At(c, "access") /\ Flow(c) = f
  PROVE  Missing(f)'
  BY DEF Missing, Others, At, Flow

\* A step keeps the invariant if it keeps it of each account and of its own call.
LEMMA PasswordKept ==
  ASSUME Typed, FlowInv, PasswordInv, NEW c \in Calls, Others(c), kind' = kind, PasswordCall(c)',
         \A f \in Flows : kind[f] # "oauth" => PasswordAccount(f)',
         \A f \in Flows : kind[f] # "oauth" /\ f \in made /\ Missing(f) => Missing(f)'
  PROVE  PasswordInv'
  <1>1. ASSUME NEW d \in Calls, d # c
        PROVE  PasswordCall(d)'
    <2>1. call'[d] = call[d] /\ Flow(d)' = Flow(d) /\ Flow(d) \in Flows /\ PasswordCall(d)
      BY <1>1 DEF Others, Typed, CallType, Flow, PasswordInv
    <2>2. call[d].pc \in {"ask", "bad"} => Flow(d) \in made
      BY DEF FlowInv, Connecting
    <2>3. QED
      BY <2>1, <2>2 DEF PasswordCall
  <1>2. QED
    BY <1>1 DEF PasswordInv, PasswordAccount

\* The steps that write neither file.
LEMMA QuietKeepsPasswords ==
  ASSUME Typed, FlowInv, PasswordInv, NEW c \in Calls, Others(c), PasswordCall(c)',
         ~At(c, "access")', UNCHANGED <<kind, account, secret>>,
         rushed \subseteq rushed', misread \subseteq misread'
  PROVE  PasswordInv'
  <1>1. \A f \in Flows : Missing(f) => Missing(f)'
    BY MissingStays
  <1>2. \A f \in Flows : PasswordAccount(f)'
    BY <1>1 DEF PasswordInv, PasswordAccount, Exists
  <1>3. QED
    BY <1>1, <1>2, PasswordKept

\* What a flow is begins when nothing is known of it.
LEMMA NewKindKeepsPasswords ==
  ASSUME Typed, FlowInv, SecretInv, PasswordInv, UNCHANGED <<account, secret, rushed, misread>>,
         NEW g \in Flows, kind[g] = "none", \A f \in Flows : f # g => kind'[f] = kind[f],
         \A d \in Calls : call'[d] = call[d] \/ (PasswordCall(d)' /\ ~At(d, "access")')
  PROVE  PasswordInv'
  <1>1. ~Exists(g) /\ Empty(secret[g]) /\ \A d \in Calls : Flow(d) = g => call[d].pc \in {"idle", "silence"}
    BY DEF FlowInv, SecretInv, Ready, Connecting, At
  <1>2. ASSUME NEW f \in Flows, Missing(f)
        PROVE  Missing(f)'
    BY <1>2 DEF Missing, At, Flow
  <1>3. ASSUME NEW f \in Flows
        PROVE  PasswordAccount(f)'
    <2>1. CASE f = g
      BY <1>1, <2>1 DEF PasswordAccount, Exists, Empty
    <2>2. CASE f # g
      BY <1>2, <2>2 DEF PasswordInv, PasswordAccount, Exists
    <2>3. QED
      BY <2>1, <2>2
  <1>4. ASSUME NEW d \in Calls
        PROVE  PasswordCall(d)'
    <2>1. CASE call'[d] = call[d] /\ Flow(d) # g
      <3>1. Flow(d) \in Flows /\ Flow(d)' = Flow(d) /\ PasswordCall(d)
        BY <2>1 DEF Typed, CallType, Flow, PasswordInv
      <3>2. QED
        BY <1>2, <2>1, <3>1 DEF PasswordCall
    <2>2. CASE call'[d] = call[d] /\ Flow(d) = g
      BY <1>1, <2>2 DEF PasswordCall, Held
    <2>3. QED
      BY <2>1, <2>2
  <1>5. QED
    BY <1>3, <1>4 DEF PasswordInv

\* A call that goes on, about an account of OAuth2 or to a step where nothing is said.
LEMMA SilentCalls ==
  ASSUME NEW c \in Calls, kind' = kind,
         \/ Idles(c)
         \/ \E pc : To(c, pc) /\ (kind[Flow(c)] = "oauth"
                                  \/ pc \in {"lock", "plan", "good", "silence", "unpend",
                                             "revoke", "delete", "forget"})
  PROVE  PasswordCall(c)'
  BY DEF Idles, To, PasswordCall, Held, Flow

LEMMA PollAnswerPasswords ==
  ASSUME Typed, FlowInv, PasswordInv, NEW c \in Calls, PollAnswer(c)
  PROVE  PasswordInv'
  <1>1. UNCHANGED <<kind, account, secret, rushed, misread>> /\ At(c, "poll")
    BY DEF PollAnswer, disk, history
  <1>2. kind[Flow(c)] # "oauth" /\ call[c].gen = 0
    BY <1>1 DEF FlowInv, PasswordInv, PasswordCall, At
  <1>3. CASE call' = [call EXCEPT ![c].pc = "add", ![c].life = Never, ![c].date = Never]
    <2>1. /\ call'[c].pc = "add" /\ call'[c].date = Never /\ call'[c].gen = call[c].gen
          /\ Others(c)
      BY <1>3 DEF Typed, CallType, Others
    <2>2. PasswordCall(c)' /\ ~At(c, "access")'
      BY <1>2, <2>1 DEF PasswordCall, Held, At
    <2>3. QED
      BY <1>1, <2>1, <2>2, QuietKeepsPasswords
  <1>4. CASE Ends(c)
    <2>1. Idles(c)
      BY <1>4, EndsMoves
    <2>2. QED
      BY <1>1, <2>1, SilentCalls, QuietKeepsPasswords DEF Idles, At
  <1>5. QED
    BY <1>3, <1>4, Zenon DEF PollAnswer

LEMMA AddAccountPasswords ==
  ASSUME Typed, FlowInv, PasswordInv, NEW c \in Calls, AddAccount(c)
  PROVE  PasswordInv'
  <1>1. /\ UNCHANGED <<kind, secret, rushed, misread>> /\ At(c, "add")
        /\ Flow(c) \in Flows /\ Flow(c) \notin made /\ account \in [Flows -> AccountType]
    BY DEF AddAccount, FlowInv, Ready, Typed, CallType, Flow
  <1>2. CASE Idles(c) /\ account' = account
    BY <1>1, <1>2, SilentCalls, QuietKeepsPasswords DEF Idles, At
  <1>3. CASE /\ To(c, "access") /\ Keeps(c)
             /\ account' = [account EXCEPT ![Flow(c)] = AccountWith(call[c].date)]
    <2>1. PasswordCall(c)'
      BY <1>1, <1>3 DEF PasswordInv, PasswordCall, To, Keeps, Held, At, Flow
    <2>2. ASSUME NEW f \in Flows, f # Flow(c), Missing(f)
          PROVE  Missing(f)'
      BY <1>1, <1>3, <2>2, MissingStays DEF To, At, Flow
    <2>3. ASSUME NEW f \in Flows, kind[f] # "oauth"
          PROVE  PasswordAccount(f)'
      <3>1. CASE f = Flow(c)
        <4>1. kind[Flow(c)] # "oauth" => call[c].date = Never
          BY <1>1 DEF PasswordInv, PasswordCall, At
        <4>2. account'[f] = AccountWith(call[c].date) /\ secret[f].refresh = 0
          BY <1>1, <1>3, <2>3, <3>1 DEF PasswordInv, PasswordAccount
        <4>3. QED
          BY <1>1, <2>3, <3>1, <4>1, <4>2 DEF PasswordAccount, AccountWith
      <3>2. CASE f # Flow(c)
        <4>1. account'[f] = account[f]
          BY <1>1, <1>3, <3>2
        <4>2. QED
          BY <1>1, <2>2, <2>3, <3>2, <4>1 DEF PasswordInv, PasswordAccount, Exists
      <3>3. QED
        BY <3>1, <3>2
    <2>4. QED
      BY <1>1, <1>3, <2>1, <2>2, <2>3, PasswordKept DEF To
  <1>4. QED
    BY <1>2, <1>3, AddAccountMoves

LEMMA StoreAccessPasswords ==
  ASSUME Typed, FlowInv, PasswordInv, NEW c \in Calls, StoreAccess(c)
  PROVE  PasswordInv'
  <1>1. /\ UNCHANGED <<kind, account, rushed, misread>> /\ At(c, "access") /\ Flow(c) \in Flows
    BY DEF StoreAccess, Typed, CallType, Flow
  <1>2. OtherSecrets(Flow(c)) /\ secret'[Flow(c)].refresh = secret[Flow(c)].refresh
    BY StoreAccessWrites
  <1>3. kind[Flow(c)] # "oauth" => call[c].gen = 0
    BY <1>1 DEF PasswordInv, PasswordCall, At
  <1>4. Others(c) /\ ~At(c, "access")' /\ PasswordCall(c)'
    <2>1. \/ To(c, "refresh") /\ kind[Flow(c)] = "oauth"
          \/ To(c, "unpend") \/ Idles(c)
      BY <1>3, GoMoves, OnlyMoves, EndsMoves DEF StoreAccess
    <2>2. QED
      BY <1>1, <2>1, SilentCalls DEF To, Idles, At
  <1>5. \A f \in Flows : Missing(f) => Missing(f)'
    BY <1>1, <1>2, <1>4, MissingStays DEF OtherSecrets
  <1>6. \A f \in Flows : kind[f] # "oauth" => PasswordAccount(f)'
    BY <1>1, <1>2, <1>5 DEF PasswordInv, PasswordAccount, OtherSecrets, Exists
  <1>7. QED
    BY <1>1, <1>4, <1>5, <1>6, PasswordKept

\* The steps of a renewal write nothing of these accounts.
LEMMA RenewalPasswords ==
  ASSUME Typed, FlowInv, PasswordInv, NEW c \in Calls,
         StoreRefresh(c) \/ Persist(c) \/ DropOrphan(c) \/ NoteDate(c)
  PROVE  PasswordInv'
  <1>1. /\ UNCHANGED <<kind, rushed, misread>> /\ Flow(c) \in Flows
        /\ call[c].pc \in Held \cup {"refresh"}
    BY DEF StoreRefresh, Persist, DropOrphan, NoteDate, history, Typed, CallType, Flow, Held, At
  <1>2. kind[Flow(c)] = "oauth"
    BY <1>1 DEF PasswordInv, PasswordCall
  <1>3. Idles(c) \/ To(c, "orphan") \/ To(c, "date") \/ To(c, "good")
    BY EndsMoves, PersistMoves, DropOrphanMoves, NoteDateMoves DEF StoreRefresh
  <1>4. Others(c) /\ ~At(c, "access")' /\ PasswordCall(c)'
    BY <1>1, <1>2, <1>3, SilentCalls DEF To, Idles, At
  <1>5. \A f \in Flows : f # Flow(c) => secret'[f] = secret[f] /\ account'[f] = account[f]
    <2>1. OtherSecrets(Flow(c))
      BY StoreRefreshWrites, PersistMoves, PutWrites, DropOrphanWrites
      DEF NoteDate, OtherSecrets
    <2>2. \A f \in Flows : f # Flow(c) => account'[f] = account[f]
      BY NoteDateKeepsAccounts DEF StoreRefresh, Persist, DropOrphan
    <2>3. QED
      BY <2>1, <2>2 DEF OtherSecrets
  <1>6. \A f \in Flows : kind[f] # "oauth" /\ Missing(f) => Missing(f)'
    BY <1>1, <1>2, <1>4, <1>5, MissingStays
  <1>7. \A f \in Flows : kind[f] # "oauth" => PasswordAccount(f)'
    BY <1>1, <1>2, <1>5, <1>6 DEF PasswordInv, PasswordAccount, Exists
  <1>8. QED
    BY <1>1, <1>4, <1>6, <1>7, PasswordKept

LEMMA LoadPlanPasswords ==
  ASSUME Typed, FlowInv, PasswordInv, NEW c \in Calls, LoadPlan(c)
  PROVE  PasswordInv'
  <1>1. /\ UNCHANGED <<kind, account, secret, rushed, misread>> /\ Flow(c) \in Flows
        /\ call[c].res \in Resources
    BY DEF LoadPlan, disk, history, Typed, CallType, Flow
  <1>2. CASE /\ Exists(Flow(c))
             /\ call' = [call EXCEPT ![c].pc = "cache",
                                     ![c].date = account[Flow(c)].date[call[c].res]]
    <2>1. /\ call'[c].pc = "cache" /\ Flow(c)' = Flow(c) /\ Others(c)
          /\ call'[c].date = account[Flow(c)].date[call[c].res]
      BY <1>2 DEF Typed, CallType, Others, Flow
    <2>2. kind[Flow(c)] # "oauth" => call'[c].date = Never
      BY <1>1, <1>2, <2>1 DEF PasswordInv, PasswordAccount
    <2>3. PasswordCall(c)' /\ ~At(c, "access")'
      BY <1>1, <2>1, <2>2 DEF PasswordCall, Held, At
    <2>4. QED
      BY <1>1, <2>1, <2>3, QuietKeepsPasswords
  <1>3. CASE Refuses(c)
    <2>1. Idles(c)
      BY <1>3, EndsMoves DEF Refuses
    <2>2. QED
      BY <1>1, <2>1, SilentCalls, QuietKeepsPasswords DEF Idles, At
  <1>4. QED
    BY <1>2, <1>3, Zenon DEF LoadPlan

LEMMA ReadCachePasswords ==
  ASSUME Typed, FlowInv, PasswordInv, NEW c \in Calls, ReadCache(c)
  PROVE  PasswordInv'
  <1>1. /\ UNCHANGED <<kind, account, secret>> /\ Flow(c) \in Flows /\ At(c, "cache")
        /\ rushed \subseteq rushed' /\ misread \subseteq misread'
    BY DEF ReadCache, disk, Typed, CallType, Flow
  <1>2. CASE To(c, "good") \/ To(c, "lock")
    BY <1>1, <1>2, SilentCalls, QuietKeepsPasswords DEF To, At
  <1>3. CASE To(c, "ask") /\ Holds(c)
    <2>1. Flow(c)' = Flow(c) /\ call'[c].pc = "ask" /\ Others(c)
      BY <1>3 DEF To, Flow
    <2>2. ASSUME kind[Flow(c)] # "oauth"
          PROVE  Missing(Flow(c))'
      <3>1. LastLook(c) /\ call[c].date = Never /\ Cached(c) = secret[Flow(c)].tokens["access"]
        BY <1>1, <1>3, <2>2
        DEF LastLook, Cached, AccessKey, Mixes, PasswordInv, PasswordCall, At
      <3>2. /\ rushed' = IF StillStoring(Flow(c)) THEN rushed \cup {Flow(c)} ELSE rushed
            /\ misread' = IF Serviceable(c) THEN misread \cup {Flow(c)} ELSE misread
        BY <2>1, <3>1, OnlyMoves DEF ReadCache, Serves, To
      <3>3. CASE StillStoring(Flow(c)) \/ Serviceable(c)
        BY <2>1, <3>2, <3>3 DEF Missing
      <3>4. CASE ~StillStoring(Flow(c)) /\ ~Serviceable(c)
        <4>1. secret'[Flow(c)].tokens["access"] = None
          BY <1>1, <3>1, <3>4, ServiceAssumption DEF Serviceable, Never, ServiceAssumption
        <4>2. \A d \in Calls : Flow(d)' = Flow(c) => ~At(d, "access")'
          BY <2>1, <3>4 DEF StillStoring, Others, At, Flow
        <4>3. QED
          BY <2>1, <4>1, <4>2 DEF Missing
      <3>5. QED
        BY <3>3, <3>4
    <2>3. PasswordCall(c)' /\ ~At(c, "access")'
      BY <1>1, <2>1, <2>2 DEF PasswordCall, Held, At
    <2>4. QED
      BY <1>1, <2>1, <2>3, QuietKeepsPasswords
  <1>4. QED
    BY <1>2, <1>3, ReadCacheMoves

LEMMA ReadRefreshPasswords ==
  ASSUME Typed, FlowInv, PasswordInv, NEW c \in Calls, ReadRefresh(c)
  PROVE  PasswordInv'
  <1>1. /\ UNCHANGED <<kind, account, secret>> /\ Flow(c) \in Flows /\ At(c, "ask")
        /\ rushed \subseteq rushed' /\ misread \subseteq misread'
    BY DEF ReadRefresh, disk, Typed, CallType, Flow
  <1>2. CASE To(c, "bad")
    <2>1. Flow(c)' = Flow(c) /\ call'[c].pc = "bad" /\ Others(c) /\ ~At(c, "access")'
      BY <1>2 DEF To, At, Flow
    <2>2. kind[Flow(c)] # "oauth" => Missing(Flow(c))
      BY <1>1 DEF PasswordInv, PasswordCall, At
    <2>3. Missing(Flow(c)) => Missing(Flow(c))'
      <3>1. \A f \in Flows : Missing(f) => Missing(f)'
        BY <1>1, <2>1, MissingStays
      <3>2. QED
        BY <1>1, <2>1, <3>1
    <2>4. PasswordCall(c)'
      BY <1>1, <2>1, <2>2, <2>3 DEF PasswordCall, Held
    <2>5. QED
      BY <1>1, <2>1, <2>4, QuietKeepsPasswords
  <1>3. CASE secret[Flow(c)].refresh # 0 /\ To(c, "answer")
    <2>1. kind[Flow(c)] = "oauth"
      BY <1>1, <1>3 DEF PasswordInv, PasswordAccount
    <2>2. QED
      BY <1>1, <1>3, <2>1, SilentCalls, QuietKeepsPasswords DEF To, At
  <1>4. QED
    BY <1>2, <1>3, ReadRefreshMoves

\* The steps of a removal, and of who marks the account.
LEMMA AccountPasswords ==
  ASSUME Typed, FlowInv, PasswordInv, NEW c \in Calls,
         DeleteAccount(c) \/ Forget(c) \/ MarkGood(c) \/ MarkBad(c)
  PROVE  PasswordInv'
  <1>1. /\ UNCHANGED <<kind, rushed, misread>> /\ Flow(c) \in Flows /\ PasswordCall(c)
        /\ secret \in [Flows -> SecretType] /\ account \in [Flows -> AccountType]
    BY DEF DeleteAccount, Forget, MarkGood, MarkBad, Mark, history, Typed, CallType, Flow, PasswordInv
  <1>2. Idles(c) \/ To(c, "forget")
    BY EndsMoves, DeleteAccountMoves DEF Forget, MarkGood, MarkBad, Mark
  <1>3. Others(c) /\ ~At(c, "access")' /\ PasswordCall(c)'
    BY <1>1, <1>2, SilentCalls DEF To, Idles, At
  <1>4. \A f \in Flows : \/ secret'[f] = secret[f]
                         \/ secret'[f] = NoSecrets
    BY ForgetWrites DEF DeleteAccount, MarkGood, MarkBad, Mark, OtherSecrets
  <1>5. NoSecrets.refresh = 0 /\ NoSecrets.tokens["access"] = None
    BY DEF NoSecrets, AccessKeys
  <1>6. \A f \in Flows : Missing(f) => Missing(f)'
    BY <1>1, <1>3, <1>4, <1>5, MissingStays
  <1>7. ASSUME NEW f \in Flows, kind[f] # "oauth"
        PROVE  PasswordAccount(f)'
    <2>1. secret'[f].refresh = 0
      BY <1>4, <1>5, <1>7 DEF PasswordInv, PasswordAccount
    <2>2. ASSUME Exists(f)'
          PROVE  /\ Exists(f) /\ account'[f].date = account[f].date
                 /\ account'[f].reauth => account[f].reauth \/ (At(c, "bad") /\ f = Flow(c))
      <3>1. CASE DeleteAccount(c)
        BY <1>1, <2>2, <3>1 DEF DeleteAccount, Exists, Gone
      <3>2. CASE Forget(c)
        BY <2>2, <3>2 DEF Forget, Exists
      <3>3. CASE MarkGood(c)
        <4>1. Mark(c, FALSE)
          BY <3>3 DEF MarkGood
        <4>2. Exists(f) /\ account'[f].date = account[f].date
              /\ account'[f].reauth \in {account[f].reauth, FALSE}
          BY <2>2, <4>1, MarkKeepsAccounts
        <4>3. QED
          BY <4>2
      <3>4. CASE MarkBad(c)
        <4>1. Mark(c, TRUE) /\ At(c, "bad")
          BY <3>4 DEF MarkBad
        <4>2. Exists(f) /\ account'[f].date = account[f].date
              /\ (f # Flow(c) => account'[f] = account[f])
          BY <2>2, <4>1, MarkKeepsAccounts
        <4>3. QED
          BY <4>1, <4>2
      <3>5. QED
        BY <3>1, <3>2, <3>3, <3>4
    <2>3. At(c, "bad") /\ f = Flow(c) => Missing(f)
      BY <1>1, <1>7 DEF PasswordCall, At
    <2>4. PasswordAccount(f)
      BY DEF PasswordInv
    <2>5. QED
      BY <1>1, <1>6, <1>7, <2>1, <2>2, <2>3, <2>4 DEF PasswordAccount
  <1>8. QED
    BY <1>1, <1>3, <1>6, <1>7, PasswordKept

LEMMA TickPasswords ==
  ASSUME Typed, PasswordInv, Tick
  PROVE  PasswordInv'
  <1>1. UNCHANGED <<kind, rushed, misread>> /\ Older(None) = None /\ Older(Never) = Never
    <2>1. UNCHANGED <<kind, rushed, misread>>
      BY DEF Tick, history
    <2>2. Older(None) = None /\ Older(Never) = Never
      BY ServiceAssumption DEF Older, None, Never, ServiceAssumption
    <2>3. QED
      BY <2>1, <2>2
  <1>2. \A c \in Calls : /\ call'[c].pc = call[c].pc /\ Flow(c)' = Flow(c) /\ Flow(c) \in Flows
                         /\ call'[c].gen = call[c].gen /\ call'[c].date = Older(call[c].date)
    BY TickMoves DEF Typed, CallType, Flow
  <1>3. ASSUME NEW f \in Flows, Missing(f)
        PROVE  Missing(f)'
    <2>1. secret'[f].tokens["access"] = Older(secret[f].tokens["access"])
      BY TickWrites DEF AccessKeys
    <2>2. QED
      BY <1>1, <1>2, <1>3, <2>1 DEF Missing, At
  <1>4. ASSUME NEW f \in Flows
        PROVE  PasswordAccount(f)'
    <2>1. /\ secret'[f].refresh = secret[f].refresh /\ (Exists(f)' <=> Exists(f))
          /\ Exists(f) => /\ account'[f].reauth = account[f].reauth
                          /\ \A r \in Resources : account'[f].date[r] = Older(account[f].date[r])
      BY TickWrites, TickKeepsAccounts
    <2>2. QED
      BY <1>1, <1>3, <2>1 DEF PasswordInv, PasswordAccount
  <1>5. ASSUME NEW c \in Calls
        PROVE  PasswordCall(c)'
    <2>1. PasswordCall(c)
      BY DEF PasswordInv
    <2>2. Missing(Flow(c)) => Missing(Flow(c))'
      BY <1>2, <1>3
    <2>3. QED
      BY <1>1, <1>2, <2>1, <2>2 DEF PasswordCall
  <1>6. QED
    BY <1>4, <1>5 DEF PasswordInv

LEMMA PasswordStep ==
  Typed /\ FlowInv /\ SecretInv /\ PasswordInv /\ [Next]_vars => PasswordInv'
  <1> SUFFICES ASSUME Typed, FlowInv, SecretInv, PasswordInv, [Next]_vars
               PROVE  PasswordInv'
    OBVIOUS
  <1> USE DEF disk, locks, history
  <1>1. ASSUME NEW c \in Calls,
               \/ PollAnswer(c) \/ AddAccount(c) \/ StoreAccess(c) \/ StoreRefresh(c)
               \/ LoadPlan(c) \/ ReadCache(c) \/ ReadRefresh(c)
               \/ Persist(c) \/ DropOrphan(c) \/ NoteDate(c)
               \/ DeleteAccount(c) \/ Forget(c) \/ MarkGood(c) \/ MarkBad(c)
        PROVE  PasswordInv'
    BY <1>1, PollAnswerPasswords, AddAccountPasswords, StoreAccessPasswords, RenewalPasswords,
       LoadPlanPasswords, ReadCachePasswords, ReadRefreshPasswords, AccountPasswords
  <1>2. ASSUME NEW c \in Calls,
               \/ Exchange(c) \/ Answer(c) \/ Unpend(c) \/ RevokeAnswer(c)
               \/ TakeLock(c) \/ StartRemoval(c)
        PROVE  PasswordInv'
    <2>1. UNCHANGED <<kind, account, secret, rushed, misread>>
      BY <1>2 DEF Exchange, Answer, Unpend, RevokeAnswer, TakeLock, StartRemoval
    <2>2. (Exchange(c) \/ Answer(c)) => kind[Flow(c)] = "oauth"
      BY DEF Exchange, Answer, FlowInv, PasswordInv, PasswordCall, Held, At
    <2>3. \/ Idles(c)
          \/ \E pc \in Steps \ {"access"} : To(c, pc) /\ (kind[Flow(c)] = "oauth"
                                    \/ pc \in {"lock", "plan", "good", "silence", "unpend",
                                               "revoke", "delete", "forget"})
      BY <1>2, <2>2, ExchangeMoves, AnswerMoves, EndsMoves, RevokeAnswerMoves, GoMoves,
         StartRemovalMoves
      DEF GivesUp, Unpend, TakeLock, Steps
    <2>4. Others(c) /\ ~At(c, "access")' /\ PasswordCall(c)'
      BY <2>1, <2>3, SilentCalls DEF To, Idles, At
    <2>5. QED
      BY <2>1, <2>4, QuietKeepsPasswords
  <1>3. ASSUME NEW c \in Calls, NEW f \in Flows,
               \/ CompleteAuth(c, f) \/ PollNextcloud(c, f) \/ RemoveAccount(c, f)
               \/ \E r \in Resources : GetAccessToken(c, f, r)
        PROVE  PasswordInv'
    <2>1. UNCHANGED <<kind, account, secret, rushed, misread>>
      BY <1>3 DEF CompleteAuth, PollNextcloud, RemoveAccount, GetAccessToken
    <2>2. /\ \E pc \in {"exchange", "poll", "remove", "plan"} : Starts(c, pc, f)
          /\ call'[c].pc = "exchange" => kind[f] = "oauth"
      BY <1>3, BeginsMoves, GetAccessTokenMoves
      DEF CompleteAuth, TakeOauth, PollNextcloud, RemoveAccount, Starts
    <2>3. call'[c].pc = "poll" => call'[c].gen = 0
      <3>1. CASE PollNextcloud(c, f)
        BY <3>1, BaseTypes, IdleType DEF PollNextcloud, Begins, Typed, CallType
      <3>2. CASE ~PollNextcloud(c, f)
        BY <1>3, <3>2, BeginsMoves, GetAccessTokenMoves
        DEF CompleteAuth, TakeOauth, RemoveAccount, Starts
      <3>3. QED
        BY <3>1, <3>2
    <2>4. Others(c) /\ ~At(c, "access")' /\ PasswordCall(c)'
      BY <2>1, <2>2, <2>3 DEF Starts, PasswordCall, Held, At, Flow
    <2>5. QED
      BY <2>1, <2>4, QuietKeepsPasswords
  <1>4. ASSUME NEW c \in Calls, NEW f \in Flows, Register(c, f)
        PROVE  PasswordInv'
    <2>1. UNCHANGED <<account, secret, rushed, misread>> /\ kind[f] = "none"
          /\ \A g \in Flows : g # f => kind'[g] = kind[g]
      BY <1>4 DEF Register, Typed
    <2>2. /\ call'[c].pc = "add" /\ call'[c].gen = 0 /\ call'[c].date = Never /\ Others(c)
      BY <1>4, BaseTypes, IdleType DEF Register, Others, Typed, CallType
    <2>3. PasswordCall(c)' /\ ~At(c, "access")'
      BY <2>2 DEF PasswordCall, Held, At
    <2>4. QED
      BY <2>1, <2>2, <2>3, NewKindKeepsPasswords DEF Others
  <1>5. ASSUME NEW f \in Flows, NEW k \in {"oauth", "nextcloud"}, Begin(f, k)
        PROVE  PasswordInv'
    <2>1. UNCHANGED <<account, secret, rushed, misread, call>> /\ kind[f] = "none"
          /\ \A g \in Flows : g # f => kind'[g] = kind[g]
      BY <1>5 DEF Begin, Typed
    <2>2. QED
      BY <2>1, NewKindKeepsPasswords
  <1>6. CASE Crash
    <2>1. UNCHANGED <<kind, account, secret, rushed, misread>> /\ \A c \in Calls : call'[c].pc = "idle"
      BY <1>6, IdleType DEF Crash
    <2>2. \A f \in Flows : Missing(f) => Missing(f)'
      BY <2>1 DEF Missing, At
    <2>3. QED
      BY <2>1, <2>2 DEF PasswordInv, PasswordAccount, PasswordCall, Held, Exists
  <1>7. CASE UNCHANGED <<kind, account, secret, rushed, misread, call>>
    BY <1>7 DEF PasswordInv, PasswordAccount, PasswordCall, Missing, Exists, At, Flow
  <1>8. QED
    BY <1>1, <1>2, <1>3, <1>4, <1>5, <1>6, <1>7, TickPasswords
    DEF Next, Goes, Waits, Asks, Approve, CancelAuth, PersonRevokes, vars

LEMMA MarksAreTrue == ReauthInv /\ PasswordInv => ReauthIsTrue
  BY DEF ReauthInv, Over, PasswordInv, PasswordAccount, Missing, ReauthIsTrue, Lost
-----------------------------------------------------------------------------
\* What the date of a capability says of its token at each step of a renewal, and
\* of the connection of an account.
Written == {"orphan", "date"}
Dating  == {"access", "persist"} \cup Written

\* The date of a capability may only be later than its token while the call that
\* wrote the token has still to write the date.
Describes(f, r) ==
  Exists(f) /\ secret[f].tokens[AccessKey(f, r)] # None =>
    \/ account[f].date[r] <= secret[f].tokens[AccessKey(f, r)]
    \/ f \in short
    \/ \E c \in Calls : Flow(c) = f /\ call[c].pc \in Written /\ r \in SharesToken(f, call[c].res)

DateInv ==
  /\ \A c \in Calls :
       /\ At(c, "access") /\ Exists(Flow(c)) =>
            \A r \in Resources : account[Flow(c)].date[r] = call[c].date
       /\ call[c].pc \in {"persist"} \cup Written => call[c].date \in {call[c].life, Never}
       /\ call[c].pc \in Written /\ Exists(Flow(c)) =>
            secret[Flow(c)].tokens[AccessKey(Flow(c), call[c].res)] = call[c].life
  /\ \A f \in Flows, r \in Resources : Describes(f, r)

LEMMA InitDate == Init => DateInv
  BY IdleType DEF Init, DateInv, Describes, Dating, Written, Exists, Gone, At, Flow

LEMMA DateInvDescribes == DateInv => DateDescribesToken
  BY DEF DateInv, Describes, DateDescribesToken, Written

\* Which capabilities share a token.
LEMMA SharedKey ==
  ASSUME NEW f \in Flows, NEW r \in Resources, NEW s \in Resources
  PROVE  /\ r \in SharesToken(f, s) <=> AccessKey(f, r) = AccessKey(f, s)
         /\ Mixes(f) => AccessKey(f, r) # "access"
         /\ AccessKey(f, r) \in AccessKeys
  BY ServiceAssumption DEF ServiceAssumption, SharesToken, AccessKey, AccessKeys

\* The steps that write no token and no date of an account that stays, by a call
\* that is at none of the steps above, and comes to none.
LEMMA QuietKeepsDates ==
  ASSUME Typed, DateInv, NEW c \in Calls, call[c].pc \notin Written,
         \/ Idles(c)
         \/ \E pc \in Pc \ Dating : To(c, pc)
         \/ \E pc \in Pc \ Dating, f \in Flows : Starts(c, pc, f),
         short \subseteq short',
         \A f \in Flows : Exists(f)' => /\ Exists(f) /\ kind'[f] = kind[f]
                                        /\ secret'[f].tokens = secret[f].tokens
                                        /\ account'[f].date = account[f].date
  PROVE  DateInv'
  <1>0. \A d \in Calls : call[d].flow \in Flows
    BY DEF Typed, CallType
  <1>1. \A d \in Calls : \/ d # c /\ call'[d] = call[d]
                         \/ d = c /\ call'[d].pc \notin Dating
    BY DEF Idles, To, Starts, Others, Dating, Written
  <1>2. \A f \in Flows, r \in Resources : Exists(f)' =>
          AccessKey(f, r)' = AccessKey(f, r) /\ SharesToken(f, r)' = SharesToken(f, r)
    BY DEF AccessKey, SharesToken, Mixes
  <1>3. ASSUME NEW d \in Calls
        PROVE  /\ At(d, "access")' /\ Exists(Flow(d))' =>
                    \A r \in Resources : account'[Flow(d)'].date[r] = call'[d].date
               /\ call'[d].pc \in {"persist"} \cup Written => call'[d].date \in {call'[d].life, Never}
               /\ call'[d].pc \in Written /\ Exists(Flow(d))' =>
                    secret'[Flow(d)'].tokens[AccessKey(Flow(d), call[d].res)'] = call'[d].life
    <2>1. CASE d = c
      BY <1>1, <2>1 DEF Dating, At
    <2>2. CASE d # c
      <3>1. call'[d] = call[d] /\ Flow(d)' = Flow(d) /\ Flow(d) \in Flows
        BY <1>0, <1>1, <2>2 DEF Flow
      <3>2. call[d].res \in Resources
        BY DEF Typed, CallType
      <3>3. QED
        BY <1>2, <3>1, <3>2 DEF DateInv, At
    <2>3. QED
      BY <2>1, <2>2
  <1>4. ASSUME NEW f \in Flows, NEW r \in Resources
        PROVE  Describes(f, r)'
    <2>1. SUFFICES ASSUME Exists(f)' PROVE Describes(f, r)'
      BY DEF Describes
    <2>2. ASSUME NEW d \in Calls, Flow(d) = f, call[d].pc \in Written, r \in SharesToken(f, call[d].res)
          PROVE  Flow(d)' = f /\ call'[d].pc \in Written /\ r \in SharesToken(f, call[d].res)'
      <3>1. call'[d] = call[d] /\ call[d].res \in Resources
        BY <1>1, <2>2 DEF Typed, CallType
      <3>2. QED
        BY <1>2, <2>1, <2>2, <3>1 DEF Flow
    <2>3. Describes(f, r)
      BY DEF DateInv
    <2>4. QED
      BY <1>2, <2>1, <2>2, <2>3 DEF Describes
  <1>5. QED
    BY <1>3, <1>4 DEF DateInv
-----------------------------------------------------------------------------
\* The clauses about one call.
DatesOf(d) ==
  /\ At(d, "access") /\ Exists(Flow(d)) =>
       \A r \in Resources : account[Flow(d)].date[r] = call[d].date
  /\ call[d].pc \in {"persist"} \cup Written => call[d].date \in {call[d].life, Never}
  /\ call[d].pc \in Written /\ Exists(Flow(d)) =>
       secret[Flow(d)].tokens[AccessKey(Flow(d), call[d].res)] = call[d].life

\* What a step must leave alone for the clauses to go on being true of a call it
\* does not move, and of an account it does not write.
SameFor(f) == /\ kind'[f] = kind[f]
              /\ Exists(f)' => /\ Exists(f) /\ secret'[f].tokens = secret[f].tokens
                               /\ account'[f].date = account[f].date

LEMMA DatesOfStay ==
  ASSUME Typed, DateInv, NEW d \in Calls, call'[d] = call[d], SameFor(Flow(d))
  PROVE  DatesOf(d)'
  <1>1. Flow(d) \in Flows /\ Flow(d)' = Flow(d) /\ call[d].res \in Resources
    BY DEF Typed, CallType, Flow
  <1>2. AccessKey(Flow(d), call[d].res)' = AccessKey(Flow(d), call[d].res)
    BY <1>1 DEF AccessKey, Mixes, SameFor
  <1>3. QED
    BY <1>1, <1>2 DEF DatesOf, DateInv, SameFor, At

LEMMA DescribesStays ==
  ASSUME Typed, DateInv, NEW f \in Flows, NEW r \in Resources, SameFor(f), short \subseteq short',
         \A d \in Calls : Flow(d) = f /\ call[d].pc \in Written =>
           call'[d].pc \in Written /\ call'[d].flow = call[d].flow /\ call'[d].res = call[d].res
  PROVE  Describes(f, r)'
  <1>1. SUFFICES ASSUME Exists(f)' PROVE Describes(f, r)'
    BY DEF Describes
  <1>2. AccessKey(f, r)' = AccessKey(f, r) /\ Describes(f, r)
    BY DEF AccessKey, Mixes, SameFor, DateInv
  <1>3. ASSUME NEW d \in Calls, Flow(d) = f, call[d].pc \in Written, r \in SharesToken(f, call[d].res)
        PROVE  Flow(d)' = f /\ call'[d].pc \in Written /\ r \in SharesToken(f, call[d].res)'
    BY <1>3 DEF SameFor, SharesToken, Mixes, Flow
  <1>4. QED
    BY <1>1, <1>2, <1>3 DEF Describes, SameFor

\* While a call stores the secrets of a new account none renews them.
LEMMA StoringAlone ==
  ASSUME Typed, LockInv, SecretInv, NEW c \in Calls, At(c, "access"), NEW d \in Calls,
         Flow(d) = Flow(c), call[d].pc \in Written
  PROVE  FALSE
  <1>1. Exists(Flow(c)) /\ secret[Flow(c)].refresh = 0
    BY DEF LockInv, SecretInv, Storing, Empty, At
  <1>2. QED
    BY <1>1 DEF SecretInv, Held, Written

\* A renewal of an account runs alone.
LEMMA RenewingAlone ==
  ASSUME LockInv, NEW c \in Calls, NEW d \in Calls, call[c].pc \in Renewing, call[d].pc \in Renewing,
         Flow(c) = Flow(d)
  PROVE  c = d
  BY DEF LockInv

LEMMA AddAccountDates ==
  ASSUME Typed, LockInv, FlowInv, SecretInv, DateInv, NEW c \in Calls, AddAccount(c)
  PROVE  DateInv'
  <1>1. /\ Flow(c) \in Flows /\ UNCHANGED <<kind, secret, short>> /\ At(c, "add")
        /\ Flow(c) \notin made /\ Empty(secret[Flow(c)]) /\ account \in [Flows -> AccountType]
    BY DEF Typed, CallType, Flow, AddAccount, FlowInv, SecretInv, Ready
  <1>2. CASE Idles(c) /\ UNCHANGED <<account, made, candado>>
    BY <1>1, <1>2, QuietKeepsDates DEF Exists, At, Written
  <1>3. CASE /\ To(c, "access") /\ Keeps(c)
             /\ account' = [account EXCEPT ![Flow(c)] = AccountWith(call[c].date)]
    <2>1. \A f \in Flows : f # Flow(c) => SameFor(f)
      BY <1>1, <1>3 DEF SameFor, Exists
    <2>2. \A r \in Resources : account'[Flow(c)].date[r] = call[c].date
      BY <1>1, <1>3 DEF AccountWith
    <2>3. DatesOf(c)'
      BY <1>3, <2>2 DEF DatesOf, To, Keeps, At, Flow, Written
    <2>4. ASSUME NEW d \in Calls, d # c
          PROVE  DatesOf(d)'
      <3>1. call'[d] = call[d] /\ Flow(d)' = Flow(d) /\ Flow(d) \in Flows
        BY <1>3, <2>4 DEF To, Others, Typed, CallType, Flow
      <3>2. CASE Flow(d) # Flow(c)
        BY <2>1, <3>1, <3>2, DatesOfStay
      <3>3. CASE Flow(d) = Flow(c)
        <4>1. call[d].pc \notin Dating
          BY <1>1, <3>3 DEF FlowInv, Dating, Written, Connecting
        <4>2. QED
          BY <3>1, <4>1 DEF DatesOf, Dating, At
      <3>4. QED
        BY <3>2, <3>3
    <2>5. ASSUME NEW f \in Flows, NEW r \in Resources
          PROVE  Describes(f, r)'
      <3>1. CASE f = Flow(c)
        <4>1. AccessKey(f, r)' \in AccessKeys
          BY <1>1, SharedKey DEF AccessKey, Mixes
        <4>2. QED
          BY <1>1, <3>1, <4>1 DEF Describes, Empty
      <3>2. CASE f # Flow(c)
        <4>1. \A d \in Calls : Flow(d) = f => call'[d] = call[d]
          BY <1>3, <3>2 DEF To, Others
        <4>2. QED
          BY <1>1, <2>1, <3>2, <4>1, DescribesStays
      <3>3. QED
        BY <3>1, <3>2
    <2>6. QED
      BY <2>3, <2>4, <2>5 DEF DateInv, DatesOf
  <1>4. QED
    BY <1>2, <1>3, AddAccountMoves

LEMMA StoreAccessDates ==
  ASSUME Typed, LockInv, FlowInv, SecretInv, DateInv, NEW c \in Calls, StoreAccess(c)
  PROVE  DateInv'
  <1>1. /\ Flow(c) \in Flows /\ UNCHANGED <<kind, account>> /\ At(c, "access")
        /\ Empty(secret[Flow(c)]) /\ Exists(Flow(c)) /\ short \subseteq short'
        /\ OtherSecrets(Flow(c)) /\ Others(c)
    BY StoreAccessWrites, StoreAccessMoves
    DEF Typed, CallType, Flow, StoreAccess, LockInv, SecretInv, Storing, At, To, Idles
  <1>2. call'[c].pc \notin Dating
    BY StoreAccessMoves DEF To, Idles, Dating, Written
  <1>3. DatesOf(c)'
    BY <1>2 DEF DatesOf, Dating, At
  <1>4. \A f \in Flows : f # Flow(c) => SameFor(f)
    BY <1>1 DEF SameFor, OtherSecrets, Exists
  <1>5. ASSUME NEW d \in Calls, d # c
        PROVE  DatesOf(d)'
    <2>1. call'[d] = call[d] /\ Flow(d) \in Flows
      BY <1>1, <1>5 DEF Others, Typed, CallType, Flow
    <2>2. CASE Flow(d) # Flow(c)
      BY <1>4, <2>1, <2>2, DatesOfStay
    <2>3. CASE Flow(d) = Flow(c)
      <3>1. call[d].pc \notin Written
        BY <1>1, <2>3, StoringAlone
      <3>2. Exists(Flow(d)) /\ Exists(Flow(d))' /\ Flow(d)' = Flow(d)
        BY <1>1, <2>1, <2>3 DEF Exists, Flow
      <3>3. QED
        BY <1>1, <2>1, <3>1, <3>2 DEF DatesOf, DateInv, At
    <2>4. QED
      BY <2>2, <2>3
  <1>6. ASSUME NEW f \in Flows, NEW r \in Resources
        PROVE  Describes(f, r)'
    <2>1. CASE f # Flow(c)
      <3>1. \A d \in Calls : Flow(d) = f => call'[d] = call[d]
        BY <1>1, <2>1 DEF Others
      <3>2. QED
        BY <1>1, <1>4, <2>1, <3>1, DescribesStays
    <2>2. CASE f = Flow(c)
      <3>1. AccessKey(f, r)' = AccessKey(f, r) /\ AccessKey(f, r) \in AccessKeys
        BY <1>1, SharedKey DEF AccessKey, Mixes
      <3>2. CASE secret'[f].tokens[AccessKey(f, r)] = None
        BY <3>1, <3>2 DEF Describes
      <3>3. CASE secret'[f].tokens[AccessKey(f, r)] # None
        <4>1. AccessKey(f, r) = "access" /\ ~(secret' = secret)
          BY <1>1, <2>2, <3>1, <3>3, StoreAccessWrites DEF Empty
        <4>2. /\ secret'[f].tokens["access"] = call[c].life
              /\ short' = IF call[c].date # call[c].life THEN short \cup {f} ELSE short
          BY <2>2, <4>1, StoreAccessWrites
        <4>3. account'[f].date[r] = call[c].date /\ call[c].date \in Spans
          BY <1>1, <2>2 DEF DateInv, Typed, CallType
        <4>4. CASE call[c].date = call[c].life
          <5>1. call[c].date <= call[c].date
            BY <4>3, ServiceAssumption DEF Spans, Lives, Never, ServiceAssumption
          <5>2. QED
            BY <3>1, <4>1, <4>2, <4>3, <4>4, <5>1 DEF Describes
        <4>5. CASE call[c].date # call[c].life
          BY <4>2, <4>5 DEF Describes
        <4>6. QED
          BY <4>4, <4>5
      <3>4. QED
        BY <3>2, <3>3
    <2>3. QED
      BY <2>1, <2>2
  <1>7. QED
    BY <1>3, <1>5, <1>6 DEF DateInv, DatesOf
-----------------------------------------------------------------------------
\* A call that writes the token of an account, or drops its orphan, while no other
\* call renews it.
LEMMA RenewalDates ==
  ASSUME Typed, LockInv, DateInv, NEW c \in Calls, NEW g \in Flows, Flow(c) = g,
         call[c].pc \in Renewing, Others(c),
         UNCHANGED <<kind, account, short>>, OtherSecrets(g),
         DatesOf(c)', \A r \in Resources : Describes(g, r)',
         \A d \in Calls : d # c /\ Flow(d) = g => call[d].pc \notin Written
  PROVE  DateInv'
  <1>1. \A f \in Flows : f # g => SameFor(f)
    BY DEF SameFor, OtherSecrets, Exists
  <1>2. ASSUME NEW d \in Calls, d # c
        PROVE  DatesOf(d)'
    <2>1. call'[d] = call[d] /\ Flow(d) \in Flows /\ Flow(d)' = Flow(d)
      BY <1>2 DEF Others, Typed, CallType, Flow
    <2>2. CASE Flow(d) # g
      BY <1>1, <2>1, <2>2, DatesOfStay
    <2>3. CASE Flow(d) = g
      BY <1>2, <2>1, <2>3 DEF DatesOf, DateInv, At, Exists
    <2>4. QED
      BY <2>2, <2>3
  <1>3. ASSUME NEW f \in Flows, NEW r \in Resources, f # g
        PROVE  Describes(f, r)'
    <2>1. \A d \in Calls : Flow(d) = f => call'[d] = call[d]
      BY <1>3 DEF Others
    <2>2. QED
      BY <1>1, <1>3, <2>1, DescribesStays
  <1>4. QED
    BY <1>2, <1>3 DEF DateInv, DatesOf

LEMMA PersistDates ==
  ASSUME Typed, LockInv, FlowInv, SecretInv, DateInv, NEW c \in Calls, Persist(c),
         NEW g \in Flows, Flow(c) = g
  PROVE  DateInv'
  <1>1. UNCHANGED <<kind, account, short>> /\ At(c, "persist") /\ g \in Flows
        /\ call[c].res \in Resources
    BY DEF Persist, Typed, CallType, Flow, history
  <1>2. CASE Idles(c) /\ secret' = secret
    BY <1>1, <1>2, QuietKeepsDates DEF Exists, At, Written
  <1>3. CASE Exists(g) /\ Put(c) /\ To(c, "orphan") /\ Keeps(c)
    <2>1. OtherSecrets(g) /\ Others(c)
      BY <1>3, PutWrites DEF To
    <2>2. \A d \in Calls : d # c /\ Flow(d) = g => call[d].pc \notin Written
      BY <1>1, RenewingAlone DEF Renewing, Written, At
    <2>3. \A r \in Resources : AccessKey(g, r)' = AccessKey(g, r)
                               /\ SharesToken(g, r)' = SharesToken(g, r)
      BY <1>1 DEF AccessKey, SharesToken, Mixes
    <2>4. Flow(c)' = g /\ call'[c].res = call[c].res /\ call'[c].pc = "orphan"
          /\ call'[c].date = call[c].date /\ call'[c].life = call[c].life
      BY <1>3 DEF To, Keeps, Flow
    <2>5. DatesOf(c)'
      <3>1. call[c].date \in {call[c].life, Never}
        BY <1>1 DEF DateInv, At
      <3>2. secret'[g].tokens[AccessKey(g, call[c].res)] = call[c].life
        BY <1>3, PutWrites
      <3>3. AccessKey(g, call[c].res)' = AccessKey(g, call[c].res)
        BY <1>1, <2>3, <2>4 DEF AccessKey, Mixes
      <3>4. QED
        BY <2>4, <3>1, <3>2, <3>3 DEF DatesOf, At
    <2>6. ASSUME NEW r \in Resources
          PROVE  Describes(g, r)'
      <3>1. CASE r \in SharesToken(g, call[c].res)
        <4>1. r \in SharesToken(g, call[c].res)'
          BY <1>1, <2>3, <2>4, <3>1 DEF SharesToken, Mixes
        <4>2. QED
          BY <2>4, <4>1 DEF Describes, Written
      <3>2. CASE r \notin SharesToken(g, call[c].res)
        <4>1. AccessKey(g, r) # AccessKey(g, call[c].res) /\ AccessKey(g, r) \in AccessKeys
          BY <1>1, <3>2, SharedKey
        <4>2. secret'[g].tokens[AccessKey(g, r)] = secret[g].tokens[AccessKey(g, r)]
          BY <1>3, <4>1, PutWrites
        <4>3. Describes(g, r) /\ call[c].pc \notin Written
          BY <1>1 DEF DateInv, At, Written
        <4>4. QED
          BY <1>1, <2>2, <2>3, <2>4, <4>2, <4>3 DEF Describes, Exists
      <3>3. QED
        BY <3>1, <3>2
    <2>7. call[c].pc \in Renewing
      BY <1>1 DEF At, Renewing
    <2>8. QED
      BY <1>1, <2>1, <2>2, <2>5, <2>6, <2>7, RenewalDates
  <1>4. QED
    BY <1>2, <1>3, PersistMoves

LEMMA DropOrphanDates ==
  ASSUME Typed, LockInv, FlowInv, SecretInv, DateInv, NEW c \in Calls, DropOrphan(c),
         NEW g \in Flows, Flow(c) = g
  PROVE  DateInv'
  <1>1. UNCHANGED <<kind, account>> /\ At(c, "orphan") /\ g \in Flows
        /\ call[c].res \in Resources /\ call[c].pc \in Written /\ call[c].pc \in Renewing
    BY DEF DropOrphan, Typed, CallType, Flow, At, Written, Renewing
  <1>2. \A r \in Resources : AccessKey(g, r)' = AccessKey(g, r)
                             /\ SharesToken(g, r)' = SharesToken(g, r)
    BY <1>1 DEF AccessKey, SharesToken, Mixes
  <1>3. CASE Idles(c) /\ short' = short \cup {g} /\ secret' = secret
    <2>1. ASSUME NEW d \in Calls, d # c
          PROVE  DatesOf(d)'
      <3>1. call'[d] = call[d] /\ Flow(d) \in Flows
        BY <1>3, <2>1 DEF Idles, Others, Typed, CallType, Flow
      <3>2. \A f \in Flows : SameFor(f)
        BY <1>1, <1>3 DEF SameFor, Exists
      <3>3. QED
        BY <3>1, <3>2, DatesOfStay
    <2>2. DatesOf(c)'
      BY <1>3 DEF DatesOf, Idles, At, Written
    <2>3. ASSUME NEW f \in Flows, NEW r \in Resources
          PROVE  Describes(f, r)'
      <3>1. CASE f = g
        BY <1>3, <3>1 DEF Describes
      <3>2. CASE f # g
        <4>1. \A d \in Calls : Flow(d) = f => call'[d] = call[d]
          BY <1>3, <3>2 DEF Idles, Others
        <4>2. SameFor(f) /\ short \subseteq short'
          BY <1>1, <1>3 DEF SameFor, Exists
        <4>3. QED
          BY <4>1, <4>2, DescribesStays
      <3>3. QED
        BY <3>1, <3>2
    <2>4. QED
      BY <2>1, <2>2, <2>3 DEF DateInv, DatesOf
  <1>4. CASE To(c, "date") /\ Keeps(c) /\ short' = short
    <2>1. OtherSecrets(g) /\ Others(c)
      BY <1>4, DropOrphanWrites DEF To
    <2>2. \A d \in Calls : d # c /\ Flow(d) = g => call[d].pc \notin Written
      BY <1>1, RenewingAlone DEF Renewing, Written
    <2>3. Flow(c)' = g /\ call'[c].res = call[c].res /\ call'[c].pc = "date"
          /\ call'[c].date = call[c].date /\ call'[c].life = call[c].life
      BY <1>4 DEF To, Keeps, Flow
    <2>4. ASSUME NEW r \in Resources
          PROVE  secret'[g].tokens[AccessKey(g, r)] = secret[g].tokens[AccessKey(g, r)]
      BY <1>1, SharedKey, DropOrphanWrites
    <2>5. DatesOf(c)'
      <3>1. call[c].date \in {call[c].life, Never} /\
            (Exists(g) => secret[g].tokens[AccessKey(g, call[c].res)] = call[c].life)
        BY <1>1 DEF DateInv
      <3>2. AccessKey(g, call[c].res)' = AccessKey(g, call[c].res)
        BY <1>1, <2>3 DEF AccessKey, Mixes
      <3>3. QED
        BY <1>1, <2>3, <2>4, <3>1, <3>2 DEF DatesOf, At, Exists
    <2>6. ASSUME NEW r \in Resources
          PROVE  Describes(g, r)'
      <3>1. Describes(g, r)
        BY <1>1 DEF DateInv
      <3>2. \A d \in Calls : Flow(d) = g /\ call[d].pc \in Written /\ r \in SharesToken(g, call[d].res)
              => Flow(d)' = g /\ call'[d].pc \in Written /\ r \in SharesToken(g, call[d].res)'
        BY <1>1, <2>2, <2>3 DEF Written, SharesToken, Mixes
      <3>3. QED
        BY <1>1, <1>2, <1>4, <2>4, <3>1, <3>2 DEF Describes, Exists
    <2>7. QED
      BY <1>1, <1>4, <2>1, <2>2, <2>5, <2>6, RenewalDates
  <1>5. QED
    BY <1>3, <1>4, DropOrphanMoves
-----------------------------------------------------------------------------
\* The dates NoteDate writes: of the capabilities that share the token.
LEMMA DatedWrites ==
  ASSUME Typed, NEW c \in Calls, NEW g \in Flows, Flow(c) = g, Exists(g), account' = Dated(c)
  PROVE  \A r \in Resources : account'[g].date[r] =
           IF r \in SharesToken(g, call[c].res) THEN call[c].date ELSE account[g].date[r]
  <1> DEFINE dates == [r \in Resources |->
              IF r \in SharesToken(g, call[c].res) THEN call[c].date ELSE account[g].date[r]]
  <1>1. account' = [account EXCEPT ![g].date = dates]
    BY Zenon DEF Dated
  <1>2. account[g] \in [kept : {TRUE}, date : [Resources -> Spans], reauth : BOOLEAN]
        /\ account \in [Flows -> AccountType]
    BY AccountTyped DEF Typed
  <1>3. account'[g].date = dates
    <2> HIDE DEF dates
    <2> QED
      BY <1>1, <1>2
  <1>4. QED
    BY <1>3

LEMMA NoteDateDates ==
  ASSUME Typed, LockInv, FlowInv, SecretInv, DateInv, NEW c \in Calls, NoteDate(c),
         NEW g \in Flows, Flow(c) = g
  PROVE  DateInv'
  <1>1. UNCHANGED <<kind, secret>> /\ At(c, "date") /\ Others(c) /\ call[c].res \in Resources
        /\ call[c].pc \in Written /\ call[c].pc \in Renewing /\ short \subseteq short'
    BY NoteDateMoves DEF NoteDate, Typed, CallType, Flow, At, Written, Renewing, To, Idles
  <1>2. call'[c].pc \notin Dating
    BY NoteDateMoves DEF To, Idles, Dating, Written
  <1>3. \A f \in Flows : f # g => SameFor(f)
    BY <1>1, NoteDateKeepsAccounts DEF SameFor
  <1>4. ~Exists(g) \/ account' = account => SameFor(g)
    BY <1>1, NoteDateKeepsAccounts DEF SameFor, Exists
  <1>5. ASSUME NEW d \in Calls
        PROVE  DatesOf(d)'
    <2>1. CASE d = c
      BY <1>2, <2>1 DEF DatesOf, Dating, At
    <2>2. CASE d # c
      <3>1. call'[d] = call[d] /\ Flow(d) \in Flows /\ Flow(d)' = Flow(d)
        BY <1>1, <2>2 DEF Others, Typed, CallType, Flow
      <3>2. CASE Flow(d) # g
        BY <1>3, <3>1, <3>2, DatesOfStay
      <3>3. CASE Flow(d) = g
        <4>1. call[d].pc \notin Written
          BY <1>1, <2>2, <3>3, RenewingAlone DEF Renewing, Written
        <4>2. ~At(d, "access")
          BY <1>1, <3>3, StoringAlone
        <4>3. QED
          BY <3>1, <4>1, <4>2 DEF DatesOf, DateInv, At
      <3>4. QED
        BY <3>2, <3>3
    <2>3. QED
      BY <2>1, <2>2
  <1>6. ASSUME NEW f \in Flows, NEW r \in Resources, f # g
        PROVE  Describes(f, r)'
    <2>1. \A d \in Calls : Flow(d) = f => call'[d] = call[d]
      BY <1>1, <1>6 DEF Others
    <2>2. QED
      BY <1>1, <1>3, <1>6, <2>1, DescribesStays
  <1>7. ASSUME NEW r \in Resources
        PROVE  Describes(g, r)'
    <2>1. Exists(g)' <=> Exists(g)
      BY NoteDateKeepsAccounts
    <2>2. CASE ~Exists(g)
      BY <2>1, <2>2 DEF Describes
    <2>3. CASE g \in short'
      BY <2>3 DEF Describes
    <2>4. CASE Exists(g) /\ call[c].date # Never /\ account' = Dated(c) /\ short' = short
      <3>1. AccessKey(g, r)' = AccessKey(g, r)
        BY <1>1 DEF AccessKey, Mixes
      <3>2. CASE r \in SharesToken(g, call[c].res)
        <4>1. AccessKey(g, r) = AccessKey(g, call[c].res)
          BY <1>1, <3>2, SharedKey
        <4>2. secret[g].tokens[AccessKey(g, call[c].res)] = call[c].life /\ call[c].date = call[c].life
          BY <1>1, <2>4 DEF DateInv
        <4>3. account'[g].date[r] = call[c].life
          BY <2>4, <3>2, <4>2, DatedWrites
        <4>4. call[c].life <= call[c].life
          BY ServiceAssumption DEF Typed, CallType, Spans, Lives, Never, ServiceAssumption
        <4>5. QED
          BY <1>1, <3>1, <4>1, <4>2, <4>3, <4>4 DEF Describes
      <3>3. CASE r \notin SharesToken(g, call[c].res)
        <4>1. account'[g].date[r] = account[g].date[r]
          BY <2>4, <3>3, DatedWrites
        <4>2. \A d \in Calls : Flow(d) = g /\ call[d].pc \in Written => d = c
          BY <1>1, RenewingAlone DEF Renewing, Written
        <4>3. Describes(g, r)
          BY DEF DateInv
        <4>4. QED
          BY <1>1, <2>4, <3>1, <3>3, <4>1, <4>2, <4>3 DEF Describes
      <3>4. QED
        BY <3>2, <3>3
    <2>5. QED
      BY <2>2, <2>3, <2>4, NoteDateMoves
  <1>8. QED
    BY <1>5, <1>6, <1>7 DEF DateInv, DatesOf

LEMMA AnswerDates ==
  ASSUME Typed, DateInv, NEW c \in Calls, Answer(c)
  PROVE  DateInv'
  <1>1. UNCHANGED <<kind, account, secret, short>> /\ At(c, "answer")
    BY DEF Answer, disk, history
  <1>2. CASE To(c, "bad") \/ Idles(c) \/ To(c, "silence")
    BY <1>1, <1>2, QuietKeepsDates DEF Exists, At, Pc, Steps, Dating, Written
  <1>3. CASE To(c, "persist") /\ call'[c].date \in {call'[c].life, Never}
    <2>1. \A f \in Flows : SameFor(f)
      BY <1>1 DEF SameFor, Exists
    <2>2. ASSUME NEW d \in Calls
          PROVE  DatesOf(d)'
      <3>1. CASE d = c
        BY <1>3, <3>1 DEF DatesOf, To, At, Written
      <3>2. CASE d # c
        <4>1. call'[d] = call[d] /\ Flow(d) \in Flows
          BY <1>3, <3>2 DEF To, Others, Typed, CallType, Flow
        <4>2. QED
          BY <2>1, <4>1, DatesOfStay
      <3>3. QED
        BY <3>1, <3>2
    <2>3. ASSUME NEW f \in Flows, NEW r \in Resources
          PROVE  Describes(f, r)'
      <3>1. \A d \in Calls : Flow(d) = f /\ call[d].pc \in Written => call'[d] = call[d]
        BY <1>1, <1>3 DEF To, Others, At, Written
      <3>2. QED
        BY <1>1, <2>1, <3>1, DescribesStays
    <2>4. QED
      BY <2>2, <2>3 DEF DateInv, DatesOf
  <1>4. QED
    BY <1>2, <1>3, AnswerMoves DEF GivesUp
-----------------------------------------------------------------------------
LEMMA TickDates ==
  ASSUME Typed, DateInv, Tick
  PROVE  DateInv'
  <1>1. UNCHANGED <<kind, short>>
    BY DEF Tick, history
  <1>2. \A f \in Flows, r \in Resources :
          AccessKey(f, r)' = AccessKey(f, r) /\ SharesToken(f, r)' = SharesToken(f, r)
    BY <1>1 DEF AccessKey, SharesToken, Mixes
  <1>3. ASSUME NEW d \in Calls
        PROVE  DatesOf(d)'
    <2>1. /\ call'[d].pc = call[d].pc /\ call'[d].flow = call[d].flow /\ call'[d].res = call[d].res
          /\ call'[d].date = Older(call[d].date) /\ call'[d].life = Older(call[d].life)
      BY TickMoves
    <2>2. Flow(d)' = Flow(d) /\ Flow(d) \in Flows /\ call[d].res \in Resources
      BY <2>1 DEF Typed, CallType, Flow
    <2>3. AccessKey(Flow(d), call[d].res)' = AccessKey(Flow(d), call[d].res)
          /\ AccessKey(Flow(d), call[d].res) \in AccessKeys
      BY <1>1, <2>1, <2>2, SharedKey DEF AccessKey, Mixes
    <2>4. Exists(Flow(d))' <=> Exists(Flow(d))
      BY <2>2, TickKeepsAccounts DEF Exists
    <2>5. At(d, "access")' /\ Exists(Flow(d))' =>
            \A r \in Resources : account'[Flow(d)].date[r] = call'[d].date
      BY <2>1, <2>2, <2>4, TickKeepsAccounts DEF DateInv, At
    <2>6. call'[d].pc \in {"persist"} \cup Written => call'[d].date \in {call'[d].life, Never}
      <3>1. Older(Never) = Never
        BY ServiceAssumption DEF ServiceAssumption, Older, Never
      <3>2. QED
        BY <2>1, <3>1 DEF DateInv
    <2>7. call'[d].pc \in Written /\ Exists(Flow(d))' =>
            secret'[Flow(d)].tokens[AccessKey(Flow(d), call[d].res)] = call'[d].life
      BY <2>1, <2>2, <2>3, <2>4, TickWrites DEF DateInv
    <2>8. QED
      BY <2>2, <2>3, <2>5, <2>6, <2>7 DEF DatesOf
  <1>4. ASSUME NEW f \in Flows, NEW r \in Resources
        PROVE  Describes(f, r)'
    <2> DEFINE token == secret[f].tokens[AccessKey(f, r)]
    <2>1. Describes(f, r) /\ (Exists(f)' <=> Exists(f)) /\ AccessKey(f, r) \in AccessKeys
      BY TickKeepsAccounts, SharedKey DEF DateInv
    <2>2. secret'[f].tokens[AccessKey(f, r)] = Older(token) /\ token \in Spans \cup {None}
      BY <2>1, TickWrites DEF Typed, SecretType
    <2>3. ASSUME Exists(f), token # None
          PROVE  /\ account'[f].date[r] = Older(account[f].date[r])
                 /\ account[f].date[r] <= token => Older(account[f].date[r]) <= Older(token)
      <3>1. account[f].date[r] \in Spans /\ token \in Spans
        BY <2>2, <2>3, AccountTyped
      <3>2. QED
        BY <2>3, <3>1, TickKeepsAccounts, OlderType
    <2>4. Older(token) = None <=> token = None
      BY <2>2, OlderType
    <2>5. ASSUME NEW d \in Calls, Flow(d) = f, call[d].pc \in Written, r \in SharesToken(f, call[d].res)
          PROVE  Flow(d)' = f /\ call'[d].pc \in Written /\ r \in SharesToken(f, call[d].res)'
      BY <1>1, <2>5, TickMoves DEF Flow, SharesToken, Mixes
    <2>6. QED
      BY <1>1, <1>2, <2>1, <2>2, <2>3, <2>4, <2>5 DEF Describes
  <1>5. QED
    BY <1>3, <1>4 DEF DateInv, DatesOf

LEMMA CrashDates ==
  ASSUME Typed, DateInv, Crash
  PROVE  DateInv'
  <1>1. UNCHANGED <<kind, account, secret>> /\ \A c \in Calls : call'[c].pc = "idle"
    BY IdleType DEF Crash, disk
  <1>2. short' = short \cup {Flow(c) : c \in {d \in Calls : call[d].pc \in Written}}
    BY DEF Crash, Written
  <1>3. ASSUME NEW f \in Flows, NEW r \in Resources
        PROVE  Describes(f, r)'
    BY <1>1, <1>2 DEF DateInv, Describes, Exists, AccessKey, Mixes
  <1>4. QED
    BY <1>1, <1>3 DEF DateInv, At, Written

LEMMA DateStep ==
  Typed /\ LockInv /\ FlowInv /\ SecretInv /\ DateInv /\ [Next]_vars => DateInv'
  <1> SUFFICES ASSUME Typed, LockInv, FlowInv, SecretInv, DateInv, [Next]_vars
               PROVE  DateInv'
    OBVIOUS
  <1> USE DEF disk, locks, history
  <1>0. \A c \in Calls : Flow(c) \in Flows
    BY DEF Typed, CallType, Flow
  <1>1. ASSUME NEW c \in Calls,
               AddAccount(c) \/ StoreAccess(c) \/ Persist(c) \/ DropOrphan(c) \/ NoteDate(c) \/ Answer(c)
        PROVE  DateInv'
    BY <1>0, <1>1, AddAccountDates, StoreAccessDates, PersistDates, DropOrphanDates,
       NoteDateDates, AnswerDates
  <1>2. CASE Tick \/ Crash
    BY <1>2, TickDates, CrashDates
  \* The steps of the other calls write no token and no date of an account that stays.
  <1>3. ASSUME NEW c \in Calls, StoreRefresh(c) \/ Forget(c) \/ DeleteAccount(c)
        PROVE  DateInv'
    <2>1. UNCHANGED <<kind, short>> /\ call[c].pc \notin Written
      BY <1>3 DEF StoreRefresh, Forget, DeleteAccount, At, Written
    <2>2. Idles(c) \/ \E pc \in Pc \ Dating : To(c, pc)
      BY <1>3, EndsMoves, DeleteAccountMoves
      DEF StoreRefresh, Forget, Pc, Steps, Dating, Written
    <2>3. ASSUME NEW f \in Flows, Exists(f)'
          PROVE  Exists(f) /\ secret'[f].tokens = secret[f].tokens /\ account'[f].date = account[f].date
      <3>1. CASE StoreRefresh(c)
        BY <1>0, <2>3, <3>1, StoreRefreshWrites DEF StoreRefresh, OtherSecrets, Exists
      <3>2. CASE Forget(c)
        BY <1>0, <2>3, <3>2, ForgetWrites DEF Forget, OtherSecrets, Exists, LockInv, At
      <3>3. CASE DeleteAccount(c)
        BY <1>0, <2>3, <3>3 DEF DeleteAccount, Exists, Gone, Typed
      <3>4. QED
        BY <1>3, <3>1, <3>2, <3>3
    <2>4. QED
      BY <2>1, <2>2, <2>3, QuietKeepsDates
  <1>4. ASSUME NEW c \in Calls,
               Exchange(c) \/ PollAnswer(c) \/ Unpend(c) \/ LoadPlan(c) \/ ReadCache(c)
               \/ ReadRefresh(c) \/ RevokeAnswer(c) \/ TakeLock(c) \/ StartRemoval(c)
        PROVE  DateInv'
    <2>1. UNCHANGED <<kind, account, secret, short>> /\ call[c].pc \notin Written
      BY <1>4 DEF Exchange, PollAnswer, Unpend, LoadPlan, ReadCache, ReadRefresh, RevokeAnswer,
                  TakeLock, StartRemoval, At, Written
    <2>2. Idles(c) \/ \E pc \in Pc \ Dating : To(c, pc)
      BY <1>4, ExchangeMoves, PollAnswerMoves, EndsMoves, LoadPlanMoves, ReadCacheMoves,
         ReadRefreshMoves, RevokeAnswerMoves, GoMoves, StartRemovalMoves
      DEF Unpend, TakeLock, Pc, Steps, Dating, Written
    <2>3. QED
      BY <2>1, <2>2, QuietKeepsDates DEF Exists
  <1>5. ASSUME NEW c \in Calls, MarkGood(c) \/ MarkBad(c)
        PROVE  DateInv'
    <2>1. UNCHANGED <<kind, secret, short>> /\ call[c].pc \notin Written /\ Idles(c)
      BY <1>5, EndsMoves DEF MarkGood, MarkBad, Mark, At, Written
    <2>2. \A f \in Flows : Exists(f)' => Exists(f) /\ account'[f].date = account[f].date
      BY <1>5, MarkKeepsAccounts DEF MarkGood, MarkBad
    <2>3. QED
      BY <2>1, <2>2, QuietKeepsDates
  <1>6. ASSUME NEW c \in Calls, NEW f \in Flows,
               \/ CompleteAuth(c, f) \/ PollNextcloud(c, f) \/ RemoveAccount(c, f) \/ Register(c, f)
               \/ \E r \in Resources : GetAccessToken(c, f, r)
        PROVE  DateInv'
    <2>1. UNCHANGED <<account, secret, short>>
          /\ \A g \in Flows : kind[g] # "none" => kind'[g] = kind[g]
      BY <1>6 DEF CompleteAuth, PollNextcloud, RemoveAccount, Register, GetAccessToken, Typed
    <2>2. \E pc \in {"exchange", "poll", "remove", "add", "plan"} : Starts(c, pc, f)
      BY <1>6, BeginsMoves, RegisterMoves, GetAccessTokenMoves
      DEF CompleteAuth, TakeOauth, PollNextcloud, RemoveAccount
    <2>3. call[c].pc \notin Written /\ \E pc \in Pc \ Dating : Starts(c, pc, f)
      BY <2>2 DEF Starts, Pc, Steps, Dating, Written
    <2>4. QED
      BY <2>1, <2>3, QuietKeepsDates DEF Exists, FlowInv
  <1>7. ASSUME UNCHANGED <<account, secret, call, short>>,
               \A g \in Flows : kind[g] # "none" => kind'[g] = kind[g]
        PROVE  DateInv'
    <2>1. \A g \in Flows : g \in made => kind'[g] = kind[g]
      BY <1>7 DEF FlowInv
    <2>2. ASSUME NEW d \in Calls
          PROVE  DatesOf(d)'
      <3>1. CASE Flow(d) \in made
        BY <1>0, <1>7, <2>1, <3>1, DatesOfStay DEF SameFor, Exists, Flow
      <3>2. CASE Flow(d) \notin made
        BY <1>0, <1>7, <3>2 DEF DatesOf, FlowInv, Connecting, Written, At, Flow
      <3>3. QED
        BY <3>1, <3>2
    <2>3. ASSUME NEW f \in Flows, NEW r \in Resources
          PROVE  Describes(f, r)'
      <3>1. CASE Exists(f)
        BY <1>7, <2>1, <3>1, DescribesStays DEF SameFor, Exists, FlowInv
      <3>2. CASE ~Exists(f)
        BY <1>7, <3>2 DEF Describes, Exists
      <3>3. QED
        BY <3>1, <3>2
    <2>4. QED
      BY <2>2, <2>3 DEF DateInv, DatesOf
  <1>8. ASSUME NEW f \in Flows, NEW k \in {"oauth", "nextcloud"}, Begin(f, k)
        PROVE  DateInv'
    BY <1>7, <1>8 DEF Begin, Typed
  <1>9. CASE UNCHANGED <<kind, account, secret, call, short>>
    BY <1>7, <1>9
  <1>10. QED
    BY <1>1, <1>2, <1>3, <1>4, <1>5, <1>6, <1>8, <1>9
    DEF Next, Goes, Waits, Asks, Approve, CancelAuth, PersonRevokes, vars
-----------------------------------------------------------------------------
\* The only step that makes an account is AddAccount, of a flow that made none and
\* that CancelAuth did not discard before it was taken.
LEMMA MakesStep ==
  Typed /\ FlowInv /\ [Next]_vars =>
    (\A f \in Flows : ~Exists(f) /\ (f \in made \/ (f \in discarded /\ kind[f] = "oauth"))
       => ~Exists(f)')
  <1> SUFFICES ASSUME Typed, FlowInv, [Next]_vars,
                      NEW f \in Flows, f \in made \/ (f \in discarded /\ kind[f] = "oauth")
               PROVE  Exists(f)' => Exists(f)
    OBVIOUS
  <1> USE DEF disk, locks, history
  <1>1. ASSUME NEW c \in Calls, AddAccount(c)
        PROVE  Exists(f)' => Exists(f)
    <2>1. At(c, "add") /\ Flow(c) \in Flows /\ account \in [Flows -> AccountType]
      BY <1>1 DEF AddAccount, Typed, CallType, Flow
    <2>2. Flow(c) # f
      BY <2>1 DEF FlowInv, Ready
    <2>3. QED
      BY <1>1, <2>1, <2>2, AddAccountMoves DEF Exists
  <1>2. CASE Tick
    BY <1>2, TickKeepsAccounts
  <1>3. ASSUME NEW c \in Calls, NoteDate(c) \/ MarkGood(c) \/ MarkBad(c)
        PROVE  Exists(f)' => Exists(f)
    BY <1>3, NoteDateKeepsAccounts, MarkKeepsAccounts DEF MarkGood, MarkBad
  <1>4. ASSUME NEW c \in Calls, DeleteAccount(c)
        PROVE  Exists(f)' => Exists(f)
    BY <1>4 DEF DeleteAccount, Exists, Gone, Typed
  <1>5. ASSUME NEW c \in Calls,
               Exchange(c) \/ PollAnswer(c) \/ StoreAccess(c) \/ StoreRefresh(c) \/ Unpend(c)
               \/ LoadPlan(c) \/ ReadCache(c) \/ ReadRefresh(c) \/ Answer(c)
               \/ Persist(c) \/ DropOrphan(c) \/ RevokeAnswer(c) \/ Forget(c)
               \/ TakeLock(c) \/ StartRemoval(c)
        PROVE  account' = account
    BY <1>5 DEF Exchange, PollAnswer, StoreAccess, StoreRefresh, Unpend, LoadPlan, ReadCache,
                ReadRefresh, Answer, Persist, DropOrphan, RevokeAnswer, Forget, TakeLock, StartRemoval
  <1>6. ASSUME NEW c \in Calls, NEW g \in Flows,
               \/ CompleteAuth(c, g) \/ PollNextcloud(c, g) \/ RemoveAccount(c, g) \/ Register(c, g)
               \/ \E r \in Resources : GetAccessToken(c, g, r)
        PROVE  account' = account
    BY <1>6 DEF CompleteAuth, PollNextcloud, RemoveAccount, Register, GetAccessToken
  <1>7. CASE account' = account
    BY <1>7 DEF Exists
  <1>8. QED
    BY <1>1, <1>2, <1>3, <1>4, <1>5, <1>6, <1>7
    DEF Next, Goes, Waits, Asks, Begin, Approve, CancelAuth, PersonRevokes, Crash, vars
-----------------------------------------------------------------------------
\* The inductive invariant: the types, who holds each lock, what each flow may still
\* become, and what each file says at each step of a call.
IInv == Typed /\ LockInv /\ FlowInv /\ SecretInv /\ HaveInv /\ ReauthInv /\ PasswordInv
        /\ DateInv

LEMMA InitIInv == Init => IInv
  BY InitTyped, InitLock, InitFlow, InitSecret, InitHave, InitReauth, InitPassword,
     InitDate
  DEF IInv

LEMMA StepIInv == IInv /\ [Next]_vars => IInv'
  BY TypedStep, LockStep, FlowStep, SecretStep, HaveStep, ReauthStep, PasswordStep,
     DateStep
  DEF IInv

THEOREM ServiceIInv == Spec => []IInv
  BY InitIInv, StepIInv, PTL DEF Spec

\* Every variable has its type, however many calls, flows and resources there are.
THEOREM ServiceTypeOK == Spec => []TypeOK
  <1>1. IInv => TypeOK
    BY TypedIsTypeOK DEF IInv
  <1>2. QED
    BY <1>1, ServiceIInv, PTL

\* RemoveAccount deletes the account before its secrets, and no renewal writes them
\* again: secrets without their account are those of a removal that has not ended,
\* or that failed or died at its last step.
THEOREM ServiceSecrets == Spec => []SecretsHaveAccount
  <1>1. IInv => SecretsHaveAccount
    BY HaveIsSecretsHaveAccount DEF IInv
  <1>2. QED
    BY <1>1, ServiceIInv, PTL

\* GetAccessToken marks an account to be connected again only when its refresh token is
\* not the one the provider accepts, or its application password is not there; but for
\* what a call looked for before it was stored, or could not read.
THEOREM ServiceReauth == Spec => []ReauthIsTrue
  <1>1. IInv => ReauthIsTrue
    BY MarksAreTrue DEF IInv
  <1>2. QED
    BY <1>1, ServiceIInv, PTL

\* The date in accounts.json never promises more life than the token of secrets.json
\* has, unless it could not be written or the provider did not tell it.
THEOREM ServiceDates == Spec => []DateDescribesToken
  <1>1. IInv => DateDescribesToken
    BY DateInvDescribes DEF IInv
  <1>2. QED
    BY <1>1, ServiceIInv, PTL

\* A flow of OAuth2 that CancelAuth discarded makes no account, and an account that
\* was removed does not come back.
THEOREM ServiceDiscarded == Spec => DiscardedMakesNone
  <1>1. IInv /\ [Next]_vars =>
          (\A f \in Flows : ~Exists(f) /\ (f \in made \/ (f \in discarded /\ kind[f] = "oauth"))
             => ~Exists(f)')
    BY MakesStep DEF IInv
  <1>2. QED
    BY <1>1, ServiceIInv, PTL DEF Spec, DiscardedMakesNone
=============================================================================
