--------------------------- MODULE AccountsService ---------------------------
(***************************************************************************)
(* The accounts service for one person: how an account is connected, how   *)
(* its tokens are served and renewed, and how it is removed (daemon        *)
(* main.rs, pending.rs, storage.rs and protocols/oauth2.rs).               *)
(*                                                                         *)
(* The calls of the bus run at once.  Each step here is what a call does   *)
(* between two of its awaits, or one write of a file: accounts.json and    *)
(* secrets.json are written one after the other, never together.  Time is  *)
(* the life left of each token, of each date and of each flow; Tick        *)
(* spends it.                                                              *)
(***************************************************************************)
EXTENDS Integers, FiniteSets

CONSTANTS
  Calls,         \* the calls that may be under way at once
  Flows,         \* connections a person may start; each ends in one account at most
  Resources,     \* the hosts the capabilities of an OAuth2 account belong to
  MaxPending,    \* MAX_POR_USUARIO
  Ttl,           \* the life of a flow nobody finished
  MaxLife,       \* the longest life of an access token, less MARGEN
  MaxGen,        \* how many refresh tokens the provider issues for an account
  MaxFaults,     \* bound on failures of the network, of the provider and of the disk
  MaxRevokes,    \* bound on authorizations the person takes back at the provider
  MaxCrashes     \* bound on crashes of the service

ASSUME ServiceAssumption ==
  /\ Calls # {} /\ Flows # {} /\ Resources # {}
  /\ IsFiniteSet(Calls) /\ IsFiniteSet(Flows) /\ IsFiniteSet(Resources)
  /\ "access" \notin Resources /\ "free" \notin Calls
  /\ MaxPending \in Nat \ {0} /\ Ttl \in Nat \ {0} /\ MaxLife \in Nat \ {0}
  /\ MaxGen \in Nat \ {0}
  /\ MaxFaults \in Nat /\ MaxRevokes \in Nat /\ MaxCrashes \in Nat

VARIABLES
  kind,       \* what each flow connects; "none" before it starts
  pending,    \* PendingAuths: the life left of a flow, 0 when it is not there
  code,       \* the other side of a flow: what the person approved, until used
  grant,      \* the refresh token the provider accepts, 0 when it accepts none
  account,    \* accounts.json
  secret,     \* secrets.json
  call,       \* the calls under way
  candado,    \* candados: who has the lock of the person, or Free
  candados,   \* CANDADOS_POR_CUENTA: who has the lock of each account, or Free
  made,       \* history: the flows that made an account
  discarded,  \* history: the flows CancelAuth said it discarded
  rushed,     \* history: accounts whose secrets were looked for too early
  misread,    \* history: accounts whose secrets were there and could not be read
  short,      \* history: accounts whose new token went without its date
  left,       \* history: accounts removed without forgetting their secrets
  bound       \* what is left of each bound

disk    == <<account, secret>>
locks   == <<candado, candados>>
history == <<made, discarded, rushed, misread, short, left>>
vars    == <<kind, pending, code, grant, disk, call, locks, history, bound>>
-----------------------------------------------------------------------------
None  == -1             \* a secret that is not there
Never == MaxLife + 1    \* the life of what has no date of expiry
Lives == 0..MaxLife     \* 0: it expires within MARGEN, or it did
Free  == "free"
Gone  == [kept |-> FALSE]

\* The secrets of an account: the access token of each resource, the wide one of
\* the exchange under "access", and the refresh token, 0 when there is none.
AccessKeys == Resources \cup {"access"}
NoSecrets  == [tokens |-> [k \in AccessKeys |-> None], refresh |-> 0]
HasSecrets(f) == secret[f] # NoSecrets

\* resource_plan: an account that mixes resources keeps a token for each, and the
\* one of the exchange is then an orphan.
Mixes(f) == kind[f] = "oauth" /\ Cardinality(Resources) > 1
AccessKey(f, r) == IF Mixes(f) THEN r ELSE "access"
\* Mutant: the date is noted in all the capabilities.
MutantSharesToken(f, r) == Resources
SharesToken(f, r) == IF Mixes(f) THEN {r} ELSE Resources

Exists(f) == account[f].kept
AccountWith(date) == [kept |-> TRUE, date |-> [r \in Resources |-> date], reauth |-> FALSE]

Steps == {"exchange", "poll", "add", "access", "refresh", "unpend",
          "plan", "cache", "lock", "ask", "answer", "persist", "orphan", "date",
          "silence", "good", "bad", "remove", "revoke", "delete", "forget"}

Idle == [pc |-> "idle", flow |-> CHOOSE f \in Flows : TRUE,
         res |-> CHOOSE r \in Resources : TRUE, date |-> 0, life |-> 0, gen |-> 0]

At(c, pc) == call[c].pc = pc
Flow(c)   == call[c].flow

Go(c, pc)  == call' = [call EXCEPT ![c].pc = pc]
\* It forgets all but what it is about.
Only(c, pc) == call' = [call EXCEPT ![c] =
                              [@ EXCEPT !.pc = pc, !.date = 0, !.life = 0, !.gen = 0]]
Ends(c)    == call' = [call EXCEPT ![c] = Idle]
Begins(c, pc, f) ==
  At(c, "idle") /\ call' = [call EXCEPT ![c] = [Idle EXCEPT !.pc = pc, !.flow = f]]

\* Something outside, or the disk, fails.
Fault == bound.faults > 0 /\ bound' = [bound EXCEPT !.faults = @ - 1]
Fails(reason) == (reason /\ UNCHANGED bound) \/ Fault

\* The server takes the connection and never answers: http_client has no deadline,
\* and neither has who calls it, so the call stays, with the lock it has.
Silence(c) == Only(c, "silence")

Init ==
  /\ kind = [f \in Flows |-> "none"] /\ pending = [f \in Flows |-> 0]
  /\ code = [f \in Flows |-> "none"] /\ grant = [f \in Flows |-> 0]
  /\ account = [f \in Flows |-> Gone] /\ secret = [f \in Flows |-> NoSecrets]
  /\ call = [c \in Calls |-> Idle]
  /\ candado = Free /\ candados = [f \in Flows |-> Free]
  /\ made = {} /\ discarded = {} /\ rushed = {} /\ misread = {} /\ short = {} /\ left = {}
  /\ bound = [faults |-> MaxFaults, revokes |-> MaxRevokes, crashes |-> MaxCrashes]
-----------------------------------------------------------------------------
(* Connecting an account.                                                  *)

\* BeginAuth and BeginNextcloudLogin: the expired ones are purged first, which
\* here are no longer there.
Begin(f, k) ==
  /\ kind[f] = "none" /\ k \in {"oauth", "nextcloud"}
  /\ Cardinality({g \in Flows : pending[g] > 0}) < MaxPending
  /\ kind' = [kind EXCEPT ![f] = k] /\ pending' = [pending EXCEPT ![f] = Ttl]
  /\ UNCHANGED <<code, grant, disk, call, locks, history, bound>>

\* The person says yes in the browser.
Approve(f) ==
  /\ kind[f] \in {"oauth", "nextcloud"} /\ code[f] = "none"
  /\ code' = [code EXCEPT ![f] = "approved"]
  /\ UNCHANGED <<kind, pending, grant, disk, call, locks, history, bound>>

\* CancelAuth.
CancelAuth(f) ==
  /\ pending[f] > 0 /\ pending' = [pending EXCEPT ![f] = 0]
  /\ discarded' = discarded \cup {f}
  /\ UNCHANGED <<kind, code, grant, disk, call, locks, made, rushed, misread, short, left, bound>>

\* Mutant: the flow stays until the account is made.
MutantTakeOauth(c, f) ==
  /\ kind[f] = "oauth" /\ pending[f] > 0
  /\ Begins(c, "exchange", f) /\ UNCHANGED pending

\* PendingAuths::take_oauth takes the flow out; with another state it says no and
\* leaves everything as it was.
TakeOauth(c, f) ==
  /\ kind[f] = "oauth" /\ pending[f] > 0
  /\ Begins(c, "exchange", f) /\ pending' = [pending EXCEPT ![f] = 0]

CompleteAuth(c, f) ==
  /\ TakeOauth(c, f)
  /\ UNCHANGED <<kind, code, grant, disk, locks, history, bound>>

\* exchange_code, resolve_identity: the code serves once.  The provider may give
\* no refresh token, and may not say when the token expires.
Loses(c) == Fault /\ (Ends(c) \/ Silence(c))
Exchange(c) ==
  /\ At(c, "exchange")
  /\ LET f == Flow(c) IN
     \/ /\ code[f] = "approved" /\ code' = [code EXCEPT ![f] = "used"]
        /\ grant' = [grant EXCEPT ![f] = 1]
        /\ \/ /\ \E life \in 1..MaxLife, gen \in {0, 1} : \E date \in {life, Never} :
                   call' = [call EXCEPT ![c].pc = "add", ![c].life = life,
                                        ![c].date = date, ![c].gen = gen]
              /\ UNCHANGED bound
           \/ Loses(c)
     \/ code[f] # "approved" /\ Ends(c) /\ UNCHANGED <<code, grant, bound>>
     \/ Loses(c) /\ UNCHANGED <<code, grant>>
  /\ UNCHANGED <<kind, pending, disk, locks, history>>

\* PollNextcloudLogin looks at the flow without taking it.
PollNextcloud(c, f) ==
  /\ kind[f] = "nextcloud" /\ pending[f] > 0
  /\ Begins(c, "poll", f)
  /\ UNCHANGED <<kind, pending, code, grant, disk, locks, history, bound>>

\* The server hands the application password over once; until then, 404.
PollAnswer(c) ==
  /\ At(c, "poll")
  /\ LET f == Flow(c) IN
     \/ /\ code[f] = "approved" /\ code' = [code EXCEPT ![f] = "used"]
        /\ grant' = [grant EXCEPT ![f] = 1]
        /\ \/ /\ call' = [call EXCEPT ![c].pc = "add", ![c].life = Never, ![c].date = Never]
              /\ UNCHANGED bound
           \/ Ends(c) /\ Fault
     \/ /\ Fails(code[f] # "approved") /\ Ends(c) /\ UNCHANGED <<code, grant>>
  /\ UNCHANGED <<kind, pending, disk, locks, history>>

\* RegisterAccount: the password comes with the call.
Register(c, f) ==
  /\ kind[f] = "none" /\ kind' = [kind EXCEPT ![f] = "password"]
  /\ At(c, "idle")
  /\ call' = [call EXCEPT ![c] = [Idle EXCEPT !.pc = "add", !.flow = f,
                                              !.life = Never, !.date = Never]]
  /\ UNCHANGED <<pending, code, grant, disk, locks, history, bound>>

\* The account first, under the lock of the person, and its secrets after it.
AddAccount(c) ==
  /\ At(c, "add") /\ candado = Free
  /\ LET f == Flow(c) IN
     \/ /\ account' = [account EXCEPT ![f] = AccountWith(call[c].date)]
        /\ made' = made \cup {f}
        /\ candado' = c /\ Go(c, "access") /\ UNCHANGED bound
     \/ Ends(c) /\ Fault /\ UNCHANGED <<account, made, candado>>
  /\ UNCHANGED <<kind, pending, code, grant, secret, candados,
                 discarded, rushed, misread, short, left>>

\* guardar_secretos_de_oauth, and store_token for the others: one write for each
\* secret; a failure leaves the account with those there are.
StoreAccess(c) ==
  /\ At(c, "access")
  /\ LET f == Flow(c) IN
     \/ /\ secret' = [secret EXCEPT ![f].tokens["access"] = call[c].life]
        /\ short' = IF call[c].date # call[c].life THEN short \cup {f} ELSE short
        /\ UNCHANGED bound
        /\ CASE call[c].gen > 0        -> Go(c, "refresh") /\ UNCHANGED candado
             [] kind[f] = "nextcloud"  -> Only(c, "unpend") /\ candado' = Free
             [] OTHER                  -> Ends(c) /\ candado' = Free
     \/ Ends(c) /\ candado' = Free /\ Fault /\ UNCHANGED <<secret, short>>
  /\ UNCHANGED <<kind, pending, code, grant, account, candados,
                 made, discarded, rushed, misread, left>>

StoreRefresh(c) ==
  /\ At(c, "refresh") /\ Ends(c) /\ candado' = Free
  /\ \/ secret' = [secret EXCEPT ![Flow(c)].refresh = call[c].gen] /\ UNCHANGED bound
     \/ Fault /\ UNCHANGED secret
  /\ UNCHANGED <<kind, pending, code, grant, account, candados, history>>

\* The flow of Nextcloud is taken out after its account is there.
Unpend(c) ==
  /\ At(c, "unpend") /\ Ends(c) /\ pending' = [pending EXCEPT ![Flow(c)] = 0]
  /\ UNCHANGED <<kind, code, grant, disk, locks, history, bound>>
-----------------------------------------------------------------------------
(* GetAccessToken.  The lock of the account is held from TakeLock until the *)
(* token is served or refused; what marks the account comes after it.      *)

Holds(c)   == candados[Flow(c)] = c
LetGo(c)   == candados' = IF Holds(c) THEN [candados EXCEPT ![Flow(c)] = Free] ELSE candados
Serves(c)  == Only(c, "good") /\ LetGo(c)
\* Mutants: the lock is kept; invalid_grant is taken for a failure that passes.
MutantRefuses(c) == Ends(c) /\ UNCHANGED candados
Refuses(c) == Ends(c) /\ LetGo(c)
MutantRevoked(c) == Refuses(c)
Revoked(c) == Only(c, "bad") /\ LetGo(c)

GetAccessToken(c, f, r) ==
  /\ Exists(f) /\ At(c, "idle")
  /\ call' = [call EXCEPT ![c] = [Idle EXCEPT !.pc = "plan", !.flow = f, !.res = r]]
  /\ UNCHANGED <<kind, pending, code, grant, disk, locks, history, bound>>

\* cargar_plan reads accounts.json: the date of the capability.
LoadPlan(c) ==
  /\ At(c, "plan")
  /\ LET f == Flow(c) IN
     \/ /\ Exists(f)
        /\ call' = [call EXCEPT ![c].pc = "cache", ![c].date = account[f].date[call[c].res]]
        /\ UNCHANGED <<candados, bound>>
     \/ Fails(~Exists(f)) /\ Refuses(c)
  /\ UNCHANGED <<kind, pending, code, grant, disk, candado, history>>

\* token_cacheado_vigente reads secrets.json, later, and believes that date.  A read
\* that fails is taken for a token that is not there.  With the lock it is not looked at
\* again, and an application password has nothing to be renewed with.
StillStoring(f) == \E d \in Calls : Flow(d) = f /\ call[d].pc \in {"access", "refresh"}
Cached(c) == secret[Flow(c)].tokens[AccessKey(Flow(c), call[c].res)]
Serviceable(c) == Cached(c) # None /\ call[c].date > 0
LastLook(c) == Holds(c) /\ kind[Flow(c)] # "oauth"
ReadCache(c) ==
  /\ At(c, "cache")
  /\ \/ Serviceable(c) /\ Serves(c) /\ UNCHANGED <<rushed, misread, bound>>
     \/ /\ Fails(~Serviceable(c))
        /\ Only(c, IF Holds(c) THEN "ask" ELSE "lock") /\ UNCHANGED candados
        /\ rushed' = IF LastLook(c) /\ StillStoring(Flow(c)) THEN rushed \cup {Flow(c)} ELSE rushed
        /\ misread' = IF LastLook(c) /\ Serviceable(c) THEN misread \cup {Flow(c)} ELSE misread
  /\ UNCHANGED <<kind, pending, code, grant, disk, candado, made, discarded, short, left>>

\* Mutant: two renewals of an account run at once.
MutantTakeLock(c) ==
  /\ At(c, "lock") /\ Only(c, "ask") /\ UNCHANGED candados
  /\ UNCHANGED <<kind, pending, code, grant, disk, candado, history, bound>>

\* candado_de_cuenta, and the cache is looked at again.
TakeLock(c) ==
  /\ At(c, "lock") /\ candados[Flow(c)] = Free
  /\ candados' = [candados EXCEPT ![Flow(c)] = c] /\ Go(c, "plan")
  /\ UNCHANGED <<kind, pending, code, grant, disk, candado, history, bound>>

\* refresh: without a refresh token the account is taken for revoked, and a read of
\* secrets.json that fails is taken for having none.
ReadRefresh(c) ==
  /\ At(c, "ask")
  /\ LET f == Flow(c) IN
     \/ /\ Fails(secret[f].refresh = 0) /\ Revoked(c)
        /\ rushed' = IF StillStoring(f) THEN rushed \cup {f} ELSE rushed
        /\ misread' = IF secret[f].refresh # 0 THEN misread \cup {f} ELSE misread
     \/ /\ secret[f].refresh # 0
        /\ call' = [call EXCEPT ![c].pc = "answer", ![c].gen = secret[f].refresh]
        /\ UNCHANGED <<candados, rushed, misread, bound>>
  /\ UNCHANGED <<kind, pending, code, grant, disk, candado, made, discarded, short, left>>

\* The provider renews, and may give another refresh token in the place of the
\* one it got; or says invalid_grant; or fails, before or after it renewed; or never
\* says anything.
Unanswered(c) == Fault /\ (Refuses(c) \/ (Silence(c) /\ UNCHANGED candados))
Answer(c) ==
  /\ At(c, "answer")
  /\ LET f == Flow(c) IN
     \/ /\ call[c].gen = grant[f]
        /\ \E gen \in {grant[f], grant[f] + 1} \cap 1..MaxGen :
             /\ grant' = [grant EXCEPT ![f] = gen]
             /\ \/ /\ \E life \in 1..MaxLife : \E date \in {life, Never} :
                        call' = [call EXCEPT ![c].pc = "persist", ![c].gen = gen,
                                             ![c].life = life, ![c].date = date]
                   /\ UNCHANGED <<candados, bound>>
                \/ Unanswered(c)
     \/ /\ call[c].gen # grant[f] /\ Revoked(c) /\ UNCHANGED <<grant, bound>>
     \/ Unanswered(c) /\ UNCHANGED grant
  /\ UNCHANGED <<kind, pending, code, disk, candado, history>>

Put(c) ==
  LET f == Flow(c) IN
  secret' = [secret EXCEPT ![f].tokens[AccessKey(f, call[c].res)] = call[c].life,
                           ![f].refresh = call[c].gen]

\* Mutant: the tokens are written whether the account is there or not.
MutantPersist(c) ==
  /\ At(c, "persist") /\ Put(c) /\ Go(c, "orphan")
  /\ UNCHANGED <<kind, pending, code, grant, account, locks, history, bound>>

\* store_secrets_if_account_exists_in.
Persist(c) ==
  /\ At(c, "persist")
  /\ LET f == Flow(c) IN
     \/ /\ Exists(f) /\ Put(c) /\ Go(c, "orphan")
        /\ UNCHANGED <<candados, bound>>
     \/ Fails(~Exists(f)) /\ Refuses(c) /\ UNCHANGED secret
  /\ UNCHANGED <<kind, pending, code, grant, account, candado, history>>

\* The wide token of the exchange serves nobody now.
DropOrphan(c) ==
  /\ At(c, "orphan")
  /\ LET f == Flow(c) IN
     \/ /\ secret' = IF Mixes(f) THEN [secret EXCEPT ![f].tokens["access"] = None] ELSE secret
        /\ Go(c, "date") /\ UNCHANGED <<candados, short, bound>>
     \/ /\ Mixes(f) /\ secret[f].tokens["access"] # None /\ Fault
        /\ Refuses(c) /\ short' = short \cup {f} /\ UNCHANGED secret
  /\ UNCHANGED <<kind, pending, code, grant, account, candado,
                 made, discarded, rushed, misread, left>>

\* update_with, of the capabilities that share the token.  If the provider did not
\* say when it expires the date stays the one there was.
Dated(c) ==
  LET f == Flow(c) IN
  IF Exists(f)
  THEN [account EXCEPT ![f].date =
         [r \in Resources |-> IF r \in SharesToken(f, call[c].res) THEN call[c].date ELSE @[r]]]
  ELSE account

NoteDate(c) ==
  /\ At(c, "date")
  /\ \/ /\ call[c].date # Never /\ account' = Dated(c)
        /\ Serves(c) /\ UNCHANGED <<short, bound>>
     \/ /\ call[c].date = Never /\ Serves(c) /\ UNCHANGED <<account, bound>>
        /\ short' = short \cup {Flow(c)}
     \/ /\ Fault /\ Refuses(c) /\ short' = short \cup {Flow(c)} /\ UNCHANGED account
  /\ UNCHANGED <<kind, pending, code, grant, secret, candado,
                 made, discarded, rushed, misread, left>>

\* marcar_reauth, under the lock of the person.
Mark(c, needs) ==
  /\ candado = Free /\ Ends(c)
  /\ \/ /\ account' = IF Exists(Flow(c)) THEN [account EXCEPT ![Flow(c)].reauth = needs]
                                         ELSE account
        /\ UNCHANGED bound
     \/ Fault /\ UNCHANGED account
  /\ UNCHANGED <<kind, pending, code, grant, secret, locks, history>>
MarkGood(c) == At(c, "good") /\ Mark(c, FALSE)
MarkBad(c)  == At(c, "bad")  /\ Mark(c, TRUE)
-----------------------------------------------------------------------------
(* RemoveAccount, after polkit said yes: any id, also of an account that is *)
(* no longer there.                                                        *)

RemoveAccount(c, f) ==
  /\ f \in made /\ Begins(c, "remove", f)
  /\ UNCHANGED <<kind, pending, code, grant, disk, locks, history, bound>>

\* Under the lock of the person; revocar reads the secret it has to send.  When that
\* cannot be read, or the provider has no address for it, nobody is told.
StartRemoval(c) ==
  /\ At(c, "remove") /\ candado = Free /\ candado' = c
  /\ LET f == Flow(c) IN
     \/ /\ Exists(f)
        /\ \/ kind[f] = "oauth" /\ secret[f].refresh > 0
           \/ kind[f] = "nextcloud" /\ secret[f].tokens["access"] # None
        /\ call' = [call EXCEPT ![c].pc = "revoke", ![c].gen =
                       IF kind[f] = "oauth" THEN secret[f].refresh ELSE 1]
     \/ Go(c, "delete")
  /\ UNCHANGED <<kind, pending, code, grant, disk, candados, history, bound>>

\* revocar waits ten seconds at most; the account goes whatever was answered.
RevokeAnswer(c) ==
  /\ At(c, "revoke")
  /\ call' = [call EXCEPT ![c].pc = "delete", ![c].gen = 0]
  /\ \/ /\ grant' = [grant EXCEPT ![Flow(c)] = IF @ = call[c].gen THEN 0 ELSE @]
        /\ UNCHANGED bound
     \/ Fault /\ UNCHANGED grant
  /\ UNCHANGED <<kind, pending, code, disk, locks, history>>

DeleteAccount(c) ==
  /\ At(c, "delete")
  /\ \/ /\ account' = [account EXCEPT ![Flow(c)] = Gone] /\ Go(c, "forget")
        /\ UNCHANGED <<candado, bound>>
     \/ Fault /\ Ends(c) /\ candado' = Free /\ UNCHANGED account
  /\ UNCHANGED <<kind, pending, code, grant, secret, candados, history>>

Forget(c) ==
  /\ At(c, "forget") /\ Ends(c) /\ candado' = Free
  /\ \/ /\ secret' = [secret EXCEPT ![Flow(c)] = NoSecrets]
        /\ left' = left \ {Flow(c)} /\ UNCHANGED bound
     \/ Fault /\ left' = left \cup {Flow(c)} /\ UNCHANGED secret
  /\ UNCHANGED <<kind, pending, code, grant, account, candados,
                 made, discarded, rushed, misread, short>>
-----------------------------------------------------------------------------
\* The service dies: its flows, its calls and its locks are gone; the files stay.
Crash ==
  /\ bound.crashes > 0 /\ bound' = [bound EXCEPT !.crashes = @ - 1]
  /\ pending' = [f \in Flows |-> 0] /\ call' = [c \in Calls |-> Idle]
  /\ candado' = Free /\ candados' = [f \in Flows |-> Free]
  /\ left' = left \cup {Flow(c) : c \in {d \in Calls : At(d, "forget")}}
  /\ short' = short \cup {Flow(c) : c \in {d \in Calls : call[d].pc \in {"orphan", "date"}}}
  /\ UNCHANGED <<kind, code, grant, disk, made, discarded, rushed, misread>>

\* The person takes the authorization back at the provider.
PersonRevokes(f) ==
  /\ grant[f] > 0 /\ grant' = [grant EXCEPT ![f] = 0]
  /\ bound.revokes > 0 /\ bound' = [bound EXCEPT !.revokes = @ - 1]
  /\ UNCHANGED <<kind, pending, code, disk, call, locks, history>>

\* Mutant: what expired goes on counting.
MutantOlder(n) == IF n = Never THEN n ELSE n - 1
Older(n) == IF n \in 1..MaxLife THEN n - 1 ELSE n
Tick ==
  /\ pending' = [f \in Flows |-> IF pending[f] > 0 THEN pending[f] - 1 ELSE 0]
  /\ account' = [f \in Flows |-> IF Exists(f)
       THEN [account[f] EXCEPT !.date = [r \in Resources |-> Older(@[r])]] ELSE Gone]
  /\ secret' = [f \in Flows |->
       [secret[f] EXCEPT !.tokens = [k \in AccessKeys |-> Older(@[k])]]]
  /\ call' = [c \in Calls |-> [call[c] EXCEPT !.date = Older(@), !.life = Older(@)]]
  /\ UNCHANGED <<kind, code, grant, locks, history, bound>>

\* A call goes on, but for the steps that wait for a lock.
Goes(c) ==
  \/ Exchange(c) \/ PollAnswer(c) \/ StoreAccess(c) \/ StoreRefresh(c) \/ Unpend(c)
  \/ LoadPlan(c) \/ ReadCache(c) \/ ReadRefresh(c) \/ Answer(c)
  \/ Persist(c) \/ DropOrphan(c) \/ NoteDate(c)
  \/ RevokeAnswer(c) \/ DeleteAccount(c) \/ Forget(c)
Waits(c) == AddAccount(c) \/ TakeLock(c) \/ MarkGood(c) \/ MarkBad(c) \/ StartRemoval(c)

Asks(f, r) == \E c \in Calls : GetAccessToken(c, f, r)

Next ==
  \/ \E f \in Flows, k \in {"oauth", "nextcloud"} : Begin(f, k)
  \/ \E f \in Flows : Approve(f) \/ CancelAuth(f) \/ PersonRevokes(f)
  \/ \E c \in Calls, f \in Flows :
       CompleteAuth(c, f) \/ PollNextcloud(c, f) \/ Register(c, f) \/ RemoveAccount(c, f)
  \/ \E f \in Flows, r \in Resources : Asks(f, r)
  \/ \E c \in Calls : Goes(c) \/ Waits(c)
  \/ Tick \/ Crash

Spec == Init /\ [][Next]_vars

\* A call goes on when it is answered, and waits for ever when it is not; the locks of
\* tokio are given in the order they were asked for, time passes, and the programs keep
\* asking for the tokens they use.
FairSpec ==
  /\ Spec /\ WF_vars(Tick)
  /\ \A c \in Calls : WF_vars(Goes(c)) /\ SF_vars(Waits(c))
  /\ \A f \in Flows, r \in Resources : SF_vars(Asks(f, r))
-----------------------------------------------------------------------------
\* Every variable has its type.
TypeOK ==
  /\ kind \in [Flows -> {"none", "oauth", "nextcloud", "password"}]
  /\ pending \in [Flows -> 0..Ttl]
  /\ code \in [Flows -> {"none", "approved", "used"}]
  /\ grant \in [Flows -> 0..MaxGen]
  /\ account \in [Flows -> {Gone} \cup
       [kept : {TRUE}, date : [Resources -> Lives \cup {Never}], reauth : BOOLEAN]]
  /\ secret \in [Flows -> [tokens : [AccessKeys -> Lives \cup {None, Never}],
                           refresh : 0..MaxGen]]
  /\ call \in [Calls -> [pc : Steps \cup {"idle"}, flow : Flows, res : Resources,
                         date : Lives \cup {Never}, life : Lives \cup {Never},
                         gen : 0..MaxGen]]
  /\ candado \in Calls \cup {Free} /\ candados \in [Flows -> Calls \cup {Free}]
  /\ made \subseteq Flows /\ discarded \subseteq Flows /\ rushed \subseteq Flows
  /\ misread \subseteq Flows /\ short \subseteq Flows /\ left \subseteq Flows
  /\ bound \in [faults : 0..MaxFaults, revokes : 0..MaxRevokes, crashes : 0..MaxCrashes]

\* No secret outlives its account: when one is there without it, its removal is
\* at its last step, or it died or failed there (storage.rs, RemoveAccount and
\* store_secrets_if_account_exists_in).
SecretsHaveAccount ==
  \A f \in Flows : ~Exists(f) /\ HasSecrets(f) =>
    f \in left \/ \E c \in Calls : Flow(c) = f /\ At(c, "forget")

\* An account asks to be connected again only when it has to be: its refresh token is
\* not the one the provider accepts, or its application password is not there; unless a
\* call looked for them before they were stored, or could not read them (main.rs,
\* GetAccessToken; the lock of oauth2.rs).
Lost(f) == IF kind[f] = "oauth" THEN secret[f].refresh = 0 \/ secret[f].refresh # grant[f]
                                ELSE secret[f].tokens["access"] = None
ReauthIsTrue ==
  \A f \in Flows : Exists(f) /\ account[f].reauth => f \in rushed \cup misread \/ Lost(f)

\* A date is never later than that of the token it describes, unless the provider
\* did not tell it or it could not be written (persistir writes the token first).
DateDescribesToken ==
  \A f \in Flows, r \in Resources :
    LET token == secret[f].tokens[AccessKey(f, r)] IN
    Exists(f) /\ token # None =>
      \/ account[f].date[r] <= token
      \/ f \in short
      \/ \E c \in Calls : Flow(c) = f /\ call[c].pc \in {"orphan", "date"}

\* A flow of OAuth2 that CancelAuth discarded makes no account, and no account
\* comes back once it was made (pending.rs, take_oauth; storage.rs, update_with).
DiscardedMakesNone ==
  [][\A f \in Flows : ~Exists(f) /\ (f \in made \/ (f \in discarded /\ kind[f] = "oauth"))
       => ~Exists(f)']_vars

\* Every call of the bus ends, but one that the provider never answers and those that
\* wait for the lock it has; what removes or connects an account never waits for it, and
\* the two locks never wait for each other (oauth2.rs, CANDADOS_POR_CUENTA; main.rs,
\* con_candado).
Silenced(f) == \E d \in Calls : At(d, "silence") /\ candados[f] = d
EveryCallEnds ==
  \A c \in Calls : ~At(c, "idle") ~>
    At(c, "idle") \/ At(c, "silence") \/ (At(c, "lock") /\ Silenced(Flow(c)))

\* An account whose authorization is over, or whose refresh token was lost, comes to
\* say so, if its dates are known, unless a renewal of it is never answered (main.rs,
\* GetAccessToken).
Dead(f) == /\ Exists(f) /\ secret[f].refresh # grant[f]
           /\ ~\E c \in Calls : Flow(c) = f /\ call[c].pc \in {"access", "refresh", "persist"}
           /\ \E r \in Resources : account[f].date[r] # Never
RevokedIsMarked ==
  \A f \in Flows : Dead(f) ~> (~Exists(f) \/ account[f].reauth \/ Silenced(f))
=============================================================================
