--------------------------- MODULE AccountsProofs ---------------------------
(***************************************************************************)
(* The accounts, for any requests and any bounds: an admin always remains, *)
(* the editors never exceed their limit, passwords only advance and tokens *)
(* are redeemed once.  The sessions, for any callers and any number of     *)
(* rows: a challenge gives one session, a recovery code is accepted once.  *)
(*                                                                         *)
(* The argument is that of the lock: what the open transaction has read is *)
(* the table as it is, because no statement writes the table while it is   *)
(* held.  Every check on what was read is then a check on the table.  The  *)
(* same goes for the second factor; that a challenge gives no two sessions *)
(* needs that no step makes a revoked row active again.                    *)
(***************************************************************************)
EXTENDS Accounts, Sessions, FiniteSetTheorems, SequenceTheorems, TLAPS

Request ==
  [pc : {"idle", "ready", "open", "password", "issue"},
   op : {"none", "create", "update", "delete", "confirm"},
   id : Nat, role : Role \cup {""}, sets : BOOLEAN, invites : BOOLEAN,
   purpose : Purpose \cup {""}, seen : UNION {[D -> Account] : D \in SUBSET Nat}]

Counters == created \in User /\ sets \in Nat

Table ==
  /\ users \in [DOMAIN users -> Account]
  /\ DOMAIN users \subseteq 1..created
  /\ \A u \in DOMAIN users : users[u].password <= sets

\* A request knows what it needs at each point.
Ready(r) ==
  /\ r.op \in {"create", "update"} => r.role \in Role
  /\ r.pc = "issue" => r.id \in 1..created /\ r.purpose \in Purpose
  /\ r.op = "confirm" => r.id \in DOMAIN tokens

Requests == reqs \in [Client -> Request] /\ \A c \in Client : Ready(reqs[c])

\* What the holder of the table has read is the table.
Lock ==
  /\ holder \in Client \cup {Nobody}
  /\ \A c \in Client : (reqs[c].pc = "open") <=> (holder = c)
  /\ \A c \in Client : holder = c => reqs[c].seen = users

Issued ==
  /\ tokens \in [DOMAIN tokens -> [user : 1..created, purpose : Purpose, used : BOOLEAN]]
  /\ redeemed \in [DOMAIN tokens -> Nat]

AccountsInv ==
  Counters /\ Table /\ Requests /\ Lock /\ Issued /\ AdminRemains /\ EditorsLimited
  /\ TokensRedeemedOnce

-----------------------------------------------------------------------------
(* Counting accounts *)

\* There are finitely many accounts, so admins and editors can be counted.
LEMMA TablesAreFinite ==
  ASSUME NEW n \in Nat, NEW accounts, DOMAIN accounts \subseteq 1..n
  PROVE  /\ IsFiniteSet(Admins(accounts)) /\ IsFiniteSet(Editors(accounts))
         /\ Cardinality(Admins(accounts)) \in Nat /\ Cardinality(Editors(accounts)) \in Nat
<1>1. IsFiniteSet(1..n)
  BY FS_Interval
<1>2. Admins(accounts) \in SUBSET (1..n) /\ Editors(accounts) \in SUBSET (1..n)
  BY DEF Admins, Editors
<1>3. IsFiniteSet(Admins(accounts)) /\ IsFiniteSet(Editors(accounts))
  BY <1>1, <1>2, FS_Subset
<1> QED BY <1>3, FS_CardinalityType

\* Of two admins one remains when the other is taken away.
LEMMA AnotherAdmin ==
  ASSUME NEW S, IsFiniteSet(S), NEW x, ~(Cardinality(S) <= 1)
  PROVE  S \ {x} # {}
<1>1. Cardinality(S) \in Nat
  BY FS_CardinalityType
<1>2. Cardinality(S \ {x}) = IF x \in S THEN Cardinality(S) - 1 ELSE Cardinality(S)
  BY FS_RemoveElement
<1>3. Cardinality(S \ {x}) # 0
  BY <1>1, <1>2
<1> QED BY <1>3, FS_EmptySet

\* An editor more is allowed below the limit.
LEMMA OneEditorMore ==
  ASSUME NEW S, IsFiniteSet(S), NEW x, NEW T \in SUBSET (S \cup {x}), Limit \in Nat,
         ~(Cardinality(S) >= Limit)
  PROVE  Cardinality(T) <= Limit
<1>1. Cardinality(S) \in Nat
  BY FS_CardinalityType
<1>2. /\ IsFiniteSet(S \cup {x})
      /\ Cardinality(S \cup {x}) = IF x \in S THEN Cardinality(S) ELSE Cardinality(S) + 1
  BY FS_AddElement
<1>3. Cardinality(T) <= Cardinality(S \cup {x}) /\ IsFiniteSet(T)
  BY <1>2, FS_Subset
<1>4. Cardinality(T) \in Nat
  BY <1>3, FS_CardinalityType
<1> QED BY <1>1, <1>2, <1>3, <1>4

\* Fewer editors are always allowed.
LEMMA NoEditorMore ==
  ASSUME NEW S, IsFiniteSet(S), NEW T \in SUBSET S, Limit \in Nat, Cardinality(S) <= Limit
  PROVE  Cardinality(T) <= Limit
<1>1. Cardinality(T) <= Cardinality(S) /\ IsFiniteSet(T)
  BY FS_Subset
<1>2. Cardinality(T) \in Nat /\ Cardinality(S) \in Nat
  BY <1>1, FS_CardinalityType
<1> QED BY <1>1, <1>2

-----------------------------------------------------------------------------
(* Requests *)

LEMMA IdleIsRequest == Idle \in Request /\ Ready(Idle) /\ Idle.pc = "idle"
<1>1. NoTable \in [{} -> Account]
  BY DEF NoTable
<1>2. NoTable \in UNION {[D -> Account] : D \in SUBSET Nat}
  BY <1>1
<1> QED BY <1>2 DEF Idle, Request, Ready

\* A request that asks for something reads, and changes nothing else.
LEMMA AskKeeps ==
  ASSUME AccountsInv, AccountsAssumption, NEW c \in Client,
         NEW r \in Request, Ready(r), r.pc # "open", Ask(c, r)
  PROVE  AccountsInv'
<1>1. reqs' = [reqs EXCEPT ![c] = r] /\ reqs[c].pc = "idle"
  BY DEF Ask
<1>2. UNCHANGED <<users, tokens, holder, created, sets, redeemed>>
  BY DEF Ask
<1>3. Requests'
  BY <1>1, <1>2 DEF AccountsInv, Requests, Ready
<1>4. Lock'
  BY <1>1, <1>2 DEF AccountsInv, Lock, Requests
<1> QED
  BY <1>2, <1>3, <1>4 DEF AccountsInv, Counters, Table, Issued, AdminRemains, EditorsLimited,
     TokensRedeemedOnce, Admins, Editors

\* Every way to ask sends such a request.
LEMMA AsksKeep ==
  ASSUME AccountsInv, AccountsAssumption, NEW c \in Client, Asks(c)
  PROVE  AccountsInv'
<1> USE IdleIsRequest
<1>0. 1..created \subseteq Nat /\ Token \subseteq Nat
  BY DEF AccountsInv, Counters, User, Token
<1>1. ASSUME NEW role \in Role, NEW invites \in BOOLEAN, AskCreate(c, role, invites)
      PROVE  AccountsInv'
  <2> DEFINE r == [Idle EXCEPT !.pc = "ready", !.op = "create", !.role = role, !.invites = invites]
  <2>1. r \in Request /\ Ready(r) /\ r.pc # "open"
    BY DEF Request, Ready, Idle
  <2> QED BY <1>1, <2>1, AskKeeps DEF AskCreate
<1>2. ASSUME NEW id \in 1..created, NEW role \in Role, NEW sent \in BOOLEAN,
             AskUpdate(c, id, role, sent)
      PROVE  AccountsInv'
  <2> DEFINE r == [Idle EXCEPT !.pc = "ready", !.op = "update", !.id = id, !.role = role, !.sets = sent]
  <2>1. r \in Request /\ Ready(r) /\ r.pc # "open"
    BY <1>0 DEF Request, Ready, Idle
  <2> QED BY <1>2, <2>1, AskKeeps DEF AskUpdate
<1>3. ASSUME NEW id \in 1..created, NEW sent \in BOOLEAN, AskUpdateOwn(c, id, sent)
      PROVE  AccountsInv'
  <2>1. users[id].role \in Role
    BY <1>3 DEF AskUpdateOwn, AccountsInv, Table, Account
  <2> QED BY <1>2, <1>3, <2>1 DEF AskUpdateOwn
<1>4. ASSUME NEW id \in 1..created, AskDelete(c, id) \/ AskPassword(c, id)
      PROVE  AccountsInv'
  <2>1. /\ [Idle EXCEPT !.pc = "ready", !.op = "delete", !.id = id] \in Request
        /\ [Idle EXCEPT !.pc = "password", !.id = id] \in Request
    BY <1>0 DEF Request, Idle
  <2> QED BY <1>4, <2>1, AskKeeps DEF AskDelete, AskPassword, Ready, Idle
<1>5. ASSUME NEW id \in 1..created, NEW purpose \in Purpose, AskToken(c, id, purpose)
      PROVE  AccountsInv'
  <2> DEFINE r == [Idle EXCEPT !.pc = "issue", !.id = id, !.purpose = purpose]
  <2>1. r \in Request /\ Ready(r) /\ r.pc # "open"
    BY <1>0 DEF Request, Ready, Idle
  <2> QED BY <1>5, <2>1, AskKeeps DEF AskToken
<1>6. ASSUME NEW token \in Token, AskConfirm(c, token)
      PROVE  AccountsInv'
  <2> DEFINE r == [Idle EXCEPT !.pc = "ready", !.op = "confirm", !.id = token]
  <2>1. r \in Request /\ Ready(r) /\ r.pc # "open"
    BY <1>0, <1>6 DEF Request, Ready, Idle, AskConfirm
  <2> QED BY <1>6, <2>1, AskKeeps DEF AskConfirm
<1> QED BY <1>1, <1>2, <1>3, <1>4, <1>5, <1>6 DEF Asks

-----------------------------------------------------------------------------
(* Statements, and the ends of transactions *)

\* A transaction that ends leaves a well-formed idle request and a free table.
LEMMA EndsKeeps ==
  ASSUME AccountsInv, AccountsAssumption, NEW c \in Client, reqs[c].pc = "open", Ends(c),
         created' \in Nat, created <= created', DOMAIN tokens \subseteq DOMAIN tokens'
  PROVE  Requests' /\ Lock' /\ holder = c /\ reqs[c].seen = users
<1>1. reqs' = [reqs EXCEPT ![c] = Idle] /\ holder' = Nobody
  BY DEF Ends, Done
<1>2. holder = c /\ reqs[c].seen = users
  BY DEF AccountsInv, Lock
<1>3. \A d \in Client : d # c => reqs[d].pc # "open"
  BY <1>2 DEF AccountsInv, Lock
<1>4. Requests'
  BY <1>1, IdleIsRequest DEF AccountsInv, Requests, Ready, Counters, User
<1>5. Lock'
  BY <1>1, <1>3, IdleIsRequest DEF AccountsInv, Lock, Requests, AccountsAssumption
<1> QED BY <1>2, <1>4, <1>5

\* A new password of an account that there is, or none: nobody has the table open.
LEMMA WritePasswordKeeps ==
  ASSUME AccountsInv, AccountsAssumption, NEW c \in Client, WritePassword(c)
  PROVE  AccountsInv'
<1> DEFINE id == reqs[c].id
<1>1. /\ reqs' = [reqs EXCEPT ![c] = Idle] /\ holder = Nobody
      /\ UNCHANGED <<tokens, holder, created, redeemed>>
  BY DEF WritePassword, Done, Unlocked
<1>2. Requests' /\ Lock'
  BY <1>1, IdleIsRequest DEF AccountsInv, Requests, Ready, Lock, AccountsAssumption
<1>3. CASE id \notin DOMAIN users
  <2>1. UNCHANGED <<users, sets>>
    BY <1>3 DEF WritePassword
  <2> QED BY <1>1, <1>2, <2>1 DEF AccountsInv, Counters, Table, Issued, AdminRemains,
             EditorsLimited, TokensRedeemedOnce, Admins, Editors
<1>4. CASE id \in DOMAIN users
  <2>1. users' = [users EXCEPT ![id].password = sets + 1] /\ sets' = sets + 1
    BY <1>4 DEF WritePassword
  <2>2. DOMAIN users' = DOMAIN users
    BY <2>1
  <2>3. \A u \in DOMAIN users : /\ users'[u] \in Account /\ users'[u].password <= sets'
                                /\ users'[u].role = users[u].role
                                /\ users'[u].invited = users[u].invited
    BY <2>1 DEF AccountsInv, Counters, Table, Account
  <2>4. Counters' /\ Table'
    <3>1. Counters' /\ DOMAIN users' \subseteq 1..created'
      BY <1>1, <2>1, <2>2 DEF AccountsInv, Counters, Table
    <3>2. users' = [u \in DOMAIN users' |-> users'[u]]
      BY <2>1
    <3> QED BY <2>2, <2>3, <3>1, <3>2 DEF Table
  <2>5. Admins(users') = Admins(users) /\ Editors(users') = Editors(users)
    BY <2>2, <2>3 DEF Admins, Editors
  <2>6. Issued' /\ TokensRedeemedOnce'
    BY <1>1, <2>2, <2>3 DEF AccountsInv, Issued, TokensRedeemedOnce
  <2> QED BY <1>2, <2>4, <2>5, <2>6 DEF AccountsInv, AdminRemains, EditorsLimited
<1> QED BY <1>3, <1>4

\* A token that is issued is unused.
LEMMA IssueTokenKeeps ==
  ASSUME AccountsInv, AccountsAssumption, NEW c \in Client, IssueToken(c)
  PROVE  AccountsInv'
<1> DEFINE token == Cardinality(DOMAIN tokens) + 1
           new == [user |-> reqs[c].id, purpose |-> reqs[c].purpose, used |-> FALSE]
<1>1. /\ reqs' = [reqs EXCEPT ![c] = Idle] /\ reqs[c].pc = "issue"
      /\ UNCHANGED <<users, holder, created, sets>>
      /\ tokens' = [t \in DOMAIN tokens \cup {token} |-> IF t = token THEN new ELSE tokens[t]]
      /\ redeemed' = [t \in DOMAIN tokens' |-> IF t = token THEN 0 ELSE redeemed[t]]
  BY DEF IssueToken, Done
<1>2. Requests' /\ Lock'
  BY <1>1, IdleIsRequest DEF AccountsInv, Requests, Ready, Lock, AccountsAssumption
<1>3. new \in [user : 1..created, purpose : Purpose, used : BOOLEAN]
  BY <1>1 DEF AccountsInv, Requests, Ready
<1>4. Issued'
  <2> HIDE DEF token, new
  <2> QED BY <1>1, <1>3 DEF AccountsInv, Issued
<1>5. TokensRedeemedOnce'
  <2>1. ~new.used
    OBVIOUS
  <2> HIDE DEF token, new
  <2> QED BY <1>1, <2>1 DEF AccountsInv, TokensRedeemedOnce, Issued
<1> QED BY <1>1, <1>2, <1>4, <1>5 DEF AccountsInv, Counters, Table, AdminRemains,
           EditorsLimited, Admins, Editors

\* A transaction begins with the table as it is.
LEMMA BeginKeeps ==
  ASSUME AccountsInv, AccountsAssumption, NEW c \in Client, Begin(c)
  PROVE  AccountsInv'
<1>1. /\ holder = Nobody /\ holder' = c
      /\ reqs' = [reqs EXCEPT ![c].pc = "open", ![c].seen = users]
      /\ UNCHANGED <<users, tokens, created, sets, redeemed>>
  BY DEF Begin, Unlocked
<1>2. users \in UNION {[D -> Account] : D \in SUBSET Nat}
  <2>1. DOMAIN users \in SUBSET Nat
    BY DEF AccountsInv, Table, Counters, User
  <2> QED BY <2>1 DEF AccountsInv, Table
<1>3. Requests'
  <2> DEFINE r == [reqs[c] EXCEPT !.pc = "open", !.seen = users]
  <2>1. reqs[c] \in Request /\ Ready(reqs[c])
    BY DEF AccountsInv, Requests
  <2>2. r \in Request /\ Ready(r) /\ r.pc = "open"
    BY <1>2, <2>1 DEF Request, Ready
  <2>3. reqs' = [reqs EXCEPT ![c] = r]
    BY <1>1 DEF AccountsInv, Requests
  <2> HIDE DEF r
  <2> QED BY <1>1, <2>2, <2>3 DEF AccountsInv, Requests, Ready
<1>4. \A d \in Client : reqs[d].pc # "open"
  BY <1>1 DEF AccountsInv, Lock, AccountsAssumption
<1>5. Lock'
  <2>1. reqs'[c].pc = "open" /\ reqs'[c].seen = users
    BY <1>1 DEF AccountsInv, Requests, Request
  <2>2. \A d \in Client \ {c} : reqs'[d] = reqs[d]
    BY <1>1 DEF AccountsInv, Requests
  <2> QED BY <1>1, <1>4, <2>1, <2>2 DEF Lock
<1> QED BY <1>1, <1>3, <1>5 DEF AccountsInv, Counters, Table, Issued, AdminRemains, EditorsLimited,
           TokensRedeemedOnce, Admins, Editors

LEMMA RollbackKeeps ==
  ASSUME AccountsInv, AccountsAssumption, NEW c \in Client, Rollback(c)
  PROVE  AccountsInv'
<1>1. reqs[c].pc = "open" /\ Ends(c) /\ UNCHANGED <<users, tokens, created, sets, redeemed>>
  BY DEF Rollback
<1>2. Requests' /\ Lock'
  BY <1>1, EndsKeeps DEF AccountsInv, Counters, User
<1> QED BY <1>1, <1>2 DEF AccountsInv, Counters, Table, Issued, AdminRemains, EditorsLimited,
           TokensRedeemedOnce, Admins, Editors

-----------------------------------------------------------------------------
(* Transactions that write *)

\* A row that is written over keeps an admin and the limit, if the table that was read
\* has another admin or room for an editor.
LEMMA RowWritten ==
  ASSUME AccountsInv, AccountsAssumption, NEW c \in Client, reqs[c].pc = "open", Ends(c),
         NEW id \in DOMAIN users, NEW row \in Account, users' = [users EXCEPT ![id] = row],
         sets' \in Nat, sets <= sets', row.password <= sets', UNCHANGED created,
         DOMAIN tokens \subseteq DOMAIN tokens',
         row.role # "admin" => ~LastAdmin(users, id),
         users[id].role = "viewer" => ~LimitReached(users, row.role)
  PROVE  Counters' /\ Table' /\ Requests' /\ Lock' /\ AdminRemains' /\ EditorsLimited'
<1>0. created \in Nat /\ sets \in Nat /\ Limit \in Nat /\ DOMAIN users \subseteq 1..created
  BY DEF AccountsInv, Counters, Table, User, AccountsAssumption
<1>1. Requests' /\ Lock'
  BY <1>0, EndsKeeps
<1>2. /\ DOMAIN users' = DOMAIN users /\ users'[id] = row
      /\ \A u \in DOMAIN users \ {id} : users'[u] = users[u]
  OBVIOUS
<1>3. \A u \in DOMAIN users : users[u] \in Account /\ users[u].password <= sets
  BY DEF AccountsInv, Table
<1>4. \A u \in DOMAIN users : users'[u] \in Account /\ users'[u].password <= sets'
  BY <1>0, <1>2, <1>3 DEF Account
<1>5. Counters' /\ Table'
  <2>1. users' = [u \in DOMAIN users' |-> users'[u]]
    OBVIOUS
  <2> QED BY <1>0, <1>2, <1>4, <2>1 DEF Table, Counters, AccountsInv
<1>6. AdminRemains'
  <2>1. CASE row.role = "admin"
    BY <1>2, <2>1 DEF AdminRemains, Admins
  <2>2. CASE row.role # "admin"
    <3>1. Admins(users) \ {id} # {}
      <4>1. CASE users[id].role # "admin"
        BY <4>1 DEF AccountsInv, AdminRemains, Admins
      <4>2. CASE users[id].role = "admin"
        BY <1>0, <2>2, <4>2, TablesAreFinite, AnotherAdmin DEF LastAdmin
      <4> QED BY <4>1, <4>2
    <3> QED BY <1>2, <3>1 DEF AdminRemains, Admins
  <2> QED BY <2>1, <2>2
<1>7. EditorsLimited'
  <2> SUFFICES ASSUME Limit > 0
               PROVE  Cardinality(Editors(users')) <= Limit
    BY DEF EditorsLimited
  <2>0. IsFiniteSet(Editors(users)) /\ Cardinality(Editors(users)) <= Limit
    BY <1>0, TablesAreFinite DEF AccountsInv, EditorsLimited
  <2>1. CASE users[id].role = "viewer" /\ row.role # "viewer"
    <3>1. ~(Cardinality(Editors(users)) >= Limit)
      BY <2>1 DEF LimitReached
    <3>2. Editors(users') \in SUBSET (Editors(users) \cup {id})
      BY <1>2 DEF Editors
    <3> QED BY <1>0, <2>0, <3>1, <3>2, OneEditorMore
  <2>2. CASE ~(users[id].role = "viewer" /\ row.role # "viewer")
    <3>1. Editors(users') \in SUBSET Editors(users)
      BY <1>2, <1>3, <2>2 DEF Editors, Account, Role
    <3> QED BY <1>0, <2>0, <3>1, NoEditorMore
  <2> QED BY <2>1, <2>2
<1> QED BY <1>1, <1>5, <1>6, <1>7

\* The whole row is written, from a row that is still the one in the table.
LEMMA UpdateUserKeeps ==
  ASSUME AccountsInv, AccountsAssumption, NEW c \in Client, UpdateUser(c)
  PROVE  AccountsInv' /\ \A u \in DOMAIN users : users'[u].password >= users[u].password
<1> DEFINE r == reqs[c]
           old == users[r.id]
           row == [old EXCEPT !.role = r.role, !.password = IF r.sets THEN sets + 1 ELSE @]
<1>1. r.pc = "open" /\ r.op = "update" /\ Ends(c) /\ UNCHANGED <<tokens, created, redeemed>>
  BY DEF UpdateUser, Commits
<1>2. r.seen = users
  BY <1>1 DEF AccountsInv, Lock
<1>3. /\ r.id \in DOMAIN users
      /\ r.role # "admin" => ~LastAdmin(users, r.id)
      /\ users[r.id].role = "viewer" => ~LimitReached(users, r.role)
      /\ sets' = IF r.sets THEN sets + 1 ELSE sets
      /\ users' = [users EXCEPT ![r.id] = row]
  BY <1>2 DEF UpdateUser
<1>4. r.role \in Role /\ sets \in Nat /\ created \in Nat
  BY <1>1 DEF AccountsInv, Requests, Ready, Counters, User
<1>5. old \in Account /\ old.password <= sets
  BY <1>3 DEF AccountsInv, Table
<1>6. /\ row \in Account /\ row.role = r.role /\ row.invited = old.invited
      /\ sets' \in Nat /\ sets <= sets' /\ row.password <= sets' /\ row.password >= old.password
  <2>1. old.password \in Nat
    BY <1>5 DEF Account
  <2>2. (IF r.sets THEN sets + 1 ELSE old.password) \in Nat
    BY <1>4, <2>1
  <2>3. /\ row \in Account /\ row.role = r.role /\ row.invited = old.invited
        /\ row.password = IF r.sets THEN sets + 1 ELSE old.password
    <3> DEFINE role == r.role
               password == IF r.sets THEN sets + 1 ELSE old.password
    <3>1. row = [old EXCEPT !.role = role, !.password = password]
      OBVIOUS
    <3>2. role \in Role /\ password \in Nat
      BY <1>4, <2>2
    <3> HIDE DEF old, role, password, row
    <3>3. row \in Account /\ row.role = role /\ row.invited = old.invited /\ row.password = password
      BY <1>5, <3>1, <3>2 DEF Account
    <3> QED BY <3>3 DEF role, password
  <2> HIDE DEF row, old
  <2> QED BY <1>3, <1>4, <1>5, <2>1, <2>3
<1>7. Counters' /\ Table' /\ Requests' /\ Lock' /\ AdminRemains' /\ EditorsLimited'
  <2> HIDE DEF row
  <2> QED BY <1>1, <1>3, <1>6, RowWritten
<1>8. /\ DOMAIN users' = DOMAIN users
      /\ \A u \in DOMAIN users : users'[u].invited = users[u].invited
  <2> HIDE DEF row
  <2> QED BY <1>3, <1>6
<1>9. Issued' /\ TokensRedeemedOnce'
  BY <1>1, <1>8 DEF AccountsInv, Issued, TokensRedeemedOnce
<1>10. \A u \in DOMAIN users : users'[u].password >= users[u].password
  <2> HIDE DEF row
  <2> QED BY <1>3, <1>6 DEF AccountsInv, Table, Account
<1> QED BY <1>7, <1>9, <1>10 DEF AccountsInv

\* A token sets the password of an account that is still there.
LEMMA ConfirmKeeps ==
  ASSUME AccountsInv, AccountsAssumption, NEW c \in Client, Confirm(c)
  PROVE  AccountsInv' /\ \A u \in DOMAIN users : users'[u].password >= users[u].password
<1> DEFINE t == reqs[c].id
           id == tokens[t].user
           old == users[id]
           row == [old EXCEPT !.password = sets + 1,
                              !.invited = IF tokens[t].purpose = "invite" THEN FALSE ELSE @]
<1>1. /\ reqs[c].pc = "open" /\ Ends(c) /\ UNCHANGED created
      /\ t \in DOMAIN tokens /\ ~tokens[t].used
      /\ tokens' = [tokens EXCEPT ![t].used = TRUE] /\ redeemed' = [redeemed EXCEPT ![t] = @ + 1]
      /\ sets' = sets + 1
  <2>1. t \in DOMAIN tokens
    BY DEF Confirm, Commits, AccountsInv, Requests, Ready
  <2> QED BY <2>1 DEF Confirm, Commits, Redeemable
<1>2. id \in DOMAIN users
  BY <1>1 DEF Confirm, AccountsInv, Lock
<1>3. users' = [users EXCEPT ![id] = row]
  BY DEF Confirm
<1>4. sets \in Nat /\ created \in Nat
  BY DEF AccountsInv, Counters, User
<1>5. old \in Account /\ old.password <= sets
  BY <1>2 DEF AccountsInv, Table
<1>6. /\ row \in Account /\ row.role = old.role
      /\ row.invited = (IF tokens[t].purpose = "invite" THEN FALSE ELSE old.invited)
      /\ sets' \in Nat /\ sets <= sets' /\ row.password <= sets' /\ row.password >= old.password
  <2>1. old.password \in Nat
    BY <1>5 DEF Account
  <2>2. /\ row \in Account /\ row.role = old.role /\ row.password = sets + 1
        /\ row.invited = (IF tokens[t].purpose = "invite" THEN FALSE ELSE old.invited)
    <3> DEFINE purpose == tokens[t].purpose
               password == sets + 1
    <3>1. row = [old EXCEPT !.password = password,
                            !.invited = IF purpose = "invite" THEN FALSE ELSE @]
      OBVIOUS
    <3>2. password \in Nat
      BY <1>4
    <3> HIDE DEF old, purpose, password, row
    <3>3. /\ row \in Account /\ row.role = old.role /\ row.password = password
          /\ row.invited = (IF purpose = "invite" THEN FALSE ELSE old.invited)
      BY <1>5, <3>1, <3>2 DEF Account
    <3> QED BY <3>3 DEF purpose, password
  <2> HIDE DEF row, old
  <2> QED BY <1>1, <1>4, <1>5, <2>1, <2>2
<1>7. /\ row.role # "admin" => ~LastAdmin(users, id)
      /\ users[id].role = "viewer" => ~LimitReached(users, row.role)
  BY <1>6 DEF LastAdmin, LimitReached
<1>8. Counters' /\ Table' /\ Requests' /\ Lock' /\ AdminRemains' /\ EditorsLimited'
  <2> HIDE DEF row, id
  <2> QED BY <1>1, <1>2, <1>3, <1>6, <1>7, RowWritten
<1>9. Issued'
  <2>1. [tokens[t] EXCEPT !.used = TRUE] \in [user : 1..created, purpose : Purpose, used : BOOLEAN]
    BY <1>1 DEF AccountsInv, Issued
  <2>2. redeemed[t] + 1 \in Nat
    BY <1>1 DEF AccountsInv, Issued
  <2> QED BY <1>1, <2>1, <2>2 DEF AccountsInv, Issued
<1>10. TokensRedeemedOnce'
  <2>1. /\ DOMAIN users' = DOMAIN users /\ users'[id] = row
        /\ \A u \in DOMAIN users \ {id} : users'[u] = users[u]
    <3> HIDE DEF row, id
    <3> QED BY <1>2, <1>3
  <2>2. /\ DOMAIN tokens' = DOMAIN tokens
        /\ \A s \in DOMAIN tokens : tokens'[s].user = tokens[s].user
                                   /\ tokens'[s].purpose = tokens[s].purpose
        /\ \A s \in DOMAIN tokens : tokens'[s].used <=> (tokens[s].used \/ s = t)
        /\ \A s \in DOMAIN tokens : redeemed'[s] = IF s = t THEN redeemed[s] + 1 ELSE redeemed[s]
    BY <1>1 DEF AccountsInv, Issued
  <2>3. \A s \in DOMAIN tokens : redeemed'[s] = IF tokens'[s].used THEN 1 ELSE 0
    BY <1>1, <2>2 DEF AccountsInv, TokensRedeemedOnce
  <2>4. ASSUME NEW s \in DOMAIN tokens, tokens'[s].used, tokens'[s].purpose = "invite",
               tokens'[s].user \in DOMAIN users'
        PROVE  ~users'[tokens'[s].user].invited
    <3>1. CASE s = t
      BY <1>6, <2>1, <2>2, <2>4, <3>1
    <3>2. CASE s # t
      <4>1. ~users[tokens[s].user].invited
        BY <2>1, <2>2, <2>4, <3>2 DEF AccountsInv, TokensRedeemedOnce
      <4>2. CASE tokens[s].user = id
        <5>1. ~old.invited
          BY <4>1, <4>2
        <5>2. ~row.invited
          BY <1>6, <5>1
        <5>3. users'[tokens'[s].user] = row
          <6> HIDE DEF row, id
          <6> QED BY <2>1, <2>2, <4>2
        <5> QED BY <5>2, <5>3
      <4>3. CASE tokens[s].user # id
        BY <2>1, <2>2, <2>4, <4>1, <4>3
      <4> QED BY <4>2, <4>3
    <3> QED BY <3>1, <3>2
  <2> QED BY <2>2, <2>3, <2>4 DEF TokensRedeemedOnce
<1>11. \A u \in DOMAIN users : users'[u].password >= users[u].password
  <2> HIDE DEF row, id
  <2> QED BY <1>2, <1>3, <1>6 DEF AccountsInv, Table, Account
<1> QED BY <1>8, <1>9, <1>10, <1>11 DEF AccountsInv

\* No admin is deleted, and what a token says of an account that is gone is void.
LEMMA DeleteUserKeeps ==
  ASSUME AccountsInv, AccountsAssumption, NEW c \in Client, DeleteUser(c)
  PROVE  AccountsInv' /\ \A u \in DOMAIN users' : users'[u] = users[u]
<1> DEFINE id == reqs[c].id
<1>1. reqs[c].pc = "open" /\ Ends(c) /\ UNCHANGED <<tokens, created, sets, redeemed>>
  BY DEF DeleteUser, Commits
<1>2. /\ id \in DOMAIN users /\ users[id].role # "admin"
      /\ users' = [u \in DOMAIN users \ {id} |-> users[u]]
  BY <1>1 DEF DeleteUser, AccountsInv, Lock
<1>3. DOMAIN users' = DOMAIN users \ {id} /\ \A u \in DOMAIN users' : users'[u] = users[u]
  BY <1>2
<1>4. created \in Nat /\ Limit \in Nat /\ DOMAIN users \subseteq 1..created
  BY DEF AccountsInv, Counters, Table, User, AccountsAssumption
<1>5. Requests' /\ Lock'
  BY <1>1, <1>4, EndsKeeps
<1>6. Counters' /\ Table'
  BY <1>1, <1>2, <1>3 DEF AccountsInv, Counters, Table
<1>7. AdminRemains'
  BY <1>2, <1>3 DEF AccountsInv, AdminRemains, Admins
<1>8. EditorsLimited'
  <2> SUFFICES ASSUME Limit > 0
               PROVE  Cardinality(Editors(users')) <= Limit
    BY DEF EditorsLimited
  <2>1. IsFiniteSet(Editors(users)) /\ Cardinality(Editors(users)) <= Limit
    BY <1>4, TablesAreFinite DEF AccountsInv, EditorsLimited
  <2>2. Editors(users') \in SUBSET Editors(users)
    BY <1>3 DEF Editors
  <2> QED BY <1>4, <2>1, <2>2, NoEditorMore
<1>9. Issued' /\ TokensRedeemedOnce'
  BY <1>1, <1>3 DEF AccountsInv, Issued, TokensRedeemedOnce
<1> QED BY <1>3, <1>5, <1>6, <1>7, <1>8, <1>9 DEF AccountsInv

\* An account more, within the limit of the table that was read.
LEMMA CreateUserKeeps ==
  ASSUME AccountsInv, AccountsAssumption, NEW c \in Client, CreateUser(c)
  PROVE  AccountsInv' /\ \A u \in DOMAIN users : users'[u] = users[u]
<1> DEFINE r == reqs[c]
           id == created + 1
           new == [role |-> r.role, password |-> sets + 1, invited |-> r.invites]
           issue == [Idle EXCEPT !.pc = "issue", !.id = id, !.purpose = "invite"]
           next == IF r.invites THEN issue ELSE Idle
<1>1. /\ r.pc = "open" /\ r.op = "create" /\ created < MaxUsers
      /\ created' = id /\ sets' = sets + 1 /\ holder' = Nobody
      /\ reqs' = [reqs EXCEPT ![c] = next] /\ UNCHANGED <<tokens, redeemed>>
      /\ users' = [u \in DOMAIN users \cup {id} |-> IF u = id THEN new ELSE users[u]]
  BY DEF CreateUser, Commits
<1>2. holder = c /\ r.seen = users /\ r \in Request /\ r.role \in Role
  BY <1>1 DEF AccountsInv, Lock, Requests, Ready
<1>3. ~LimitReached(users, r.role)
  BY <1>2 DEF CreateUser
<1>4. /\ created \in 1..MaxUsers /\ MaxUsers \in Nat /\ Limit \in Nat /\ sets \in Nat
      /\ DOMAIN users \subseteq 1..created
  BY DEF AccountsInv, Counters, Table, User, AccountsAssumption
<1>5. id \in 1..MaxUsers /\ id \notin DOMAIN users
  BY <1>1, <1>4
<1>6. new \in Account /\ new.password = sets + 1 /\ new.role = r.role
  <2>1. sets + 1 \in Nat
    BY <1>4
  <2> HIDE DEF r
  <2>2. r.invites \in BOOLEAN
    BY <1>2 DEF Request
  <2> QED BY <1>2, <2>1, <2>2 DEF Account
<1>7. /\ DOMAIN users' = DOMAIN users \cup {id} /\ users'[id] = new
      /\ \A u \in DOMAIN users : users'[u] = users[u]
  <2> HIDE DEF new, id
  <2> QED BY <1>1, <1>5
<1>8. \A u \in DOMAIN users : users[u] \in Account /\ users[u].password <= sets
  BY DEF AccountsInv, Table
<1>9. Counters'
  BY <1>1, <1>4, <1>5 DEF Counters, User
<1>10. Table'
  <2>1. \A u \in DOMAIN users' : users'[u] \in Account /\ users'[u].password <= sets'
    <3> HIDE DEF new
    <3> QED BY <1>1, <1>4, <1>6, <1>7, <1>8 DEF Account
  <2>2. users' = [u \in DOMAIN users' |-> users'[u]] /\ DOMAIN users' \subseteq 1..created'
    <3> HIDE DEF new
    <3> QED BY <1>1, <1>4, <1>7
  <2> QED BY <2>1, <2>2 DEF Table
<1>11. /\ next \in Request /\ next.pc # "open" /\ next.op = "none"
       /\ next.pc = "issue" => next.id \in 1..created' /\ next.purpose \in Purpose
  <2>1. issue \in Request /\ issue.pc = "issue" /\ issue.id = id /\ issue.purpose = "invite"
        /\ issue.op = "none"
    <3>1. id \in Nat /\ "invite" \in Purpose
      BY <1>4 DEF Purpose
    <3> HIDE DEF id
    <3>2. issue \in Request
      BY <3>1, IdleIsRequest DEF Request
    <3> QED BY <3>1, <3>2 DEF Idle
  <2>2. id \in 1..created'
    BY <1>1, <1>4
  <2>3. Idle.op = "none" /\ Idle.pc = "idle" /\ Idle \in Request
    BY IdleIsRequest DEF Idle
  <2> HIDE DEF issue, id
  <2> QED BY <2>1, <2>2, <2>3 DEF Purpose
<1>12. Requests'
  <2> HIDE DEF next
  <2>1. ASSUME NEW d \in Client
        PROVE  Ready(reqs[d])'
    <3>1. CASE d = c
      <4>1. reqs'[d] = next
        BY <1>1, <3>1 DEF AccountsInv, Requests
      <4> QED BY <1>11, <4>1 DEF Ready
    <3>2. CASE d # c
      <4>1. reqs'[d] = reqs[d] /\ Ready(reqs[d]) /\ 1..created \subseteq 1..created'
        BY <1>1, <1>4, <3>2 DEF AccountsInv, Requests
      <4> QED BY <1>1, <4>1 DEF Ready
    <3> QED BY <3>1, <3>2
  <2> QED BY <1>1, <1>11, <2>1 DEF AccountsInv, Requests
<1>13. Lock'
  <2> HIDE DEF next
  <2> QED BY <1>1, <1>2, <1>11 DEF AccountsInv, Lock, Requests, AccountsAssumption
<1>14. AdminRemains'
  BY <1>7 DEF AccountsInv, AdminRemains, Admins
<1>15. EditorsLimited'
  <2> SUFFICES ASSUME Limit > 0
               PROVE  Cardinality(Editors(users')) <= Limit
    BY DEF EditorsLimited
  <2>1. IsFiniteSet(Editors(users)) /\ Cardinality(Editors(users)) <= Limit
    BY <1>4, TablesAreFinite DEF AccountsInv, EditorsLimited
  <2>2. CASE r.role = "viewer"
    <3>1. Editors(users') \in SUBSET Editors(users)
      BY <1>6, <1>7, <2>2 DEF Editors
    <3> QED BY <1>4, <2>1, <3>1, NoEditorMore
  <2>3. CASE r.role # "viewer"
    <3>1. ~(Cardinality(Editors(users)) >= Limit)
      BY <1>3, <2>3 DEF LimitReached
    <3>2. Editors(users') \in SUBSET (Editors(users) \cup {id})
      BY <1>7 DEF Editors
    <3> QED BY <1>4, <2>1, <3>1, <3>2, OneEditorMore
  <2> QED BY <2>2, <2>3
<1>16. Issued'
  BY <1>1, <1>4 DEF AccountsInv, Issued
<1>17. TokensRedeemedOnce'
  <2>1. \A t \in DOMAIN tokens : tokens[t].user # id
    BY <1>4 DEF AccountsInv, Issued
  <2> HIDE DEF new, id
  <2> QED BY <1>1, <1>7, <2>1 DEF AccountsInv, TokensRedeemedOnce
<1> QED BY <1>7, <1>9, <1>10, <1>12, <1>13, <1>14, <1>15, <1>16, <1>17 DEF AccountsInv

-----------------------------------------------------------------------------
(* The invariant *)

\* The default admin is an admin, and one editor is within any limit.
LEMMA InitKeeps ==
  ASSUME AccountsAssumption, AccountsInit
  PROVE  AccountsInv
<1>1. /\ DOMAIN users = {1} /\ users[1].role = "admin" /\ users[1].password = 1
      /\ users \in [DOMAIN users -> Account] /\ created = 1 /\ sets = 1
  BY DEF AccountsInit, Account, Role
<1>2. MaxUsers \in Nat /\ MaxUsers > 0 /\ Limit \in Nat
  BY DEF AccountsAssumption
<1>3. Counters /\ Table
  BY <1>1, <1>2 DEF Counters, Table, User
<1>4. Requests /\ Lock
  BY IdleIsRequest DEF AccountsInit, Requests, Lock, AccountsAssumption
<1>5. tokens = NoTable /\ redeemed = NoTable /\ DOMAIN NoTable = {}
  BY DEF AccountsInit, NoTable
<1>6. Issued /\ TokensRedeemedOnce
  <2>1. NoTable \in [{} -> Nat] /\ NoTable \in [{} -> [user : 1..created, purpose : Purpose, used : BOOLEAN]]
    BY DEF NoTable
  <2> QED BY <1>5, <2>1 DEF Issued, TokensRedeemedOnce
<1>7. AdminRemains
  BY <1>1 DEF AdminRemains, Admins
<1>8. EditorsLimited
  <2>1. Editors(users) = {1}
    BY <1>1 DEF Editors
  <2>2. Cardinality({1}) = 1
    BY FS_Singleton
  <2> QED BY <1>2, <2>1, <2>2 DEF EditorsLimited
<1> QED BY <1>3, <1>4, <1>6, <1>7, <1>8 DEF AccountsInv

LEMMA StutterKeeps ==
  ASSUME AccountsInv, UNCHANGED accountVars
  PROVE  AccountsInv'
BY DEF accountVars, AccountsInv, Counters, Table, Requests, Ready, Lock, Issued, AdminRemains,
   EditorsLimited, TokensRedeemedOnce, Admins, Editors

LEMMA NextKeeps ==
  ASSUME AccountsInv, AccountsAssumption, [AccountsNext]_accountVars
  PROVE  AccountsInv'
<1>1. ASSUME NEW c \in Client, Asks(c)
      PROVE  AccountsInv'
  BY <1>1, AsksKeep
<1>2. ASSUME NEW c \in Client, Works(c)
      PROVE  AccountsInv'
  BY <1>2, WritePasswordKeeps, IssueTokenKeeps, BeginKeeps, RollbackKeeps, CreateUserKeeps,
     UpdateUserKeeps, DeleteUserKeeps, ConfirmKeeps DEF Works
<1> QED BY <1>1, <1>2, StutterKeeps DEF AccountsNext

LEMMA AccountsInvariant == AccountsSpec => []AccountsInv
<1> USE AccountsAssumption
<1>1. AccountsInit => AccountsInv
  BY InitKeeps
<1>2. AccountsInv /\ [AccountsNext]_accountVars => AccountsInv'
  BY NextKeeps
<1> QED BY <1>1, <1>2, PTL DEF AccountsSpec

-----------------------------------------------------------------------------
(* The theorems *)

\* The accounts are well-formed, and the transaction that has the table open is the one
\* that locked it and has read it as it is (users and reqs of user_store.go's
\* transactions).
THEOREM AccountTypes == AccountsSpec => []AccountsTypeOK
<1>1. AccountsInv => AccountsTypeOK
  BY DEF AccountsInv, Counters, Table, Lock, AccountsTypeOK
<1> QED BY <1>1, AccountsInvariant, PTL

\* However demotions, deletions and profile updates interleave, an admin remains: the
\* last admin is counted while the table is locked.
THEOREM AdminStays == AccountsSpec => []AdminRemains
<1>1. AccountsInv => AdminRemains
  BY DEF AccountsInv
<1> QED BY <1>1, AccountsInvariant, PTL

\* The editors that checkEditorLimit allows are never exceeded, for any limit.
THEOREM EditorsStayLimited == AccountsSpec => []EditorsLimited
<1>1. AccountsInv => EditorsLimited
  BY DEF AccountsInv
<1> QED BY <1>1, AccountsInvariant, PTL

\* Together: changes of roles that run at the same time pass neither end.
THEOREM RolesStayWithinLimits == AccountsSpec => []RolesWithinLimits
<1>1. AdminRemains /\ EditorsLimited => RolesWithinLimits  BY DEF RolesWithinLimits
<1>2. QED  BY <1>1, AdminStays, EditorsStayLimited, PTL

\* A token sets a password once and is consumed by it, and ends the invitation it is for.
THEOREM TokensAreRedeemedOnce == AccountsSpec => []TokensRedeemedOnce
<1>1. AccountsInv => TokensRedeemedOnce
  BY DEF AccountsInv
<1> QED BY <1>1, AccountsInvariant, PTL

\* No write of a whole row brings back a password that has been replaced.
THEOREM PasswordsOnlyAdvance == AccountsSpec => PasswordsAdvance
<1> DEFINE Advance == \A u \in DOMAIN users \cap DOMAIN users' : users'[u].password >= users[u].password
<1>1. AccountsInv /\ UNCHANGED users => Advance
  BY DEF AccountsInv, Table, Account
<1>2. ASSUME AccountsInv, NEW c \in Client, Asks(c)
      PROVE  UNCHANGED users
  BY <1>2 DEF Asks, AskCreate, AskUpdate, AskUpdateOwn, AskDelete, AskPassword, AskToken,
     AskConfirm, Ask
<1>3. ASSUME AccountsInv, NEW c \in Client, WritePassword(c)
      PROVE  Advance
  <2>1. CASE UNCHANGED users
    BY <1>1, <1>3, <2>1
  <2>2. CASE ~UNCHANGED users
    <3>1. users' = [users EXCEPT ![reqs[c].id].password = sets + 1] /\ reqs[c].id \in DOMAIN users
      BY <1>3, <2>2 DEF WritePassword
    <3>2. \A u \in DOMAIN users : /\ users[u] \in Account /\ users[u].password <= sets
                                 /\ users[u].password \in Nat /\ sets \in Nat
      BY <1>3 DEF AccountsInv, Table, Account, Counters
    <3>3. \A u \in DOMAIN users : users'[u].password = IF u = reqs[c].id THEN sets + 1 ELSE users[u].password
      BY <3>1, <3>2 DEF Account
    <3> QED BY <3>2, <3>3
  <2> QED BY <2>1, <2>2
<1>4. ASSUME AccountsInv, NEW c \in Client, UpdateUser(c) \/ Confirm(c)
      PROVE  Advance
  BY <1>4, AccountsAssumption, UpdateUserKeeps, ConfirmKeeps
<1>5. ASSUME AccountsInv, NEW c \in Client, CreateUser(c) \/ DeleteUser(c)
      PROVE  Advance
  <2>1. \A u \in DOMAIN users \cap DOMAIN users' : users'[u] = users[u]
    BY <1>5, AccountsAssumption, CreateUserKeeps, DeleteUserKeeps
  <2>2. \A u \in DOMAIN users : users[u].password \in Nat
    BY <1>5 DEF AccountsInv, Table, Account
  <2> QED BY <2>1, <2>2
<1>6. ASSUME AccountsInv, NEW c \in Client, IssueToken(c) \/ Begin(c) \/ Rollback(c)
      PROVE  UNCHANGED users
  BY <1>6 DEF IssueToken, Begin, Rollback
<1>7. AccountsInv /\ [AccountsNext]_accountVars => [Advance]_accountVars
  <2> HIDE DEF Advance
  <2> QED BY <1>1, <1>2, <1>3, <1>4, <1>5, <1>6 DEF AccountsNext, Works
<1> QED BY <1>7, AccountsInvariant, PTL DEF AccountsSpec, PasswordsAdvance

-----------------------------------------------------------------------------
(* Sessions and the second factor *)

Session == [kind : {"refresh", "challenge"}, who : Person, from : Nat, active : BOOLEAN]
Factor == [on : BOOLEAN, secret : Nat, codes : SUBSET RecoveryCode]
Holds == {"complete", "confirm", "disable"}

\* A challenge that gave a session is revoked, and gave no other.
ChallengesOnce ==
  /\ sessions \in Seq(Session)
  /\ \A s \in 1 .. Len(sessions) :
       /\ sessions[s].from \in 0 .. Len(sessions)
       /\ sessions[s].from > 0 /\ sessions[sessions[s].from].kind = "challenge" =>
            /\ ~sessions[sessions[s].from].active
            /\ \A t \in 1 .. Len(sessions) : sessions[t].from = sessions[s].from => t = s

\* A recovery code that can still be used was not accepted.
CodesOnce ==
  /\ factors \in [Person -> Factor] /\ accepted \in [Person -> [RecoveryCode -> Nat]]
  /\ \A p \in Person, k \in RecoveryCode :
       accepted[p][k] <= 1 /\ (k \in factors[p].codes => accepted[p][k] = 0)

\* What a call has read and still relies on: under the lock of the table, the factor as it
\* is, and a challenge that has given no session.
CallKept(c) ==
  LET call == calls[c] IN
  /\ call.pc \in {"issue", "challenge", "pending"} \cup Holds => call.who \in Person
  /\ call.pc = "refresh" => call.session \in 1 .. Len(sessions) /\ sessions[call.session].kind = "refresh"
  /\ call.pc \in Holds <=> table = c
  /\ call.pc \in Holds => call.seen = factors[call.who]
  /\ call.pc = "complete" => /\ call.session \in 1 .. Len(sessions)
                             /\ sessions[call.session].kind = "challenge"
                             /\ \A s \in 1 .. Len(sessions) : sessions[s].from # call.session

SessionsInv ==
  /\ ChallengesOnce /\ CodesOnce /\ table \in Caller \cup {NoCaller} /\ secrets \in Nat
  /\ calls = [c \in Caller |-> calls[c]] /\ \A c \in Caller : CallKept(c)

\* The rows keep their kind and their origin, none becomes active again, and a new one comes from f.
Grown(f) ==
  /\ ChallengesOnce' /\ Len(sessions) \in Nat /\ Len(sessions') \in Nat /\ Len(sessions) <= Len(sessions')
  /\ \A s \in 1 .. Len(sessions) : /\ sessions'[s].kind = sessions[s].kind
                                   /\ sessions'[s].from = sessions[s].from
  /\ \A s \in 1 .. Len(sessions') : s > Len(sessions) => sessions'[s].from = f

LEMMA SessionRows ==
  ASSUME ChallengesOnce
  PROVE  /\ DOMAIN sessions = 1 .. Len(sessions) /\ Len(sessions) \in Nat
         /\ \A s \in 1 .. Len(sessions) : sessions[s] \in Session /\ sessions[s].who \in Person
<1>1. sessions \in Seq(Session)
  BY DEF ChallengesOnce
<1>2. \A s \in 1 .. Len(sessions) : sessions[s] \in Session
  BY <1>1
<1> QED BY <1>1, <1>2 DEF Session

LEMMA Revoking ==
  ASSUME ChallengesOnce, NEW ids, NEW rows, rows = Revoke(sessions, ids)
  PROVE  /\ rows \in Seq(Session) /\ Len(rows) = Len(sessions) /\ Len(sessions) \in Nat
         /\ \A s \in 1 .. Len(sessions) :
              /\ rows[s].kind = sessions[s].kind /\ rows[s].from = sessions[s].from
              /\ rows[s].active => sessions[s].active /\ s \notin ids
<1>1. sessions \in Seq(Session) /\ Len(sessions) \in Nat /\ DOMAIN sessions = 1 .. Len(sessions)
  BY DEF ChallengesOnce
<1>2. rows = [s \in 1 .. Len(sessions) |-> rows[s]] /\ DOMAIN rows = 1 .. Len(sessions)
  BY <1>1 DEF Revoke
<1>3. ASSUME NEW s \in 1 .. Len(sessions)
      PROVE  /\ rows[s] \in Session /\ rows[s].kind = sessions[s].kind
             /\ rows[s].from = sessions[s].from
             /\ rows[s].active => sessions[s].active /\ s \notin ids
  <2>1. sessions[s] \in Session
    BY <1>1
  <2>2. PICK active \in BOOLEAN : active = (sessions[s].active /\ s \notin ids)
    OBVIOUS
  <2>3. rows[s] = [sessions[s] EXCEPT !.active = active]
    BY <1>1, <2>2 DEF Revoke
  <2> QED BY <2>1, <2>2, <2>3 DEF Session
<1> QED BY <1>1, <1>2, <1>3

LEMMA Shrinking ==
  ASSUME ChallengesOnce, NEW ids, sessions' = Revoke(sessions, ids)
  PROVE  Grown(0)
<1>1. PICK rows : rows = Revoke(sessions, ids)
  OBVIOUS
<1>2. /\ rows \in Seq(Session) /\ Len(rows) = Len(sessions) /\ Len(sessions) \in Nat
      /\ \A s \in 1 .. Len(sessions) :
           /\ rows[s].kind = sessions[s].kind /\ rows[s].from = sessions[s].from
           /\ rows[s].active => sessions[s].active /\ s \notin ids
  BY <1>1, Revoking
<1>3. sessions' = rows
  BY <1>1
<1>4. \A s \in 1 .. Len(sessions) : sessions[s].from > 0 => sessions[s].from \in 1 .. Len(sessions)
  BY <1>2 DEF ChallengesOnce
<1>5. ChallengesOnce'
  BY <1>2, <1>3, <1>4 DEF ChallengesOnce
<1> QED BY <1>2, <1>3, <1>5 DEF Grown

LEMMA Staying ==
  ASSUME ChallengesOnce, UNCHANGED sessions
  PROVE  Grown(0)
BY DEF ChallengesOnce, Grown

\* A session comes from nothing, from a session, or from a challenge that has given none.
LEMMA Issuing ==
  ASSUME ChallengesOnce, NEW rows \in Seq(Session), Len(rows) = Len(sessions), NEW row \in Session,
         \A s \in 1 .. Len(sessions) : /\ rows[s].kind = sessions[s].kind
                                       /\ rows[s].from = sessions[s].from
                                       /\ rows[s].active => sessions[s].active,
         row.from \in 0 .. Len(sessions),
         row.from > 0 /\ rows[row.from].kind = "challenge" =>
           ~rows[row.from].active /\ \A s \in 1 .. Len(sessions) : sessions[s].from # row.from,
         sessions' = Append(rows, row)
  PROVE  Grown(row.from)
<1>1. PICK n : n = Len(sessions)
  OBVIOUS
<1>2. n \in Nat
  BY <1>1 DEF ChallengesOnce
<1>3. /\ sessions' \in Seq(Session) /\ Len(sessions') = n + 1 /\ sessions'[n + 1] = row
      /\ \A s \in 1 .. n : sessions'[s] = rows[s]
  BY <1>1, <1>2
<1>4. ASSUME NEW s \in 1 .. n
      PROVE  /\ sessions[s].from \in 0 .. n
             /\ sessions[s].from > 0 /\ sessions[sessions[s].from].kind = "challenge" =>
                  /\ ~sessions[sessions[s].from].active
                  /\ \A t \in 1 .. n : sessions[t].from = sessions[s].from => t = s
  BY <1>1 DEF ChallengesOnce
<1>5. ASSUME NEW s \in 1 .. n
      PROVE  /\ sessions'[s].from \in 0 .. n + 1
             /\ sessions'[s].from > 0 /\ sessions'[sessions'[s].from].kind = "challenge" =>
                  /\ ~sessions'[sessions'[s].from].active
                  /\ \A t \in 1 .. n + 1 : sessions'[t].from = sessions'[s].from => t = s
  <2>1. sessions'[s].from = sessions[s].from
    BY <1>1, <1>3
  <2>2. sessions[s].from \in 0 .. n + 1
    BY <1>2, <1>4
  <2>3. CASE sessions[s].from > 0 /\ sessions'[sessions[s].from].kind = "challenge"
    <3>1. PICK f \in 1 .. n : f = sessions[s].from
      BY <1>2, <1>4, <2>3
    <3>2. sessions'[f] = rows[f] /\ rows[f].kind = "challenge" /\ sessions[f].kind = "challenge"
      BY <1>1, <1>3, <2>3, <3>1
    <3>3. ~sessions[f].active /\ \A t \in 1 .. n : sessions[t].from = f => t = s
      BY <1>2, <1>4, <3>1, <3>2
    <3>4. ~sessions'[f].active
      BY <1>1, <3>2, <3>3
    <3>5. row.from # f
      BY <1>1, <1>2, <3>1, <3>2
    <3>6. \A t \in 1 .. n + 1 : sessions'[t].from = f => t = s
      <4> SUFFICES ASSUME NEW t \in 1 .. n + 1, sessions'[t].from = f
                   PROVE  t = s
        OBVIOUS
      <4>1. t # n + 1
        BY <1>3, <3>5
      <4>2. t \in 1 .. n
        BY <1>2, <4>1
      <4>3. sessions'[t] = rows[t] /\ sessions[t].from = rows[t].from
        BY <1>1, <1>3, <4>2
      <4> QED BY <3>3, <4>2, <4>3
    <3> QED BY <2>1, <2>2, <3>1, <3>4, <3>6
  <2> QED BY <2>1, <2>2, <2>3
<1>6. /\ row.from \in 0 .. n + 1
      /\ row.from > 0 /\ sessions'[row.from].kind = "challenge" =>
           /\ ~sessions'[row.from].active
           /\ \A t \in 1 .. n + 1 : sessions'[t].from = row.from => t = n + 1
  <2>1. row.from \in 0 .. n + 1
    BY <1>1, <1>2
  <2>2. CASE row.from > 0 /\ sessions'[row.from].kind = "challenge"
    <3>1. row.from \in 1 .. n /\ sessions'[row.from] = rows[row.from]
      BY <1>1, <1>2, <1>3, <2>2
    <3>2. ~rows[row.from].active /\ \A s \in 1 .. n : sessions[s].from # row.from
      BY <1>1, <2>2, <3>1
    <3>3. \A t \in 1 .. n + 1 : t # n + 1 => t \in 1 .. n
      BY <1>2
    <3>4. \A t \in 1 .. n : sessions'[t].from = sessions[t].from
      BY <1>1, <1>3
    <3> QED BY <2>1, <3>1, <3>2, <3>3, <3>4
  <2> QED BY <2>1, <2>2
<1>7. ChallengesOnce'
  <2>1. \A s \in 1 .. n + 1 : s = n + 1 \/ s \in 1 .. n
    BY <1>2
  <2> QED BY <1>3, <1>5, <1>6, <2>1 DEF ChallengesOnce
<1>8. \A s \in 1 .. n + 1 : s > n => s = n + 1
  BY <1>2
<1> QED BY <1>1, <1>2, <1>3, <1>7, <1>8 DEF Grown

\* A call that stays is as right as before.
LEMMA OtherCalls ==
  ASSUME SessionsInv, NEW c \in Caller, calls'[c] = calls[c], table' = c <=> table = c,
         table = c => factors'[calls[c].who] = factors[calls[c].who],
         NEW f, Grown(f), calls[c].pc = "complete" => calls[c].session # f
  PROVE  CallKept(c)'
<1>1. CallKept(c)
  BY DEF SessionsInv
<1>2. \A s \in 1 .. Len(sessions) : s \in 1 .. Len(sessions') /\ sessions'[s].kind = sessions[s].kind
  BY DEF Grown
<1>3. ASSUME calls[c].pc = "complete"
      PROVE  \A s \in 1 .. Len(sessions') : sessions'[s].from # calls[c].session
  <2> SUFFICES ASSUME NEW s \in 1 .. Len(sessions')
               PROVE  sessions'[s].from # calls[c].session
    OBVIOUS
  <2>1. CASE s \in 1 .. Len(sessions)
    BY <1>1, <1>3, <2>1 DEF Grown, CallKept
  <2>2. CASE s > Len(sessions)
    BY <1>3, <2>2 DEF Grown
  <2> QED BY <2>1, <2>2 DEF Grown
<1> QED BY <1>1, <1>2, <1>3 DEF CallKept

LEMMA RestingKept ==
  ASSUME NEW c \in Caller, calls'[c] = Resting, table' # c
  PROVE  CallKept(c)'
<1>1. Resting.pc = "resting"
  BY DEF Resting
<1>2. calls'[c].pc = "resting"
  BY <1>1
<1> QED BY <1>2 DEF CallKept, Holds

\* A step of c that leaves the factors, and the table or gives it back.
LEMMA CallerSteps ==
  ASSUME SessionsInv, NEW c \in Caller, NEW x, calls' = [calls EXCEPT ![c] = x], CallKept(c)',
         CodesOnce', secrets' \in Nat, table' \in Caller \cup {NoCaller},
         \A d \in Caller : d # c => (table' = d <=> table = d),
         \A d \in Caller : d # c /\ table = d => factors'[calls[d].who] = factors[calls[d].who],
         NEW f, Grown(f), \A d \in Caller : d # c /\ calls[d].pc = "complete" => calls[d].session # f
  PROVE  SessionsInv'
<1>1. calls' = [d \in Caller |-> calls'[d]] /\ \A d \in Caller : d # c => calls'[d] = calls[d]
  BY DEF SessionsInv
<1>2. ASSUME NEW d \in Caller, d # c
      PROVE  CallKept(d)'
  BY <1>1, <1>2, OtherCalls
<1> QED BY <1>1, <1>2 DEF SessionsInv, Grown

\* A step of c that neither holds nor takes the table, and leaves the factors
LEMMA FreeSteps ==
  ASSUME SessionsInv, NEW c \in Caller, NEW x, calls' = [calls EXCEPT ![c] = x], table # c,
         x.pc \notin Holds, x.pc \in {"issue", "challenge", "pending"} => x.who \in Person,
         x.pc = "refresh" => x.session \in 1 .. Len(sessions) /\ sessions[x.session].kind = "refresh",
         UNCHANGED <<factors, table, accepted, secrets>>,
         NEW f, Grown(f), \A d \in Caller : calls[d].pc = "complete" => calls[d].session # f
  PROVE  SessionsInv'
<1>1. calls'[c] = x
  BY DEF SessionsInv
<1>2. x.pc = "refresh" => x.session \in 1 .. Len(sessions') /\ sessions'[x.session].kind = "refresh"
  BY DEF Grown
<1>3. CallKept(c)'
  BY <1>1, <1>2 DEF CallKept, Holds
<1>4. CodesOnce'
  BY DEF SessionsInv, CodesOnce
<1>5. table' \in Caller \cup {NoCaller} /\ secrets' \in Nat
  BY DEF SessionsInv
<1>6. /\ \A d \in Caller : d # c => (table' = d <=> table = d)
      /\ \A d \in Caller : d # c /\ table = d => factors'[calls[d].who] = factors[calls[d].who]
      /\ \A d \in Caller : d # c /\ calls[d].pc = "complete" => calls[d].session # f
  OBVIOUS
<1> QED BY <1>3, <1>4, <1>5, <1>6, CallerSteps

\* What a step of c knows of the calls
LEMMA Calling ==
  ASSUME SessionsInv, NEW c \in Caller
  PROVE  /\ calls[c].pc \notin Holds => table # c
         /\ \A d \in Caller : calls[d].pc = "complete" => calls[d].session \in 1 .. Len(sessions)
         /\ \A d \in Caller : calls[d].pc = "complete" => table = d
BY DEF SessionsInv, CallKept, Holds

LEMMA NoneFromNothing ==
  ASSUME SessionsInv
  PROVE  \A d \in Caller : calls[d].pc = "complete" => calls[d].session # 0
BY Calling

LEMMA LoginKeeps ==
  ASSUME SessionsInv, NEW c \in Caller, NEW p \in Person, NEW right \in BOOLEAN, Login(c, p, right)
  PROVE  SessionsInv'
<1>1. PICK x : /\ calls' = [calls EXCEPT ![c] = x] /\ x.pc \in {"issue", "challenge", "resting"}
               /\ x.pc # "resting" => x.who = p
  <2>1. PICK pc \in {"issue", "challenge"} : pc = IF factors[p].on THEN "challenge" ELSE "issue"
    OBVIOUS
  <2>2. PICK y : y = [Resting EXCEPT !.pc = pc, !.who = p]
    OBVIOUS
  <2>3. y.pc = pc /\ y.who = p /\ Resting.pc = "resting"
    BY <2>2 DEF Resting
  <2>4. calls' = [calls EXCEPT ![c] = IF right THEN y ELSE Resting]
    BY <2>1, <2>2 DEF Login
  <2>5. CASE right
    BY <2>3, <2>4, <2>5
  <2>6. CASE ~right
    BY <2>3, <2>4, <2>6
  <2> QED BY <2>5, <2>6
<1>2. calls[c].pc = "resting" /\ UNCHANGED <<factors, sessions, table, secrets, accepted>>
  BY DEF Login
<1>3. Grown(0)
  BY <1>2, Staying DEF SessionsInv
<1>4. table # c
  BY <1>2, Calling DEF Holds
<1>5. x.pc \notin Holds /\ x.pc # "refresh"
  BY <1>1 DEF Holds
<1>6. x.pc \in {"issue", "challenge", "pending"} => x.who \in Person
  BY <1>1
<1> QED BY <1>1, <1>2, <1>3, <1>4, <1>5, <1>6, NoneFromNothing, FreeSteps

LEMMA SetupOrRefresh ==
  ASSUME SessionsInv, NEW c \in Caller,
         \/ \E p \in Person : StartSetup(c, p)
         \/ \E s \in DOMAIN sessions : Refresh(c, s)
  PROVE  SessionsInv'
<1>1. calls[c].pc = "resting" /\ UNCHANGED <<factors, sessions, table, secrets, accepted>>
  BY DEF StartSetup, Refresh
<1>2. Grown(0) /\ table # c
  BY <1>1, Staying, Calling DEF SessionsInv, Holds
<1>3. CASE \E p \in Person : StartSetup(c, p)
  <2>1. PICK p \in Person : StartSetup(c, p)
    BY <1>3
  <2>2. PICK x : x = [Resting EXCEPT !.pc = "pending", !.who = p]
    OBVIOUS
  <2>3. calls' = [calls EXCEPT ![c] = x] /\ x.pc = "pending" /\ x.who = p
    BY <2>1, <2>2 DEF StartSetup, Resting
  <2>4. x.pc \notin Holds /\ x.pc # "refresh" /\ x.who \in Person
    BY <2>3 DEF Holds
  <2> QED BY <1>1, <1>2, <2>3, <2>4, NoneFromNothing, FreeSteps
<1>4. CASE \E s \in DOMAIN sessions : Refresh(c, s)
  <2>1. PICK s \in DOMAIN sessions : Refresh(c, s)
    BY <1>4
  <2>2. PICK x : x = [Resting EXCEPT !.pc = "refresh", !.session = s]
    OBVIOUS
  <2>3. calls' = [calls EXCEPT ![c] = x] /\ x.pc = "refresh" /\ x.session = s
        /\ sessions[s].kind = "refresh"
    BY <2>1, <2>2 DEF Refresh, Resting
  <2>4. s \in 1 .. Len(sessions)
    BY DEF SessionsInv, ChallengesOnce
  <2>5. x.pc \notin Holds /\ x.pc \notin {"issue", "challenge", "pending"}
    BY <2>3 DEF Holds
  <2> QED BY <1>1, <1>2, <2>3, <2>4, <2>5, NoneFromNothing, FreeSteps
<1> QED BY <1>3, <1>4

\* A session or a challenge that comes from nothing
LEMMA IssuingNew ==
  ASSUME SessionsInv, NEW kind \in {"refresh", "challenge"}, NEW p \in Person, Issue(kind, p, 0)
  PROVE  Grown(0)
<1>1. PICK row : row = [kind |-> kind, who |-> p, from |-> 0, active |-> TRUE]
  OBVIOUS
<1>2. row \in Session /\ row.from = 0 /\ sessions' = Append(sessions, row)
  BY <1>1 DEF Session, Issue
<1>3. ChallengesOnce /\ sessions \in Seq(Session) /\ Len(sessions) \in Nat
  BY DEF SessionsInv, ChallengesOnce
<1>4. PICK rows \in Seq(Session) : rows = sessions
  BY <1>3
<1>5. row.from \in 0 .. Len(sessions)
  BY <1>2, <1>3
<1>6. Grown(row.from)
  BY <1>2, <1>3, <1>4, <1>5, Issuing
<1> QED BY <1>2, <1>6

LEMMA IssuingKeeps ==
  ASSUME SessionsInv, NEW c \in Caller, NEW ok \in BOOLEAN,
         LoginIssues(c, ok) \/ BeginChallenge(c) \/ RefreshFails(c)
  PROVE  SessionsInv'
<1>1. /\ calls' = [calls EXCEPT ![c] = Resting] /\ calls[c].pc \in {"issue", "challenge", "refresh"}
      /\ UNCHANGED <<factors, table, secrets, accepted>>
  BY DEF LoginIssues, BeginChallenge, RefreshFails, Rests
<1>2. table # c
  BY <1>1, Calling DEF Holds
<1>3. calls[c].pc # "refresh" => calls[c].who \in Person
  BY <1>1 DEF SessionsInv, CallKept
<1>4. Grown(0)
  <2>1. CASE UNCHANGED sessions
    BY <2>1, Staying DEF SessionsInv
  <2>2. CASE LoginIssues(c, ok) /\ Issue("refresh", calls[c].who, 0)
    BY <1>3, <2>2, IssuingNew DEF LoginIssues
  <2>3. CASE BeginChallenge(c)
    BY <1>3, <2>3, IssuingNew DEF BeginChallenge
  <2> QED BY <2>1, <2>2, <2>3 DEF LoginIssues, RefreshFails
<1>5. Resting.pc \notin Holds \cup {"issue", "challenge", "pending", "refresh"}
  BY DEF Resting, Holds
<1> QED BY <1>1, <1>2, <1>4, <1>5, NoneFromNothing, FreeSteps

\* A session is replaced by the next, and a code of it stays with whom it was.
LEMMA RefreshedKeeps ==
  ASSUME SessionsInv, NEW c \in Caller, Refreshed(c)
  PROVE  SessionsInv'
<1>1. PICK s : s = calls[c].session
  OBVIOUS
<1>2. PICK row : row = [kind |-> "refresh", who |-> sessions[s].who, from |-> s, active |-> TRUE]
  OBVIOUS
<1>3. PICK rows : rows = Revoke(sessions, {s})
  OBVIOUS
<1>4. /\ calls[c].pc = "refresh" /\ sessions' = Append(rows, row)
      /\ calls' = [calls EXCEPT ![c] = Resting] /\ UNCHANGED <<factors, table, secrets, accepted>>
  BY <1>1, <1>2, <1>3 DEF Refreshed, Rests
<1>5. s \in 1 .. Len(sessions) /\ sessions[s].kind = "refresh"
  BY <1>1, <1>4 DEF SessionsInv, CallKept
<1>6. /\ rows \in Seq(Session) /\ Len(rows) = Len(sessions) /\ Len(sessions) \in Nat
      /\ \A t \in 1 .. Len(sessions) :
           /\ rows[t].kind = sessions[t].kind /\ rows[t].from = sessions[t].from
           /\ rows[t].active => sessions[t].active /\ t \notin {s}
  BY <1>3, Revoking DEF SessionsInv
<1>7. row \in Session /\ row.from = s
  <2>1. sessions[s].who \in Person /\ s \in Nat
    BY <1>5, SessionRows DEF SessionsInv
  <2> QED BY <1>2, <2>1 DEF Session
<1>8. rows[row.from].kind # "challenge" /\ row.from \in 0 .. Len(sessions)
  BY <1>5, <1>6, <1>7
<1>9. Grown(s)
  <2>1. Grown(row.from)
    BY <1>4, <1>6, <1>7, <1>8, Issuing DEF SessionsInv
  <2> QED BY <1>7, <2>1
<1>10. \A d \in Caller : calls[d].pc = "complete" => calls[d].session # s
  <2> SUFFICES ASSUME NEW d \in Caller, calls[d].pc = "complete", calls[d].session = s
               PROVE  FALSE
    OBVIOUS
  <2> QED BY <1>5 DEF SessionsInv, CallKept
<1>11. Resting.pc \notin Holds \cup {"issue", "challenge", "pending", "refresh"} /\ table # c
  BY <1>4, Calling DEF Resting, Holds
<1> QED BY <1>4, <1>9, <1>10, <1>11, FreeSteps

-----------------------------------------------------------------------------
(* What holds the table *)

\* A call takes the table and reads what it relies on.
LEMMA TakingKeeps ==
  ASSUME SessionsInv, NEW c \in Caller, NEW x, Takes(c, x), x.pc \in Holds, x.who \in Person,
         x.seen = factors[x.who], UNCHANGED <<factors, sessions, accepted, secrets>>,
         x.pc = "complete" => /\ x.session \in 1 .. Len(sessions)
                              /\ sessions[x.session].kind = "challenge"
                              /\ \A s \in 1 .. Len(sessions) : sessions[s].from # x.session
  PROVE  SessionsInv'
<1>1. /\ calls' = [calls EXCEPT ![c] = x] /\ table = NoCaller /\ table' = c
  BY DEF Takes
<1>2. calls'[c] = x
  BY <1>1 DEF SessionsInv
<1>3. CallKept(c)'
  BY <1>1, <1>2 DEF CallKept, Holds
<1>4. CodesOnce' /\ Grown(0)
  BY Staying DEF SessionsInv, CodesOnce
<1>5. secrets' \in Nat /\ table' \in Caller \cup {NoCaller}
  BY <1>1 DEF SessionsInv
<1>6. \A d \in Caller : d # c => table # d /\ table' # d
  BY <1>1, SessionsAssumption
<1> QED BY <1>1, <1>3, <1>4, <1>5, <1>6, NoneFromNothing, CallerSteps

LEMMA CompleteKeeps ==
  ASSUME SessionsInv, NEW c \in Caller, NEW ch \in DOMAIN sessions, NEW code, Complete(c, ch, code)
  PROVE  SessionsInv'
<1>1. PICK p : p = sessions[ch].who
  OBVIOUS
<1>2. PICK x : x = [pc |-> "complete", who |-> p, session |-> ch, code |-> code, seen |-> factors[p]]
  OBVIOUS
<1>3. /\ sessions[ch].kind = "challenge" /\ sessions[ch].active /\ Takes(c, x)
      /\ UNCHANGED <<factors, sessions, secrets, accepted>>
  BY <1>1, <1>2 DEF Complete, Active
<1>4. ch \in 1 .. Len(sessions) /\ p \in Person
  BY <1>1, SessionRows DEF SessionsInv
<1>5. \A s \in 1 .. Len(sessions) : sessions[s].from # ch
  BY <1>3, <1>4 DEF SessionsInv, ChallengesOnce
<1>6. x.pc = "complete" /\ x.who = p /\ x.session = ch /\ x.seen = factors[p] /\ x.pc \in Holds
  BY <1>2 DEF Holds
<1> QED BY <1>3, <1>4, <1>5, <1>6, TakingKeeps

LEMMA ChangeKeeps ==
  ASSUME SessionsInv, NEW c \in Caller, NEW pc \in {"confirm", "disable"}, NEW own \in DOMAIN sessions,
         NEW code, Change(c, pc, sessions[own].who, own, code)
  PROVE  SessionsInv'
<1>1. PICK p : p = sessions[own].who
  OBVIOUS
<1>2. PICK x : x = [pc |-> pc, who |-> p, session |-> own, code |-> code, seen |-> factors[p]]
  OBVIOUS
<1>3. Takes(c, x) /\ UNCHANGED <<factors, sessions, secrets, accepted>>
  BY <1>1, <1>2 DEF Change
<1>4. p \in Person
  BY <1>1, SessionRows DEF SessionsInv
<1>5. x.pc = pc /\ x.who = p /\ x.seen = factors[p] /\ x.pc \in Holds /\ x.pc # "complete"
  BY <1>2 DEF Holds
<1> QED BY <1>3, <1>4, <1>5, TakingKeeps

\* A call gives the table back, and no other has it.
LEMMA ReleasingKeeps ==
  ASSUME SessionsInv, NEW c \in Caller, table = c, Releases(c), CodesOnce', UNCHANGED secrets,
         NEW f, Grown(f)
  PROVE  SessionsInv'
<1>1. calls' = [calls EXCEPT ![c] = Resting] /\ table' = NoCaller
  BY DEF Releases, Rests
<1>2. calls'[c] = Resting /\ table' # c
  BY <1>1, SessionsAssumption DEF SessionsInv
<1>3. CallKept(c)'
  BY <1>2, RestingKept
<1>4. secrets' \in Nat /\ table' \in Caller \cup {NoCaller}
  BY <1>1 DEF SessionsInv
<1>5. \A d \in Caller : d # c => table # d /\ table' # d
  BY <1>1, SessionsAssumption
<1>6. \A d \in Caller : d # c /\ calls[d].pc = "complete" => calls[d].session # f
  BY <1>5, Calling
<1> QED BY <1>1, <1>3, <1>4, <1>5, <1>6, CallerSteps

LEMMA RefusedKeeps ==
  ASSUME SessionsInv, NEW c \in Caller, Abandon(c) \/ CompleteFails(c)
  PROVE  SessionsInv'
<1>1. table = c /\ Releases(c) /\ UNCHANGED <<factors, sessions, secrets, accepted>>
  BY DEF Abandon, CompleteFails
<1>2. CodesOnce' /\ Grown(0)
  BY <1>1, Staying DEF SessionsInv, CodesOnce
<1> QED BY <1>1, <1>2, ReleasingKeeps

\* A code that is valid and a recovery code is one that can still be used.
LEMMA AcceptingCode ==
  ASSUME SessionsInv, NEW c \in Caller, calls[c].pc \in Holds, Valid(calls[c])
  PROVE  /\ calls[c].who \in Person /\ calls[c].seen = factors[calls[c].who]
         /\ calls[c].code \in RecoveryCode =>
              accepted[calls[c].who][calls[c].code] = 0
<1>1. calls[c].who \in Person /\ calls[c].seen = factors[calls[c].who]
  BY DEF SessionsInv, CallKept
<1>2. calls[c].code \in RecoveryCode => calls[c].code \in factors[calls[c].who].codes
  BY <1>1, SessionsAssumption DEF Valid
<1> QED BY <1>1, <1>2 DEF SessionsInv, CodesOnce

\* The codes of one person change, and each that remains was not accepted.
LEMMA CodesChange ==
  ASSUME CodesOnce, NEW p \in Person, NEW factor \in Factor, NEW uses \in [RecoveryCode -> Nat],
         factors' = [factors EXCEPT ![p] = factor], accepted' = [accepted EXCEPT ![p] = uses],
         \A k \in RecoveryCode : uses[k] <= 1 /\ (k \in factor.codes => uses[k] = 0)
  PROVE  CodesOnce'
<1>1. factors' \in [Person -> Factor] /\ accepted' \in [Person -> [RecoveryCode -> Nat]]
  BY DEF CodesOnce
<1>2. ASSUME NEW q \in Person, NEW k \in RecoveryCode
      PROVE  accepted'[q][k] <= 1 /\ (k \in factors'[q].codes => accepted'[q][k] = 0)
  <2>1. CASE q = p
    BY <2>1 DEF CodesOnce
  <2>2. CASE q # p
    BY <2>2 DEF CodesOnce
  <2> QED BY <2>1, <2>2
<1> QED BY <1>1, <1>2 DEF CodesOnce

\* How often each code of p was accepted when this one has been
LEMMA OneMoreUse ==
  ASSUME CodesOnce, NEW p \in Person, NEW code, code \in RecoveryCode => accepted[p][code] = 0,
         code \in RecoveryCode => accepted' = [accepted EXCEPT ![p][code] = @ + 1],
         code \notin RecoveryCode => accepted' = accepted
  PROVE  \E uses \in [RecoveryCode -> Nat] :
           /\ accepted' = [accepted EXCEPT ![p] = uses]
           /\ \A k \in RecoveryCode : uses[k] <= 1 /\ (k # code => uses[k] = accepted[p][k])
<1>1. accepted[p] \in [RecoveryCode -> Nat] /\ \A k \in RecoveryCode : accepted[p][k] <= 1
  BY DEF CodesOnce
<1>2. CASE code \in RecoveryCode
  <2>1. PICK uses : uses = [accepted[p] EXCEPT ![code] = 1]
    OBVIOUS
  <2>2. uses \in [RecoveryCode -> Nat] /\ \A k \in RecoveryCode : uses[k] = IF k = code THEN 1 ELSE accepted[p][k]
    BY <1>1, <2>1
  <2>3. accepted' = [accepted EXCEPT ![p] = uses]
    <3>1. accepted[p][code] + 1 = 1
      BY <1>2
    <3>2. accepted' = [accepted EXCEPT ![p] = [accepted[p] EXCEPT ![code] = accepted[p][code] + 1]]
      BY <1>2
    <3> QED BY <2>1, <3>1, <3>2
  <2>4. \A k \in RecoveryCode : uses[k] <= 1 /\ (k # code => uses[k] = accepted[p][k])
    BY <1>1, <2>2
  <2> QED BY <2>2, <2>3, <2>4
<1>3. CASE code \notin RecoveryCode
  <2>1. accepted' = [accepted EXCEPT ![p] = accepted[p]]
    BY <1>3 DEF CodesOnce
  <2> QED BY <1>1, <2>1
<1> QED BY <1>2, <1>3

\* The challenge is used up with the code.
LEMMA CompletedKeeps ==
  ASSUME SessionsInv, NEW c \in Caller, Completed(c)
  PROVE  SessionsInv'
<1>1. PICK call : call = calls[c]
  OBVIOUS
<1>2. PICK p : p = call.who
  OBVIOUS
<1>3. PICK ch : ch = call.session
  OBVIOUS
<1>4. PICK row : row = [kind |-> "refresh", who |-> p, from |-> ch, active |-> TRUE]
  OBVIOUS
<1>5. PICK rows : rows = Revoke(sessions, {ch})
  OBVIOUS
<1>6. /\ call.pc = "complete" /\ table = c /\ Valid(call) /\ Consume(call) /\ Releases(c)
      /\ sessions' = Append(rows, row) /\ UNCHANGED secrets
  BY <1>1, <1>2, <1>3, <1>4, <1>5 DEF Completed
<1>7. /\ p \in Person /\ call.seen = factors[p]
      /\ call.code \in RecoveryCode => accepted[p][call.code] = 0
      /\ ch \in 1 .. Len(sessions) /\ \A s \in 1 .. Len(sessions) : sessions[s].from # ch
  <2>1. call.pc \in Holds
    BY <1>6 DEF Holds
  <2>2. /\ p \in Person /\ call.seen = factors[p]
        /\ call.code \in RecoveryCode => accepted[p][call.code] = 0
    BY <1>1, <1>2, <1>6, <2>1, AcceptingCode
  <2>3. ch \in 1 .. Len(sessions) /\ \A s \in 1 .. Len(sessions) : sessions[s].from # ch
    BY <1>1, <1>3, <1>6 DEF SessionsInv, CallKept
  <2> QED BY <2>2, <2>3
<1>8. /\ rows \in Seq(Session) /\ Len(rows) = Len(sessions) /\ Len(sessions) \in Nat
      /\ \A t \in 1 .. Len(sessions) :
           /\ rows[t].kind = sessions[t].kind /\ rows[t].from = sessions[t].from
           /\ rows[t].active => sessions[t].active /\ t \notin {ch}
  BY <1>5, Revoking DEF SessionsInv
<1>9. row \in Session /\ row.from = ch
  <2>1. ch \in Nat
    BY <1>7, <1>8
  <2> QED BY <1>4, <1>7, <2>1 DEF Session
<1>10. row.from \in 0 .. Len(sessions) /\ ~rows[row.from].active
       /\ \A s \in 1 .. Len(sessions) : sessions[s].from # row.from
  BY <1>7, <1>8, <1>9
<1>11. Grown(row.from)
  BY <1>6, <1>8, <1>9, <1>10, Issuing DEF SessionsInv
<1>12. CodesOnce'
  <2>1. CodesOnce /\ factors[p] \in Factor
    BY <1>7 DEF SessionsInv, CodesOnce
  <2>2. /\ call.code \in RecoveryCode => accepted' = [accepted EXCEPT ![p][call.code] = @ + 1]
        /\ call.code \notin RecoveryCode => accepted' = accepted
    BY <1>2, <1>6 DEF Consume
  <2>3. PICK uses \in [RecoveryCode -> Nat] :
          /\ accepted' = [accepted EXCEPT ![p] = uses]
          /\ \A k \in RecoveryCode : uses[k] <= 1 /\ (k # call.code => uses[k] = accepted[p][k])
    <3>1. PICK code : code = call.code
      OBVIOUS
    <3>2. /\ code \in RecoveryCode => accepted[p][code] = 0
          /\ code \in RecoveryCode => accepted' = [accepted EXCEPT ![p][code] = @ + 1]
          /\ code \notin RecoveryCode => accepted' = accepted
      BY <1>7, <2>2, <3>1
    <3>3. p \in Person /\ CodesOnce
      BY <1>7, <2>1
    <3> QED BY <3>1, <3>2, <3>3, OneMoreUse
  <2>4. PICK codes : codes = factors[p].codes \ {call.code}
    OBVIOUS
  <2>5. PICK factor : factor = [factors[p] EXCEPT !.codes = codes]
    OBVIOUS
  <2>6. factor \in Factor /\ factor.codes = codes
    BY <2>1, <2>4, <2>5 DEF Factor
  <2>7. factors' = [factors EXCEPT ![p] = factor]
    BY <1>2, <1>6, <2>4, <2>5 DEF Consume
  <2>8. \A k \in RecoveryCode : k \in factor.codes => uses[k] = 0
    BY <1>7, <2>1, <2>3, <2>4, <2>6 DEF CodesOnce
  <2> QED BY <1>7, <2>1, <2>3, <2>6, <2>7, <2>8, CodesChange
<1> QED BY <1>6, <1>11, <1>12, ReleasingKeeps

\* Setting up makes new codes, and the removal leaves none.
LEMMA ConfirmSetupKeeps ==
  ASSUME SessionsInv, NEW c \in Caller, ConfirmSetup(c)
  PROVE  SessionsInv'
<1>1. PICK p : p = calls[c].who
  OBVIOUS
<1>2. /\ calls[c].pc = "confirm" /\ table = c /\ Releases(c) /\ UNCHANGED secrets
      /\ factors' = [factors EXCEPT ![p] =
                       [on |-> TRUE, secret |-> calls[c].seen.secret, codes |-> RecoveryCode]]
      /\ accepted' = [accepted EXCEPT ![p] = [k \in RecoveryCode |-> 0]]
      /\ sessions' = Revoke(sessions, Own(p) \ {calls[c].session})
  BY <1>1 DEF ConfirmSetup, RevokeOthers
<1>3. p \in Person /\ calls[c].seen = factors[p]
  BY <1>1, <1>2 DEF SessionsInv, CallKept, Holds
<1>4. Grown(0)
  BY <1>2, Shrinking DEF SessionsInv
<1>5. CodesOnce'
  <2>1. CodesOnce /\ factors[p].secret \in Nat
    BY <1>3 DEF SessionsInv, CodesOnce, Factor
  <2>2. PICK factor : factor = [on |-> TRUE, secret |-> factors[p].secret, codes |-> RecoveryCode]
    OBVIOUS
  <2>3. PICK uses : uses = [k \in RecoveryCode |-> 0]
    OBVIOUS
  <2>4. factor \in Factor /\ uses \in [RecoveryCode -> Nat]
    BY <2>1, <2>2, <2>3 DEF Factor
  <2>5. factors' = [factors EXCEPT ![p] = factor] /\ accepted' = [accepted EXCEPT ![p] = uses]
    BY <1>2, <1>3, <2>2, <2>3
  <2>6. \A k \in RecoveryCode : uses[k] <= 1 /\ (k \in factor.codes => uses[k] = 0)
    BY <2>3
  <2> QED BY <1>3, <2>1, <2>4, <2>5, <2>6, CodesChange
<1> QED BY <1>2, <1>4, <1>5, ReleasingKeeps

LEMMA DisableKeeps ==
  ASSUME SessionsInv, NEW c \in Caller, DisableFactor(c)
  PROVE  SessionsInv'
<1>1. PICK p : p = calls[c].who
  OBVIOUS
<1>2. PICK code : code = calls[c].code
  OBVIOUS
<1>3. /\ calls[c].pc \in Holds /\ table = c /\ Valid(calls[c]) /\ Releases(c) /\ UNCHANGED secrets
      /\ code \in RecoveryCode => accepted' = [accepted EXCEPT ![p][code] = @ + 1]
      /\ code \notin RecoveryCode => accepted' = accepted
      /\ factors' = [factors EXCEPT ![p] = NoFactor]
      /\ sessions' = Revoke(sessions, Own(p) \ {calls[c].session})
  BY <1>1, <1>2 DEF DisableFactor, RevokeOthers, Holds
<1>4. code \in RecoveryCode => accepted[p][code] = 0
  BY <1>1, <1>2, <1>3, AcceptingCode
<1>5. p \in Person
  BY <1>1, <1>3, AcceptingCode
<1>6. Grown(0)
  BY <1>3, Shrinking DEF SessionsInv
<1>7. CodesOnce'
  <2>1. CodesOnce
    BY DEF SessionsInv
  <2>2. PICK uses \in [RecoveryCode -> Nat] :
          /\ accepted' = [accepted EXCEPT ![p] = uses]
          /\ \A k \in RecoveryCode : uses[k] <= 1 /\ (k # code => uses[k] = accepted[p][k])
    BY <1>3, <1>4, <1>5, <2>1, OneMoreUse
  <2>3. NoFactor \in Factor /\ NoFactor.codes = {}
    BY DEF NoFactor, Factor
  <2> QED BY <1>3, <1>5, <2>1, <2>2, <2>3, CodesChange
<1> QED BY <1>3, <1>6, <1>7, ReleasingKeeps

\* A pending secret is stored while nobody holds the table.
LEMMA SetPendingKeeps ==
  ASSUME SessionsInv, NEW c \in Caller, SetPending(c)
  PROVE  SessionsInv'
<1>1. PICK p : p = calls[c].who
  OBVIOUS
<1>2. /\ calls[c].pc = "pending" /\ table = NoCaller /\ secrets' = secrets + 1
      /\ factors' = [factors EXCEPT ![p].secret = secrets + 1]
      /\ calls' = [calls EXCEPT ![c] = Resting] /\ UNCHANGED <<sessions, table, accepted>>
  BY <1>1 DEF SetPending, Rests
<1>3. p \in Person /\ secrets \in Nat /\ CodesOnce
  BY <1>1, <1>2 DEF SessionsInv, CallKept
<1>4. \A d \in Caller : table # d /\ table' # d
  BY <1>2, SessionsAssumption
<1>5. CallKept(c)'
  <2>1. calls'[c] = Resting
    BY <1>2 DEF SessionsInv
  <2> QED BY <1>4, <2>1, RestingKept
<1>6. CodesOnce'
  <2>1. PICK secret \in Nat : secret = secrets + 1
    BY <1>3
  <2>2. PICK factor : factor = [factors[p] EXCEPT !.secret = secret]
    OBVIOUS
  <2>3. factors[p] \in Factor /\ accepted[p] \in [RecoveryCode -> Nat]
    BY <1>3 DEF CodesOnce
  <2>4. factor \in Factor /\ factor.codes = factors[p].codes
    BY <2>1, <2>2, <2>3 DEF Factor
  <2>5. factors' = [factors EXCEPT ![p] = factor] /\ accepted' = [accepted EXCEPT ![p] = accepted[p]]
    BY <1>2, <1>3, <2>1, <2>2 DEF CodesOnce
  <2>6. \A k \in RecoveryCode : accepted[p][k] <= 1 /\ (k \in factor.codes => accepted[p][k] = 0)
    BY <1>3, <2>4 DEF CodesOnce
  <2> QED BY <1>3, <2>3, <2>4, <2>5, <2>6, CodesChange
<1>7. Grown(0)
  BY <1>2, Staying DEF SessionsInv
<1>8. secrets' \in Nat /\ table' \in Caller \cup {NoCaller}
  BY <1>2, <1>3
<1> QED BY <1>2, <1>4, <1>5, <1>6, <1>7, <1>8, NoneFromNothing, CallerSteps

\* Rows are revoked, a lock runs out, or nothing happens.
LEMMA NoCallSteps ==
  ASSUME SessionsInv, UNCHANGED <<factors, table, calls, secrets, accepted>>,
         sessions' = sessions \/ \E ids : sessions' = Revoke(sessions, ids)
  PROVE  SessionsInv'
<1>1. Grown(0)
  BY Staying, Shrinking DEF SessionsInv
<1>2. ASSUME NEW d \in Caller
      PROVE  CallKept(d)'
  <2>1. calls[d].pc = "complete" => calls[d].session # 0
    BY NoneFromNothing
  <2> QED BY <1>1, <2>1, OtherCalls
<1>3. CodesOnce'
  BY DEF SessionsInv, CodesOnce
<1> QED BY <1>1, <1>2, <1>3 DEF SessionsInv, Grown

LEMMA SessionsStart ==
  ASSUME SessionsInit
  PROVE  SessionsInv
<1>1. /\ factors \in [Person -> {NoFactor, [on |-> TRUE, secret |-> 1, codes |-> RecoveryCode]}]
      /\ sessions = <<>> /\ table = NoCaller /\ calls = [c \in Caller |-> Resting] /\ secrets = 1
      /\ accepted = [p \in Person |-> [k \in RecoveryCode |-> 0]]
  BY DEF SessionsInit
<1>2. {NoFactor, [on |-> TRUE, secret |-> 1, codes |-> RecoveryCode]} \subseteq Factor
  BY DEF NoFactor, Factor
<1>3. CodesOnce
  <2>1. \A p \in Person : factors[p] \in {NoFactor, [on |-> TRUE, secret |-> 1, codes |-> RecoveryCode]}
    BY <1>1
  <2>2. factors \in [Person -> Factor]
    BY <1>1, <1>2
  <2>3. accepted \in [Person -> [RecoveryCode -> Nat]]
    BY <1>1
  <2>4. \A p \in Person, k \in RecoveryCode : accepted[p][k] = 0
    BY <1>1
  <2> QED BY <2>2, <2>3, <2>4 DEF CodesOnce
<1>4. ChallengesOnce
  BY <1>1 DEF ChallengesOnce
<1>5. ASSUME NEW c \in Caller
      PROVE  CallKept(c)
  <2>1. calls[c] = Resting /\ table # c
    BY <1>1, SessionsAssumption
  <2>2. Resting.pc = "resting"
    BY DEF Resting
  <2> QED BY <2>1, <2>2 DEF CallKept, Holds
<1> QED BY <1>1, <1>3, <1>4, <1>5 DEF SessionsInv

LEMMA SessionsStep ==
  ASSUME SessionsInv, [SessionsNext]_sessionVars
  PROVE  SessionsInv'
<1>1. ASSUME NEW c \in Caller, LogsIn(c)
      PROVE  SessionsInv'
  <2>1. TRUE \in BOOLEAN
    OBVIOUS
  <2> QED BY <1>1, <2>1, LoginKeeps, IssuingKeeps, CompleteKeeps, CompletedKeeps, RefusedKeeps DEF LogsIn
<1>2. ASSUME NEW c \in Caller, ChangesFactor(c)
      PROVE  SessionsInv'
  BY <1>2, SetupOrRefresh, SetPendingKeeps, ChangeKeeps, ConfirmSetupKeeps, DisableKeeps DEF ChangesFactor
<1>3. ASSUME NEW c \in Caller, KeepsSession(c)
      PROVE  SessionsInv'
  <2>1. TRUE \in BOOLEAN
    OBVIOUS
  <2> QED BY <1>3, <2>1, SetupOrRefresh, RefreshedKeeps, IssuingKeeps DEF KeepsSession
<1>4. ASSUME SessionsChange
      PROVE  SessionsInv'
  BY <1>4, NoCallSteps
     DEF SessionsChange, Logout, Expire, LockEnds, Reset, ResetPassword, DeleteAllSessions, Rows
<1>5. ASSUME UNCHANGED sessionVars
      PROVE  SessionsInv'
  BY <1>5, NoCallSteps DEF sessionVars
<1> QED BY <1>1, <1>2, <1>3, <1>4, <1>5 DEF SessionsNext

LEMMA SessionsInvariant == SessionsSpec => []SessionsInv
<1>1. SessionsInit => SessionsInv
  BY SessionsStart
<1>2. SessionsInv /\ [SessionsNext]_sessionVars => SessionsInv'
  BY SessionsStep
<1> QED BY <1>1, <1>2, PTL DEF SessionsSpec

\* A challenge gives one session, and a recovery code is accepted once, for any number of
\* logins, refreshes and changes of the second factor at the same time; nothing is said of the
\* codes of the authenticator.
THEOREM FactorsAreUsedOnce == SessionsSpec => []FactorsUsedOnce
<1>1. ASSUME SessionsInv, NEW ch \in DOMAIN sessions, sessions[ch].kind = "challenge"
      PROVE  Cardinality({s \in DOMAIN sessions : sessions[s].from = ch}) <= 1
  <2>1. PICK S : S = {s \in DOMAIN sessions : sessions[s].from = ch}
    OBVIOUS
  <2>2. DOMAIN sessions = 1 .. Len(sessions) /\ Len(sessions) \in Nat
    BY <1>1, SessionRows DEF SessionsInv
  <2>3. \A s, t \in S : s = t
    BY <1>1, <2>1, <2>2 DEF SessionsInv, ChallengesOnce
  <2>4. CASE S = {}
    BY <2>1, <2>4, FS_EmptySet
  <2>5. CASE S # {}
    <3>1. PICK s : S = {s}
      BY <2>3, <2>5
    <3>2. Cardinality(S) = 1
      BY <3>1, FS_Singleton
    <3> QED BY <2>1, <3>2
  <2> QED BY <2>4, <2>5
<1>2. SessionsInv => FactorsUsedOnce
  BY <1>1 DEF SessionsInv, CodesOnce, FactorsUsedOnce
<1> QED BY <1>2, SessionsInvariant, PTL

=============================================================================
