------------------------------ MODULE Accounts ------------------------------
(***************************************************************************)
(* The users table under concurrent requests: accounts that are created,   *)
(* invited, provisioned for a proxy, changed and deleted, and the tokens   *)
(* of invitations and password resets.                                     *)
(*                                                                         *)
(* A transaction on users locks the table in a mode that excludes every    *)
(* other writer; it is modelled as the step that gets the lock and reads,  *)
(* and the step that writes what follows from what was read.  Statements   *)
(* outside such a transaction wait for the lock, and what a use case reads *)
(* before its transaction is a step of its own.  Names and emails are left *)
(* out: a transaction refused because one is taken is one that rolls back. *)
(***************************************************************************)
EXTENDS Integers, FiniteSets

CONSTANTS Client, Nobody,
          Limit,         \* the most admins and editors, or 0 for any number
          MaxUsers, MaxPasswords, MaxTokens

ASSUME AccountsAssumption ==
  /\ Nobody \notin Client
  /\ {Limit, MaxUsers, MaxPasswords, MaxTokens} \subseteq Nat
  /\ MaxUsers > 0

User == 1..MaxUsers
Token == 1..MaxTokens
Role == {"admin", "editor", "viewer"}
Purpose == {"invite", "reset"}

VARIABLES users,     \* the accounts, by the ids of those that exist
          tokens,    \* the email tokens that were issued
          holder,    \* the transaction that has the table
          reqs,      \* what each request is doing
          created,   \* how many accounts were created so far
          sets,      \* how many passwords were set so far
          redeemed   \* observer: how often each token has set a password

accountVars == <<users, tokens, holder, reqs, created, sets, redeemed>>

Account == [role : Role, password : Nat, invited : BOOLEAN]
NoTable == [u \in {} |-> 0]
Idle == [pc |-> "idle", op |-> "none", id |-> 0, role |-> "", sets |-> FALSE,
         invites |-> FALSE, purpose |-> "", seen |-> NoTable]

Admins(table) == {u \in DOMAIN table : table[u].role = "admin"}
Editors(table) == {u \in DOMAIN table : table[u].role \in {"admin", "editor"}}

\* checkEditorLimit
LimitReached(table, role) ==
  Limit > 0 /\ role # "viewer" /\ Cardinality(Editors(table)) >= Limit

-----------------------------------------------------------------------------
(* What a request reads before it starts a transaction, if it does. *)

Ask(c, r) ==
  /\ reqs[c].pc = "idle"
  /\ reqs' = [reqs EXCEPT ![c] = r]
  /\ UNCHANGED <<users, tokens, holder, created, sets, redeemed>>

\* CreateUser, InviteUser, or GetOrCreateRemoteUser for a name that it did not find.
AskCreate(c, role, invites) ==
  Ask(c, [Idle EXCEPT !.pc = "ready", !.op = "create", !.role = role, !.invites = invites])

\* An admin may name a role.
AskUpdate(c, id, role, sent) ==
  Ask(c, [Idle EXCEPT !.pc = "ready", !.op = "update", !.id = id, !.role = role, !.sets = sent])

\* For everybody else the role is the one that is read here.
AskUpdateOwn(c, id, sent) == id \in DOMAIN users /\ AskUpdate(c, id, users[id].role, sent)

AskDelete(c, id) == Ask(c, [Idle EXCEPT !.pc = "ready", !.op = "delete", !.id = id])

\* ChangeOwnPassword compares the old password, and writes in a statement of its own.
AskPassword(c, id) ==
  id \in DOMAIN users /\ Ask(c, [Idle EXCEPT !.pc = "password", !.id = id])

\* RequestPasswordReset and ResendInvite look the account up, and issue a token.
AskToken(c, id, purpose) ==
  /\ id \in DOMAIN users /\ (purpose = "invite" => users[id].invited)
  /\ Ask(c, [Idle EXCEPT !.pc = "issue", !.id = id, !.purpose = purpose])

AskConfirm(c, token) ==
  token \in DOMAIN tokens /\ Ask(c, [Idle EXCEPT !.pc = "ready", !.op = "confirm", !.id = token])

-----------------------------------------------------------------------------
(* Statements and transactions *)

Unlocked == holder = Nobody
Done(c) == reqs' = [reqs EXCEPT ![c] = Idle]

\* Mutant: the statement does not wait for the table.
WritePasswordAnyway(c) ==
  /\ reqs[c].pc = "password" /\ sets < MaxPasswords
  /\ IF reqs[c].id \in DOMAIN users
     THEN users' = [users EXCEPT ![reqs[c].id].password = sets + 1] /\ sets' = sets + 1
     ELSE UNCHANGED <<users, sets>>
  /\ Done(c)
  /\ UNCHANGED <<tokens, holder, created, redeemed>>

\* UPDATE users SET password: of a deleted account it changes no row.
WritePassword(c) ==
  /\ reqs[c].pc = "password" /\ Unlocked /\ sets < MaxPasswords
  /\ IF reqs[c].id \in DOMAIN users
     THEN users' = [users EXCEPT ![reqs[c].id].password = sets + 1] /\ sets' = sets + 1
     ELSE UNCHANGED <<users, sets>>
  /\ Done(c)
  /\ UNCHANGED <<tokens, holder, created, redeemed>>

IssueToken(c) ==
  /\ reqs[c].pc = "issue" /\ Cardinality(DOMAIN tokens) < MaxTokens
  /\ LET token == Cardinality(DOMAIN tokens) + 1 IN
     /\ tokens' = [t \in DOMAIN tokens \cup {token} |->
                     IF t = token THEN [user |-> reqs[c].id, purpose |-> reqs[c].purpose, used |-> FALSE]
                                  ELSE tokens[t]]
     /\ redeemed' = [t \in DOMAIN tokens' |-> IF t = token THEN 0 ELSE redeemed[t]]
  /\ Done(c)
  /\ UNCHANGED <<users, holder, created, sets>>

\* Mutant: the transaction does not lock the table.
BeginUnlocked(c) ==
  /\ reqs[c].pc = "ready"
  /\ holder' = c
  /\ reqs' = [reqs EXCEPT ![c].pc = "open", ![c].seen = users]
  /\ UNCHANGED <<users, tokens, created, sets, redeemed>>

\* LOCK TABLE users IN SHARE ROW EXCLUSIVE MODE, and the reads that follow.
Begin(c) ==
  /\ reqs[c].pc = "ready" /\ Unlocked
  /\ holder' = c
  /\ reqs' = [reqs EXCEPT ![c].pc = "open", ![c].seen = users]
  /\ UNCHANGED <<users, tokens, created, sets, redeemed>>

Ends(c) == holder' = Nobody /\ Done(c)

\* The transaction is refused or fails.
Rollback(c) ==
  /\ reqs[c].pc = "open"
  /\ Ends(c)
  /\ UNCHANGED <<users, tokens, created, sets, redeemed>>

Commits(c, op) == reqs[c].pc = "open" /\ reqs[c].op = op

\* CreateUser, and InviteUser, which then issues the token.
CreateUser(c) ==
  LET r == reqs[c]
      new == [role |-> r.role, password |-> sets + 1, invited |-> r.invites]
  IN /\ Commits(c, "create") /\ created < MaxUsers /\ sets < MaxPasswords
     /\ ~LimitReached(r.seen, r.role)
     /\ users' = [u \in DOMAIN users \cup {created + 1} |-> IF u = created + 1 THEN new ELSE users[u]]
     /\ created' = created + 1 /\ sets' = sets + 1
     /\ holder' = Nobody
     /\ reqs' = [reqs EXCEPT ![c] =
                   IF r.invites THEN [Idle EXCEPT !.pc = "issue", !.id = created + 1, !.purpose = "invite"]
                   ELSE Idle]
     /\ UNCHANGED <<tokens, redeemed>>

LastAdmin(table, id) == table[id].role = "admin" /\ Cardinality(Admins(table)) <= 1

\* UpdateUser writes every column; the password is the one it read, unless one was sent.
UpdateUser(c) ==
  LET r == reqs[c]
      old == r.seen[r.id]
  IN /\ Commits(c, "update") /\ r.id \in DOMAIN r.seen
     /\ r.role # "admin" => ~LastAdmin(r.seen, r.id)
     /\ old.role = "viewer" => ~LimitReached(r.seen, r.role)
     /\ r.sets => sets < MaxPasswords
     /\ sets' = IF r.sets THEN sets + 1 ELSE sets
     /\ users' = [users EXCEPT ![r.id] =
                    [old EXCEPT !.role = r.role, !.password = IF r.sets THEN sets + 1 ELSE @]]
     /\ Ends(c)
     /\ UNCHANGED <<tokens, created, redeemed>>

DeleteUser(c) ==
  LET r == reqs[c] IN
  /\ Commits(c, "delete") /\ r.id \in DOMAIN r.seen
  /\ r.seen[r.id].role # "admin"
  /\ users' = [u \in DOMAIN users \ {r.id} |-> users[u]]
  /\ Ends(c)
  /\ UNCHANGED <<tokens, created, sets, redeemed>>

\* Mutant: a token that was consumed is accepted again.
RedeemableAgain(token) == token \in DOMAIN tokens

Redeemable(token) == ~tokens[token].used

\* ConfirmPasswordReset and ConfirmInvite; without the account nothing is consumed.
Confirm(c) ==
  LET t == reqs[c].id
      id == tokens[t].user
  IN /\ Commits(c, "confirm") /\ sets < MaxPasswords
     /\ Redeemable(t) /\ id \in DOMAIN reqs[c].seen
     /\ tokens' = [tokens EXCEPT ![t].used = TRUE]
     /\ redeemed' = [redeemed EXCEPT ![t] = @ + 1]
     /\ users' = [users EXCEPT ![id].password = sets + 1,
                    ![id].invited = IF tokens[t].purpose = "invite" THEN FALSE ELSE @]
     /\ sets' = sets + 1
     /\ Ends(c)
     /\ UNCHANGED created

-----------------------------------------------------------------------------
\* InitDefaultAdmin
AccountsInit ==
  /\ users = [u \in {1} |-> [role |-> "admin", password |-> 1, invited |-> FALSE]]
  /\ tokens = NoTable /\ redeemed = NoTable
  /\ holder = Nobody /\ reqs = [c \in Client |-> Idle]
  /\ created = 1 /\ sets = 1

Asks(c) ==
  \/ \E role \in Role, invites \in BOOLEAN : AskCreate(c, role, invites)
  \/ \E id \in 1..created, role \in Role, sent \in BOOLEAN : AskUpdate(c, id, role, sent)
  \/ \E id \in 1..created, sent \in BOOLEAN : AskUpdateOwn(c, id, sent)
  \/ \E id \in 1..created : AskDelete(c, id) \/ AskPassword(c, id)
  \/ \E id \in 1..created, purpose \in Purpose : AskToken(c, id, purpose)
  \/ \E token \in Token : AskConfirm(c, token)

Works(c) ==
  \/ WritePassword(c) \/ IssueToken(c) \/ Begin(c) \/ Rollback(c)
  \/ CreateUser(c) \/ UpdateUser(c) \/ DeleteUser(c) \/ Confirm(c)

AccountsNext == \E c \in Client : Asks(c) \/ Works(c)

AccountsSpec == AccountsInit /\ [][AccountsNext]_accountVars

-----------------------------------------------------------------------------
(* Properties *)

AccountsTypeOK ==
  /\ DOMAIN users \subseteq 1..created /\ created \in User
  /\ users \in [DOMAIN users -> Account]
  /\ holder \in Client \cup {Nobody}
  /\ \A c \in Client : (reqs[c].pc = "open") <=> (holder = c)
  /\ holder # Nobody => reqs[holder].seen = users

\* The instance never loses its last admin, whichever demotions, deletions and profile
\* updates with a role that was read earlier run at the same time.
AdminRemains == Admins(users) # {}

\* The editors of the plan are never exceeded: requests that create or promote at the
\* same time cannot both take the last place.
EditorsLimited == Limit > 0 => Cardinality(Editors(users)) <= Limit

\* Neither end is passed by requests that change roles at the same time: not the last admin,
\* and not the last place for an editor.
RolesWithinLimits == AdminRemains /\ EditorsLimited

\* A password that was set is only replaced by one that is set later: an update of the
\* profile, which writes the whole row, does not bring an earlier one back.
PasswordsAdvance ==
  [][\A u \in DOMAIN users \cap DOMAIN users' : users'[u].password >= users[u].password]_accountVars

\* A token sets one password, and is consumed when it does; an account whose
\* invitation was accepted is no longer shown as invited.
TokensRedeemedOnce ==
  \A t \in DOMAIN tokens :
    /\ redeemed[t] = IF tokens[t].used THEN 1 ELSE 0
    /\ tokens[t].used /\ tokens[t].purpose = "invite" /\ tokens[t].user \in DOMAIN users
         => ~users[tokens[t].user].invited
=============================================================================
