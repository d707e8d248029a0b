------------------------------ MODULE Sessions ------------------------------
(***************************************************************************)
(* Logging in, with and without a second factor, and what becomes of the   *)
(* sessions: the counter of failed attempts in the memory of the process,  *)
(* the challenge between the two steps of a login, the rows of the         *)
(* sessions, and the setting up and removal of the second factor.          *)
(*                                                                         *)
(* A login and a refresh read, and write later.  What completes a          *)
(* challenge, confirms or removes a second factor or resets a password     *)
(* holds the table of the users from its first read to its commit, which   *)
(* excludes the others and every statement that writes a user.  A password *)
(* or a code is only right or wrong; a recovery code is one of RecoveryCode. *)
(***************************************************************************)
EXTENDS Integers, FiniteSets, Sequences

CONSTANTS Caller, Person, RecoveryCode, NoCaller,
          MaxFailures,                \* loginMaxFailures
          MaxSessions, MaxSecrets     \* bounds of the model

ASSUME SessionsAssumption ==
  /\ NoCaller \notin Caller
  /\ {MaxFailures, MaxSessions, MaxSecrets} \subseteq Nat /\ MaxFailures > 0
  /\ RecoveryCode \cap {"right", "wrong"} = {}

VARIABLES factors,    \* the columns of a user about the second factor
          failures,   \* the failed attempts of each user; MaxFailures when it is locked
          sessions,   \* the rows of refresh tokens and of challenges, in the order of their creation
          table,      \* the caller that holds the table of the users
          calls,      \* what each caller is doing
          secrets,    \* how many secrets were generated so far
          wrong,      \* observer: the attempts to be refused since the last login or the last lock
          accepted    \* observer: how often each recovery code was accepted since it was made

sessionVars == <<factors, failures, sessions, table, calls, secrets, wrong, accepted>>

Resting == [pc |-> "resting", who |-> "", session |-> 0, code |-> "", seen |-> <<>>]
NoFactor == [on |-> FALSE, secret |-> 0, codes |-> {}]

\* IsActive: neither revoked nor expired, and the row still there.
Active(s) == sessions[s].active

\* INSERT INTO sessions
Issue(kind, p, from) ==
  /\ Len(sessions) < MaxSessions
  /\ sessions' = Append(sessions, [kind |-> kind, who |-> p, from |-> from, active |-> TRUE])

Revoke(rows, ids) ==
  [s \in DOMAIN rows |-> [rows[s] EXCEPT !.active = @ /\ s \notin ids]]

Own(p) == {s \in DOMAIN sessions : sessions[s].who = p}

\* RevokeAllSessionsForUserExcept; no session is number 0.
RevokeOthers(p, own) ==
  sessions' = Revoke(sessions, Own(p) \ {own})

-----------------------------------------------------------------------------
(* The counter of attempts *)

Locked(p) == failures[p] = MaxFailures

\* recordAttempt of an account that is not locked; the last one locks it.
RecordAttempt(p) == ~Locked(p) /\ failures' = [failures EXCEPT ![p] = @ + 1]

\* reset, which forgets a lock as well
Reset(p) ==
  /\ failures' = [failures EXCEPT ![p] = 0]
  /\ wrong' = [wrong EXCEPT ![p] = 0]

\* The lock runs out, and the next attempt starts a new window.
LockEnds(p) ==
  /\ Locked(p) /\ Reset(p)
  /\ UNCHANGED <<factors, sessions, table, calls, secrets, accepted>>

-----------------------------------------------------------------------------
(* Logging in *)

Rests(c) == calls' = [calls EXCEPT ![c] = Resting]

\* Login reads the user, counts the attempt and compares the password.
Login(c, p, right) ==
  /\ calls[c].pc = "resting" /\ RecordAttempt(p)
  /\ calls' = [calls EXCEPT ![c] =
       IF right THEN [Resting EXCEPT !.pc = IF factors[p].on THEN "challenge" ELSE "issue", !.who = p]
                ELSE Resting]
  /\ wrong' = IF right THEN wrong ELSE [wrong EXCEPT ![p] = @ + 1]
  /\ UNCHANGED <<factors, sessions, table, secrets, accepted>>

\* The login of an account with one factor is complete: IssueSession, which may fail.
LoginIssues(c, ok) ==
  /\ calls[c].pc = "issue" /\ Reset(calls[c].who)
  /\ IF ok THEN Issue("refresh", calls[c].who, 0) ELSE UNCHANGED sessions
  /\ Rests(c)
  /\ UNCHANGED <<factors, table, secrets, accepted>>

\* beginTOTPChallenge: the counter goes on, or the password would forgive wrong codes.
BeginChallenge(c) ==
  /\ calls[c].pc = "challenge" /\ Issue("challenge", calls[c].who, 0)
  /\ Rests(c)
  /\ UNCHANGED <<factors, failures, table, secrets, wrong, accepted>>

-----------------------------------------------------------------------------
(* Transactions that hold the table of the users *)

Takes(c, call) ==
  /\ calls[c].pc = "resting" /\ table = NoCaller /\ table' = c
  /\ calls' = [calls EXCEPT ![c] = call]

Releases(c) == table' = NoCaller /\ Rests(c)

\* Refused, or failed.
Abandon(c) ==
  /\ table = c /\ Releases(c)
  /\ UNCHANGED <<factors, failures, sessions, secrets, wrong, accepted>>

\* A code of the authenticator is "right" or "wrong"; anything else is a recovery code.
Valid(call) == call.seen.on /\ (call.code = "right" \/ call.code \in call.seen.codes)

\* CompleteTOTPLogin: the challenge is active, the attempt is counted, the user is read.
Complete(c, ch, code) ==
  LET p == sessions[ch].who
      call == [pc |-> "complete", who |-> p, session |-> ch, code |-> code, seen |-> factors[p]]
  IN /\ sessions[ch].kind = "challenge" /\ Active(ch)
     /\ RecordAttempt(p) /\ Takes(c, call)
     /\ wrong' = IF Valid(call) THEN wrong ELSE [wrong EXCEPT ![p] = @ + 1]
     /\ UNCHANGED <<factors, sessions, secrets, accepted>>

\* ConfirmTOTPSetup and DisableTOTP, for the holder of a session
Change(c, pc, p, own, code) ==
  /\ Takes(c, [pc |-> pc, who |-> p, session |-> own, code |-> code, seen |-> factors[p]])
  /\ UNCHANGED <<factors, failures, sessions, secrets, wrong, accepted>>

\* verifyTOTPOrRecoveryCode: the list is replaced if it is still the one that was read.
Consume(call) ==
  /\ accepted' = IF call.code \in RecoveryCode
                 THEN [accepted EXCEPT ![call.who][call.code] = @ + 1] ELSE accepted
  /\ factors[call.who].codes = call.seen.codes
  /\ factors' = [factors EXCEPT ![call.who].codes = @ \ {call.code}]

\* Mutant: the challenge stays active.
CompletedOpen(c) ==
  LET call == calls[c] IN
  /\ call.pc = "complete" /\ table = c /\ Valid(call)
  /\ Consume(call) /\ Reset(call.who)
  /\ Issue("refresh", call.who, call.session)
  /\ Releases(c)
  /\ UNCHANGED secrets

\* The challenge is revoked, and the session issued, in the transaction.
Completed(c) ==
  LET call == calls[c] IN
  /\ call.pc = "complete" /\ table = c /\ Valid(call)
  /\ Consume(call) /\ Reset(call.who)
  /\ Len(sessions) < MaxSessions
  /\ sessions' = Append(Revoke(sessions, {call.session}),
                        [kind |-> "refresh", who |-> call.who, from |-> call.session, active |-> TRUE])
  /\ Releases(c)
  /\ UNCHANGED secrets

\* The commit fails after the counter was reset: the memory of the process is not rolled back.
CompleteFails(c) ==
  /\ calls[c].pc = "complete" /\ table = c /\ Valid(calls[c]) /\ Reset(calls[c].who)
  /\ Releases(c)
  /\ UNCHANGED <<factors, sessions, secrets, accepted>>

-----------------------------------------------------------------------------
(* The second factor *)

\* StartTOTPSetup checks the password and that the factor is off.
StartSetup(c, p) ==
  /\ calls[c].pc = "resting" /\ ~factors[p].on
  /\ calls' = [calls EXCEPT ![c] = [Resting EXCEPT !.pc = "pending", !.who = p]]
  /\ UNCHANGED <<factors, failures, sessions, table, secrets, wrong, accepted>>

\* SetPendingTOTPSecret, a statement that does not look at the factor again.
SetPending(c) ==
  /\ calls[c].pc = "pending" /\ table = NoCaller /\ secrets < MaxSecrets
  /\ factors' = [factors EXCEPT ![calls[c].who].secret = secrets + 1]
  /\ secrets' = secrets + 1
  /\ Rests(c)
  /\ UNCHANGED <<failures, sessions, table, wrong, accepted>>

\* EnableTOTP with new recovery codes; the other sessions are revoked.
ConfirmSetup(c) ==
  LET call == calls[c] IN
  /\ call.pc = "confirm" /\ table = c /\ call.code = "right"
  /\ ~call.seen.on /\ call.seen.secret # 0
  /\ factors' = [factors EXCEPT ![call.who] =
                   [on |-> TRUE, secret |-> call.seen.secret, codes |-> RecoveryCode]]
  /\ accepted' = [accepted EXCEPT ![call.who] = [k \in RecoveryCode |-> 0]]
  /\ RevokeOthers(call.who, call.session)
  /\ Releases(c)
  /\ UNCHANGED <<failures, secrets, wrong>>

\* DisableTOTP accepts a code like a login does, but counts no attempt.
DisableFactor(c) ==
  LET call == calls[c] IN
  /\ call.pc = "disable" /\ table = c /\ Valid(call)
  /\ accepted' = IF call.code \in RecoveryCode
                 THEN [accepted EXCEPT ![call.who][call.code] = @ + 1] ELSE accepted
  /\ factors' = [factors EXCEPT ![call.who] = NoFactor]
  /\ RevokeOthers(call.who, call.session)
  /\ Releases(c)
  /\ UNCHANGED <<failures, secrets, wrong>>

-----------------------------------------------------------------------------
(* Sessions *)

\* RefreshToken reads that the session is active, and the user.
Refresh(c, s) ==
  /\ calls[c].pc = "resting" /\ sessions[s].kind = "refresh" /\ Active(s)
  /\ calls' = [calls EXCEPT ![c] = [Resting EXCEPT !.pc = "refresh", !.session = s]]
  /\ UNCHANGED <<factors, failures, sessions, table, secrets, wrong, accepted>>

\* The new session is there and the old one revoked when the transaction commits.
Refreshed(c) ==
  LET s == calls[c].session IN
  /\ calls[c].pc = "refresh" /\ Len(sessions) < MaxSessions
  /\ sessions' = Append(Revoke(sessions, {s}),
                        [kind |-> "refresh", who |-> sessions[s].who, from |-> s, active |-> TRUE])
  /\ Rests(c)
  /\ UNCHANGED <<factors, failures, table, secrets, wrong, accepted>>

RefreshFails(c) ==
  /\ calls[c].pc = "refresh" /\ Rests(c)
  /\ UNCHANGED <<factors, failures, sessions, table, secrets, wrong, accepted>>

\* The rows change in a statement of their own.
Rows(new) ==
  /\ sessions' = new /\ sessions' # sessions
  /\ UNCHANGED <<factors, failures, table, calls, secrets, wrong, accepted>>

Logout(s) == sessions[s].kind = "refresh" /\ Rows(Revoke(sessions, {s}))

\* ConfirmPasswordReset revokes every session, and the challenges with them.
ResetPassword(p) == table = NoCaller /\ Rows(Revoke(sessions, Own(p)))

\* The lifetime of a token is over; the row is deleted within the hour.
Expire(s) == Rows(Revoke(sessions, {s}))

\* After a restore
DeleteAllSessions == Rows(Revoke(sessions, DOMAIN sessions))

-----------------------------------------------------------------------------
\* An account that set its second factor up earlier, or one that has none.
SessionsInit ==
  /\ factors \in [Person -> {NoFactor, [on |-> TRUE, secret |-> 1, codes |-> RecoveryCode]}]
  /\ failures = [p \in Person |-> 0]
  /\ sessions = <<>> /\ table = NoCaller
  /\ calls = [c \in Caller |-> Resting] /\ secrets = 1
  /\ wrong = [p \in Person |-> 0]
  /\ accepted = [p \in Person |-> [k \in RecoveryCode |-> 0]]

Code == {"right", "wrong"} \cup RecoveryCode

LogsIn(c) ==
  \/ \E p \in Person, right \in BOOLEAN : Login(c, p, right)
  \/ \E ok \in BOOLEAN : LoginIssues(c, ok)
  \/ BeginChallenge(c)
  \/ \E ch \in DOMAIN sessions, code \in Code : Complete(c, ch, code)
  \/ Completed(c) \/ CompleteFails(c) \/ Abandon(c)

ChangesFactor(c) ==
  \/ \E p \in Person : StartSetup(c, p)
  \/ SetPending(c)
  \/ \E own \in DOMAIN sessions, pc \in {"confirm", "disable"}, code \in Code :
       sessions[own].kind = "refresh" /\ Change(c, pc, sessions[own].who, own, code)
  \/ ConfirmSetup(c) \/ DisableFactor(c)

KeepsSession(c) == (\E s \in DOMAIN sessions : Refresh(c, s)) \/ Refreshed(c) \/ RefreshFails(c)

SessionsChange ==
  \/ \E s \in DOMAIN sessions : Logout(s) \/ Expire(s)
  \/ \E p \in Person : LockEnds(p) \/ ResetPassword(p)
  \/ DeleteAllSessions

SessionsNext ==
  (\E c \in Caller : LogsIn(c) \/ ChangesFactor(c) \/ KeepsSession(c)) \/ SessionsChange

SessionsSpec == SessionsInit /\ [][SessionsNext]_sessionVars

-----------------------------------------------------------------------------
(* Properties *)

\* A challenge gives one session, whoever completes it at the same time, and a recovery
\* code is accepted once, by a login or by the removal of the factor.  A code of the
\* authenticator is accepted for every challenge while it is valid (verifyTOTPOrRecoveryCode).
FactorsUsedOnce ==
  /\ \A ch \in DOMAIN sessions : sessions[ch].kind = "challenge" =>
       Cardinality({s \in DOMAIN sessions : sessions[s].from = ch}) <= 1
  /\ \A p \in Person, k \in RecoveryCode : accepted[p][k] <= 1

=============================================================================
