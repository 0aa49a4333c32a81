------------------------------ MODULE Sessions ------------------------------
(***************************************************************************)
(* How one student is let in once signed in: the pair of JSON web tokens   *)
(* that a login is answered with, refresh and logout, the tokens that a    *)
(* student mints to paste into an assistant, and what is looked up on      *)
(* every request (IsStudent, McpToken.resolve).                            *)
(*                                                                         *)
(* An access token is not stored: it is good until it runs out.  A refresh *)
(* token can be blacklisted, is not rotated, and yields access tokens as   *)
(* long as it lasts, each dated from when the refresh token was checked.   *)
(* Checking a token, and what the request does then, are separate steps,   *)
(* and so are the two saves of the committee's disable and enable.         *)
(*                                                                         *)
(* The secrets that a login is given are those of SignIn and right; what a *)
(* request does once it is let in is left to the other modules, except that*)
(* it may mint or revoke a pasted token.                                   *)
(***************************************************************************)
EXTENDS Integers

CONSTANTS
  Sessions,      \* logins that may be made, and
  Pasted,        \* tokens that may be minted, by their time and id
  Requests,      \* in flight
  NoCredential,
  AccessLife, RefreshLife,   \* SIMPLE_JWT, base.py
  LastTick       \* bound on the clock

ASSUME SessionAssumption ==
  /\ Sessions \cap Pasted = {} /\ NoCredential \notin Sessions \cup Pasted
  /\ AccessLife \in Nat \ {0} /\ RefreshLife \in Nat \ {0} /\ LastTick \in Nat

VARIABLES
  tick,
  student,   \* is_active of the account and of the student, suspension_ends
  session,   \* per login: until when its tokens last, and the blacklist
  pasted,    \* McpToken
  asking,    \* what each request in flight is doing
  \* history variables, read by properties only
  ended      \* when a login was made, and when its last logout was answered

sessionVars == <<tick, student, session, pasted, asking, ended>>

Never == LastTick + 1
Unopened == [access |-> 0, refresh |-> 0, blacklisted |-> FALSE]
Unminted == [state |-> "none", expires |-> 0]
Silent == [stage |-> "none", by |-> NoCredential, until |-> 0]
Acting(credential) == [stage |-> "act", by |-> credential, until |-> 0]
\* until: when the access token that it will be answered with runs out.
Refreshing(s, until) == [stage |-> "refresh", by |-> s, until |-> until]

BarredNow == student.ends > tick
AccountOn == student.account
\* user_is_student
IsStudent == student.account /\ student.profile

\* simplejwt: not run out, not blacklisted, and of an active account.
Refreshable(s) == tick < session[s].refresh /\ ~session[s].blacklisted /\ AccountOn

-----------------------------------------------------------------------------
(* Signing in *)

\* issue_jwt_pair
Open(s) ==
  /\ session[s].refresh = 0
  /\ session' = [session EXCEPT ![s] =
       [access |-> tick + AccessLife, refresh |-> tick + RefreshLife, blacklisted |-> FALSE]]
  /\ ended' = [ended EXCEPT ![s].opened = tick]
  /\ UNCHANGED <<tick, student, pasted, asking>>

\* LoginView: an active student who is not suspended.
LoginWithPassword(s) == IsStudent /\ ~BarredNow /\ Open(s)

\* LoginVerifyOtpView: an active account.  Neither the student's is_active nor
\* the suspension is looked at.
LoginWithCode(s) == AccountOn /\ Open(s)

\* LogoutView blacklists the refresh token.
Logout(s) ==
  /\ session[s].refresh > tick /\ ~session[s].blacklisted
  /\ session' = [session EXCEPT ![s].blacklisted = TRUE]
  /\ ended' = [ended EXCEPT ![s].out = tick]
  /\ UNCHANGED <<tick, student, pasted, asking>>

\* Whatever goes wrong with that, a database that cannot be written included,
\* is answered in the same way.
LogoutFails(s) ==
  /\ session[s].refresh > tick /\ ~session[s].blacklisted
  /\ ended' = [ended EXCEPT ![s].out = tick]
  /\ UNCHANGED <<tick, student, session, pasted, asking>>

-----------------------------------------------------------------------------
(* Requests *)

Ask(r, doing) ==
  /\ asking[r] = Silent
  /\ asking' = [asking EXCEPT ![r] = doing]
  /\ UNCHANGED <<tick, student, session, pasted, ended>>

Answered(r) == asking' = [asking EXCEPT ![r] = Silent]

\* Fault: the blacklist is not installed, and the token's signature and life are
\* all that is looked at.
CheckRefreshUnlisted(r, s) ==
  /\ tick < session[s].refresh /\ AccountOn
  /\ Ask(r, Refreshing(s, tick + AccessLife))

\* RefreshView checks the token, and dates the access token from then.
CheckRefresh(r, s) == Refreshable(s) /\ Ask(r, Refreshing(s, tick + AccessLife))

\* Of two answers that cross the one that lasts longer is kept.
AnswerRefresh(r) ==
  /\ asking[r].stage = "refresh"
  /\ session' = [session EXCEPT ![asking[r].by].access =
       IF @ < asking[r].until THEN asking[r].until ELSE @]
  /\ Answered(r)
  /\ UNCHANGED <<tick, student, pasted, ended>>

\* JWTAuthentication and IsStudent.
LetIn(r, s) == IsStudent /\ tick < session[s].access /\ Ask(r, Acting(s))

\* McpToken.resolve: the token is usable, and so is the student.
Resolve(r, t) ==
  /\ pasted[t].state = "live" /\ tick < pasted[t].expires
  /\ IsStudent
  /\ Ask(r, Acting(t))

\* McpTokenListCreateView.post: until a time in the future, or for good.
MintToken(r) ==
  /\ asking[r].stage = "act" /\ asking[r].by \in Sessions
  /\ \E t \in Pasted, until \in (tick + 1)..Never :
       /\ pasted[t].state = "none"
       /\ pasted' = [pasted EXCEPT ![t] = [state |-> "live", expires |-> until]]
  /\ Answered(r)
  /\ UNCHANGED <<tick, student, session, ended>>

\* McpTokenRevokeView.delete, one that is not revoked.
RevokeToken(r) ==
  /\ asking[r].stage = "act" /\ asking[r].by \in Sessions
  /\ \E t \in Pasted :
       /\ pasted[t].state = "live"
       /\ pasted' = [pasted EXCEPT ![t].state = "revoked"]
  /\ Answered(r)
  /\ UNCHANGED <<tick, student, session, ended>>

\* Any other request, or one whose process dies.
AnswerRequest(r) ==
  /\ asking[r] # Silent
  /\ Answered(r)
  /\ UNCHANGED <<tick, student, session, pasted, ended>>

-----------------------------------------------------------------------------
(* The committee, and time *)

\* The saves of disable and enable, of the student and of the account.
SetProfile(on) ==
  /\ student.profile # on
  /\ student' = [student EXCEPT !.profile = on]
  /\ UNCHANGED <<tick, session, pasted, asking, ended>>

SetAccount(on) ==
  /\ student.account # on
  /\ student' = [student EXCEPT !.account = on]
  /\ UNCHANGED <<tick, session, pasted, asking, ended>>

\* suspend until a time in the future, or unsuspend.
SuspendUntil(until) ==
  /\ until = 0 \/ until > tick
  /\ student' = [student EXCEPT !.ends = until]
  /\ UNCHANGED <<tick, session, pasted, asking, ended>>

TimePasses ==
  /\ tick < LastTick
  /\ tick' = tick + 1
  /\ UNCHANGED <<student, session, pasted, asking, ended>>

SessionInit ==
  /\ tick = 0
  /\ student = [account |-> TRUE, profile |-> TRUE, ends |-> 0]
  /\ session = [s \in Sessions |-> Unopened]
  /\ pasted = [t \in Pasted |-> Unminted]
  /\ asking = [r \in Requests |-> Silent]
  /\ ended = [s \in Sessions |-> [opened |-> 0, out |-> Never]]

SessionNext ==
  \/ \E s \in Sessions : LoginWithPassword(s) \/ LoginWithCode(s) \/ Logout(s) \/ LogoutFails(s)
  \/ \E r \in Requests :
       \/ \E s \in Sessions : CheckRefresh(r, s) \/ LetIn(r, s)
       \/ \E t \in Pasted : Resolve(r, t)
       \/ AnswerRefresh(r) \/ MintToken(r) \/ RevokeToken(r) \/ AnswerRequest(r)
  \/ \E on \in BOOLEAN : SetProfile(on) \/ SetAccount(on)
  \/ \E until \in 0..LastTick : SuspendUntil(until)
  \/ TimePasses

SessionSpec == SessionInit /\ [][SessionNext]_sessionVars

-----------------------------------------------------------------------------
(* Properties *)

SessionTypeOK ==
  /\ tick \in 0..LastTick
  /\ student \in [account : BOOLEAN, profile : BOOLEAN, ends : 0..LastTick]
  /\ session \in [Sessions -> [access : Nat, refresh : Nat, blacklisted : BOOLEAN]]
  /\ pasted \in [Pasted -> [state : {"none", "live", "revoked"}, expires : 0..Never]]
  /\ asking \in [Requests -> [stage : {"none", "refresh", "act"},
                              by : Sessions \cup Pasted \cup {NoCredential}, until : Nat]]
  /\ ended \in [Sessions -> [opened : 0..LastTick, out : 0..Never]]

\* A login is over, however often it was refreshed, when the lives of both
\* tokens have passed, and after a logout that blacklisted its refresh token when
\* the life of an access token has: from then on nobody is let in with it, though
\* a refresh was checked before the end and answered after it.  Only so long may
\* a token that cannot be taken back outlive the one that can.  (LogoutView says
\* the same of a logout that could not blacklist: that one ends nothing, and the
\* first bound is all there is.)
SessionsEnd ==
  [][\A r \in Requests, s \in Sessions :
       asking[r] = Silent /\ asking'[r] = Acting(s) =>
         /\ tick < ended[s].opened + RefreshLife + AccessLife
         /\ session[s].blacklisted => tick < ended[s].out + AccessLife]_sessionVars
=============================================================================
