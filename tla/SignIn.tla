------------------------------- MODULE SignIn -------------------------------
(***************************************************************************)
(* Registration, one-time codes and password-reset links (authentication/).*)
(* Codes, their counters and the links live in Django's cache, and every   *)
(* cache call of a request is a step of its own.  The deployed cache is a  *)
(* database table shared by all workers ("db"): requests interleave, and   *)
(* BaseCache.incr is a get and a set that gives the entry the default      *)
(* timeout.  The cache of a single development worker ("locmem") counts    *)
(* atomically, keeps the timeout, and runs one request at a time.          *)
(*                                                                         *)
(* A secret is a number; 0 is a wrong guess.  An entry of the cache has the*)
(* time it has left, and one that is missing or expired has the value 0.   *)
(* The key of a link names its user; of the passwords and the tokens that a*)
(* request is given only what the properties need is kept.  The keys of the*)
(* two purposes of a code share nothing, and registration uses no key, so a*)
(* behaviour has requests of one purpose only.                             *)
(***************************************************************************)
EXTENDS Integers, FiniteSets

CONSTANTS
  Addresses, Clients, Nobody,
  InstituteOf,   \* the institute whose allow-list has the address's domain
  Backends,      \* the cache backends that may be configured
  MaxAttempts, MaxSends, CodeLife, LinkLife, RateWindow, Cooldown,
  DefaultLife,   \* the timeout of an entry set without one
  MaxSecrets,    \* bound on the codes and links ever issued
  CodesUpTo,     \* for a backend and a purpose, the same when a code is asked for
  CountCap       \* bound on a counter's value, above both limits

ASSUME SignInAssumption ==
  /\ Backends \subseteq {"db", "locmem"}
  /\ MaxAttempts \in Nat \ {0} /\ MaxSends \in Nat \ {0} /\ MaxSecrets \in Nat
  /\ CountCap \in Nat /\ CountCap > MaxAttempts /\ CountCap > MaxSends
  /\ CodeLife \in Nat \ {0} /\ LinkLife \in Nat \ {0} /\ RateWindow \in Nat \ {0}
  /\ Cooldown \in Nat \ {0} /\ DefaultLife \in Nat \ {0}
  /\ CodesUpTo \in [Backends \X {"register", "login", "reset"} -> 0..MaxSecrets]
  /\ Nobody \notin Clients \cup Addresses

VARIABLES
  backend,
  purpose,   \* of the requests of this behaviour
  cache,     \* the auth: keys
  account,   \* BaseUser and Student, per address
  request,   \* what each request in flight is doing and has read
  issued,    \* how many secrets have been issued
  \* history variables, read by properties only
  admitted,  \* how often each secret let somebody in
  wrong,     \* how many wrong guesses at the last code of each address were
             \* counted, on locmem
  contended  \* the secrets that two requests in flight at once presented

signInVars == <<backend, purpose, cache, account, request, issued, admitted, wrong, contended>>
historyVars == <<admitted, wrong, contended>>

Secrets == 1..MaxSecrets

\* otp_cache_key, rate_cache_key, attempts_cache_key, cooldown_cache_key and
\* link_cache_key: the key of a link is its hash.
Keys ==
  ({"otp", "rate", "attempts", "cooldown"} \X Addresses) \cup ({"link"} \X Secrets)

Missing == [value |-> 0, left |-> 0]

\* cache.get, cache.set and cache.delete.
Get(key) == cache[key].value
Set(key, value, life) == cache' = [cache EXCEPT ![key] = [value |-> value, left |-> life]]
Delete(key) == cache' = [cache EXCEPT ![key] = Missing]

\* A count that only comparisons with lower limits can tell apart from a larger.
UpTo(limit, n) == IF n > limit THEN limit ELSE n

NoAccount == [state |-> "none", role |-> "none", password |-> Nobody]

\* Somebody may sign in with a code who has a student profile, active or not,
\* or an active administrator's.
ActiveUser(a) == account[a].state = "active"
CanLoginWithOtp(a) == ActiveUser(a) /\ account[a].role \in {"student", "admin"}

-----------------------------------------------------------------------------
(* Requests *)

Idle ==
  [ stage |-> "idle", address |-> Nobody, secret |-> 0, seen |-> 0,
    key |-> "rate", known |-> FALSE ]

Stage(r) == request[r].stage

\* A development worker runs one request at a time.
Runs(r) == backend = "db" \/ \A q \in Clients \ {r} : Stage(q) = "idle"

KeyOf(r, part) == <<part, request[r].address>>

GoTo(r, stage) == request' = [request EXCEPT ![r].stage = stage]

Finish(r) == request' = [request EXCEPT ![r] = Idle]

Arrive(r, record) ==
  /\ Runs(r)
  /\ Stage(r) = "idle"
  /\ request' = [request EXCEPT ![r] = record]

\* _incr_with_ttl on one of the request's keys, in two or three calls: add,
\* which starts the timeout, or incr, which on the database is a get and a set.
\* The request goes on at stage `next` with the new count.
CountStart(r, part, life, next) ==
  LET key == KeyOf(r, part) IN
  IF Get(key) = 0
    THEN /\ Set(key, 1, life)
         /\ request' = [request EXCEPT ![r].stage = next, ![r].seen = 1]
    ELSE IF backend = "locmem"
      THEN /\ cache' = [cache EXCEPT ![key].value = UpTo(CountCap, @ + 1)]
           /\ request' = [request EXCEPT ![r].stage = next, ![r].seen = Get(key) + 1]
      ELSE /\ request' = [request EXCEPT ![r].stage = "incr", ![r].key = part]
           /\ UNCHANGED cache

IncrGet(r) ==
  LET key == KeyOf(r, request[r].key) IN
  /\ Stage(r) = "incr"
  /\ request' = [request EXCEPT ![r].stage = "incrset", ![r].seen = Get(key)]
  /\ UNCHANGED <<backend, purpose, cache, account, issued, historyVars>>

Life(key) == IF key = "rate" THEN RateWindow ELSE CodeLife

\* An entry that expired meanwhile raises ValueError and is set afresh.
IncrSet(r) ==
  LET part == request[r].key
      count == UpTo(CountCap, request[r].seen + 1)
  IN /\ Stage(r) = "incrset"
     /\ Set(KeyOf(r, part), count, IF count = 1 THEN Life(part) ELSE DefaultLife)
     /\ request' = [request EXCEPT
                     ![r].seen = count, ![r].key = Idle.key,
                     ![r].stage = IF part = "rate" THEN "cool" ELSE "failed"]
     /\ UNCHANGED <<backend, purpose, account, issued, historyVars>>

-----------------------------------------------------------------------------
(* Registration *)

\* RegisterView: the domain is on an allow-list and the address is not taken.
BeginRegister(r, a) ==
  /\ purpose = "register"
  /\ InstituteOf[a] # Nobody
  /\ account[a].state = "none"
  /\ Arrive(r, [Idle EXCEPT !.stage = "create", !.address = a])
  /\ UNCHANGED <<backend, purpose, cache, account, issued, historyVars>>

\* Fault: an account that has appeared since is taken over.
CreateAccountAnyway(r) ==
  /\ Stage(r) = "create"
  /\ account' = [account EXCEPT ![request[r].address] =
                   [state |-> "active", role |-> "student", password |-> r]]
  /\ Finish(r)
  /\ UNCHANGED <<backend, purpose, cache, issued, historyVars>>

\* User and student in one transaction; the unique address refuses a second.
CreateAccount(r) ==
  LET a == request[r].address IN
  /\ Stage(r) = "create"
  /\ account' = IF account[a].state # "none" THEN account
                ELSE [account EXCEPT ![a] =
                        [state |-> "active", role |-> "student", password |-> r]]
  /\ Finish(r)
  /\ UNCHANGED <<backend, purpose, cache, issued, historyVars>>

\* An administrator closes an account or opens it again (is_active).
SetActive(a, state) ==
  /\ account[a].state \in {"active", "inactive"} \ {state}
  /\ account' = [account EXCEPT ![a].state = state]
  /\ UNCHANGED <<backend, purpose, cache, request, issued, historyVars>>

-----------------------------------------------------------------------------
(* Sending a code *)

\* The bound on the codes of this behaviour.
CodesAreLeft == issued < CodesUpTo[<<backend, purpose>>]

\* LoginRequestOtpView and ForgotPasswordView, known address or not:
\* record_otp_send first looks at the cooldown,
BeginSend(r, a) ==
  /\ purpose \in {"login", "reset"}
  /\ CodesAreLeft
  /\ Get(<<"cooldown", a>>) = 0
  /\ Arrive(r, [Idle EXCEPT !.stage = "rate", !.address = a])
  /\ UNCHANGED <<backend, purpose, cache, account, issued, historyVars>>

\* then at the rate,
CheckRate(r) ==
  /\ Stage(r) = "rate"
  /\ IF Get(KeyOf(r, "rate")) >= MaxSends THEN Finish(r) ELSE GoTo(r, "count")
  /\ UNCHANGED <<backend, purpose, cache, account, issued, historyVars>>

\* counts the send,
CountSend(r) ==
  /\ Stage(r) = "count"
  /\ CountStart(r, "rate", RateWindow, "cool")
  /\ UNCHANGED <<backend, purpose, account, issued, historyVars>>

\* and starts the cooldown.
SetCooldown(r) ==
  /\ Stage(r) = "cool"
  /\ Set(KeyOf(r, "cooldown"), 1, Cooldown)
  /\ request' = [request EXCEPT ![r].stage = "lookup", ![r].seen = 0]
  /\ UNCHANGED <<backend, purpose, account, issued, historyVars>>

\* Only then is the user looked up.  No code is sent where there is none, or with
\* a password that is given and is not an administrator's own.  The committee
\* sends a student a reset whether the account is open or closed (send_reset_link).
LookUp(r) ==
  LET a == request[r].address IN
  /\ Stage(r) = "lookup"
  /\ \/ /\ \/ purpose = "login" /\ CanLoginWithOtp(a)
           \/ purpose = "reset" /\ account[a].state # "none"
        /\ GoTo(r, "issue")
     \/ Finish(r)
  /\ UNCHANGED <<backend, purpose, cache, account, issued, historyVars>>

\* create_otp: the code, replacing the one before.
IssueCode(r) ==
  /\ Stage(r) = "issue"
  /\ CodesAreLeft
  /\ issued' = issued + 1
  /\ Set(KeyOf(r, "otp"), issued', CodeLife)
  /\ GoTo(r, "fresh")
  /\ wrong' = [wrong EXCEPT ![request[r].address] = 0]
  /\ UNCHANGED <<backend, purpose, account, admitted, contended>>

\* The failed attempts are forgotten.  A forgotten password is also sent a link.
ForgetAttempts(r) ==
  /\ Stage(r) = "fresh"
  /\ Delete(KeyOf(r, "attempts"))
  /\ IF purpose = "reset" THEN GoTo(r, "link") ELSE Finish(r)
  /\ UNCHANGED <<backend, purpose, account, issued, historyVars>>

\* create_link: the entry names the user.
IssueLink(r) ==
  /\ Stage(r) = "link"
  /\ issued < MaxSecrets
  /\ issued' = issued + 1
  /\ cache' = [cache EXCEPT ![<<"link", issued'>>] =
                 [value |-> request[r].address, left |-> LinkLife]]
  /\ Finish(r)
  /\ UNCHANGED <<backend, purpose, account, historyVars>>

-----------------------------------------------------------------------------
(* Presenting a code or a link *)

\* Requests in flight that presented secret c.
Presenting(c) == {q \in Clients : Stage(q) # "idle" /\ request[q].secret = c}

Contend(c) ==
  contended' = IF c # 0 /\ Presenting(c) # {} THEN contended \cup {c} ELSE contended

\* LoginVerifyOtpView and ResetPasswordView call verify_otp, which first looks
\* at the attempts.  A login for an address nobody may use is verified too, and
\* then refused.
BeginVerify(r, a, c) ==
  /\ purpose \in {"login", "reset"}
  /\ Get(<<"attempts", a>>) < MaxAttempts
  /\ Arrive(r, [Idle EXCEPT !.stage = "compare", !.address = a, !.secret = c,
                            !.known = purpose = "reset" \/ CanLoginWithOtp(a)])
  /\ Contend(c)
  /\ UNCHANGED <<backend, purpose, cache, account, issued, admitted, wrong>>

Compare(r) ==
  LET code == Get(KeyOf(r, "otp")) IN
  /\ Stage(r) = "compare"
  /\ IF code = 0 THEN Finish(r)
     ELSE GoTo(r, IF code = request[r].secret THEN "spend" ELSE "fail")
  /\ UNCHANGED <<backend, purpose, cache, account, issued, historyVars>>

\* Fault: a code that stays in the cache until it expires.
SpendCodeLater(r) ==
  /\ Stage(r) = "spend"
  /\ GoTo(r, "clear")
  /\ UNCHANGED <<backend, purpose, cache, account, issued, historyVars>>

SpendCode(r) ==
  /\ Stage(r) = "spend"
  /\ Delete(KeyOf(r, "otp"))
  /\ GoTo(r, "clear")
  /\ UNCHANGED <<backend, purpose, account, issued, historyVars>>

Admit(c) == admitted' = [admitted EXCEPT ![c] = UpTo(2, @ + 1)]

\* A login is answered with tokens, a reset goes on.
ClearAttempts(r) ==
  /\ Stage(r) = "clear"
  /\ Delete(KeyOf(r, "attempts"))
  /\ IF purpose = "reset"
     THEN GoTo(r, "owner") /\ UNCHANGED admitted
     ELSE /\ Finish(r)
          /\ IF request[r].known THEN Admit(request[r].secret) ELSE UNCHANGED admitted
  /\ UNCHANGED <<backend, purpose, account, issued, wrong, contended>>

\* Fault: failures are remembered for the length of the cooldown.
CountFailureBriefly(r) ==
  /\ Stage(r) = "fail"
  /\ CountStart(r, "attempts", Cooldown, "failed")
  /\ UNCHANGED <<backend, purpose, account, issued, historyVars>>

CountFailure(r) ==
  /\ Stage(r) = "fail"
  /\ CountStart(r, "attempts", CodeLife, "failed")
  /\ UNCHANGED <<backend, purpose, account, issued, historyVars>>

\* The last failure allowed takes the code away.
FailureCounted(r) ==
  LET a == request[r].address IN
  /\ Stage(r) = "failed"
  /\ IF request[r].seen >= MaxAttempts THEN Delete(KeyOf(r, "otp")) ELSE UNCHANGED cache
  /\ wrong' = IF backend = "db" THEN wrong
              ELSE [wrong EXCEPT ![a] = UpTo(MaxAttempts + 1, @ + 1)]
  /\ Finish(r)
  /\ UNCHANGED <<backend, purpose, account, issued, admitted, contended>>

\* consume_link: get,
BeginLink(r, s) ==
  LET owner == Get(<<"link", s>>) IN
  /\ owner # 0
  /\ Arrive(r, [Idle EXCEPT !.stage = "unlink", !.address = owner, !.secret = s])
  /\ Contend(s)
  /\ UNCHANGED <<backend, purpose, cache, account, issued, admitted, wrong>>

\* and delete.
DropLink(r) ==
  /\ Stage(r) = "unlink"
  /\ Delete(<<"link", request[r].secret>>)
  /\ GoTo(r, "owner")
  /\ UNCHANGED <<backend, purpose, account, issued, historyVars>>

\* ResetPasswordView: the user must be active when looked up,
FindOwner(r) ==
  /\ Stage(r) = "owner"
  /\ IF ActiveUser(request[r].address) THEN GoTo(r, "password") ELSE Finish(r)
  /\ UNCHANGED <<backend, purpose, cache, account, issued, historyVars>>

\* and the password is saved in a column of its own.
SavePassword(r) ==
  /\ Stage(r) = "password"
  /\ account' = [account EXCEPT ![request[r].address].password = r]
  /\ Admit(request[r].secret)
  /\ Finish(r)
  /\ UNCHANGED <<backend, purpose, cache, issued, wrong, contended>>

-----------------------------------------------------------------------------
(* The specification *)

\* A worker dies: what it has written to the database's cache stays, while the
\* cache of a development worker is its own memory.
Die(r) ==
  /\ Stage(r) # "idle"
  /\ Finish(r)
  /\ cache' = IF backend = "db" THEN cache ELSE [key \in Keys |-> Missing]
  /\ UNCHANGED <<backend, purpose, account, issued, historyVars>>

\* The database refuses a query or a save of the accounts: the request fails.
Refused(r) ==
  /\ Stage(r) \in {"create", "lookup", "owner", "password"}
  /\ Finish(r)
  /\ UNCHANGED <<backend, purpose, cache, account, issued, historyVars>>

\* Time passes and entries expire.
Expire ==
  /\ \E key \in Keys : cache[key].left > 0
  /\ cache' = [key \in Keys |->
       IF cache[key].left =< 1 THEN Missing ELSE [cache[key] EXCEPT !.left = @ - 1]]
  /\ UNCHANGED <<backend, purpose, account, request, issued, historyVars>>

Known(role) == [state |-> "active", role |-> role, password |-> Nobody]

\* Administrators are created by an administrator and have no other way in.
SignInInit ==
  /\ backend \in Backends
  /\ purpose \in {"register", "login", "reset"}
  /\ cache = [key \in Keys |-> Missing]
  /\ account \in [Addresses -> {NoAccount, Known("admin")}]
  /\ request = [r \in Clients |-> Idle]
  /\ issued = 0
  /\ admitted = [c \in Secrets |-> 0]
  /\ wrong = [a \in Addresses |-> 0]
  /\ contended = {}

SignInArrival(r) ==
  \/ \E a \in Addresses : BeginRegister(r, a)
  \/ \E a \in Addresses : BeginSend(r, a) \/ \E c \in 0..issued : BeginVerify(r, a, c)
  \/ \E s \in 1..issued : BeginLink(r, s)

SendStep(r) ==
  \/ CheckRate(r) \/ CountSend(r) \/ SetCooldown(r) \/ LookUp(r)
  \/ IssueCode(r) \/ ForgetAttempts(r) \/ IssueLink(r)

PresentStep(r) ==
  \/ Compare(r) \/ SpendCode(r) \/ ClearAttempts(r) \/ CountFailure(r)
  \/ FailureCounted(r) \/ DropLink(r) \/ FindOwner(r) \/ SavePassword(r)

SignInNext ==
  \/ \E r \in Clients :
       \/ SignInArrival(r) \/ SendStep(r) \/ PresentStep(r) \/ CreateAccount(r)
       \/ IncrGet(r) \/ IncrSet(r) \/ Die(r) \/ Refused(r)
  \/ \E a \in Addresses, state \in {"active", "inactive"} : SetActive(a, state)
  \/ Expire

SignInSpec == SignInInit /\ [][SignInNext]_signInVars

-----------------------------------------------------------------------------
(* Properties *)

SignInTypeOK ==
  /\ backend \in Backends /\ purpose \in {"register", "login", "reset"}
  /\ cache \in [Keys -> [value : Nat \cup Addresses, left : Nat]]
  /\ account \in [Addresses -> [state : {"none", "active", "inactive"},
                                role : {"none", "student", "admin"},
                                password : Clients \cup {Nobody}]]
  /\ \A r \in Clients :
       /\ request[r].address \in Addresses \cup {Nobody}
       /\ request[r].secret \in 0..issued /\ request[r].seen \in Nat
  /\ issued \in 0..MaxSecrets

\* "Deletes the cache entry on success (single-use)" and "one-time link token"
\* (otp.py, links.py): a code or a link lets somebody in once, unless two
\* requests present it at the same time, when both may have read it before
\* either deletes it.
SecretsWorkOnce == \A c \in Secrets : admitted[c] > 1 => c \in contended

\* OTP_MAX_ATTEMPTS failures use up a code.  That takes a counter which lives
\* as long as the code does; on the database, incr shortens its life.
GuessesAreBounded == backend = "locmem" => \A a \in Addresses : wrong[a] =< MaxAttempts

\* Two registrations of one address may both find it free, and only one makes
\* the account: afterwards only a reset changes its password.
AccountsAreKept ==
  [][\A a \in Addresses :
       (account[a].state # "none" /\ account'[a].password # account[a].password) =>
         \E r \in Clients : Stage(r) = "password" /\ request[r].address = a]_signInVars
=============================================================================
