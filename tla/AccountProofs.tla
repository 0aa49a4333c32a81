---------------------------- MODULE AccountProofs ----------------------------
(***************************************************************************)
(* Proofs about how people get in and out, for any number of addresses,    *)
(* clients, secrets, logins and tokens, any limits and any lives.          *)
(*                                                                         *)
(* SignIn: every variable keeps its type; a code or a link lets somebody in*)
(* once, unless two requests presented it at the same time; on a cache that*)
(* counts without changing an entry's life, wrong guesses use up a code;   *)
(* and only a reset changes the password of an account there is.  The      *)
(* lemmas first say what each step does to the codes, the counters, the    *)
(* links and the stages of the requests, and the invariants are proved from*)
(* that alone.                                                             *)
(*                                                                         *)
(* Sessions: every variable keeps its type, and a login ends when its      *)
(* tokens have run out, or its logout has been answered, and not long      *)
(* after.                                                                  *)
(*                                                                         *)
(* DatabaseCopy: the move to another database changes the target as a      *)
(* whole or not at all, and what it commits is the file as it was, unless  *)
(* the program wrote to the file meanwhile.                                *)
(***************************************************************************)
EXTENDS MCAccounts, ResidentProofs, TLAPS


-----------------------------------------------------------------------------
(* The cache and the requests, seen from the outside *)

Entries == [value : Nat \cup Addresses, left : Nat]

Code(a) == cache[<<"otp", a>>]
Tries(a) == cache[<<"attempts", a>>]
Link(s) == cache[<<"link", s>>]

\* Entries hold what their keys are for.
CacheFits ==
  /\ cache \in [Keys -> Entries]
  /\ \A a \in Addresses :
       /\ Code(a).value \in 0..issued
       /\ Tries(a).value \in Nat /\ cache[<<"rate", a>>].value \in Nat
  /\ \A s \in Secrets : Link(s).value \in Addresses \cup {0}

Stages ==
  { "idle", "create", "rate", "count", "cool", "lookup", "issue", "fresh", "link", "compare",
    "spend", "clear", "fail", "incr", "incrset", "failed", "unlink", "owner", "password" }

Doings ==
  [ stage : Stages, address : Addresses \cup {Nobody}, secret : Nat, seen : Nat,
    key : {"rate", "attempts"}, known : BOOLEAN ]

\* A request that is not idle has an address, and what it was given was issued.
Sensible(x, n) ==
  /\ x \in Doings
  /\ x.stage # "idle" => x.address \in Addresses
  /\ x.secret \in 0..n

RequestsFit ==
  request \in [Clients -> Doings] /\ \A r \in Clients : Sensible(request[r], issued)

Accounts ==
  [Addresses -> [state : {"none", "active", "inactive"}, role : {"none", "student", "admin"},
                 password : Clients \cup {Nobody}]]

SignInShape ==
  /\ backend \in Backends /\ purpose \in {"register", "login", "reset"}
  /\ CacheFits
  /\ account \in Accounts
  /\ RequestsFit
  /\ issued \in 0..MaxSecrets
  /\ admitted \in [Secrets -> 0..2]
  /\ wrong \in [Addresses -> Nat]

\* The entries of a code, of its counters and of a link are different ones.
LEMMA KeysDiffer ==
  /\ \A a \in Addresses :
       /\ <<"otp", a>> \in Keys /\ <<"rate", a>> \in Keys
       /\ <<"attempts", a>> \in Keys /\ <<"cooldown", a>> \in Keys
  /\ \A s \in Secrets : <<"link", s>> \in Keys
BY DEF Keys

LEMMA MissingEntry == Missing \in Entries /\ Missing.value = 0 /\ Missing.left = 0
BY DEF Missing, Entries

\* A code is written, or deleted.
LEMMA CodeWritten ==
  ASSUME CacheFits, NEW a \in Addresses, NEW e \in Entries, e.value \in 0..issued',
         issued \in Nat, issued' \in Nat, issued =< issued',
         cache' = [cache EXCEPT ![<<"otp", a>>] = e]
  PROVE  /\ CacheFits'
         /\ Code(a)' = e /\ \A b \in Addresses \ {a} : Code(b)' = Code(b)
         /\ \A b \in Addresses : Tries(b)' = Tries(b)
         /\ \A s \in Secrets : Link(s)' = Link(s)
<1>1. /\ cache' \in [Keys -> Entries] /\ cache'[<<"otp", a>>] = e
      /\ \A key \in Keys \ {<<"otp", a>>} : cache'[key] = cache[key]
  BY KeysDiffer DEF CacheFits
<1>2. Code(a)' = e /\ \A b \in Addresses \ {a} : Code(b)' = Code(b)
  BY <1>1, KeysDiffer DEF Code
<1>3. /\ \A b \in Addresses : Tries(b)' = Tries(b)
      /\ \A b \in Addresses : cache'[<<"rate", b>>] = cache[<<"rate", b>>]
      /\ \A s \in Secrets : Link(s)' = Link(s)
  BY <1>1, KeysDiffer DEF Tries, Link
<1> QED
  BY <1>1, <1>2, <1>3 DEF CacheFits

\* A counter or a cooldown is.
LEMMA CounterWritten ==
  ASSUME CacheFits, NEW a \in Addresses, NEW e \in Entries, e.value \in Nat,
         NEW part \in {"rate", "attempts", "cooldown"}, issued' = issued,
         cache' = [cache EXCEPT ![<<part, a>>] = e]
  PROVE  /\ CacheFits'
         /\ \A b \in Addresses : Code(b)' = Code(b)
         /\ part = "attempts" => Tries(a)' = e
         /\ \A b \in Addresses : b # a \/ part # "attempts" => Tries(b)' = Tries(b)
         /\ \A s \in Secrets : Link(s)' = Link(s)
BY KeysDiffer DEF CacheFits, Code, Tries, Link

\* A link is.
LEMMA LinkWritten ==
  ASSUME CacheFits, NEW s \in Secrets, NEW e \in Entries, e.value \in Addresses \cup {0},
         issued \in Nat, issued' \in Nat, issued =< issued',
         cache' = [cache EXCEPT ![<<"link", s>>] = e]
  PROVE  /\ CacheFits'
         /\ Link(s)' = e /\ \A t \in Secrets \ {s} : Link(t)' = Link(t)
         /\ \A b \in Addresses : Code(b)' = Code(b) /\ Tries(b)' = Tries(b)
BY KeysDiffer DEF CacheFits, Code, Tries, Link

\* The requests other than r stay as they are.
Others(r) == \A q \in Clients \ {r} : request'[q] = request[q]

\* One request is written.
LEMMA RequestWritten ==
  ASSUME RequestsFit, issued \in Nat, issued' \in Nat, issued =< issued',
         NEW r \in Clients, NEW x, Sensible(x, issued'), request' = [request EXCEPT ![r] = x]
  PROVE  RequestsFit' /\ request'[r] = x /\ Others(r)
BY DEF RequestsFit, Sensible, Others

LEMMA IdleFits ==
  ASSUME NEW n \in Nat
  PROVE  Sensible(Idle, n)
BY DEF Sensible, Idle, Doings, Stages

LEMMA Ends ==
  ASSUME RequestsFit, issued \in Nat, issued' \in Nat, issued =< issued',
         NEW r \in Clients, Finish(r)
  PROVE  RequestsFit' /\ request'[r] = Idle /\ Others(r)
BY IdleFits, RequestWritten DEF Finish

\* What a request that goes on to stage s becomes.
At(x, s) == [x EXCEPT !.stage = s]

LEMMA AtFits ==
  ASSUME NEW n \in Nat, NEW x, Sensible(x, n), x.stage # "idle", NEW s \in Stages
  PROVE  /\ Sensible(At(x, s), n)
         /\ At(x, s).stage = s /\ At(x, s).address = x.address /\ At(x, s).secret = x.secret
         /\ At(x, s).seen = x.seen /\ At(x, s).key = x.key /\ At(x, s).known = x.known
BY DEF At, Sensible, Doings

LEMMA GoesOn ==
  ASSUME RequestsFit, issued \in Nat, issued' \in Nat, issued =< issued',
         NEW r \in Clients, Stage(r) # "idle", NEW s \in Stages, GoTo(r, s)
  PROVE  RequestsFit' /\ request'[r] = At(request[r], s) /\ Others(r)
<1>1. Sensible(request[r], issued')
  BY DEF RequestsFit, Sensible
<1>2. Sensible(At(request[r], s), issued')
  BY <1>1, AtFits DEF Stage
<1>3. request' = [request EXCEPT ![r] = At(request[r], s)]
  BY DEF GoTo, At, RequestsFit
<1> QED
  BY <1>2, <1>3, RequestWritten

-----------------------------------------------------------------------------
(* What each step does *)

LEMMA Numbers ==
  ASSUME SignInShape
  PROVE  /\ issued \in Nat /\ issued =< MaxSecrets /\ MaxSecrets \in Nat
         /\ CacheFits /\ RequestsFit
         /\ \A r \in Clients :
              /\ Sensible(request[r], issued)
              /\ Stage(r) # "idle" => request[r].address \in Addresses
              /\ request[r].secret \in 0..issued /\ request[r].seen \in Nat
BY SignInAssumption DEF SignInShape, RequestsFit, Sensible, Stage, Doings

\* How a request that arrives starts.
LEMMA Arrives ==
  ASSUME SignInShape, NEW r \in Clients, NEW x, Arrive(r, x), Sensible(x, issued),
         issued' = issued
  PROVE  RequestsFit' /\ request'[r] = x /\ Others(r) /\ Stage(r) = "idle"
<1>1. RequestsFit /\ issued \in Nat /\ issued' \in Nat /\ issued =< issued'
  BY Numbers
<1>2. Stage(r) = "idle" /\ request' = [request EXCEPT ![r] = x] /\ Sensible(x, issued')
  BY DEF Arrive
<1> QED
  BY <1>1, <1>2, RequestWritten

LEMMA CacheKept ==
  ASSUME CacheFits, cache' = cache, issued \in Nat, issued' \in Nat, issued =< issued'
  PROVE  /\ CacheFits'
         /\ \A b \in Addresses : Code(b)' = Code(b) /\ Tries(b)' = Tries(b)
         /\ \A s \in Secrets : Link(s)' = Link(s)
BY DEF CacheFits, Code, Tries, Link

Starting(stage, a, c, known) ==
  [Idle EXCEPT !.stage = stage, !.address = a, !.secret = c, !.known = known]

LEMMA IdleIs ==
  /\ Idle \in Doings /\ Idle.stage = "idle" /\ Idle.secret = 0 /\ Idle.known = FALSE
BY DEF Idle, Doings, Stages

LEMMA StartFits ==
  ASSUME NEW n \in Nat, NEW stage \in Stages, NEW a \in Addresses, NEW c \in 0..n,
         NEW known \in BOOLEAN
  PROVE  /\ Sensible(Starting(stage, a, c, known), n)
         /\ Starting(stage, a, c, known).stage = stage
         /\ Starting(stage, a, c, known).address = a
         /\ Starting(stage, a, c, known).secret = c
         /\ Starting(stage, a, c, known).known = known
<1>1. PICK e \in Doings : e = Idle
  BY IdleIs
<1>2. PICK x : x = [e EXCEPT !.stage = stage, !.address = a, !.secret = c, !.known = known]
  OBVIOUS
<1>3. c \in Nat /\ a \in Addresses \cup {Nobody}
  OBVIOUS
<1>4. /\ x.stage = stage /\ x.address = a /\ x.secret = c /\ x.known = known
  BY <1>2 DEF Doings
<1>5. x \in Doings
  BY <1>2, <1>3 DEF Doings
<1>6. x = Starting(stage, a, c, known)
  BY <1>1, <1>2 DEF Starting
<1> QED
  BY <1>4, <1>5, <1>6 DEF Sensible

\* A start that leaves something as it is in Idle.
LEMMA ShortStarts ==
  ASSUME NEW stage, NEW a, NEW c
  PROVE  /\ [Idle EXCEPT !.stage = stage, !.address = a] = Starting(stage, a, 0, FALSE)
         /\ [Idle EXCEPT !.stage = stage, !.address = a, !.secret = c]
              = Starting(stage, a, c, FALSE)
<1>1. PICK e \in Doings : e = Idle /\ e.secret = 0 /\ e.known = FALSE
  BY IdleIs
<1>2. /\ [e EXCEPT !.stage = stage, !.address = a]
           = [e EXCEPT !.stage = stage, !.address = a, !.secret = 0, !.known = FALSE]
      /\ [e EXCEPT !.stage = stage, !.address = a, !.secret = c]
           = [e EXCEPT !.stage = stage, !.address = a, !.secret = c, !.known = FALSE]
  BY <1>1 DEF Doings
<1> QED
  BY <1>1, <1>2 DEF Starting

LEMMA RegisterDoes ==
  ASSUME SignInShape, NEW r \in Clients, NEW a \in Addresses,
         NEW stage \in {"create", "rate"}, Arrive(r, [Idle EXCEPT !.stage = stage, !.address = a]),
         issued' = issued
  PROVE  /\ RequestsFit' /\ Others(r) /\ Stage(r) = "idle"
         /\ request'[r].stage = stage /\ request'[r].secret = 0 /\ request'[r].address = a
<1> DEFINE x == Starting(stage, a, 0, FALSE)
<1>1. Arrive(r, x)
  BY ShortStarts
<1>2. issued \in Nat /\ stage \in Stages /\ 0 \in 0..issued /\ FALSE \in BOOLEAN
  BY Numbers DEF Stages
<1>3. Sensible(x, issued) /\ x.stage = stage /\ x.secret = 0 /\ x.address = a
  BY <1>2, StartFits, ZenonT(30)
<1> HIDE DEF x
<1> QED
  BY <1>1, <1>3, Arrives

LEMMA VerifyDoes ==
  ASSUME SignInShape, NEW r \in Clients, NEW a \in Addresses, NEW c \in 0..issued,
         BeginVerify(r, a, c)
  PROVE  /\ RequestsFit' /\ Others(r) /\ Stage(r) = "idle"
         /\ request'[r].stage = "compare" /\ request'[r].secret = c /\ request'[r].address = a
<1>1. PICK known \in BOOLEAN : Arrive(r, Starting("compare", a, c, known))
  BY DEF BeginVerify, Starting, CanLoginWithOtp, ActiveUser
<1> DEFINE x == Starting("compare", a, c, known)
<1>2. Sensible(x, issued) /\ x.stage = "compare" /\ x.secret = c /\ x.address = a
  BY Numbers, StartFits DEF Stages
<1>3. issued' = issued /\ Arrive(r, x)
  BY <1>1 DEF BeginVerify
<1> HIDE DEF x
<1> QED
  BY <1>2, <1>3, Arrives

LEMMA LinkDoes ==
  ASSUME SignInShape, NEW r \in Clients, NEW s \in 1..issued, BeginLink(r, s)
  PROVE  /\ RequestsFit' /\ Others(r) /\ Stage(r) = "idle" /\ s \in Secrets
         /\ Link(s).value # 0
         /\ request'[r].stage = "unlink" /\ request'[r].secret = s
<1>0. s \in Secrets /\ s \in 0..issued /\ issued \in Nat
  BY Numbers DEF Secrets
<1> DEFINE owner == Get(<<"link", s>>)
           x == Starting("unlink", owner, s, FALSE)
<1>1. owner \in Addresses /\ Link(s).value # 0
  BY <1>0, Numbers DEF BeginLink, Get, CacheFits, Link
<1> HIDE DEF owner
<1>4. "unlink" \in Stages /\ FALSE \in BOOLEAN
  BY DEF Stages
<1>2. Sensible(x, issued) /\ x.stage = "unlink" /\ x.secret = s
  BY <1>0, <1>1, <1>4, StartFits, ZenonT(30)
<1>3. Arrive(r, x) /\ issued' = issued
  BY ShortStarts DEF BeginLink, owner
<1> HIDE DEF x
<1> QED
  BY <1>0, <1>1, <1>2, <1>3, Arrives

\* What a step of request r may leave as it was, and where r goes.
CacheSame ==
  /\ \A b \in Addresses : Code(b)' = Code(b) /\ Tries(b)' = Tries(b)
  /\ \A s \in Secrets : Link(s)' = Link(s)

Going(r, s) ==
  /\ Stage(r) # "idle" /\ Others(r)
  /\ request'[r].stage = s
  /\ request'[r].address = request[r].address /\ request'[r].secret = request[r].secret

Ending(r) == Stage(r) # "idle" /\ Others(r) /\ request'[r].stage = "idle"

HistorySame == admitted' = admitted /\ wrong' = wrong /\ contended' = contended

\* A step that leaves the kind of requests, the accounts and the history alone.
LEMMA ShapeKept ==
  ASSUME SignInShape, CacheFits', RequestsFit', account' \in Accounts,
         UNCHANGED <<backend, purpose, issued, historyVars>>
  PROVE  SignInShape'
BY DEF SignInShape, historyVars

LEMMA GoesTo ==
  ASSUME SignInShape, NEW r \in Clients, Stage(r) # "idle", NEW s \in Stages, GoTo(r, s),
         issued' = issued
  PROVE  RequestsFit' /\ Going(r, s) /\ request'[r].seen = request[r].seen
<1>1. RequestsFit /\ issued \in Nat /\ issued' \in Nat /\ issued =< issued'
      /\ Sensible(request[r], issued) /\ request[r].stage # "idle"
  BY Numbers DEF Stage
<1>2. RequestsFit' /\ request'[r] = At(request[r], s) /\ Others(r)
  BY <1>1, GoesOn
<1> QED
  BY <1>1, <1>2, AtFits DEF Going

LEMMA IsOver ==
  ASSUME SignInShape, NEW r \in Clients, Stage(r) # "idle", Finish(r), issued' = issued
  PROVE  RequestsFit' /\ Ending(r)
BY Numbers, Ends, IdleIs DEF Ending

LEMMA CacheIsSame ==
  ASSUME SignInShape, cache' = cache, issued' = issued
  PROVE  CacheFits' /\ CacheSame
BY Numbers, CacheKept DEF CacheSame

\* A request arrives, and it presents nothing yet.
LEMMA ArrivalDoes ==
  ASSUME SignInShape, NEW r \in Clients, NEW a \in Addresses,
         BeginRegister(r, a) \/ BeginSend(r, a)
  PROVE  /\ SignInShape' /\ CacheSame /\ HistorySame /\ issued' = issued
         /\ Stage(r) = "idle" /\ Runs(r) /\ Others(r)
         /\ request'[r].stage \in {"create", "rate"} /\ request'[r].secret = 0
<1>1. PICK stage \in {"create", "rate"} :
        Arrive(r, [Idle EXCEPT !.stage = stage, !.address = a])
  BY Zenon DEF BeginRegister, BeginSend
<1>2. /\ UNCHANGED <<backend, purpose, cache, account, issued, historyVars>>
      /\ account' \in Accounts
  BY DEF BeginRegister, BeginSend, SignInShape
<1>3. /\ RequestsFit' /\ Others(r) /\ Stage(r) = "idle"
      /\ request'[r].stage = stage /\ request'[r].secret = 0
  BY <1>1, <1>2, RegisterDoes, Zenon
<1>4. Runs(r)
  BY <1>1, Zenon DEF Arrive
<1>5. CacheFits' /\ CacheSame /\ SignInShape' /\ HistorySame /\ issued' = issued
  BY <1>2, <1>3, CacheIsSame, ShapeKept DEF HistorySame, historyVars
<1> QED
  BY <1>3, <1>4, <1>5

\* A step of a request that changes neither cache nor account.
LEMMA QuietDoes ==
  ASSUME SignInShape, NEW r \in Clients, Stage(r) # "idle", NEW s \in Stages,
         GoTo(r, s) \/ Finish(r),
         UNCHANGED <<backend, purpose, cache, account, issued, historyVars>>
  PROVE  /\ SignInShape' /\ CacheSame /\ HistorySame
         /\ (Going(r, s) /\ request'[r].seen = request[r].seen) \/ Ending(r)
<1>1. account' \in Accounts /\ issued' = issued
  BY DEF SignInShape
<1>2. /\ RequestsFit'
      /\ (Going(r, s) /\ request'[r].seen = request[r].seen) \/ Ending(r)
  BY <1>1, GoesTo, IsOver
<1> QED
  BY <1>1, <1>2, CacheIsSame, ShapeKept DEF HistorySame, historyVars

\* A request presents a secret.
LEMMA VerifyStarts ==
  ASSUME SignInShape, NEW r \in Clients, NEW a \in Addresses, NEW c \in 0..issued,
         BeginVerify(r, a, c)
  PROVE  /\ SignInShape' /\ CacheSame /\ Stage(r) = "idle" /\ Runs(r) /\ Others(r)
         /\ request'[r].stage = "compare" /\ request'[r].secret = c /\ request'[r].address = a
         /\ Tries(a).value < MaxAttempts /\ Contend(c)
         /\ issued' = issued /\ admitted' = admitted /\ wrong' = wrong
<1>1. /\ RequestsFit' /\ Others(r) /\ Stage(r) = "idle"
      /\ request'[r].stage = "compare" /\ request'[r].secret = c /\ request'[r].address = a
  BY VerifyDoes
<1>2. UNCHANGED <<backend, purpose, cache, account, issued, admitted, wrong>>
      /\ Tries(a).value < MaxAttempts /\ Contend(c) /\ Runs(r)
  BY Zenon DEF BeginVerify, Arrive, Tries, Get
<1>3. CacheFits' /\ CacheSame /\ SignInShape'
  BY <1>1, <1>2, CacheIsSame DEF SignInShape
<1> QED
  BY <1>1, <1>2, <1>3

LEMMA LinkStarts ==
  ASSUME SignInShape, NEW r \in Clients, NEW s \in 1..issued, BeginLink(r, s)
  PROVE  /\ SignInShape' /\ CacheSame /\ Stage(r) = "idle" /\ Runs(r) /\ Others(r)
         /\ request'[r].stage = "unlink" /\ request'[r].secret = s
         /\ s \in Secrets /\ Link(s).value # 0 /\ Contend(s)
         /\ issued' = issued /\ admitted' = admitted /\ wrong' = wrong
<1>1. /\ RequestsFit' /\ Others(r) /\ Stage(r) = "idle" /\ s \in Secrets
      /\ Link(s).value # 0
      /\ request'[r].stage = "unlink" /\ request'[r].secret = s
  BY LinkDoes
<1>2. UNCHANGED <<backend, purpose, cache, account, issued, admitted, wrong>>
      /\ Contend(s) /\ Runs(r)
  BY Zenon DEF BeginLink, Arrive
<1>3. CacheFits' /\ CacheSame /\ SignInShape'
  BY <1>1, <1>2, CacheIsSame DEF SignInShape
<1> QED
  BY <1>1, <1>2, <1>3

\* A request writes a counter or the cooldown of its address.
LEMMA CounterDoes ==
  ASSUME SignInShape, NEW r \in Clients, Stage(r) # "idle",
         NEW part \in {"rate", "attempts", "cooldown"}, NEW e \in Entries, e.value \in Nat,
         cache' = [cache EXCEPT ![KeyOf(r, part)] = e], RequestsFit',
         UNCHANGED <<backend, purpose, account, issued, historyVars>>
  PROVE  /\ SignInShape' /\ HistorySame
         /\ \A b \in Addresses : Code(b)' = Code(b)
         /\ \A b \in Addresses :
              Tries(b)' = IF b = request[r].address /\ part = "attempts" THEN e ELSE Tries(b)
         /\ \A s \in Secrets : Link(s)' = Link(s)
<1>1. PICK a \in Addresses : a = request[r].address
  BY Numbers
<1>2. /\ CacheFits /\ cache' = [cache EXCEPT ![<<part, a>>] = e]
      /\ issued' = issued /\ account' \in Accounts
  BY <1>1, Numbers DEF KeyOf, SignInShape
<1>3. /\ CacheFits' /\ \A b \in Addresses : Code(b)' = Code(b)
      /\ part = "attempts" => Tries(a)' = e
      /\ \A b \in Addresses : b # a \/ part # "attempts" => Tries(b)' = Tries(b)
      /\ \A s \in Secrets : Link(s)' = Link(s)
  BY <1>2, CounterWritten
<1>4. SignInShape' /\ HistorySame
  BY <1>2, <1>3, ShapeKept DEF HistorySame, historyVars
<1> QED
  BY <1>1, <1>3, <1>4

\* A request writes the code of its address, or deletes it.
LEMMA CodeDoes ==
  ASSUME SignInShape, NEW r \in Clients, Stage(r) # "idle", NEW e \in Entries,
         e.value \in 0..issued', cache' = [cache EXCEPT ![KeyOf(r, "otp")] = e],
         issued' \in Nat, issued =< issued'
  PROVE  /\ CacheFits'
         /\ \A b \in Addresses : Code(b)' = IF b = request[r].address THEN e ELSE Code(b)
         /\ \A b \in Addresses : Tries(b)' = Tries(b)
         /\ \A s \in Secrets : Link(s)' = Link(s)
<1>1. PICK a \in Addresses : a = request[r].address
  BY Numbers
<1>2. CacheFits /\ issued \in Nat /\ cache' = [cache EXCEPT ![<<"otp", a>>] = e]
  BY <1>1, Numbers DEF KeyOf
<1>3. /\ CacheFits' /\ Code(a)' = e /\ \A b \in Addresses \ {a} : Code(b)' = Code(b)
      /\ \A b \in Addresses : Tries(b)' = Tries(b)
      /\ \A s \in Secrets : Link(s)' = Link(s)
  BY <1>2, CodeWritten
<1> QED
  BY <1>1, <1>3

\* A request goes on with a number it has read or written, for a key: the three
\* ways the actions write it.
LEMMA WithFits ==
  ASSUME SignInShape, NEW r \in Clients, Stage(r) # "idle", issued' = issued,
         NEW s \in Stages, NEW n \in Nat,
         NEW y, y \in Doings, y.stage = s, y.seen = n,
         y.address = request[r].address, y.secret = request[r].secret,
         request' = [request EXCEPT ![r] = y]
  PROVE  RequestsFit' /\ Going(r, s) /\ request'[r].seen = n
<1>1. /\ RequestsFit /\ Sensible(request[r], issued) /\ request[r].stage # "idle"
      /\ issued \in Nat
  BY Numbers DEF Stage
<1>2. issued' \in Nat /\ issued =< issued' /\ Sensible(y, issued')
  BY <1>1 DEF Sensible
<1>3. RequestsFit' /\ request'[r] = y /\ Others(r)
  BY <1>1, <1>2, RequestWritten
<1> QED
  BY <1>1, <1>3 DEF Going, Stage

GoesOnWith(r, s, n) == request' = [request EXCEPT ![r].stage = s, ![r].seen = n]
GoesOnAfter(r, s, n, key) ==
  request' = [request EXCEPT ![r].seen = n, ![r].key = key, ![r].stage = s]
GoesOnFor(r, s, key) == request' = [request EXCEPT ![r].stage = s, ![r].key = key]

LEMMA Reads ==
  ASSUME SignInShape, NEW r \in Clients, Stage(r) # "idle", NEW s \in Stages,
         NEW n \in Nat, issued' = issued, GoesOnWith(r, s, n)
  PROVE  RequestsFit' /\ Going(r, s) /\ request'[r].seen = n
<1>1. PICK x \in Doings : x = request[r]
  BY Numbers DEF Sensible
<1>2. PICK y : y = [x EXCEPT !.stage = s, !.seen = n]
  OBVIOUS
<1>3. /\ y \in Doings /\ y.stage = s /\ y.seen = n
      /\ y.address = x.address /\ y.secret = x.secret
  BY <1>2 DEF Doings
<1>4. request' = [request EXCEPT ![r] = y]
  BY <1>1, <1>2 DEF GoesOnWith
<1> QED
  BY <1>1, <1>3, <1>4, WithFits

LEMMA ReadsKey ==
  ASSUME SignInShape, NEW r \in Clients, Stage(r) # "idle", NEW s \in Stages,
         NEW n \in Nat, NEW key \in {"rate", "attempts"}, issued' = issued,
         GoesOnAfter(r, s, n, key)
  PROVE  RequestsFit' /\ Going(r, s) /\ request'[r].seen = n
<1>1. PICK x \in Doings : x = request[r]
  BY Numbers DEF Sensible
<1>2. PICK y : y = [x EXCEPT !.seen = n, !.key = key, !.stage = s]
  OBVIOUS
<1>3. /\ y \in Doings /\ y.stage = s /\ y.seen = n
      /\ y.address = x.address /\ y.secret = x.secret
  BY <1>2 DEF Doings
<1>4. request' = [request EXCEPT ![r] = y]
  BY <1>1, <1>2 DEF GoesOnAfter
<1> QED
  BY <1>1, <1>3, <1>4, WithFits

LEMMA Takes ==
  ASSUME SignInShape, NEW r \in Clients, Stage(r) # "idle", NEW s \in Stages,
         NEW key \in {"rate", "attempts"}, issued' = issued, GoesOnFor(r, s, key)
  PROVE  RequestsFit' /\ Going(r, s)
<1>1. PICK x \in Doings : x = request[r]
  BY Numbers DEF Sensible
<1>2. PICK y : y = [x EXCEPT !.stage = s, !.key = key]
  OBVIOUS
<1>3. /\ y \in Doings /\ y.stage = s /\ y.seen = x.seen
      /\ y.address = x.address /\ y.secret = x.secret /\ x.seen \in Nat
  BY <1>2 DEF Doings
<1>4. request' = [request EXCEPT ![r] = y]
  BY <1>1, <1>2 DEF GoesOnFor
<1> QED
  BY <1>1, <1>3, <1>4, WithFits

\* Counting a send or a failure: on locmem in one step, on the database a
\* count that exists takes two more.
LEMMA CountDoes ==
  ASSUME SignInShape, NEW r \in Clients, Stage(r) # "idle",
         NEW part \in {"rate", "attempts"}, NEW life \in Nat, NEW next \in Stages,
         CountStart(r, part, life, next),
         UNCHANGED <<backend, purpose, account, issued, historyVars>>
  PROVE  /\ SignInShape' /\ HistorySame
         /\ \A b \in Addresses : Code(b)' = Code(b)
         /\ \A s \in Secrets : Link(s)' = Link(s)
         /\ Going(r, next) \/ (Going(r, "incr") /\ backend = "db")
         /\ part # "attempts" => \A b \in Addresses : Tries(b)' = Tries(b)
         /\ \A b \in Addresses : b # request[r].address => Tries(b)' = Tries(b)
         /\ \A b \in Addresses :
              part = "attempts" /\ b = request[r].address /\ Going(r, next) /\ next # "incr" =>
                \/ /\ Tries(b).value = 0 /\ request'[r].seen = 1
                   /\ Tries(b)'.value = 1 /\ Tries(b)'.left = life
                \/ /\ Tries(b).value # 0 /\ request'[r].seen = Tries(b).value + 1
                   /\ Tries(b)'.value = UpTo(CountCap, Tries(b).value + 1)
                   /\ Tries(b)'.left = Tries(b).left
<1>1. PICK key \in Keys, a \in Addresses :
        key = KeyOf(r, part) /\ a = request[r].address /\ key = <<part, a>>
  BY Numbers, KeysDiffer DEF KeyOf
<1>2. /\ CacheFits /\ cache[key] \in Entries /\ cache[key].value \in Nat
      /\ cache[key].left \in Nat
      /\ part = "attempts" => cache[key] = Tries(a)
      /\ issued' = issued /\ request[r].key \in {"rate", "attempts"}
      /\ request[r].seen \in Nat
  BY <1>1, Numbers DEF CacheFits, Entries, Tries, Sensible, Doings
<1>3. CASE Get(key) = 0
  <2> DEFINE e == [value |-> 1, left |-> life]
  <2>1. e \in Entries /\ e.value \in Nat /\ e.value = 1 /\ e.left = life
    BY DEF Entries
  <2>2. /\ cache' = [cache EXCEPT ![key] = e]
        /\ request' = [request EXCEPT ![r].stage = next, ![r].seen = 1]
    BY <1>1, <1>3 DEF CountStart, Set
  <2>3. RequestsFit' /\ Going(r, next) /\ request'[r].seen = 1
    BY <1>2, <2>2, Reads DEF GoesOnWith
  <2>4. Tries(a).value = 0 \/ part # "attempts"
    BY <1>2, <1>3 DEF Get
  <2> HIDE DEF e
  <2>5. cache' = [cache EXCEPT ![KeyOf(r, part)] = e]
        /\ part \in {"rate", "attempts", "cooldown"}
    BY <1>1, <2>2
  <2>6. /\ SignInShape' /\ HistorySame
        /\ \A b \in Addresses : Code(b)' = Code(b)
        /\ \A b \in Addresses : Tries(b)' = IF b = a /\ part = "attempts" THEN e ELSE Tries(b)
        /\ \A s \in Secrets : Link(s)' = Link(s)
    BY <1>1, <2>1, <2>3, <2>5, CounterDoes
  <2> QED
    BY <1>1, <2>1, <2>3, <2>4, <2>6
<1>4. CASE Get(key) # 0 /\ backend = "locmem"
  <2> DEFINE n == UpTo(CountCap, cache[key].value + 1)
             e == [cache[key] EXCEPT !.value = n]
  <2>0. n \in Nat
    BY <1>2, SignInAssumption DEF UpTo
  <2> HIDE DEF n
  <2>1. /\ e \in Entries /\ e.value = n /\ e.left = cache[key].left /\ e.value \in Nat
        /\ e = [cache[key] EXCEPT !.value = n]
    BY <1>2, <2>0 DEF Entries
  <2> HIDE DEF e
  <2>2. /\ cache' = [cache EXCEPT ![key] = e]
        /\ request' = [request EXCEPT ![r].stage = next, ![r].seen = cache[key].value + 1]
    BY <1>1, <1>2, <1>4, <2>1 DEF CountStart, Get, CacheFits, n, e
  <2>3. RequestsFit' /\ Going(r, next) /\ request'[r].seen = cache[key].value + 1
    <3>1. PICK m \in Nat : m = cache[key].value + 1
      BY <1>2
    <3>2. GoesOnWith(r, next, m)
      BY <2>2, <3>1 DEF GoesOnWith
    <3>3. issued' = issued
      BY <1>2
    <3> QED
      BY <3>1, <3>2, <3>3, Reads
  <2>4. Tries(a).value # 0 \/ part # "attempts"
    BY <1>2, <1>4 DEF Get
  <2>5. part = "attempts" => e.value = UpTo(CountCap, Tries(a).value + 1)
                               /\ e.left = Tries(a).left
    BY <1>2, <2>1 DEF n
  <2>6. cache' = [cache EXCEPT ![KeyOf(r, part)] = e]
        /\ part \in {"rate", "attempts", "cooldown"}
    BY <1>1, <2>2
  <2>7. /\ SignInShape' /\ HistorySame
        /\ \A b \in Addresses : Code(b)' = Code(b)
        /\ \A b \in Addresses : Tries(b)' = IF b = a /\ part = "attempts" THEN e ELSE Tries(b)
        /\ \A s \in Secrets : Link(s)' = Link(s)
    BY <1>1, <2>1, <2>3, <2>6, CounterDoes
  <2>8. part = "attempts" => request'[r].seen = Tries(a).value + 1
    BY <1>2, <2>3
  <2> QED
    BY <1>1, <2>3, <2>4, <2>5, <2>7, <2>8
<1>5. CASE Get(key) # 0 /\ backend # "locmem"
  <2>1. /\ cache' = cache
        /\ request' = [request EXCEPT ![r].stage = "incr", ![r].key = part]
    BY <1>1, <1>5 DEF CountStart
  <2>2. backend = "db"
    BY <1>5, SignInAssumption DEF SignInShape
  <2>3. RequestsFit' /\ Going(r, "incr")
    <3>1. "incr" \in Stages
      BY DEF Stages
    <3> QED
      BY <1>2, <2>1, <3>1, Takes DEF GoesOnFor
  <2>4. CacheFits' /\ CacheSame
    BY <1>2, <2>1, CacheIsSame
  <2>5. SignInShape' /\ HistorySame
    BY <2>3, <2>4, ShapeKept DEF SignInShape, HistorySame, historyVars
  <2>6. Going(r, next) => next = "incr"
    BY <2>3 DEF Going
  <2> QED
    BY <2>2, <2>3, <2>4, <2>5, <2>6 DEF CacheSame
<1> QED
  BY <1>1, <1>3, <1>4, <1>5

LEMMA IncrGetDoes ==
  ASSUME SignInShape, NEW r \in Clients, IncrGet(r)
  PROVE  /\ SignInShape' /\ CacheSame /\ HistorySame /\ Going(r, "incrset")
         /\ Stage(r) = "incr"
<1>1. PICK key \in {"rate", "attempts"}, n \in Nat :
        key = request[r].key /\ n = Get(KeyOf(r, key)) /\ Stage(r) = "incr"
  <2>1. Stage(r) = "incr" /\ request[r].key \in {"rate", "attempts"}
        /\ request[r].address \in Addresses
    BY Numbers DEF IncrGet, Stage, Sensible, Doings
  <2> QED
    BY <2>1, Numbers DEF Get, KeyOf, CacheFits, Tries
<1>2. request' = [request EXCEPT ![r].stage = "incrset", ![r].seen = n]
      /\ UNCHANGED <<backend, purpose, cache, account, issued, historyVars>>
  BY <1>1 DEF IncrGet
<1>4. "incrset" \in Stages /\ Stage(r) # "idle" /\ issued' = issued /\ account' \in Accounts
  BY <1>1, <1>2 DEF Stages, SignInShape
<1>3. GoesOnWith(r, "incrset", n)
  BY <1>2 DEF GoesOnWith
<1>5. RequestsFit' /\ Going(r, "incrset")
  BY <1>3, <1>4, Reads
<1>6. CacheFits' /\ CacheSame
  BY <1>2, <1>4, CacheIsSame
<1> QED
  BY <1>1, <1>2, <1>4, <1>5, <1>6, ShapeKept DEF HistorySame, historyVars

LEMMA IncrSetDoes ==
  ASSUME SignInShape, NEW r \in Clients, IncrSet(r)
  PROVE  /\ SignInShape' /\ HistorySame /\ Stage(r) = "incrset"
         /\ \A b \in Addresses : Code(b)' = Code(b)
         /\ \A s \in Secrets : Link(s)' = Link(s)
         /\ Going(r, "cool") \/ Going(r, "failed")
<1> DEFINE count == UpTo(CountCap, request[r].seen + 1)
           life == IF count = 1 THEN Life(request[r].key) ELSE DefaultLife
           goal == IF request[r].key = "rate" THEN "cool" ELSE "failed"
           e == [value |-> count, left |-> life]
<1>1. PICK key \in {"rate", "attempts"} : key = request[r].key
  BY Numbers DEF Sensible, Doings
<1>2. count \in Nat /\ life \in Nat
  BY Numbers, SignInAssumption DEF UpTo, Life
<1>3. goal \in Stages /\ goal \in {"cool", "failed"}
  BY DEF Stages
<1>4. e \in Entries /\ e.value = count
  BY <1>2 DEF Entries
<1>5. /\ Stage(r) = "incrset" /\ Stage(r) # "idle"
      /\ cache' = [cache EXCEPT ![KeyOf(r, key)] = e]
      /\ UNCHANGED <<backend, purpose, account, issued, historyVars>>
      /\ request' = [request EXCEPT ![r].seen = count, ![r].key = Idle.key, ![r].stage = goal]
  BY <1>1 DEF IncrSet, Set
<1> HIDE DEF count, life, goal, e
<1>6. PICK rate \in {"rate", "attempts"}, n \in Nat, stage \in Stages :
        rate = Idle.key /\ n = count /\ stage = goal
  BY <1>2, <1>3 DEF Idle
<1>7. GoesOnAfter(r, stage, n, rate)
  BY <1>5, <1>6 DEF GoesOnAfter
<1>10. Stage(r) # "idle" /\ issued' = issued
  BY <1>5
<1>11. RequestsFit' /\ Going(r, stage)
  BY <1>7, <1>10, ReadsKey
<1>8. RequestsFit' /\ Going(r, goal)
  BY <1>6, <1>11
<1>9. key \in {"rate", "attempts", "cooldown"} /\ e.value \in Nat
  BY <1>1, <1>2, <1>4
<1> QED
  BY <1>2, <1>3, <1>4, <1>5, <1>8, <1>9, CounterDoes

LEMMA SetCooldownDoes ==
  ASSUME SignInShape, NEW r \in Clients, SetCooldown(r)
  PROVE  /\ SignInShape' /\ CacheSame /\ HistorySame /\ Going(r, "lookup")
         /\ Stage(r) = "cool"
<1> DEFINE e == [value |-> 1, left |-> Cooldown]
<1>1. e \in Entries /\ e.value \in Nat
  BY SignInAssumption DEF Entries
<1>2. /\ Stage(r) = "cool" /\ Stage(r) # "idle" /\ issued' = issued
      /\ cache' = [cache EXCEPT ![KeyOf(r, "cooldown")] = e]
      /\ UNCHANGED <<backend, purpose, account, issued, historyVars>>
      /\ request' = [request EXCEPT ![r].stage = "lookup", ![r].seen = 0]
  BY DEF SetCooldown, Set
<1>5. "lookup" \in Stages /\ 0 \in Nat
  BY DEF Stages
<1>3. GoesOnWith(r, "lookup", 0)
  BY <1>2 DEF GoesOnWith
<1>6. RequestsFit' /\ Going(r, "lookup")
  BY <1>2, <1>3, <1>5, Reads
<1> HIDE DEF e
<1>7. /\ SignInShape' /\ HistorySame
      /\ \A b \in Addresses : Code(b)' = Code(b) /\ Tries(b)' = Tries(b)
      /\ \A s \in Secrets : Link(s)' = Link(s)
  BY <1>1, <1>2, <1>6, CounterDoes
<1> QED
  BY <1>2, <1>6, <1>7 DEF CacheSame

LEMMA ForgetDoes ==
  ASSUME SignInShape, NEW r \in Clients, NEW s \in Stages, Stage(r) # "idle",
         Delete(KeyOf(r, "attempts")), GoTo(r, s) \/ Finish(r),
         UNCHANGED <<backend, purpose, account, issued, wrong, contended>>,
         admitted' \in [Secrets -> 0..2]
  PROVE  /\ SignInShape'
         /\ \A b \in Addresses : Code(b)' = Code(b)
         /\ \A b \in Addresses :
              Tries(b)' = IF b = request[r].address THEN Missing ELSE Tries(b)
         /\ \A c \in Secrets : Link(c)' = Link(c)
         /\ Going(r, s) \/ Ending(r)
<1>1. PICK a \in Addresses : a = request[r].address
  BY Numbers
<1>2. /\ CacheFits /\ issued' = issued
      /\ cache' = [cache EXCEPT ![<<"attempts", a>>] = Missing]
  BY <1>1, Numbers DEF KeyOf, Delete
<1>3. PICK e \in Entries : e = Missing /\ e.value \in Nat
  BY MissingEntry
<1>4. /\ CacheFits' /\ \A b \in Addresses : Code(b)' = Code(b)
      /\ Tries(a)' = e /\ \A b \in Addresses : b # a => Tries(b)' = Tries(b)
      /\ \A c \in Secrets : Link(c)' = Link(c)
  BY <1>2, <1>3, CounterWritten
<1>5. RequestsFit' /\ (Going(r, s) \/ Ending(r))
  BY <1>2, GoesTo, IsOver
<1>6. SignInShape'
  BY <1>4, <1>5 DEF SignInShape
<1> QED
  BY <1>1, <1>3, <1>4, <1>5, <1>6

LEMMA IssueCodeDoes ==
  ASSUME SignInShape, NEW r \in Clients, IssueCode(r)
  PROVE  /\ SignInShape' /\ issued' = issued + 1 /\ Going(r, "fresh") /\ Stage(r) = "issue"
         /\ \A b \in Addresses : b # request[r].address =>
              Code(b)' = Code(b) /\ wrong'[b] = wrong[b]
         /\ \A b \in Addresses : b = request[r].address =>
              Code(b)'.value = issued + 1 /\ Code(b)'.left = CodeLife /\ wrong'[b] = 0
         /\ \A b \in Addresses : Tries(b)' = Tries(b)
         /\ \A s \in Secrets : Link(s)' = Link(s)
         /\ admitted' = admitted /\ contended' = contended
<1>1. Stage(r) = "issue" /\ issued' = issued + 1 
      /\ issued < CodesUpTo[<<backend, purpose>>]
  BY DEF IssueCode, CodesAreLeft
<1>2. /\ cache' = [cache EXCEPT ![KeyOf(r, "otp")] = [value |-> issued', left |-> CodeLife]]
      /\ wrong' = [wrong EXCEPT ![request[r].address] = 0]
  BY Zenon DEF IssueCode, Set
<1>3. GoTo(r, "fresh") /\ UNCHANGED <<backend, purpose, account, admitted, contended>>
  BY Zenon DEF IssueCode
<1>4. PICK n \in Nat, m \in Nat : n = issued /\ m = n + 1 /\ m =< MaxSecrets
  <2>1. <<backend, purpose>> \in Backends \X {"register", "login", "reset"}
    BY DEF SignInShape
  <2>2. CodesUpTo[<<backend, purpose>>] \in 0..MaxSecrets
    BY <2>1, SignInAssumption
  <2>3. issued \in Nat /\ MaxSecrets \in Nat
    BY Numbers
  <2> QED
    BY <1>1, <2>2, <2>3
<1> DEFINE e == [value |-> m, left |-> CodeLife]
<1>5. e \in Entries /\ e.value = m /\ e.left = CodeLife
  BY <1>4, SignInAssumption DEF Entries
<1>11. cache' = [cache EXCEPT ![KeyOf(r, "otp")] = e]
  BY <1>1, <1>2, <1>4
<1> HIDE DEF e
<1>6. PICK a \in Addresses : a = request[r].address
  BY <1>1, Numbers
<1>7. /\ CacheFits'
      /\ \A b \in Addresses : Code(b)' = IF b = a THEN e ELSE Code(b)
      /\ \A b \in Addresses : Tries(b)' = Tries(b)
      /\ \A s \in Secrets : Link(s)' = Link(s)
  <2>1. Stage(r) # "idle" /\ e.value \in 0..issued' /\ issued' \in Nat /\ issued =< issued'
    BY <1>1, <1>4, <1>5
  <2> QED
    BY <2>1, <1>5, <1>11, <1>6, CodeDoes
<1>8. RequestsFit' /\ Going(r, "fresh")
  <2>1. /\ RequestsFit /\ issued \in Nat /\ issued' \in Nat /\ issued =< issued'
        /\ Sensible(request[r], issued)
    BY <1>1, <1>4, Numbers
  <2>2. Stage(r) # "idle" /\ request[r].stage # "idle" /\ "fresh" \in Stages
    BY <1>1 DEF Stage, Stages
  <2>3. RequestsFit' /\ request'[r] = At(request[r], "fresh") /\ Others(r)
    BY <1>3, <2>1, <2>2, GoesOn
  <2>4. LET y == At(request[r], "fresh") IN
        y.stage = "fresh" /\ y.address = request[r].address /\ y.secret = request[r].secret
    BY <2>1, <2>2, AtFits
  <2> QED
    BY <2>2, <2>3, <2>4 DEF Going
<1>9. /\ wrong' \in [Addresses -> Nat] /\ wrong'[a] = 0
      /\ \A b \in Addresses : b # a => wrong'[b] = wrong[b]
  BY <1>2, <1>6 DEF SignInShape
<1>10. SignInShape'
  BY <1>1, <1>3, <1>4, <1>7, <1>8, <1>9 DEF SignInShape
<1> QED
  BY <1>1, <1>3, <1>4, <1>5, <1>6, <1>7, <1>8, <1>9, <1>10

LEMMA IssueLinkDoes ==
  ASSUME SignInShape, NEW r \in Clients, IssueLink(r)
  PROVE  /\ SignInShape' /\ HistorySame /\ issued' = issued + 1 /\ issued + 1 \in Secrets
         /\ Ending(r) /\ Stage(r) = "link"
         /\ \A b \in Addresses : Code(b)' = Code(b) /\ Tries(b)' = Tries(b)
         /\ \A s \in Secrets : s # issued + 1 => Link(s)' = Link(s)
<1>1. /\ Stage(r) = "link" /\ issued' = issued + 1 /\ issued < MaxSecrets
      /\ cache' = [cache EXCEPT ![<<"link", issued'>>] =
                     [value |-> request[r].address, left |-> LinkLife]]
      /\ Finish(r) /\ UNCHANGED <<backend, purpose, account, historyVars>>
  BY Zenon DEF IssueLink
<1>2. PICK s \in Secrets : s = issued + 1 /\ s \in 0..MaxSecrets /\ s \in Nat
  BY <1>1, Numbers DEF Secrets
<1>3. PICK e \in Entries : /\ e = [value |-> request[r].address, left |-> LinkLife]
                           /\ e.value \in Addresses \cup {0}
  BY <1>1, Numbers, SignInAssumption DEF Entries
<1>4. /\ cache' = [cache EXCEPT ![<<"link", s>>] = e] /\ CacheFits /\ RequestsFit
      /\ issued \in Nat /\ issued' \in Nat /\ issued =< issued'
  BY <1>1, <1>2, <1>3, Numbers
<1>5. /\ CacheFits' /\ \A t \in Secrets \ {s} : Link(t)' = Link(t)
      /\ \A b \in Addresses : Code(b)' = Code(b) /\ Tries(b)' = Tries(b)
  BY <1>3, <1>4, LinkWritten
<1>6. RequestsFit' /\ Ending(r)
  BY <1>1, <1>4, Ends, IdleIs DEF Ending
<1>7. SignInShape'
  BY <1>1, <1>2, <1>5, <1>6 DEF SignInShape, historyVars
<1> QED
  BY <1>1, <1>2, <1>5, <1>6, <1>7 DEF HistorySame, historyVars

LEMMA SpendCodeDoes ==
  ASSUME SignInShape, NEW r \in Clients, SpendCode(r)
  PROVE  /\ SignInShape' /\ HistorySame /\ issued' = issued
         /\ Going(r, "clear") /\ Stage(r) = "spend"
         /\ \A b \in Addresses :
              Code(b)' = IF b = request[r].address THEN Missing ELSE Code(b)
         /\ \A b \in Addresses : Tries(b)' = Tries(b)
         /\ \A s \in Secrets : Link(s)' = Link(s)
<1>1. /\ Stage(r) = "spend" /\ Stage(r) # "idle" /\ GoTo(r, "clear") /\ issued' = issued
      /\ cache' = [cache EXCEPT ![KeyOf(r, "otp")] = Missing]
      /\ UNCHANGED <<backend, purpose, account, issued, historyVars>>
  BY Zenon DEF SpendCode, Delete
<1>2. issued' \in Nat /\ issued =< issued' /\ Missing.value \in 0..issued' /\ "clear" \in Stages
      /\ account' \in Accounts
  BY <1>1, Numbers, MissingEntry DEF Stages, SignInShape
<1>3. /\ CacheFits'
      /\ \A b \in Addresses :
           Code(b)' = IF b = request[r].address THEN Missing ELSE Code(b)
      /\ \A b \in Addresses : Tries(b)' = Tries(b)
      /\ \A s \in Secrets : Link(s)' = Link(s)
  BY <1>1, <1>2, MissingEntry, CodeDoes
<1>4. RequestsFit' /\ Going(r, "clear")
  BY <1>1, <1>2, GoesTo
<1> QED
  BY <1>1, <1>2, <1>3, <1>4, ShapeKept DEF HistorySame, historyVars

LEMMA AdmitDoes ==
  ASSUME SignInShape, NEW c, Admit(c)
  PROVE  /\ admitted' \in [Secrets -> 0..2]
         /\ \A s \in Secrets :
              admitted'[s] = IF s # c THEN admitted[s]
                             ELSE IF admitted[s] = 0 THEN 1 ELSE 2
<1>1. admitted \in [Secrets -> 0..2]
  BY DEF SignInShape
<1>2. \A n \in 0..2 : UpTo(2, n + 1) = IF n = 0 THEN 1 ELSE 2
  BY DEF UpTo
<1>3. \A s \in Secrets :
        admitted'[s] = IF s # c THEN admitted[s] ELSE UpTo(2, admitted[s] + 1)
  BY <1>1 DEF Admit
<1>4. \A s \in Secrets :
        admitted'[s] = IF s # c THEN admitted[s] ELSE IF admitted[s] = 0 THEN 1 ELSE 2
  BY <1>1, <1>2, <1>3
<1>5. admitted' = [s \in Secrets |-> admitted'[s]]
  BY <1>1 DEF Admit
<1>6. \A s \in Secrets : admitted'[s] \in 0..2
  BY <1>1, <1>4
<1> QED
  BY <1>4, <1>5, <1>6

\* The secret that is let in is the one the request presented.
LEMMA ClearAttemptsDoes ==
  ASSUME SignInShape, NEW r \in Clients, ClearAttempts(r)
  PROVE  /\ SignInShape' /\ issued' = issued /\ wrong' = wrong /\ contended' = contended
         /\ Stage(r) = "clear" /\ (Going(r, "owner") \/ Ending(r))
         /\ \A b \in Addresses : Code(b)' = Code(b)
         /\ \A b \in Addresses :
              Tries(b)' = IF b = request[r].address THEN Missing ELSE Tries(b)
         /\ \A s \in Secrets : Link(s)' = Link(s)
         /\ admitted' = admitted \/ (Admit(request[r].secret) /\ Ending(r))
<1>1. /\ Stage(r) = "clear" /\ Stage(r) # "idle" /\ Delete(KeyOf(r, "attempts"))
      /\ GoTo(r, "owner") \/ Finish(r)
      /\ UNCHANGED <<backend, purpose, account, issued, wrong, contended>>
      /\ admitted' = admitted \/ (Admit(request[r].secret) /\ Finish(r))
  BY Zenon DEF ClearAttempts
<1>2. admitted' \in [Secrets -> 0..2]
  BY <1>1, AdmitDoes DEF SignInShape
<1>3. "owner" \in Stages
  BY DEF Stages
<1>4. /\ SignInShape'
      /\ \A b \in Addresses : Code(b)' = Code(b)
      /\ \A b \in Addresses :
           Tries(b)' = IF b = request[r].address THEN Missing ELSE Tries(b)
      /\ \A s \in Secrets : Link(s)' = Link(s)
      /\ Going(r, "owner") \/ Ending(r)
  BY <1>1, <1>2, <1>3, ForgetDoes
<1>5. Finish(r) => Ending(r)
  BY <1>1, IsOver
<1> QED
  BY <1>1, <1>4, <1>5

LEMMA ForgetAttemptsDoes ==
  ASSUME SignInShape, NEW r \in Clients, ForgetAttempts(r)
  PROVE  /\ SignInShape' /\ HistorySame /\ issued' = issued
         /\ Stage(r) = "fresh" /\ (Going(r, "link") \/ Ending(r))
         /\ \A b \in Addresses : Code(b)' = Code(b)
         /\ \A b \in Addresses :
              Tries(b)' = IF b = request[r].address THEN Missing ELSE Tries(b)
         /\ \A s \in Secrets : Link(s)' = Link(s)
<1>1. /\ Stage(r) = "fresh" /\ Stage(r) # "idle" /\ Delete(KeyOf(r, "attempts"))
      /\ GoTo(r, "link") \/ Finish(r)
      /\ UNCHANGED <<backend, purpose, account, issued, wrong, contended>>
      /\ admitted' = admitted
  BY Zenon DEF ForgetAttempts, historyVars
<1>2. "link" \in Stages /\ admitted' \in [Secrets -> 0..2]
  BY <1>1 DEF Stages, SignInShape
<1>3. /\ SignInShape'
      /\ \A b \in Addresses : Code(b)' = Code(b)
      /\ \A b \in Addresses :
           Tries(b)' = IF b = request[r].address THEN Missing ELSE Tries(b)
      /\ \A s \in Secrets : Link(s)' = Link(s)
      /\ Going(r, "link") \/ Ending(r)
  BY <1>1, <1>2, ForgetDoes
<1> QED
  BY <1>1, <1>3 DEF HistorySame

LEMMA FailureCountedDoes ==
  ASSUME SignInShape, NEW r \in Clients, FailureCounted(r)
  PROVE  /\ SignInShape' /\ issued' = issued /\ admitted' = admitted /\ contended' = contended
         /\ Stage(r) = "failed" /\ Ending(r)
         /\ \A b \in Addresses :
              Code(b)' = IF b = request[r].address /\ request[r].seen >= MaxAttempts
                           THEN Missing ELSE Code(b)
         /\ \A b \in Addresses : Tries(b)' = Tries(b)
         /\ \A s \in Secrets : Link(s)' = Link(s)
         /\ backend = "locmem" =>
              \A b \in Addresses :
                wrong'[b] = IF b # request[r].address THEN wrong[b]
                            ELSE UpTo(MaxAttempts + 1, wrong[b] + 1)
<1>1. /\ Stage(r) = "failed" /\ Stage(r) # "idle" /\ Finish(r)
      /\ IF request[r].seen >= MaxAttempts
           THEN cache' = [cache EXCEPT ![KeyOf(r, "otp")] = Missing] ELSE cache' = cache
  BY DEF FailureCounted, Delete
<1>2. UNCHANGED <<backend, purpose, account, issued, admitted, contended>>
  BY DEF FailureCounted
<1>3. PICK a \in Addresses : a = request[r].address
  BY <1>1, Numbers
<1>4. wrong' = IF backend = "db" THEN wrong
               ELSE [wrong EXCEPT ![a] = UpTo(MaxAttempts + 1, @ + 1)]
  BY <1>3 DEF FailureCounted
<1>5. /\ wrong' \in [Addresses -> Nat]
      /\ backend = "locmem" => \A b \in Addresses :
           wrong'[b] = IF b # a THEN wrong[b] ELSE UpTo(MaxAttempts + 1, wrong[b] + 1)
  BY <1>4, SignInAssumption DEF SignInShape, UpTo
<1>6. /\ CacheFits'
      /\ \A b \in Addresses :
           Code(b)' = IF b = a /\ request[r].seen >= MaxAttempts THEN Missing ELSE Code(b)
      /\ \A b \in Addresses : Tries(b)' = Tries(b)
      /\ \A s \in Secrets : Link(s)' = Link(s)
  <2>1. issued' = issued /\ issued' \in Nat /\ issued =< issued' /\ Missing.value \in 0..issued'
    BY <1>2, Numbers, MissingEntry
  <2>2. CASE request[r].seen >= MaxAttempts
    BY <1>1, <1>3, <2>1, <2>2, MissingEntry, CodeDoes
  <2>3. CASE ~ (request[r].seen >= MaxAttempts)
    BY <1>1, <2>1, <2>3, CacheIsSame DEF CacheSame
  <2> QED
    BY <2>2, <2>3
<1>7. RequestsFit' /\ Ending(r)
  BY <1>1, <1>2, IsOver
<1>8. SignInShape'
  BY <1>2, <1>5, <1>6, <1>7 DEF SignInShape
<1> QED
  BY <1>1, <1>2, <1>3, <1>5, <1>6, <1>7, <1>8

LEMMA DropLinkDoes ==
  ASSUME SignInShape, NEW r \in Clients, DropLink(r), request[r].secret \in Secrets
  PROVE  /\ SignInShape' /\ HistorySame /\ issued' = issued
         /\ Stage(r) = "unlink" /\ Going(r, "owner")
         /\ \A b \in Addresses : Code(b)' = Code(b) /\ Tries(b)' = Tries(b)
         /\ \A s \in Secrets :
              Link(s)' = IF s = request[r].secret THEN Missing ELSE Link(s)
<1>1. PICK s \in Secrets : s = request[r].secret
  OBVIOUS
<1>2. /\ Stage(r) = "unlink" /\ Stage(r) # "idle" /\ GoTo(r, "owner")
      /\ cache' = [cache EXCEPT ![<<"link", s>>] = Missing]
      /\ UNCHANGED <<backend, purpose, account, issued, historyVars>>
  BY <1>1, Zenon DEF DropLink, Delete
<1>3. PICK e \in Entries : e = Missing /\ e.value \in Addresses \cup {0}
  BY MissingEntry
<1>4. /\ CacheFits /\ issued' = issued /\ issued \in Nat /\ issued' \in Nat
      /\ issued =< issued' /\ "owner" \in Stages /\ account' \in Accounts
      /\ cache' = [cache EXCEPT ![<<"link", s>>] = e]
  BY <1>2, <1>3, Numbers DEF Stages, SignInShape
<1>5. /\ CacheFits' /\ Link(s)' = e /\ \A t \in Secrets \ {s} : Link(t)' = Link(t)
      /\ \A b \in Addresses : Code(b)' = Code(b) /\ Tries(b)' = Tries(b)
  BY <1>3, <1>4, LinkWritten
<1>6. RequestsFit' /\ Going(r, "owner")
  BY <1>2, <1>4, GoesTo
<1> QED
  BY <1>1, <1>2, <1>3, <1>4, <1>5, <1>6, ShapeKept DEF HistorySame, historyVars

\* One account is written, or one of its columns.
LEMMA AccountWritten ==
  ASSUME account \in Accounts, NEW a \in Addresses, NEW r \in Clients
  PROVE  /\ [account EXCEPT ![a] = [state |-> "active", role |-> "student", password |-> r]]
              \in Accounts
         /\ [account EXCEPT ![a].password = r] \in Accounts
BY DEF Accounts

LEMMA AccountOpened ==
  ASSUME account \in Accounts, NEW a \in Addresses, NEW state \in {"active", "inactive"}
  PROVE  [account EXCEPT ![a].state = state] \in Accounts
BY DEF Accounts

LEMMA SavePasswordDoes ==
  ASSUME SignInShape, NEW r \in Clients, SavePassword(r)
  PROVE  /\ SignInShape' /\ CacheSame /\ issued' = issued /\ wrong' = wrong
         /\ contended' = contended /\ Admit(request[r].secret)
         /\ Stage(r) = "password" /\ Ending(r)
<1>1. /\ Stage(r) = "password" /\ Stage(r) # "idle" /\ Finish(r) /\ Admit(request[r].secret)
      /\ UNCHANGED <<backend, purpose, cache, issued, wrong, contended>>
  BY Zenon DEF SavePassword
<1>2. PICK a \in Addresses : a = request[r].address
  BY <1>1, Numbers
<1>3. account' \in Accounts
  BY <1>2, AccountWritten DEF SavePassword, SignInShape
<1>4. RequestsFit' /\ Ending(r) /\ CacheFits' /\ CacheSame /\ admitted' \in [Secrets -> 0..2]
  BY <1>1, IsOver, CacheIsSame, AdmitDoes
<1> QED
  BY <1>1, <1>3, <1>4 DEF SignInShape

LEMMA CreateAccountDoes ==
  ASSUME SignInShape, NEW r \in Clients, CreateAccount(r)
  PROVE  /\ SignInShape' /\ CacheSame /\ HistorySame /\ issued' = issued
         /\ Stage(r) = "create" /\ Ending(r)
<1>1. /\ Stage(r) = "create" /\ Stage(r) # "idle" /\ Finish(r)
      /\ UNCHANGED <<backend, purpose, cache, issued, historyVars>>
  BY Zenon DEF CreateAccount
<1>2. PICK a \in Addresses : a = request[r].address
  BY <1>1, Numbers
<1>3. account' \in Accounts
  BY <1>2, AccountWritten DEF CreateAccount, SignInShape
<1>4. RequestsFit' /\ Ending(r) /\ CacheFits' /\ CacheSame
  BY <1>1, IsOver, CacheIsSame
<1> QED
  BY <1>1, <1>3, <1>4, ShapeKept DEF HistorySame, historyVars

LEMMA SetActiveDoes ==
  ASSUME SignInShape, NEW a \in Addresses, NEW state \in {"active", "inactive"},
         SetActive(a, state)
  PROVE  /\ SignInShape' /\ CacheSame /\ HistorySame /\ issued' = issued
         /\ request' = request
<1>1. UNCHANGED <<backend, purpose, cache, request, issued, historyVars>>
  BY Zenon DEF SetActive
<1>2. account' \in Accounts
  BY AccountOpened DEF SetActive, SignInShape
<1>3. CacheFits' /\ CacheSame /\ RequestsFit'
  BY <1>1, Numbers, CacheIsSame DEF RequestsFit
<1> QED
  BY <1>1, <1>2, <1>3, ShapeKept DEF HistorySame, historyVars

\* What is left of an entry when time has passed.
Aged(e) == IF e.left =< 1 THEN Missing ELSE [e EXCEPT !.left = @ - 1]

LEMMA AgedFits ==
  ASSUME NEW e \in Entries
  PROVE  /\ Aged(e) \in Entries
         /\ e.left =< 1 => Aged(e).value = 0
         /\ e.left =< 1 => Aged(e).left = 0
         /\ e.left > 1 => Aged(e).value = e.value /\ Aged(e).left = e.left - 1
BY DEF Aged, Entries, Missing

LEMMA ExpireDoes ==
  ASSUME SignInShape, Expire
  PROVE  /\ SignInShape' /\ HistorySame /\ issued' = issued /\ request' = request
         /\ \A b \in Addresses : Code(b)' = Aged(Code(b)) /\ Tries(b)' = Aged(Tries(b))
         /\ \A s \in Secrets : Link(s)' = Aged(Link(s))
<1>1. /\ cache' = [key \in Keys |-> Aged(cache[key])]
      /\ UNCHANGED <<backend, purpose, account, request, issued, historyVars>>
  BY Zenon DEF Expire, Aged
<1>2. cache' \in [Keys -> Entries] /\ \A key \in Keys : cache'[key] = Aged(cache[key])
  BY <1>1, Numbers, AgedFits DEF CacheFits
<1>3. /\ \A b \in Addresses : Code(b)' = Aged(Code(b)) /\ Tries(b)' = Aged(Tries(b))
      /\ \A s \in Secrets : Link(s)' = Aged(Link(s))
      /\ \A b \in Addresses : cache'[<<"rate", b>>] = Aged(cache[<<"rate", b>>])
  BY <1>2, KeysDiffer DEF Code, Tries, Link
<1>4. \A e \in Entries : Aged(e).value \in {0, e.value}
  BY AgedFits DEF Entries
<1>5. /\ \A b \in Addresses : Code(b) \in Entries /\ Tries(b) \in Entries
                              /\ cache[<<"rate", b>>] \in Entries
      /\ \A s \in Secrets : Link(s) \in Entries
  BY Numbers, KeysDiffer DEF CacheFits, Code, Tries, Link
<1>6. /\ \A a \in Addresses :
           /\ Code(a)'.value \in 0..issued'
           /\ Tries(a)'.value \in Nat /\ cache'[<<"rate", a>>].value \in Nat
      /\ \A s \in Secrets : Link(s)'.value \in Addresses \cup {0}
  BY <1>1, <1>3, <1>4, <1>5, Numbers DEF CacheFits
<1>7. CacheFits'
  BY <1>2, <1>6 DEF CacheFits
<1>8. RequestsFit' /\ account' \in Accounts
  BY <1>1, Numbers DEF RequestsFit, SignInShape
<1> QED
  BY <1>1, <1>3, <1>7, <1>8, ShapeKept DEF HistorySame, historyVars

LEMMA DieDoes ==
  ASSUME SignInShape, NEW r \in Clients, Die(r)
  PROVE  /\ SignInShape' /\ HistorySame /\ issued' = issued /\ Ending(r)
         /\ \/ CacheSame /\ backend = "db"
            \/ /\ \A b \in Addresses : Code(b)' = Missing /\ Tries(b)' = Missing
               /\ \A s \in Secrets : Link(s)' = Missing
<1>1. /\ Stage(r) # "idle" /\ Finish(r)
      /\ UNCHANGED <<backend, purpose, account, issued, historyVars>>
      /\ cache' = IF backend = "db" THEN cache ELSE [key \in Keys |-> Missing]
  BY Zenon DEF Die
<1>2. RequestsFit' /\ Ending(r) /\ account' \in Accounts /\ issued' = issued
  BY <1>1, IsOver DEF SignInShape
<1>3. CASE backend = "db"
  BY <1>1, <1>2, <1>3, CacheIsSame, ShapeKept DEF HistorySame, historyVars
<1>4. CASE backend # "db"
  <2>1. cache' = [key \in Keys |-> Missing]
    BY <1>1, <1>4
  <2>2. /\ \A b \in Addresses : Code(b)' = Missing /\ Tries(b)' = Missing
        /\ \A s \in Secrets : Link(s)' = Missing
        /\ \A b \in Addresses : cache'[<<"rate", b>>] = Missing
        /\ cache' \in [Keys -> Entries]
    BY <2>1, KeysDiffer, MissingEntry DEF Code, Tries, Link
  <2>3. CacheFits'
    BY <1>2, <2>2, Numbers, MissingEntry DEF CacheFits
  <2> QED
    BY <1>1, <1>2, <2>2, <2>3, ShapeKept DEF HistorySame, historyVars
<1> QED
  BY <1>3, <1>4

-----------------------------------------------------------------------------
(* Types *)

LEMMA ShapeStarts == SignInInit => SignInShape
<1> SUFFICES ASSUME SignInInit PROVE SignInShape
  OBVIOUS
<1>1. cache \in [Keys -> Entries] /\ \A key \in Keys : cache[key] = Missing
  BY MissingEntry DEF SignInInit
<1>2. CacheFits
  <2>1. /\ \A a \in Addresses :
             /\ Code(a) = Missing /\ Tries(a) = Missing /\ cache[<<"rate", a>>] = Missing
        /\ \A s \in Secrets : Link(s) = Missing
    BY <1>1, KeysDiffer DEF Code, Tries, Link
  <2>2. issued = 0 /\ 0 \in 0..0
    BY DEF SignInInit
  <2> QED
    BY <1>1, <2>1, <2>2, MissingEntry DEF CacheFits
<1>3. account \in Accounts
  BY DEF SignInInit, Accounts, NoAccount, Known
<1>4. Sensible(Idle, 0) /\ Idle \in Doings
  BY IdleFits, IdleIs
<1>5. RequestsFit
  BY <1>4 DEF SignInInit, RequestsFit
<1>6. issued \in 0..MaxSecrets /\ wrong \in [Addresses -> Nat] /\ admitted \in [Secrets -> 0..2]
  BY SignInAssumption DEF SignInInit
<1> QED
  BY <1>2, <1>3, <1>5, <1>6 DEF SignInInit, SignInShape

\* The steps that neither write the cache nor let anybody in: where they go.
QuietStep(r) ==
  \/ CheckRate(r) \/ LookUp(r) \/ Compare(r) \/ FindOwner(r) \/ Refused(r)

QuietGoal(r) ==
  IF Stage(r) = "rate" THEN "count" ELSE IF Stage(r) = "lookup" THEN "issue"
  ELSE IF Stage(r) = "owner" THEN "password"
  ELSE IF Code(request[r].address).value = request[r].secret THEN "spend" ELSE "fail"

LEMMA QuietSteps ==
  ASSUME SignInShape, NEW r \in Clients, QuietStep(r)
  PROVE  /\ SignInShape' /\ CacheSame /\ HistorySame /\ issued' = issued
         /\ Stage(r) \in {"create", "rate", "lookup", "owner", "password", "compare"}
         /\ \/ Ending(r)
            \/ /\ Going(r, QuietGoal(r)) /\ request'[r].seen = request[r].seen
               /\ Stage(r) \in {"rate", "lookup", "owner", "compare"}
               /\ Stage(r) = "compare" => Code(request[r].address).value # 0
<1>1. PICK s \in Stages :
        /\ s = QuietGoal(r)
        /\ Stage(r) \in {"create", "rate", "lookup", "owner", "password", "compare"}
        /\ GoTo(r, s) \/ Finish(r)
        /\ Stage(r) \in {"rate", "lookup", "owner", "compare"} \/ Finish(r)
        /\ Stage(r) # "compare" \/ Code(request[r].address).value # 0 \/ Finish(r)
  <2>1. QuietGoal(r) \in Stages
    BY DEF QuietGoal, Stages
  <2>2. CASE CheckRate(r)
    BY <2>1, <2>2, Zenon DEF CheckRate, QuietGoal
  <2>3. CASE LookUp(r)
    BY <2>1, <2>3, Zenon DEF LookUp, QuietGoal
  <2>4. CASE Compare(r)
    BY <2>1, <2>4, Zenon DEF Compare, QuietGoal, Get, KeyOf, Code
  <2>5. CASE FindOwner(r)
    BY <2>1, <2>5, Zenon DEF FindOwner, QuietGoal
  <2>6. CASE Refused(r)
    BY <2>1, <2>6, Zenon DEF Refused
  <2> QED
    BY <2>2, <2>3, <2>4, <2>5, <2>6 DEF QuietStep
<1>2. UNCHANGED <<backend, purpose, cache, account, issued, historyVars>>
  BY Zenon DEF QuietStep, CheckRate, LookUp, Compare, FindOwner, Refused
<1>3. Stage(r) # "idle" /\ issued' = issued
  BY <1>1, <1>2
<1>4. SignInShape' /\ CacheSame /\ HistorySame
  BY <1>1, <1>2, <1>3, QuietDoes
<1>5. (GoTo(r, s) => Going(r, s) /\ request'[r].seen = request[r].seen)
      /\ (Finish(r) => Ending(r))
  BY <1>3, GoesTo, IsOver
<1> QED
  BY <1>1, <1>3, <1>4, <1>5

\* The three kinds of writes to a counter or the cooldown, and what they leave alone.
CountStep(r) == CountSend(r) \/ CountFailure(r) \/ IncrGet(r) \/ IncrSet(r) \/ SetCooldown(r)

LEMMA CountSteps ==
  ASSUME SignInShape, NEW r \in Clients, CountStep(r)
  PROVE  /\ SignInShape' /\ HistorySame /\ issued' = issued
         /\ Stage(r) \in {"count", "fail", "incr", "incrset", "cool"}
         /\ \A b \in Addresses : Code(b)' = Code(b)
         /\ \A s \in Secrets : Link(s)' = Link(s)
         /\ \E s \in {"cool", "failed", "incr", "incrset", "lookup"} : Going(r, s)
<1>1. CASE CountSend(r)
  <2>1. /\ Stage(r) = "count" /\ Stage(r) # "idle" /\ issued' = issued
        /\ CountStart(r, "rate", RateWindow, "cool")
        /\ UNCHANGED <<backend, purpose, account, issued, historyVars>>
    BY <1>1, Zenon DEF CountSend
  <2>2. RateWindow \in Nat /\ "cool" \in Stages
    BY SignInAssumption DEF Stages
  <2>3. /\ SignInShape' /\ HistorySame
        /\ \A b \in Addresses : Code(b)' = Code(b)
        /\ \A s \in Secrets : Link(s)' = Link(s)
        /\ Going(r, "cool") \/ Going(r, "incr")
    BY <2>1, <2>2, CountDoes
  <2> QED
    BY <2>1, <2>3
<1>2. CASE CountFailure(r)
  <2>1. /\ Stage(r) = "fail" /\ Stage(r) # "idle" /\ issued' = issued
        /\ CountStart(r, "attempts", CodeLife, "failed")
        /\ UNCHANGED <<backend, purpose, account, issued, historyVars>>
    BY <1>2, Zenon DEF CountFailure
  <2>2. CodeLife \in Nat /\ "failed" \in Stages
    BY SignInAssumption DEF Stages
  <2>3. /\ SignInShape' /\ HistorySame
        /\ \A b \in Addresses : Code(b)' = Code(b)
        /\ \A s \in Secrets : Link(s)' = Link(s)
        /\ Going(r, "failed") \/ Going(r, "incr")
    BY <2>1, <2>2, CountDoes
  <2> QED
    BY <2>1, <2>3
<1>3. CASE IncrGet(r)
  <2>1. issued' = issued
    BY <1>3, Zenon DEF IncrGet
  <2> QED
    BY <1>3, <2>1, IncrGetDoes DEF CacheSame
<1>4. CASE IncrSet(r)
  <2>1. issued' = issued
    BY <1>4, Zenon DEF IncrSet
  <2> QED
    BY <1>4, <2>1, IncrSetDoes
<1>5. CASE SetCooldown(r)
  <2>1. issued' = issued
    BY <1>5, Zenon DEF SetCooldown
  <2> QED
    BY <1>5, <2>1, SetCooldownDoes DEF CacheSame
<1> QED
  BY <1>1, <1>2, <1>3, <1>4, <1>5 DEF CountStep

\* The steps that a request takes, by what they do.
LEMMA StepsAre ==
  ASSUME SignInNext
  PROVE  \/ \E r \in Clients :
              \/ \E a \in Addresses : BeginRegister(r, a) \/ BeginSend(r, a)
              \/ \E a \in Addresses, c \in 0..issued : BeginVerify(r, a, c)
              \/ \E s \in 1..issued : BeginLink(r, s)
              \/ QuietStep(r) \/ CountStep(r)
              \/ IssueCode(r) \/ ForgetAttempts(r) \/ IssueLink(r)
              \/ SpendCode(r) \/ ClearAttempts(r) \/ FailureCounted(r) \/ DropLink(r)
              \/ SavePassword(r) \/ CreateAccount(r) \/ Die(r)
         \/ \E a \in Addresses, state \in {"active", "inactive"} : SetActive(a, state)
         \/ Expire
BY Zenon DEF SignInNext, SignInArrival, SendStep, PresentStep, QuietStep, CountStep

-----------------------------------------------------------------------------
(* A secret lets somebody in once *)

\* Nobody can find secret c in the cache any more.
Gone(c) == Link(c).value = 0 /\ \A a \in Addresses : Code(a).value # c

\* A request that has found its secret in the cache, and so may still be let in.
Holds(r) == Stage(r) \in {"spend", "unlink", "clear", "owner", "password"}

Secret(r) == request[r].secret

\* The entry of the secret it holds is there still, or is gone, but it is nowhere else.
Placed(r) ==
  /\ Holds(r) => Secret(r) \in 1..issued
  /\ Stage(r) = "spend" =>
       /\ Link(Secret(r)).value = 0
       /\ \A a \in Addresses : a # request[r].address => Code(a).value # Secret(r)
  /\ Stage(r) = "unlink" => \A a \in Addresses : Code(a).value # Secret(r)
  /\ Stage(r) \in {"clear", "owner", "password"} => Gone(Secret(r))

\* No secret is in two entries.
CodesApart ==
  /\ \A a, b \in Addresses : a # b /\ Code(a).value = Code(b).value => Code(a).value = 0
  /\ \A a \in Addresses, s \in Secrets : Code(a).value = s => Link(s).value = 0

Unissued == \A s \in Secrets : s > issued => Link(s).value = 0 /\ admitted[s] = 0

\* Two requests in flight with one secret presented it at the same time.
Contention == \A q, r \in Clients :
  q # r /\ Stage(q) # "idle" /\ Stage(r) # "idle" /\ Secret(q) = Secret(r) /\ Secret(r) # 0 =>
    Secret(r) \in contended

\* Who was let in with a secret has used it up: it is gone, and nobody holds it
\* who did not present it in the meantime.
Spent == \A c \in Secrets : admitted[c] > 0 => Gone(c)
Once == \A c \in Secrets : c \notin contended =>
  /\ admitted[c] =< 1
  /\ admitted[c] > 0 => \A r \in Clients : Holds(r) => Secret(r) # c

OnceInv ==
  /\ CodesApart /\ Unissued /\ Contention /\ Spent /\ Once
  /\ \A r \in Clients : Placed(r)

\* A step in which entries only disappear.
Fading ==
  /\ \A a \in Addresses : Code(a)'.value \in {0, Code(a).value}
  /\ \A s \in Secrets : Link(s)'.value \in {0, Link(s).value}

LEMMA GoneStays ==
  ASSUME Fading, NEW c \in Secrets, Gone(c)
  PROVE  Link(c)'.value = 0 /\ \A a \in Addresses : Code(a)'.value # c
BY DEF Fading, Gone, Secrets

LEMMA PlacedStays ==
  ASSUME SignInShape, Fading, issued' = issued,
         NEW q \in Clients, Placed(q), request'[q] = request[q]
  PROVE  Placed(q)'
<1>1. PICK c : c = Secret(q)
  OBVIOUS
<1>2. Stage(q)' = Stage(q) /\ Secret(q)' = c /\ Holds(q)' = Holds(q)
  BY <1>1 DEF Stage, Secret, Holds
<1>3. 0 \notin 1..issued /\ 1..issued \subseteq Secrets
  BY Numbers DEF Secrets
<1>4. CASE ~ Holds(q)
  BY <1>2, <1>4 DEF Placed, Holds
<1>5. CASE Holds(q)
  <2>1. c \in Secrets /\ c # 0 /\ c \in 1..issued'
    BY <1>1, <1>3, <1>5 DEF Placed
  <2>2. Gone(c) => Gone(c)'
    BY <2>1, GoneStays DEF Gone
  <2>3. Link(c)'.value \in {0, Link(c).value}
        /\ \A a \in Addresses : Code(a)'.value \in {0, Code(a).value}
    BY <2>1 DEF Fading
  <2> QED
    BY <1>1, <1>2, <2>1, <2>2, <2>3 DEF Placed
<1> QED
  BY <1>4, <1>5

LEMMA OnceFades ==
  ASSUME SignInShape, SignInShape', OnceInv, Fading, issued' = issued, admitted' = admitted,
         contended \subseteq contended', Contention', NEW r \in Clients, Others(r), Placed(r)',
         Holds(r)' => request'[r].secret \notin {c \in Secrets : admitted[c] > 0} \ contended'
  PROVE  OnceInv'
<1>1. \A q \in Clients : q # r => Stage(q)' = Stage(q) /\ Secret(q)' = Secret(q)
                                  /\ Holds(q)' = Holds(q) /\ request'[q] = request[q]
  BY DEF Others, Stage, Secret, Holds
<1>2. CodesApart'
  BY DEF OnceInv, CodesApart, Fading, Secrets
<1>3. Unissued'
  BY DEF OnceInv, Unissued, Fading
<1>4. Spent'
  BY GoneStays DEF OnceInv, Spent, Gone
<1>5. Once'
  BY <1>1 DEF OnceInv, Once, Secret
<1>6. \A q \in Clients : Placed(q)'
  BY <1>1, PlacedStays DEF OnceInv
<1> QED
  BY <1>2, <1>3, <1>4, <1>5, <1>6 DEF OnceInv

\* A request that goes on with its secret, ends, or has none, contends for nothing new.
LEMMA ContentionStays ==
  ASSUME OnceInv, NEW r \in Clients, Others(r), contended \subseteq contended',
         \/ request'[r].stage = "idle" \/ request'[r].secret = 0
         \/ Stage(r) # "idle" /\ request'[r].secret = request[r].secret
  PROVE  Contention'
BY DEF OnceInv, Contention, Others, Stage, Secret

\* A step of a request that holds no secret afterwards.
LEMMA OnceQuiet ==
  ASSUME SignInShape, SignInShape', OnceInv, Fading, issued' = issued, admitted' = admitted,
         contended' = contended, NEW r \in Clients, Others(r),
         request'[r].stage \notin {"spend", "unlink", "clear", "owner", "password"},
         \/ request'[r].stage = "idle" \/ request'[r].secret = 0
         \/ Stage(r) # "idle" /\ request'[r].secret = request[r].secret
  PROVE  OnceInv'
<1>1. Contention'
  BY ContentionStays
<1>2. ~ Holds(r)' /\ Placed(r)'
  BY DEF Holds, Placed, Stage
<1> QED
  BY <1>1, <1>2, OnceFades

LEMMA SameFades ==
  ASSUME \/ CacheSame
         \/ /\ \A b \in Addresses : Code(b)' = Code(b)
            /\ \A s \in Secrets : Link(s)' = Link(s)
  PROVE  Fading
BY DEF CacheSame, Fading

\* A step of a request that holds its secret before and after, and moves on.
LEMMA OnceHolds ==
  ASSUME SignInShape, SignInShape', OnceInv, Fading, issued' = issued, admitted' = admitted,
         contended' = contended, NEW r \in Clients, Others(r), Holds(r),
         request'[r].secret = request[r].secret, Placed(r)'
  PROVE  OnceInv'
<1>1. Contention'
  BY ContentionStays DEF Holds
<1>2. Secret(r) \in Secrets /\ request'[r].secret = Secret(r)
  BY Numbers DEF OnceInv, Placed, Secret, Secrets
<1>3. request'[r].secret \notin {c \in Secrets : admitted[c] > 0} \ contended'
  BY <1>2 DEF OnceInv, Once
<1> QED
  BY <1>1, <1>3, OnceFades

\* Somebody is let in, and the request ends.
LEMMA OnceAdmits ==
  ASSUME SignInShape, SignInShape', OnceInv, Fading, issued' = issued, contended' = contended,
         NEW r \in Clients, Others(r), Stage(r) \in {"clear", "password"},
         request'[r].stage = "idle", Admit(Secret(r))
  PROVE  OnceInv'
<1>1. PICK c \in Secrets : c = Secret(r) /\ Gone(c) /\ c \in 1..issued /\ Holds(r)
  BY Numbers DEF OnceInv, Placed, Holds, Secrets
<1>2. /\ admitted \in [Secrets -> 0..2]
      /\ \A s \in Secrets : admitted'[s] = IF s # c THEN admitted[s]
                                           ELSE IF admitted[s] = 0 THEN 1 ELSE 2
  BY <1>1, AdmitDoes DEF SignInShape
<1>3. /\ \A q \in Clients : q # r => Stage(q)' = Stage(q) /\ Secret(q)' = Secret(q)
                                     /\ Holds(q)' = Holds(q) /\ request'[q] = request[q]
      /\ ~ Holds(r)'
  BY DEF Others, Stage, Secret, Holds
<1>4. CodesApart'
  BY DEF OnceInv, CodesApart, Fading, Secrets
<1>5. Unissued'
  <2>1. \A s \in Secrets : s > issued => s # c
    BY <1>1, Numbers DEF Secrets
  <2> QED
    BY <1>2, <2>1 DEF OnceInv, Unissued, Fading
<1>6. Contention'
  BY ContentionStays
<1>7. Spent'
  BY <1>1, <1>2, GoneStays DEF OnceInv, Spent, Gone
<1>8. Once'
  <2> SUFFICES ASSUME NEW s \in Secrets, s \notin contended
               PROVE  /\ admitted'[s] =< 1
                      /\ admitted'[s] > 0 => \A q \in Clients : Holds(q)' => Secret(q)' # s
    BY DEF Once
  <2>1. /\ admitted[s] =< 1 /\ admitted[s] \in 0..2
        /\ admitted[s] > 0 => \A q \in Clients : Holds(q) => Secret(q) # s
    BY <1>2 DEF OnceInv, Once
  <2>2. CASE s # c
    BY <1>2, <1>3, <2>1, <2>2
  <2>3. CASE s = c
    <3>1. admitted[s] = 0 /\ admitted'[s] = 1
      BY <1>1, <1>2, <2>1, <2>3
    <3>2. ASSUME NEW q \in Clients, Holds(q)' PROVE Secret(q)' # s
      <4>1. q # r /\ Holds(q) /\ Secret(q)' = Secret(q)
        BY <1>3, <3>2
      <4>2. Stage(q) # "idle" /\ Stage(r) # "idle" /\ c # 0
        BY <1>1, <4>1 DEF Holds
      <4>3. Secret(q) # Secret(r)
        BY <1>1, <2>3, <4>1, <4>2 DEF OnceInv, Contention
      <4> QED
        BY <1>1, <2>3, <4>1, <4>3
    <3> QED
      BY <3>1, <3>2
  <2> QED
    BY <2>2, <2>3
<1>9. \A q \in Clients : Placed(q)'
  <2>1. \A q \in Clients : q # r => Placed(q)'
    BY <1>3, PlacedStays DEF OnceInv
  <2>2. Placed(r)'
    BY <1>3 DEF Placed, Holds
  <2> QED
    BY <2>1, <2>2
<1> QED
  BY <1>4, <1>5, <1>6, <1>7, <1>8, <1>9 DEF OnceInv

\* Whoever presents a secret that another request has presented contends with it.
LEMMA ContentionGrows ==
  ASSUME OnceInv, NEW r \in Clients, Others(r), Stage(r) = "idle",
         Contend(request'[r].secret)
  PROVE  Contention' /\ contended \subseteq contended'
<1>1. PICK c : c = request'[r].secret
  OBVIOUS
<1>2. contended' = IF c # 0 /\ Presenting(c) # {} THEN contended \cup {c} ELSE contended
  BY <1>1 DEF Contend
<1>3. ASSUME NEW q \in Clients, q # r, Stage(q) # "idle", Secret(q) = c, c # 0
      PROVE  c \in contended'
  BY <1>2, <1>3 DEF Presenting, Secret
<1>4. \A q \in Clients : q # r => Stage(q)' = Stage(q) /\ Secret(q)' = Secret(q)
  BY DEF Others, Stage, Secret
<1>5. Secret(r)' = c
  BY <1>1 DEF Secret
<1> QED
  BY <1>2, <1>3, <1>4, <1>5 DEF OnceInv, Contention

LEMMA OnceVerify ==
  ASSUME SignInShape, OnceInv, NEW r \in Clients, NEW a \in Addresses, NEW c \in 0..issued,
         BeginVerify(r, a, c)
  PROVE  SignInShape' /\ OnceInv'
<1>1. /\ SignInShape' /\ CacheSame /\ Stage(r) = "idle" /\ Others(r)
      /\ request'[r].stage = "compare" /\ request'[r].secret = c /\ Contend(c)
      /\ issued' = issued /\ admitted' = admitted
  BY VerifyStarts
<1>2. Contention' /\ contended \subseteq contended'
  BY <1>1, ContentionGrows
<1>3. ~ Holds(r)' /\ Placed(r)'
  BY <1>1 DEF Holds, Placed, Stage
<1> QED
  BY <1>1, <1>2, <1>3, SameFades, OnceFades

LEMMA OnceLink ==
  ASSUME SignInShape, OnceInv, NEW r \in Clients, NEW s \in 1..issued, BeginLink(r, s)
  PROVE  SignInShape' /\ OnceInv'
<1>1. /\ SignInShape' /\ CacheSame /\ Stage(r) = "idle" /\ Others(r)
      /\ request'[r].stage = "unlink" /\ request'[r].secret = s /\ Contend(s)
      /\ s \in Secrets /\ Link(s).value # 0
      /\ issued' = issued /\ admitted' = admitted
  BY LinkStarts
<1>2. Contention' /\ contended \subseteq contended'
  BY <1>1, ContentionGrows
<1>3. /\ Secret(r)' = s /\ Stage(r)' = "unlink" /\ s \in 1..issued'
      /\ \A a \in Addresses : Code(a)'.value # s
  BY <1>1 DEF Secret, Stage, OnceInv, CodesApart, CacheSame
<1>4. Placed(r)'
  BY <1>3 DEF Placed
<1>5. ~ (admitted[s] > 0)
  BY <1>1 DEF OnceInv, Spent, Gone
<1> QED
  BY <1>1, <1>2, <1>4, <1>5, SameFades, OnceFades

LEMMA OnceIssues ==
  ASSUME SignInShape, SignInShape', OnceInv, NEW r \in Clients, Others(r),
         issued' = issued + 1, admitted' = admitted, contended' = contended,
         Stage(r) # "idle", request'[r].stage \in {"idle", "fresh"},
         request'[r].stage = "idle" \/ request'[r].secret = request[r].secret,
         \/ /\ \A s \in Secrets : Link(s)' = Link(s)
            /\ \A b \in Addresses :
                 b # request[r].address => Code(b)' = Code(b)
            /\ \A b \in Addresses :
                 b = request[r].address => Code(b)'.value = issued + 1
         \/ /\ \A b \in Addresses : Code(b)' = Code(b)
            /\ \A s \in Secrets : s # issued + 1 => Link(s)' = Link(s)
  PROVE  OnceInv'
<1>1. PICK n \in Secrets : n = issued + 1 /\ n \notin 1..issued /\ issued \in Nat
                           /\ n # 0
  BY Numbers DEF SignInShape, Secrets
<1>2. /\ \A a \in Addresses : Code(a)'.value \in {n, Code(a).value} /\ Code(a).value \in Nat
                              /\ Code(a).value # n
      /\ \A s \in Secrets : s # n => Link(s)' = Link(s)
      /\ Link(n).value = 0 /\ admitted[n] = 0
      /\ \/ /\ Link(n)' = Link(n)
            /\ \A a, b \in Addresses : a # b => Code(a)' = Code(a) \/ Code(b)' = Code(b)
         \/ \A a \in Addresses : Code(a)' = Code(a)
  <2>1. \A a \in Addresses : Code(a).value \in 0..issued
    BY Numbers DEF CacheFits
  <2>2. \A a \in Addresses : Code(a).value \in Nat /\ Code(a).value # n
    BY <1>1, <2>1
  <2>3. Link(n).value = 0 /\ admitted[n] = 0
    BY <1>1 DEF OnceInv, Unissued
  <2>4. /\ \A a \in Addresses : Code(a)' = Code(a) \/ Code(a)'.value = n
        /\ \A s \in Secrets : s # n => Link(s)' = Link(s)
    BY <1>1
  <2>5. \/ /\ Link(n)' = Link(n)
           /\ \A a, b \in Addresses : a # b => Code(a)' = Code(a) \/ Code(b)' = Code(b)
        \/ \A a \in Addresses : Code(a)' = Code(a)
    BY <1>1
  <2> QED
    BY <2>2, <2>3, <2>4, <2>5
<1>3. CodesApart'
  BY <1>1, <1>2 DEF OnceInv, CodesApart
<1>4. Unissued'
  BY <1>1, <1>2, Numbers DEF OnceInv, Unissued, Secrets
<1>5. Contention'
  BY ContentionStays
<1>6. ASSUME NEW c \in Secrets, c # n, Gone(c) PROVE Gone(c)'
  BY <1>1, <1>2, <1>6 DEF Gone
<1>7. Spent'
  BY <1>2, <1>6 DEF OnceInv, Spent
<1>8. \A q \in Clients : q # r => Stage(q)' = Stage(q) /\ Secret(q)' = Secret(q)
                                  /\ Holds(q)' = Holds(q) /\ request'[q] = request[q]
  BY DEF Others, Stage, Secret, Holds
<1>9. ~ Holds(r)' /\ Placed(r)'
  BY DEF Holds, Placed, Stage
<1>10. Once'
  BY <1>8, <1>9 DEF OnceInv, Once
<1>11. ASSUME NEW q \in Clients, q # r PROVE Placed(q)'
  <2>1. PICK c : c = Secret(q)
    OBVIOUS
  <2>2. Placed(q) /\ Stage(q)' = Stage(q) /\ Secret(q)' = c /\ Holds(q)' = Holds(q)
        /\ request'[q] = request[q]
    BY <1>8, <1>11, <2>1 DEF OnceInv
  <2>3. CASE ~ Holds(q)
    BY <2>2, <2>3 DEF Placed, Holds
  <2>4. CASE Holds(q)
    <3>1. c \in Secrets /\ c # n /\ c \in 1..issued'
      BY <1>1, <2>1, <2>2, <2>4, Numbers DEF Placed, Secrets
    <3>2. Gone(c) => Gone(c)'
      BY <3>1, <1>6
    <3>3. /\ Link(c)' = Link(c)
          /\ \A a \in Addresses : Code(a).value # c => Code(a)'.value # c
      BY <1>2, <3>1
    <3> QED
      BY <2>1, <2>2, <3>1, <3>2, <3>3 DEF Placed
  <2> QED
    BY <2>3, <2>4
<1> QED
  BY <1>3, <1>4, <1>5, <1>7, <1>9, <1>10, <1>11 DEF OnceInv

LEMMA OnceStarts == SignInInit => OnceInv
<1> SUFFICES ASSUME SignInInit PROVE OnceInv
  OBVIOUS
<1>1. \A key \in Keys : cache[key] = Missing
  BY DEF SignInInit
<1>2. /\ \A a \in Addresses : Code(a).value = 0
      /\ \A s \in Secrets : Link(s).value = 0 /\ s # 0 /\ admitted[s] = 0
  <2>1. /\ \A a \in Addresses : Code(a) = Missing
        /\ \A s \in Secrets : Link(s) = Missing
    BY <1>1, KeysDiffer DEF Code, Link
  <2>2. \A s \in Secrets : s # 0 /\ admitted[s] = 0
    BY DEF SignInInit, Secrets
  <2> QED
    BY <2>1, <2>2, MissingEntry
<1>3. \A r \in Clients : Stage(r) = "idle"
  BY IdleIs DEF SignInInit, Stage
<1>4. CodesApart /\ Unissued /\ Spent
  BY <1>2 DEF CodesApart, Unissued, Spent
<1>5. Contention /\ Once /\ \A r \in Clients : Placed(r)
  BY <1>2, <1>3 DEF Contention, Once, Placed, Holds
<1> QED
  BY <1>4, <1>5 DEF OnceInv

\* A request in flight with its own code finds it, and it is nowhere else.
LEMMA OnceQuietStep ==
  ASSUME SignInShape, OnceInv, NEW r \in Clients, QuietStep(r)
  PROVE  SignInShape' /\ OnceInv'
<1>1. /\ SignInShape' /\ CacheSame /\ HistorySame /\ issued' = issued /\ Fading
      /\ \/ Ending(r)
         \/ /\ Going(r, QuietGoal(r))
            /\ Stage(r) \in {"rate", "lookup", "owner", "compare"}
            /\ Stage(r) = "compare" => Code(request[r].address).value # 0
  BY QuietSteps, SameFades
<1>2. admitted' = admitted /\ contended' = contended
  BY <1>1 DEF HistorySame
<1>3. CASE Ending(r)
  BY <1>1, <1>2, <1>3, OnceQuiet DEF Ending
<1>4. CASE Going(r, QuietGoal(r)) /\ Stage(r) = "owner"
  <2>1. /\ Holds(r) /\ request'[r].stage = "password" /\ Others(r)
        /\ request'[r].secret = request[r].secret
    BY <1>4 DEF Going, QuietGoal, Holds
  <2>2. Placed(r)'
    <3>1. PICK c \in Secrets : c = Secret(r) /\ c \in 1..issued /\ Gone(c)
      BY <1>4, Numbers DEF OnceInv, Placed, Holds, Secrets
    <3>2. Gone(c)' /\ c \in 1..issued' /\ Secret(r)' = c /\ Stage(r)' = "password"
      BY <1>1, <2>1, <3>1, GoneStays DEF Gone, Secret, Stage
    <3> QED
      BY <3>2 DEF Placed
  <2> QED
    BY <1>1, <1>2, <2>1, <2>2, OnceHolds
<1>5. CASE /\ Going(r, QuietGoal(r)) /\ Stage(r) = "compare"
           /\ Code(request[r].address).value # 0
  <2>1. PICK a \in Addresses : a = request[r].address
    BY <1>5, Numbers
  <2>2. /\ Others(r) /\ request'[r].secret = request[r].secret /\ request'[r].address = a
        /\ request'[r].stage = IF Code(a).value = request[r].secret THEN "spend" ELSE "fail"
    BY <1>5, <2>1 DEF Going, QuietGoal
  <2>3. CASE Code(a).value # request[r].secret
    BY <1>1, <1>2, <1>5, <2>2, <2>3, OnceQuiet
  <2>4. CASE Code(a).value = request[r].secret
    <3>1. PICK c \in Secrets : c = Secret(r) /\ c \in 1..issued /\ c = Code(a).value
      <4>1. Code(a).value # 0 /\ Code(a).value \in 0..issued /\ issued \in Nat
            /\ issued =< MaxSecrets /\ MaxSecrets \in Nat
        BY <1>5, <2>1, Numbers DEF CacheFits
      <4> QED
        BY <2>4, <4>1 DEF Secret, Secrets
    <3>2. /\ Link(c).value = 0 /\ \A b \in Addresses : b # a => Code(b).value # c
          /\ ~ (admitted[c] > 0) /\ c # 0
      BY <3>1, <2>1 DEF OnceInv, CodesApart, Spent, Gone, Secrets
    <3>3. /\ Secret(r)' = c /\ Stage(r)' = "spend" /\ c \in 1..issued'
          /\ Link(c)'.value = 0 /\ \A b \in Addresses : b # a => Code(b)'.value # c
      BY <1>1, <2>2, <2>4, <3>1, <3>2 DEF Secret, Stage, CacheSame
    <3>4. Placed(r)'
      BY <2>2, <3>3 DEF Placed
    <3>5. Contention'
      BY <1>2, <1>5, <2>2, ContentionStays
    <3>6. request'[r].secret = c
      BY <3>3 DEF Secret
    <3> QED
      BY <1>1, <1>2, <2>2, <3>2, <3>4, <3>5, <3>6, OnceFades
  <2> QED
    BY <2>3, <2>4
<1>6. CASE Going(r, QuietGoal(r)) /\ Stage(r) \in {"rate", "lookup"}
  <2>1. Others(r) /\ request'[r].stage \in {"count", "issue"} /\ Stage(r) # "idle"
        /\ request'[r].secret = request[r].secret
    BY <1>6 DEF Going, QuietGoal
  <2> QED
    BY <1>1, <1>2, <2>1, OnceQuiet
<1> QED
  BY <1>1, <1>3, <1>4, <1>5, <1>6

LEMMA OnceStep == SignInShape /\ OnceInv /\ [SignInNext]_signInVars => SignInShape' /\ OnceInv'
<1> SUFFICES ASSUME SignInShape, OnceInv, [SignInNext]_signInVars
             PROVE  SignInShape' /\ OnceInv'
  OBVIOUS
<1>1. ASSUME NEW r \in Clients, NEW a \in Addresses, BeginRegister(r, a) \/ BeginSend(r, a)
      PROVE  SignInShape' /\ OnceInv'
  BY <1>1, ArrivalDoes, SameFades, OnceQuiet DEF HistorySame
<1>2. ASSUME NEW r \in Clients, CountStep(r)
      PROVE  SignInShape' /\ OnceInv'
  BY <1>2, CountSteps, SameFades, OnceQuiet DEF HistorySame, Going
<1>3. ASSUME NEW r \in Clients, IssueCode(r)
      PROVE  SignInShape' /\ OnceInv'
  BY <1>3, IssueCodeDoes, OnceIssues DEF Going
<1>4. ASSUME NEW r \in Clients, ForgetAttempts(r)
      PROVE  SignInShape' /\ OnceInv'
  <2>1. /\ SignInShape' /\ HistorySame /\ issued' = issued /\ Fading
        /\ Going(r, "link") \/ Ending(r)
    BY <1>4, ForgetAttemptsDoes, SameFades
  <2> QED
    BY <2>1, OnceQuiet DEF HistorySame, Going, Ending
<1>5. ASSUME NEW r \in Clients, IssueLink(r)
      PROVE  SignInShape' /\ OnceInv'
  BY <1>5, IssueLinkDoes, OnceIssues DEF HistorySame, Ending
<1>6. ASSUME NEW r \in Clients, SpendCode(r)
      PROVE  SignInShape' /\ OnceInv'
  <2>1. /\ SignInShape' /\ HistorySame /\ issued' = issued
        /\ Going(r, "clear") /\ Stage(r) = "spend"
        /\ \A b \in Addresses :
             Code(b)' = IF b = request[r].address THEN Missing ELSE Code(b)
        /\ \A s \in Secrets : Link(s)' = Link(s)
    BY <1>6, SpendCodeDoes
  <2>2. Fading
    BY <2>1, MissingEntry DEF Fading
  <2>3. PICK c \in Secrets : /\ c = Secret(r) /\ c \in 1..issued /\ Link(c).value = 0
                             /\ \A a \in Addresses :
                                  a # request[r].address => Code(a).value # c
    BY <2>1, Numbers DEF OnceInv, Placed, Holds, Secrets
  <2>4. /\ Gone(c)' /\ c \in 1..issued' /\ Secret(r)' = c /\ Stage(r)' = "clear"
    BY <2>1, <2>3, MissingEntry DEF Gone, Secret, Stage, Going, Secrets
  <2>5. Placed(r)' /\ Holds(r)
    BY <2>1, <2>4 DEF Placed, Holds
  <2> QED
    BY <2>1, <2>2, <2>5, OnceHolds DEF HistorySame, Going
<1>7. ASSUME NEW r \in Clients, ClearAttempts(r)
      PROVE  SignInShape' /\ OnceInv'
  <2>1. /\ SignInShape' /\ issued' = issued /\ contended' = contended /\ Fading
        /\ Stage(r) = "clear" /\ (Going(r, "owner") \/ Ending(r))
        /\ admitted' = admitted \/ (Admit(Secret(r)) /\ Ending(r))
    BY <1>7, ClearAttemptsDoes, SameFades DEF Secret
  <2>2. CASE admitted' = admitted /\ Ending(r)
    BY <2>1, <2>2, OnceQuiet DEF Ending
  <2>3. CASE Admit(Secret(r)) /\ Ending(r)
    BY <2>1, <2>3, OnceAdmits DEF Ending
  <2>4. CASE admitted' = admitted /\ Going(r, "owner")
    <3>1. PICK c \in Secrets : c = Secret(r) /\ c \in 1..issued /\ Gone(c)
      BY <2>1, Numbers DEF OnceInv, Placed, Holds, Secrets
    <3>2. /\ Gone(c)' /\ c \in 1..issued' /\ Secret(r)' = c /\ Stage(r)' = "owner"
      BY <2>1, <2>4, <3>1, GoneStays DEF Gone, Secret, Stage, Going
    <3>3. Placed(r)' /\ Holds(r)
      BY <2>1, <3>2 DEF Placed, Holds
    <3> QED
      BY <2>1, <2>4, <3>3, OnceHolds DEF Going
  <2> QED
    BY <2>1, <2>2, <2>3, <2>4
<1>8. ASSUME NEW r \in Clients, FailureCounted(r)
      PROVE  SignInShape' /\ OnceInv'
  <2>1. /\ SignInShape' /\ issued' = issued /\ admitted' = admitted
        /\ contended' = contended /\ Ending(r)
        /\ \A b \in Addresses : Code(b)' = Missing \/ Code(b)' = Code(b)
        /\ \A s \in Secrets : Link(s)' = Link(s)
    BY <1>8, FailureCountedDoes
  <2>2. Fading
    BY <2>1, MissingEntry DEF Fading
  <2> QED
    BY <2>1, <2>2, OnceQuiet DEF Ending
<1>9. ASSUME NEW r \in Clients, DropLink(r)
      PROVE  SignInShape' /\ OnceInv'
  <2>1. PICK c \in Secrets : /\ c = Secret(r) /\ c \in 1..issued
                             /\ \A a \in Addresses : Code(a).value # c
    BY <1>9, Numbers DEF DropLink, OnceInv, Placed, Holds, Secrets
  <2>2. /\ SignInShape' /\ HistorySame /\ issued' = issued
        /\ Stage(r) = "unlink" /\ Going(r, "owner")
        /\ \A b \in Addresses : Code(b)' = Code(b)
        /\ \A s \in Secrets : Link(s)' = IF s = c THEN Missing ELSE Link(s)
    BY <1>9, <2>1, DropLinkDoes DEF Secret
  <2>3. Fading
    BY <2>2, MissingEntry DEF Fading
  <2>4. /\ Gone(c)' /\ c \in 1..issued' /\ Secret(r)' = c /\ Stage(r)' = "owner"
    BY <2>1, <2>2, MissingEntry DEF Gone, Secret, Stage, Going
  <2>5. Placed(r)' /\ Holds(r)
    BY <2>2, <2>4 DEF Placed, Holds
  <2> QED
    BY <2>2, <2>3, <2>5, OnceHolds DEF HistorySame, Going
<1>10. ASSUME NEW r \in Clients, SavePassword(r)
       PROVE  SignInShape' /\ OnceInv'
  BY <1>10, SavePasswordDoes, SameFades, OnceAdmits DEF Ending, Secret
<1>11. ASSUME NEW r \in Clients, CreateAccount(r)
       PROVE  SignInShape' /\ OnceInv'
  BY <1>11, CreateAccountDoes, SameFades, OnceQuiet DEF HistorySame, Ending
<1>12. ASSUME NEW r \in Clients, Die(r)
       PROVE  SignInShape' /\ OnceInv'
  <2>1. SignInShape' /\ HistorySame /\ issued' = issued /\ Ending(r)
    BY <1>12, DieDoes
  <2>2. Fading
    BY <1>12, DieDoes, SameFades, MissingEntry DEF Fading
  <2> QED
    BY <2>1, <2>2, OnceQuiet DEF HistorySame, Ending
<1>13. ASSUME Fading, SignInShape', HistorySame, issued' = issued, request' = request
       PROVE  OnceInv'
  <2>1. /\ CodesApart' /\ Unissued'
    BY <1>13 DEF OnceInv, CodesApart, Unissued, Fading, HistorySame, Secrets
  <2>2. Contention' /\ Once'
    BY <1>13, Zenon DEF OnceInv, Contention, Once, HistorySame, Stage, Secret, Holds
  <2>3. Spent'
    BY <1>13, GoneStays DEF OnceInv, Spent, Gone, HistorySame
  <2>4. \A q \in Clients : Placed(q)'
    BY <1>13, PlacedStays DEF OnceInv
  <2> QED
    BY <2>1, <2>2, <2>3, <2>4 DEF OnceInv
<1>14. ASSUME NEW a \in Addresses, NEW state \in {"active", "inactive"}, SetActive(a, state)
       PROVE  SignInShape' /\ OnceInv'
  BY <1>13, <1>14, SetActiveDoes, SameFades
<1>15. ASSUME Expire
       PROVE  SignInShape' /\ OnceInv'
  <2>1. /\ SignInShape' /\ HistorySame /\ issued' = issued /\ request' = request
        /\ \A b \in Addresses : Code(b)' = Aged(Code(b))
        /\ \A s \in Secrets : Link(s)' = Aged(Link(s))
    BY <1>15, ExpireDoes
  <2>2. /\ \A b \in Addresses : Code(b) \in Entries
        /\ \A s \in Secrets : Link(s) \in Entries
    BY Numbers, KeysDiffer DEF CacheFits, Code, Link
  <2>3. \A e \in Entries : Aged(e).value \in {0, e.value}
    BY AgedFits DEF Entries
  <2>4. Fading
    BY <2>1, <2>2, <2>3 DEF Fading
  <2> QED
    BY <1>13, <2>1, <2>4
<1>16. CASE UNCHANGED signInVars
  BY <1>16 DEF signInVars, SignInShape, OnceInv, CacheFits, RequestsFit, CodesApart, Unissued,
       Contention, Spent, Once, Placed, Holds, Secret, Stage, Gone, Code, Tries, Link, historyVars
<1> QED
  BY <1>1, <1>2, <1>3, <1>4, <1>5, <1>6, <1>7, <1>8, <1>9, <1>10, <1>11, <1>12, <1>14, <1>15,
     <1>16, OnceVerify, OnceLink, OnceQuietStep, StepsAre

\* Codes and links are where their stages say, and each lets somebody in once.
THEOREM SignInInvariance == SignInSpec => [](SignInShape /\ OnceInv)
<1>1. SignInInit => SignInShape /\ OnceInv
  BY ShapeStarts, OnceStarts
<1>2. SignInShape /\ OnceInv /\ [SignInNext]_signInVars => (SignInShape /\ OnceInv)'
  BY OnceStep
<1> QED
  BY <1>1, <1>2, PTL DEF SignInSpec

\* The values of the variables: entries, accounts and what requests have read.
THEOREM SignInTypes == SignInSpec => []SignInTypeOK
<1>1. SignInShape => SignInTypeOK
  <2> SUFFICES ASSUME SignInShape PROVE SignInTypeOK
    OBVIOUS
  <2>1. cache \in [Keys -> [value : Nat \cup Addresses, left : Nat]]
    BY DEF SignInShape, CacheFits, Entries
  <2>2. \A r \in Clients :
          /\ request[r].address \in Addresses \cup {Nobody}
          /\ request[r].secret \in 0..issued /\ request[r].seen \in Nat
    BY Numbers DEF Sensible, Doings
  <2> QED
    BY <2>1, <2>2 DEF SignInShape, SignInTypeOK, Accounts
<1> QED
  BY <1>1, SignInInvariance, PTL

\* A code or a link lets somebody in once, unless two requests have presented it
\* at the same time, whoever dies, times out or asks again meanwhile.
THEOREM SecretsAdmitOnce == SignInSpec => []SecretsWorkOnce
<1>1. SignInShape /\ OnceInv => SecretsWorkOnce
  BY DEF SignInShape, OnceInv, Once, SecretsWorkOnce
<1> QED
  BY <1>1, SignInInvariance, PTL

-----------------------------------------------------------------------------
(* Guesses at a code, with a counter that lives as long as the code *)

Busy(r, a, stages) == Stage(r) \in stages /\ request[r].address = a

\* No code is there, or the counter outlives it and has counted every wrong
\* guess: but for a code whose counter is yet to be forgotten, and for the guess
\* that is being counted.
Watched(a) ==
  Code(a).value # 0 =>
    /\ \/ Tries(a).value = 0 \/ Tries(a).left >= Code(a).left
       \/ \E r \in Clients : Busy(r, a, {"fresh"})
    /\ \/ wrong[a] =< Tries(a).value
       \/ \E r \in Clients : Busy(r, a, {"fresh", "failed"})

\* What a request relies on while it compares a guess and counts it.
Guessing(r) ==
  \A a \in Addresses : request[r].address = a =>
    /\ Stage(r) = "fresh" => wrong[a] = 0
    /\ Stage(r) \in {"compare", "fail"} => Tries(a).value < MaxAttempts
    /\ Stage(r) \in {"fail", "failed"} => wrong[a] < MaxAttempts
    /\ Stage(r) = "failed" /\ Code(a).value # 0 =>
         request[r].seen = Tries(a).value /\ wrong[a] < Tries(a).value
    /\ Stage(r) = "clear" => Code(a).value = 0

GuessInv ==
  backend = "locmem" =>
    /\ \A q, r \in Clients : q # r => Stage(q) = "idle" \/ Stage(r) = "idle"
    /\ \A r \in Clients : Stage(r) \notin {"incr", "incrset"} /\ Guessing(r)
    /\ \A a \in Addresses :
         wrong[a] =< MaxAttempts /\ Code(a).left =< CodeLife /\ Watched(a)

\* The other requests are not running.
Alone(r) == \A q \in Clients : q # r => Stage(q) = "idle"

LEMMA GuessStarts == SignInInit => GuessInv
<1> SUFFICES ASSUME SignInInit PROVE GuessInv
  OBVIOUS
<1>1. \A key \in Keys : cache[key] = Missing
  BY DEF SignInInit
<1>2. /\ \A a \in Addresses : Code(a).value = 0 /\ Code(a).left = 0 /\ wrong[a] = 0
      /\ CodeLife \in Nat /\ MaxAttempts \in Nat
  BY <1>1, KeysDiffer, MissingEntry, SignInAssumption DEF Code, SignInInit
<1>3. \A r \in Clients : Stage(r) = "idle"
  BY IdleIs DEF SignInInit, Stage
<1> QED
  BY <1>2, <1>3 DEF GuessInv, Guessing, Watched

\* A step of one request, seen from that request alone.
LEMMA GuessFrom ==
  ASSUME NEW r \in Clients, Alone(r), Others(r),
         Stage(r)' \notin {"incr", "incrset"}, Guessing(r)',
         \A a \in Addresses : wrong'[a] =< MaxAttempts /\ Code(a)'.left =< CodeLife /\ Watched(a)'
  PROVE  GuessInv'
<1>1. \A q \in Clients : q # r => Stage(q)' = "idle"
  BY DEF Alone, Others, Stage
<1>2. \A q \in Clients : q # r => Guessing(q)'
  BY <1>1 DEF Guessing
<1> QED
  BY <1>1, <1>2 DEF GuessInv

\* What Watched says when no request is in between.
LEMMA Calm ==
  ASSUME GuessInv, backend = "locmem", NEW r \in Clients, Alone(r), NEW a \in Addresses,
         Code(a).value # 0
  PROVE  /\ Busy(r, a, {"fresh"}) \/ Tries(a).value = 0 \/ Tries(a).left >= Code(a).left
         /\ Busy(r, a, {"fresh", "failed"}) \/ wrong[a] =< Tries(a).value
BY DEF GuessInv, Watched, Alone, Busy

LEMMA CalmWatches ==
  ASSUME NEW a \in Addresses,
         Code(a)'.value # 0 =>
           /\ Tries(a)'.value = 0 \/ Tries(a)'.left >= Code(a)'.left
           /\ wrong'[a] =< Tries(a)'.value
  PROVE  Watched(a)'
BY DEF Watched

\* A request that neither guesses nor has just sent a code goes on to such a stage.
LEMMA GuessQuiet ==
  ASSUME GuessInv, backend = "locmem", NEW r \in Clients, Alone(r), Others(r),
         Stage(r) \notin {"fresh", "failed"},
         request'[r].stage \notin
           {"fresh", "compare", "fail", "failed", "clear", "incr", "incrset"},
         wrong' = wrong,
         \A a \in Addresses : Code(a)' = Code(a) /\ Tries(a)' = Tries(a)
  PROVE  GuessInv'
<1>1. Guessing(r)' /\ Stage(r)' \notin {"incr", "incrset"}
  BY DEF Guessing, Stage
<1>2. ASSUME NEW a \in Addresses PROVE Watched(a)'
  BY Calm, CalmWatches DEF Busy
<1>3. \A a \in Addresses : wrong'[a] =< MaxAttempts /\ Code(a)'.left =< CodeLife
  BY DEF GuessInv
<1> QED
  BY <1>1, <1>2, <1>3, GuessFrom

LEMMA BackendKept ==
  ASSUME [SignInNext]_signInVars
  PROVE  backend' = backend
BY ZenonT(60) DEF SignInNext, SignInArrival, SendStep, PresentStep, signInVars,
   BeginRegister, BeginSend, BeginVerify, BeginLink, CheckRate, CountSend, SetCooldown, LookUp,
   IssueCode, ForgetAttempts, IssueLink, Compare, SpendCode, ClearAttempts, CountFailure,
   FailureCounted, DropLink, FindOwner, SavePassword, CreateAccount, IncrGet, IncrSet, Die,
   Refused, SetActive, Expire

LEMMA GuessVerify ==
  ASSUME SignInShape, GuessInv, backend = "locmem", NEW r \in Clients, NEW a \in Addresses,
         NEW c \in 0..issued, BeginVerify(r, a, c)
  PROVE  GuessInv'
<1>1. /\ SignInShape' /\ CacheSame /\ Stage(r) = "idle" /\ Runs(r) /\ Others(r)
      /\ request'[r].stage = "compare" /\ request'[r].address = a
      /\ Tries(a).value < MaxAttempts /\ wrong' = wrong
  BY VerifyStarts
<1>2. Alone(r)
  BY <1>1 DEF Runs, Alone
<1>3. Guessing(r)' /\ Stage(r)' \notin {"incr", "incrset"}
  BY <1>1 DEF Guessing, Stage, CacheSame
<1>4. ASSUME NEW b \in Addresses PROVE Watched(b)'
  BY <1>1, <1>2, Calm, CalmWatches DEF Busy, CacheSame
<1>5. \A b \in Addresses : wrong'[b] =< MaxAttempts /\ Code(b)'.left =< CodeLife
  BY <1>1 DEF GuessInv, CacheSame
<1> QED
  BY <1>1, <1>2, <1>3, <1>4, <1>5, GuessFrom

LEMMA GuessQuietStep ==
  ASSUME SignInShape, GuessInv, backend = "locmem", NEW r \in Clients, QuietStep(r)
  PROVE  GuessInv'
<1>1. /\ SignInShape' /\ CacheSame /\ HistorySame
      /\ Stage(r) \in {"create", "rate", "lookup", "owner", "password", "compare"}
      /\ \/ Ending(r)
         \/ /\ Going(r, QuietGoal(r)) /\ request'[r].seen = request[r].seen
            /\ Stage(r) \in {"rate", "lookup", "owner", "compare"}
            /\ Stage(r) = "compare" => Code(request[r].address).value # 0
  BY QuietSteps
<1>2. Alone(r) /\ Others(r)
  BY <1>1 DEF GuessInv, Alone, Going, Ending
<1>3. /\ wrong' = wrong
      /\ \A a \in Addresses : Code(a)' = Code(a) /\ Tries(a)' = Tries(a)
  BY <1>1 DEF HistorySame, CacheSame
<1>4. request'[r].stage # "fail" => GuessInv'
  <2>1. request'[r].stage \in {"idle", "count", "issue", "password", "spend", "fail"}
    BY <1>1 DEF Going, Ending, QuietGoal
  <2> QED
    BY <1>1, <1>2, <1>3, <2>1, GuessQuiet
<1>5. ASSUME request'[r].stage = "fail" PROVE GuessInv'
  <2>1. PICK a \in Addresses : a = request[r].address
    BY <1>1, Numbers
  <2>2. Stage(r) = "compare" /\ Code(a).value # 0 /\ request'[r].address = a
    BY <1>1, <1>5, <2>1 DEF Going, Ending, QuietGoal
  <2>3. Tries(a).value < MaxAttempts /\ wrong[a] =< Tries(a).value
    BY <1>2, <2>1, <2>2, Calm DEF GuessInv, Guessing, Busy
  <2>4. wrong[a] \in Nat /\ Tries(a).value \in Nat /\ MaxAttempts \in Nat
    BY Numbers, SignInAssumption DEF SignInShape, CacheFits
  <2>5. Guessing(r)' /\ Stage(r)' \notin {"incr", "incrset"}
    BY <1>3, <1>5, <2>2, <2>3, <2>4 DEF Guessing, Stage
  <2>6. ASSUME NEW b \in Addresses PROVE Watched(b)'
    BY <1>2, <1>3, <2>2, Calm, CalmWatches DEF Busy
  <2>7. \A b \in Addresses : wrong'[b] =< MaxAttempts /\ Code(b)'.left =< CodeLife
    BY <1>3 DEF GuessInv
  <2> QED
    BY <1>2, <2>5, <2>6, <2>7, GuessFrom
<1> QED
  BY <1>4, <1>5

LEMMA GuessIssue ==
  ASSUME SignInShape, GuessInv, backend = "locmem", NEW r \in Clients, IssueCode(r)
  PROVE  GuessInv'
<1>1. /\ Going(r, "fresh") /\ Stage(r) = "issue"
      /\ \A b \in Addresses : b # request[r].address =>
           Code(b)' = Code(b) /\ wrong'[b] = wrong[b]
      /\ \A b \in Addresses : b = request[r].address =>
           Code(b)'.left = CodeLife /\ wrong'[b] = 0
      /\ \A b \in Addresses : Tries(b)' = Tries(b)
  BY IssueCodeDoes
<1>2. PICK a \in Addresses : a = request[r].address
  BY <1>1, Numbers
<1>3. Alone(r) /\ Others(r) /\ Stage(r)' = "fresh" /\ request'[r].address = a
  BY <1>1, <1>2 DEF GuessInv, Alone, Going, Stage
<1>4. Guessing(r)'
  BY <1>1, <1>2, <1>3 DEF Guessing
<1>5. CodeLife \in Nat /\ MaxAttempts \in Nat
  BY SignInAssumption
<1>6. \A b \in Addresses : wrong'[b] =< MaxAttempts /\ Code(b)'.left =< CodeLife
  BY <1>1, <1>5 DEF GuessInv
<1>7. ASSUME NEW b \in Addresses PROVE Watched(b)'
  <2>1. CASE b = a
    BY <1>3, <2>1 DEF Watched, Busy
  <2>2. CASE b # a
    BY <1>1, <1>2, <1>3, <2>2, Calm, CalmWatches DEF Busy
  <2> QED
    BY <2>1, <2>2
<1> QED
  BY <1>3, <1>4, <1>6, <1>7, GuessFrom

\* The failures of an address are forgotten.
LEMMA GuessForget ==
  ASSUME SignInShape, GuessInv, backend = "locmem", NEW r \in Clients,
         ForgetAttempts(r) \/ ClearAttempts(r)
  PROVE  GuessInv'
<1>1. /\ Stage(r) \in {"fresh", "clear"} /\ wrong' = wrong
      /\ Going(r, "link") \/ Going(r, "owner") \/ Ending(r)
      /\ \A b \in Addresses : Code(b)' = Code(b)
      /\ \A b \in Addresses :
           Tries(b)' = IF b = request[r].address THEN Missing ELSE Tries(b)
  BY ForgetAttemptsDoes, ClearAttemptsDoes DEF HistorySame
<1>2. PICK a \in Addresses : a = request[r].address
  BY <1>1, Numbers
<1>3. Alone(r) /\ Others(r) /\ request'[r].stage \in {"idle", "link", "owner"}
  BY <1>1 DEF GuessInv, Alone, Going, Ending
<1>4. Guessing(r)' /\ Stage(r)' \notin {"incr", "incrset"}
  BY <1>3 DEF Guessing, Stage
<1>5. \A b \in Addresses : wrong'[b] =< MaxAttempts /\ Code(b)'.left =< CodeLife
  BY <1>1 DEF GuessInv
<1>6. ASSUME NEW b \in Addresses PROVE Watched(b)'
  <2>1. CASE b = a
    <3>1. \/ Stage(r) = "clear" /\ Code(b).value = 0
          \/ Stage(r) = "fresh" /\ wrong[b] = 0
      BY <1>1, <1>2, <2>1 DEF GuessInv, Guessing
    <3>2. Tries(b)'.value = 0
      BY <1>1, <1>2, <2>1, MissingEntry
    <3> QED
      BY <1>1, <3>1, <3>2, CalmWatches
  <2>2. CASE b # a
    BY <1>1, <1>2, <1>3, <2>2, Calm, CalmWatches DEF Busy
  <2> QED
    BY <2>1, <2>2
<1> QED
  BY <1>3, <1>4, <1>5, <1>6, GuessFrom

LEMMA GuessSpend ==
  ASSUME SignInShape, GuessInv, backend = "locmem", NEW r \in Clients, SpendCode(r)
  PROVE  GuessInv'
<1>1. /\ HistorySame /\ Going(r, "clear") /\ Stage(r) = "spend"
      /\ \A b \in Addresses :
           Code(b)' = IF b = request[r].address THEN Missing ELSE Code(b)
      /\ \A b \in Addresses : Tries(b)' = Tries(b)
  BY SpendCodeDoes
<1>2. PICK a \in Addresses : a = request[r].address
  BY <1>1, Numbers
<1>3. Alone(r) /\ Others(r) /\ Stage(r)' = "clear" /\ request'[r].address = a
  BY <1>1, <1>2 DEF GuessInv, Alone, Going, Stage
<1>4. Guessing(r)'
  BY <1>1, <1>2, <1>3, MissingEntry DEF Guessing
<1>5. CodeLife \in Nat
  BY SignInAssumption
<1>6. \A b \in Addresses : wrong'[b] =< MaxAttempts /\ Code(b)'.left =< CodeLife
  BY <1>1, <1>5, MissingEntry DEF GuessInv, HistorySame
<1>7. ASSUME NEW b \in Addresses PROVE Watched(b)'
  <2>1. CASE b = a
    BY <1>1, <1>2, <2>1, MissingEntry, CalmWatches
  <2>2. CASE b # a
    BY <1>1, <1>2, <1>3, <2>2, Calm, CalmWatches DEF Busy, HistorySame
  <2> QED
    BY <2>1, <2>2
<1> QED
  BY <1>3, <1>4, <1>6, <1>7, GuessFrom

\* A failure is counted: the counter then says one more than the wrong guesses.
LEMMA GuessFails ==
  ASSUME SignInShape, GuessInv, backend = "locmem", NEW r \in Clients, CountFailure(r)
  PROVE  GuessInv'
<1>1. /\ Stage(r) = "fail" /\ Stage(r) # "idle"
      /\ CountStart(r, "attempts", CodeLife, "failed")
      /\ UNCHANGED <<backend, purpose, account, issued, historyVars>>
  BY Zenon DEF CountFailure
<1>2. CodeLife \in Nat /\ MaxAttempts \in Nat /\ CountCap \in Nat /\ CountCap > MaxAttempts
      /\ "failed" \in Stages /\ backend # "db"
  BY SignInAssumption DEF Stages
<1>3. PICK a \in Addresses : a = request[r].address
  BY <1>1, Numbers
<1>4. /\ HistorySame /\ Going(r, "failed")
      /\ \A b \in Addresses : Code(b)' = Code(b)
      /\ \A b \in Addresses : b # a => Tries(b)' = Tries(b)
      /\ \/ /\ Tries(a).value = 0 /\ request'[r].seen = 1
            /\ Tries(a)'.value = 1 /\ Tries(a)'.left = CodeLife
         \/ /\ Tries(a).value # 0 /\ request'[r].seen = Tries(a).value + 1
            /\ Tries(a)'.value = UpTo(CountCap, Tries(a).value + 1)
            /\ Tries(a)'.left = Tries(a).left
  BY <1>1, <1>2, <1>3, CountDoes
<1>5. /\ Alone(r) /\ Others(r) /\ Stage(r)' = "failed" /\ request'[r].address = a
      /\ wrong' = wrong
  BY <1>1, <1>3, <1>4 DEF GuessInv, Alone, Going, Stage, HistorySame
<1>6. /\ Tries(a).value < MaxAttempts /\ wrong[a] < MaxAttempts
      /\ Code(a).left =< CodeLife
  BY <1>1, <1>3 DEF GuessInv, Guessing
<1>7. Tries(a).value \in Nat /\ wrong[a] \in Nat /\ Tries(a).left \in Nat /\ Code(a).left \in Nat
  BY Numbers, KeysDiffer DEF SignInShape, CacheFits, Entries, Tries, Code
<1>8. /\ request'[r].seen = Tries(a).value + 1 /\ Tries(a)'.value = Tries(a).value + 1
      /\ Tries(a)'.left = CodeLife \/ (Tries(a).value # 0 /\ Tries(a)'.left = Tries(a).left)
  BY <1>2, <1>4, <1>6, <1>7 DEF UpTo
<1>9. Code(a).value # 0 => /\ wrong[a] =< Tries(a).value
                           /\ Tries(a)'.left >= Code(a).left
  BY <1>1, <1>5, <1>6, <1>7, <1>8, Calm DEF Busy
<1>10. Guessing(r)'
  BY <1>4, <1>5, <1>6, <1>7, <1>8, <1>9 DEF Guessing
<1>11. \A b \in Addresses : wrong'[b] =< MaxAttempts /\ Code(b)'.left =< CodeLife
  BY <1>4, <1>5 DEF GuessInv
<1>12. ASSUME NEW b \in Addresses PROVE Watched(b)'
  <2>1. CASE b = a
    BY <1>4, <1>5, <1>7, <1>8, <1>9, <2>1, CalmWatches
  <2>2. CASE b # a
    BY <1>1, <1>4, <1>5, <2>2, Calm, CalmWatches DEF Busy
  <2> QED
    BY <2>1, <2>2
<1> QED
  BY <1>5, <1>10, <1>11, <1>12, GuessFrom

\* A wrong guess is over: with the last one the code is gone.
LEMMA GuessCounted ==
  ASSUME SignInShape, GuessInv, backend = "locmem", NEW r \in Clients, FailureCounted(r)
  PROVE  GuessInv'
<1>1. PICK a \in Addresses : a = request[r].address
  BY Numbers DEF FailureCounted
<1>2. /\ Stage(r) = "failed" /\ Ending(r)
      /\ \A b \in Addresses :
           Code(b)' = IF b = a /\ request[r].seen >= MaxAttempts THEN Missing ELSE Code(b)
      /\ \A b \in Addresses : Tries(b)' = Tries(b)
      /\ \A b \in Addresses :
           wrong'[b] = IF b # a THEN wrong[b] ELSE UpTo(MaxAttempts + 1, wrong[b] + 1)
  BY <1>1, FailureCountedDoes
<1>3. Alone(r) /\ Others(r) /\ Stage(r)' = "idle"
  BY <1>2 DEF GuessInv, Alone, Ending, Stage
<1>4. Guessing(r)'
  BY <1>3 DEF Guessing
<1>5. /\ wrong[a] \in Nat /\ MaxAttempts \in Nat /\ CodeLife \in Nat /\ Tries(a).value \in Nat
      /\ request[r].seen \in Nat
  BY Numbers, SignInAssumption DEF SignInShape, CacheFits
<1>6. /\ wrong[a] < MaxAttempts
      /\ Code(a).value # 0 => request[r].seen = Tries(a).value /\ wrong[a] < Tries(a).value
  BY <1>1, <1>2 DEF GuessInv, Guessing
<1>7. wrong'[a] = wrong[a] + 1
  BY <1>2, <1>5, <1>6 DEF UpTo
<1>8. \A b \in Addresses : wrong'[b] =< MaxAttempts /\ Code(b)'.left =< CodeLife
  BY <1>2, <1>5, <1>6, <1>7, MissingEntry DEF GuessInv
<1>9. ASSUME NEW b \in Addresses PROVE Watched(b)'
  <2>1. CASE b = a
    <3>1. Code(a).value # 0 => Tries(a).value = 0 \/ Tries(a).left >= Code(a).left
      BY <1>2, <1>3, Calm DEF Busy
    <3> QED
      BY <1>2, <1>5, <1>6, <1>7, <2>1, <3>1, MissingEntry, CalmWatches
  <2>2. CASE b # a
    BY <1>1, <1>2, <1>3, <2>2, Calm, CalmWatches DEF Busy
  <2> QED
    BY <2>1, <2>2
<1> QED
  BY <1>3, <1>4, <1>8, <1>9, GuessFrom

\* Time passes: a counter that outlives its code does so to the end.
LEMMA GuessExpire ==
  ASSUME SignInShape, GuessInv, backend = "locmem", Expire
  PROVE  GuessInv'
<1>1. /\ wrong' = wrong /\ request' = request
      /\ \A b \in Addresses : Code(b)' = Aged(Code(b)) /\ Tries(b)' = Aged(Tries(b))
  BY ExpireDoes DEF HistorySame
<1>2. \A b \in Addresses : /\ Code(b) \in Entries /\ Tries(b) \in Entries
                           /\ Code(b).left \in Nat /\ Tries(b).left \in Nat
                           /\ Tries(b).value \in Nat
  BY Numbers, KeysDiffer DEF CacheFits, Code, Tries, Entries
<1>3. ASSUME NEW b \in Addresses
      PROVE  /\ \/ Code(b)'.value = 0 /\ Code(b)'.left = 0
                \/ /\ Code(b)'.value = Code(b).value /\ Code(b)'.left = Code(b).left - 1
                   /\ Code(b).left > 1
             /\ \/ Tries(b)'.value = 0 /\ Tries(b).left =< 1
                \/ /\ Tries(b)'.value = Tries(b).value /\ Tries(b)'.left = Tries(b).left - 1
                   /\ Tries(b).left > 1
  <2>1. Code(b).left =< 1 \/ Code(b).left > 1
    BY <1>2
  <2>2. Tries(b).left =< 1 \/ Tries(b).left > 1
    BY <1>2
  <2> QED
    BY <1>1, <1>2, <2>1, <2>2, AgedFits
<1>4. CodeLife \in Nat /\ MaxAttempts \in Nat \ {0}
  BY SignInAssumption
<1>5. /\ \A q, r \in Clients : q # r => Stage(q)' = "idle" \/ Stage(r)' = "idle"
      /\ \A r \in Clients : Stage(r)' = Stage(r) /\ Stage(r)' \notin {"incr", "incrset"}
  BY <1>1 DEF GuessInv, Stage
<1>6. ASSUME NEW r \in Clients PROVE Guessing(r)'
  <2> SUFFICES ASSUME NEW a \in Addresses, request[r].address = a
               PROVE  /\ Stage(r) = "fresh" => wrong[a] = 0
                      /\ Stage(r) \in {"compare", "fail"} => Tries(a)'.value < MaxAttempts
                      /\ Stage(r) \in {"fail", "failed"} => wrong[a] < MaxAttempts
                      /\ Stage(r) = "failed" /\ Code(a)'.value # 0 =>
                           request[r].seen = Tries(a)'.value /\ wrong[a] < Tries(a)'.value
                      /\ Stage(r) = "clear" => Code(a)'.value = 0
    BY <1>1, <1>5 DEF Guessing
  <2>1. /\ Stage(r) = "fresh" => wrong[a] = 0
        /\ Stage(r) \in {"compare", "fail"} => Tries(a).value < MaxAttempts
        /\ Stage(r) \in {"fail", "failed"} => wrong[a] < MaxAttempts
        /\ Stage(r) = "failed" /\ Code(a).value # 0 =>
             request[r].seen = Tries(a).value /\ wrong[a] < Tries(a).value
        /\ Stage(r) = "clear" => Code(a).value = 0
    BY DEF GuessInv, Guessing
  <2>2. wrong[a] \in Nat
    BY DEF SignInShape
  <2>3. Stage(r) = "failed" /\ Code(a).value # 0 =>
          Tries(a).value = 0 \/ Tries(a).left >= Code(a).left
    <3>1. Stage(r) = "failed" => Alone(r)
      BY DEF GuessInv, Alone
    <3> QED
      BY <3>1, Calm DEF Busy
  <2> QED
    BY <1>2, <1>3, <1>4, <2>1, <2>2, <2>3
<1>7. ASSUME NEW a \in Addresses
      PROVE  wrong'[a] =< MaxAttempts /\ Code(a)'.left =< CodeLife /\ Watched(a)'
  <2>1. wrong[a] =< MaxAttempts /\ Code(a).left =< CodeLife /\ Watched(a)
    BY DEF GuessInv
  <2>2. \A stages : \A r \in Clients : Busy(r, a, stages)' <=> Busy(r, a, stages)
    BY <1>1 DEF Busy, Stage
  <2>3. wrong[a] \in Nat
    BY DEF SignInShape
  <2>4. Watched(a)'
    <3>1. \A r \in Clients : Busy(r, a, {"fresh"}) => Busy(r, a, {"fresh", "failed"})
      BY DEF Busy
    <3> QED
      BY <1>1, <1>2, <1>3, <2>1, <2>2, <2>3, <3>1 DEF Watched
  <2> QED
    BY <1>1, <1>2, <1>3, <1>4, <2>1, <2>4
<1> QED
  BY <1>5, <1>6, <1>7 DEF GuessInv

LEMMA GuessStep ==
  SignInShape /\ OnceInv /\ GuessInv /\ [SignInNext]_signInVars => GuessInv'
<1> SUFFICES ASSUME SignInShape, OnceInv, GuessInv, [SignInNext]_signInVars,
                    backend = "locmem"
             PROVE  GuessInv'
  BY BackendKept DEF GuessInv
<1>1. ASSUME NEW r \in Clients, NEW a \in Addresses, BeginRegister(r, a) \/ BeginSend(r, a)
      PROVE  GuessInv'
  <2>1. /\ CacheSame /\ HistorySame /\ Stage(r) = "idle" /\ Runs(r) /\ Others(r)
        /\ request'[r].stage \in {"create", "rate"}
    BY <1>1, ArrivalDoes
  <2> QED
    BY <2>1, GuessQuiet DEF Runs, Alone, CacheSame, HistorySame
<1>2. ASSUME NEW r \in Clients, NEW s \in 1..issued, BeginLink(r, s)
      PROVE  GuessInv'
  <2>1. /\ CacheSame /\ wrong' = wrong /\ Stage(r) = "idle" /\ Runs(r) /\ Others(r)
        /\ request'[r].stage = "unlink"
    BY <1>2, LinkStarts
  <2> QED
    BY <2>1, GuessQuiet DEF Runs, Alone, CacheSame
\* A step of a request that is running.
<1>3. ASSUME NEW r \in Clients, Stage(r) # "idle" PROVE Alone(r)
  BY <1>3 DEF GuessInv, Alone
<1>4. ASSUME NEW r \in Clients, CountStep(r)
      PROVE  GuessInv'
  <2>1. CASE CountFailure(r)
    BY <2>1, GuessFails
  <2>2. CASE SetCooldown(r)
    <3>1. CacheSame /\ HistorySame /\ Going(r, "lookup") /\ Stage(r) = "cool"
      BY <2>2, SetCooldownDoes
    <3> QED
      BY <1>3, <3>1, GuessQuiet DEF Going, CacheSame, HistorySame
  <2>3. CASE CountSend(r)
    <3>1. /\ Stage(r) = "count" /\ Stage(r) # "idle"
          /\ CountStart(r, "rate", RateWindow, "cool")
          /\ UNCHANGED <<backend, purpose, account, issued, historyVars>>
      BY <2>3, Zenon DEF CountSend
    <3>2. RateWindow \in Nat /\ "cool" \in Stages /\ backend # "db"
      BY SignInAssumption DEF Stages
    <3>3. /\ HistorySame /\ Going(r, "cool")
          /\ \A b \in Addresses : Code(b)' = Code(b) /\ Tries(b)' = Tries(b)
      BY <3>1, <3>2, CountDoes
    <3> QED
      BY <1>3, <3>1, <3>3, GuessQuiet DEF Going, HistorySame
  <2>4. CASE IncrGet(r) \/ IncrSet(r)
    BY <2>4, IncrGetDoes, IncrSetDoes DEF GuessInv
  <2> QED
    BY <1>4, <2>1, <2>2, <2>3, <2>4 DEF CountStep
<1>5. ASSUME NEW r \in Clients, IssueLink(r) \/ DropLink(r) \/ SavePassword(r) \/ CreateAccount(r)
      PROVE  GuessInv'
  <2>1. /\ Others(r) /\ wrong' = wrong
        /\ \A b \in Addresses : Code(b)' = Code(b) /\ Tries(b)' = Tries(b)
        /\ Stage(r) \in {"link", "unlink", "password", "create"}
        /\ request'[r].stage \in {"idle", "owner"}
    <3>1. CASE IssueLink(r)
      BY <3>1, IssueLinkDoes DEF Ending, HistorySame
    <3>2. CASE DropLink(r)
      <4>1. Secret(r) \in Secrets
        BY <3>2, Numbers DEF DropLink, OnceInv, Placed, Holds, Secrets
      <4> QED
        BY <3>2, <4>1, DropLinkDoes DEF Going, HistorySame, Secret
    <3>3. CASE SavePassword(r)
      BY <3>3, SavePasswordDoes DEF Ending, CacheSame
    <3>4. CASE CreateAccount(r)
      BY <3>4, CreateAccountDoes DEF Ending, CacheSame, HistorySame
    <3> QED
      BY <1>5, <3>1, <3>2, <3>3, <3>4
  <2> QED
    BY <1>3, <2>1, GuessQuiet
<1>6. ASSUME NEW r \in Clients, Die(r)
      PROVE  GuessInv'
  <2>1. /\ HistorySame /\ Ending(r)
        /\ \A b \in Addresses : Code(b)' = Missing
    BY <1>6, DieDoes, SignInAssumption DEF SignInShape
  <2>2. Alone(r) /\ Others(r) /\ Stage(r)' = "idle"
    BY <1>3, <2>1 DEF Ending, Stage
  <2>3. Guessing(r)'
    BY <2>2 DEF Guessing
  <2>4. CodeLife \in Nat
    BY SignInAssumption
  <2>5. \A a \in Addresses :
          wrong'[a] =< MaxAttempts /\ Code(a)'.left =< CodeLife /\ Watched(a)'
    BY <2>1, <2>4, MissingEntry DEF GuessInv, Watched, HistorySame
  <2> QED
    BY <2>2, <2>3, <2>5, GuessFrom
<1>7. ASSUME request' = request, wrong' = wrong,
             \A b \in Addresses : Code(b)' = Code(b) /\ Tries(b)' = Tries(b)
      PROVE  GuessInv'
  BY <1>7 DEF GuessInv, Guessing, Watched, Busy, Stage
<1>8. ASSUME NEW a \in Addresses, NEW state \in {"active", "inactive"}, SetActive(a, state)
      PROVE  GuessInv'
  BY <1>7, <1>8, SetActiveDoes DEF CacheSame, HistorySame
<1>9. CASE UNCHANGED signInVars
  BY <1>7, <1>9 DEF signInVars, Code, Tries
<1> QED
  BY <1>1, <1>2, <1>4, <1>5, <1>6, <1>8, <1>9, GuessVerify, GuessQuietStep, GuessIssue,
     GuessForget, GuessSpend, GuessCounted, GuessExpire, StepsAre

\* With a counter that lives as long as the code, MaxAttempts wrong guesses use
\* it up: whatever expires, and whenever the worker dies.
THEOREM GuessesRunOut == SignInSpec => []GuessesAreBounded
<1>1. SignInInit => GuessInv
  BY GuessStarts
<1>2. GuessInv => GuessesAreBounded
  BY DEF GuessInv, GuessesAreBounded
<1> QED
  BY <1>1, <1>2, GuessStep, SignInInvariance, PTL DEF SignInSpec

-----------------------------------------------------------------------------
(* Accounts *)

\* Afterwards only a reset changes the password of an account: two registrations
\* of one address do not take it from one another.
THEOREM OnlyResetsChangePasswords == SignInSpec => AccountsAreKept
<1>1. SignInShape /\ [SignInNext]_signInVars =>
        [\A a \in Addresses :
           (account[a].state # "none" /\ account'[a].password # account[a].password) =>
             \E r \in Clients : Stage(r) = "password" /\ request[r].address = a]_signInVars
  <2> SUFFICES ASSUME SignInShape, SignInNext, NEW a \in Addresses,
                      account[a].state # "none", account'[a].password # account[a].password
               PROVE  \E r \in Clients : Stage(r) = "password" /\ request[r].address = a
    OBVIOUS
  <2>1. account \in Accounts
    BY DEF SignInShape
  <2>2. account' # account
    OBVIOUS
  <2>3. CASE \E b \in Addresses, state \in {"active", "inactive"} : SetActive(b, state)
    BY <2>1, <2>3 DEF SetActive, Accounts
  <2>4. CASE \E r \in Clients : CreateAccount(r)
    BY <2>1, <2>4 DEF CreateAccount, Accounts
  <2>5. CASE \E r \in Clients : SavePassword(r)
    <3>1. PICK r \in Clients : SavePassword(r)
      BY <2>5
    <3>2. PICK b \in Addresses : b = request[r].address
      BY <3>1, Numbers DEF SavePassword
    <3>3. Stage(r) = "password" /\ account' = [account EXCEPT ![b].password = r]
      BY <3>1, <3>2 DEF SavePassword
    <3> QED
      BY <2>1, <3>2, <3>3 DEF Accounts
  <2>6. account' = account \/ (\E r \in Clients : CreateAccount(r) \/ SavePassword(r))
        \/ (\E b \in Addresses, state \in {"active", "inactive"} : SetActive(b, state))
    BY ZenonT(60) DEF SignInNext, SignInArrival, SendStep, PresentStep,
       BeginRegister, BeginSend, BeginVerify, BeginLink, CheckRate, CountSend, SetCooldown,
       LookUp, IssueCode, ForgetAttempts, IssueLink, Compare, SpendCode, ClearAttempts,
       CountFailure, FailureCounted, DropLink, FindOwner, IncrGet, IncrSet, Die, Refused, Expire
  <2> QED
    BY <2>2, <2>3, <2>4, <2>5, <2>6
<1> QED
  BY <1>1, SignInInvariance, PTL DEF SignInSpec, AccountsAreKept

-----------------------------------------------------------------------------
(* Logins: the invariant *)

\* How long an access token of a login may last: no longer than one dated from
\* now, than one dated from the end of the refresh token, and, once that is
\* blacklisted, than one dated from then.
LastsFor(s, until) ==
  /\ until =< tick + AccessLife
  /\ until =< ended[s].opened + RefreshLife + AccessLife
  /\ session[s].blacklisted => until =< ended[s].out + AccessLife

AccessEnds == \A s \in Sessions : LastsFor(s, session[s].access)

\* So does the one that a refresh will be answered with.
AnswersEnd ==
  \A r \in Requests :
    asking[r].stage = "refresh" =>
      /\ asking[r].by \in Sessions
      /\ LastsFor(asking[r].by, asking[r].until)

\* The row of a login agrees with what is remembered of it.
RowsAgree ==
  \A s \in Sessions :
    /\ session[s].refresh # 0 => session[s].refresh = ended[s].opened + RefreshLife
    /\ session[s].blacklisted => session[s].refresh # 0
    /\ session[s].refresh = 0 => \A r \in Requests : asking[r].stage = "refresh" => asking[r].by # s
    /\ ended[s].opened =< tick

SessionInv == SessionTypeOK /\ AccessEnds /\ AnswersEnd /\ RowsAgree

-----------------------------------------------------------------------------
(* Every step keeps it *)

LEMMA SessionStarts == SessionInit => SessionInv
BY SessionAssumption
   DEF SessionInit, SessionInv, SessionTypeOK, AccessEnds, AnswersEnd, LastsFor, RowsAgree,
       Unopened, Unminted, Silent, Never

\* Times are numbers, for the arithmetic below.
LEMMA TimesAreNumbers ==
  ASSUME SessionTypeOK
  PROVE  /\ tick \in Nat
         /\ \A s \in Sessions :
              /\ session[s].access \in Nat /\ session[s].refresh \in Nat
              /\ session[s].blacklisted \in BOOLEAN
              /\ ended[s].opened \in Nat /\ ended[s].out \in Nat
         /\ \A r \in Requests : asking[r].until \in Nat
BY SessionAssumption DEF SessionTypeOK, Never

LEMMA OpenKeeps ==
  ASSUME SessionInv, NEW s \in Sessions, Open(s)
  PROVE  SessionInv'
<1> USE SessionAssumption, TimesAreNumbers DEF SessionInv
<1>1. /\ tick' = tick /\ student' = student /\ pasted' = pasted /\ asking' = asking
      /\ session[s].refresh = 0
      /\ session'[s] = [access |-> tick + AccessLife, refresh |-> tick + RefreshLife,
                        blacklisted |-> FALSE]
      /\ ended'[s].opened = tick
      /\ \A q \in Sessions \ {s} : session'[q] = session[q] /\ ended'[q] = ended[q]
  BY DEF Open, SessionTypeOK
<1>2. SessionTypeOK'
  BY <1>1 DEF Open, SessionTypeOK, Never
<1>3. AccessEnds'
  BY <1>1 DEF AccessEnds, LastsFor
<1>4. AnswersEnd'
  <2>1. \A r \in Requests : asking[r].stage = "refresh" => asking[r].by # s
    BY <1>1 DEF RowsAgree
  <2> QED
    BY <1>1, <2>1 DEF AnswersEnd, LastsFor
<1>5. RowsAgree'
  BY <1>1 DEF RowsAgree
<1> QED
  BY <1>2, <1>3, <1>4, <1>5

\* Blacklisting dates the end no earlier than the tokens there are.
LEMMA LogoutKeeps ==
  ASSUME SessionInv, NEW s \in Sessions, Logout(s) \/ LogoutFails(s)
  PROVE  SessionInv'
<1> USE SessionAssumption, TimesAreNumbers DEF SessionInv
<1>1. /\ tick' = tick /\ student' = student /\ pasted' = pasted /\ asking' = asking
      /\ session'[s].access = session[s].access /\ session'[s].refresh = session[s].refresh
      /\ ended'[s].opened = ended[s].opened /\ ended'[s].out = tick
      /\ session[s].refresh > tick
      /\ \A q \in Sessions \ {s} : session'[q] = session[q] /\ ended'[q] = ended[q]
  BY DEF Logout, LogoutFails, SessionTypeOK
<1>2. SessionTypeOK'
  <2>0. session \in [Sessions -> [access : Nat, refresh : Nat, blacklisted : BOOLEAN]]
    BY DEF SessionTypeOK
  <2>1. session' \in [Sessions -> [access : Nat, refresh : Nat, blacklisted : BOOLEAN]]
    BY <2>0 DEF Logout, LogoutFails
  <2>2. ended' = [ended EXCEPT ![s].out = tick] /\ tick \in 0..Never
    BY DEF Logout, LogoutFails, SessionTypeOK, Never
  <2>3. ended' \in [Sessions -> [opened : 0..LastTick, out : 0..Never]]
    BY <2>2 DEF SessionTypeOK
  <2> QED
    BY <1>1, <2>1, <2>3 DEF SessionTypeOK
<1>3. ASSUME NEW q \in Sessions, NEW until, LastsFor(q, until) PROVE LastsFor(q, until)'
  BY <1>1, <1>3 DEF LastsFor
<1>4. AccessEnds'
  <2>1. \A q \in Sessions : session'[q].access = session[q].access
    BY <1>1
  <2> QED
    BY <1>3, <2>1 DEF AccessEnds
<1>5. AnswersEnd'
  BY <1>1, <1>3 DEF AnswersEnd
<1>6. RowsAgree'
  BY <1>1 DEF RowsAgree
<1> QED
  BY <1>2, <1>4, <1>5, <1>6

LEMMA AnswerRefreshKeeps ==
  ASSUME SessionInv, NEW r \in Requests, AnswerRefresh(r)
  PROVE  SessionInv'
<1> USE SessionAssumption, TimesAreNumbers DEF SessionInv
<1> DEFINE s == asking[r].by
<1>1. s \in Sessions /\ LastsFor(s, asking[r].until) /\ LastsFor(s, session[s].access)
  BY DEF AnswerRefresh, AnswersEnd, AccessEnds
<1>2. /\ tick' = tick /\ student' = student /\ pasted' = pasted /\ ended' = ended
      /\ session'[s].access \in {asking[r].until, session[s].access}
      /\ session'[s].refresh = session[s].refresh
      /\ session'[s].blacklisted = session[s].blacklisted
      /\ \A q \in Sessions \ {s} : session'[q] = session[q]
      /\ asking' = [asking EXCEPT ![r] = Silent]
  BY <1>1 DEF AnswerRefresh, Answered, SessionTypeOK
<1>3. SessionTypeOK'
  BY <1>1, <1>2 DEF AnswerRefresh, SessionTypeOK, Silent
<1>4. AccessEnds'
  BY <1>1, <1>2 DEF AccessEnds, LastsFor
<1>5. \A q \in Requests : asking'[q].stage = "refresh" => asking'[q] = asking[q]
  BY <1>2 DEF Silent, SessionTypeOK
<1>6. AnswersEnd'
  BY <1>1, <1>2, <1>5 DEF AnswersEnd, LastsFor
<1>7. RowsAgree'
  BY <1>1, <1>2, <1>5 DEF RowsAgree
<1> QED
  BY <1>3, <1>4, <1>6, <1>7

\* Asking and answering change what a request is doing, and at most the pasted
\* tokens besides.
LEMMA RequestKeeps ==
  ASSUME SessionInv, NEW r \in Requests,
         UNCHANGED <<tick, student, session, ended>>,
         pasted' \in [Pasted -> [state : {"none", "live", "revoked"}, expires : 0..Never]],
         NEW doing, asking' = [asking EXCEPT ![r] = doing],
         \/ doing = Silent
         \/ \E c \in Sessions \cup Pasted : doing = Acting(c)
         \/ \E s \in Sessions : Refreshable(s) /\ doing = Refreshing(s, tick + AccessLife)
  PROVE  SessionInv'
<1> USE SessionAssumption, TimesAreNumbers DEF SessionInv
<1>1. SessionTypeOK'
  <2>1. doing \in [stage : {"none", "refresh", "act"},
                   by : Sessions \cup Pasted \cup {NoCredential}, until : Nat]
    BY DEF Silent, Acting, Refreshing
  <2> QED
    BY <2>1 DEF SessionTypeOK, Never
<1>2. AccessEnds'
  BY DEF AccessEnds, LastsFor
<1>3. ASSUME NEW q \in Requests, asking'[q].stage = "refresh", asking'[q] # asking[q]
      PROVE  \E s \in Sessions : Refreshable(s) /\ asking'[q] = Refreshing(s, tick + AccessLife)
  BY <1>3 DEF Silent, Acting, SessionTypeOK
<1>4. AnswersEnd'
  <2> SUFFICES ASSUME NEW q \in Requests, asking'[q].stage = "refresh"
               PROVE  asking'[q].by \in Sessions /\ LastsFor(asking'[q].by, asking'[q].until)
    BY DEF AnswersEnd, LastsFor
  <2>1. CASE asking'[q] = asking[q]
    BY <2>1 DEF AnswersEnd
  <2>2. CASE asking'[q] # asking[q]
    <3>1. PICK s \in Sessions : Refreshable(s) /\ asking'[q] = Refreshing(s, tick + AccessLife)
      BY <1>3, <2>2
    <3>2. session[s].refresh = ended[s].opened + RefreshLife
      BY <3>1 DEF Refreshable, RowsAgree
    <3> QED
      BY <3>1, <3>2 DEF Refreshing, Refreshable, LastsFor
  <2> QED
    BY <2>1, <2>2
<1>5. RowsAgree'
  <2>1. ASSUME NEW s \in Sessions, session[s].refresh = 0, NEW q \in Requests,
               asking'[q].stage = "refresh"
        PROVE  asking'[q].by # s
    <3>1. CASE asking'[q] = asking[q]
      BY <2>1, <3>1 DEF RowsAgree
    <3>2. CASE asking'[q] # asking[q]
      <4>1. PICK l \in Sessions : Refreshable(l) /\ asking'[q] = Refreshing(l, tick + AccessLife)
        BY <1>3, <2>1, <3>2
      <4>2. asking'[q].by = l /\ session[l].refresh # 0
        BY <4>1 DEF Refreshing, Refreshable
      <4> QED
        BY <2>1, <4>2
    <3> QED
      BY <3>1, <3>2
  <2>2. session' = session /\ ended' = ended /\ tick' = tick
    OBVIOUS
  <2>3. ASSUME NEW s \in Sessions
        PROVE  /\ session[s].refresh # 0 => session[s].refresh = ended[s].opened + RefreshLife
               /\ session[s].blacklisted => session[s].refresh # 0
               /\ ended[s].opened =< tick
    BY DEF RowsAgree
  <2> HIDE DEF SessionInv
  <2> QED
    BY <2>1, <2>2, <2>3 DEF RowsAgree
<1> QED
  BY <1>1, <1>2, <1>4, <1>5

LEMMA TimePassesKeeps ==
  ASSUME SessionInv, TimePasses
  PROVE  SessionInv'
<1> USE SessionAssumption, TimesAreNumbers DEF SessionInv
<1>1. /\ tick' = tick + 1 /\ tick' \in 0..LastTick
      /\ UNCHANGED <<student, session, pasted, asking, ended>>
  BY DEF TimePasses, SessionTypeOK
<1>2. SessionTypeOK'
  BY <1>1 DEF SessionTypeOK, Never
<1>3. AccessEnds' /\ AnswersEnd'
  BY <1>1 DEF AccessEnds, AnswersEnd, LastsFor
<1>4. RowsAgree'
  BY <1>1 DEF RowsAgree
<1> QED
  BY <1>2, <1>3, <1>4

\* What the committee does to the student.
LEMMA StudentKeeps ==
  ASSUME SessionInv,
         UNCHANGED <<tick, session, pasted, asking, ended>>,
         student' \in [account : BOOLEAN, profile : BOOLEAN, ends : 0..LastTick]
  PROVE  SessionInv'
BY DEF SessionInv, SessionTypeOK, AccessEnds, AnswersEnd, LastsFor, RowsAgree, Never

LEMMA SessionStep == SessionInv /\ [SessionNext]_sessionVars => SessionInv'
<1> SUFFICES ASSUME SessionInv, [SessionNext]_sessionVars PROVE SessionInv'
  OBVIOUS
<1>1. ASSUME NEW s \in Sessions, LoginWithPassword(s) \/ LoginWithCode(s) PROVE SessionInv'
  BY <1>1, OpenKeeps DEF LoginWithPassword, LoginWithCode
<1>2. ASSUME NEW s \in Sessions, Logout(s) \/ LogoutFails(s) PROVE SessionInv'
  BY <1>2, LogoutKeeps
<1>3. ASSUME NEW r \in Requests,
             \/ \E s \in Sessions : CheckRefresh(r, s) \/ LetIn(r, s)
             \/ \E t \in Pasted : Resolve(r, t)
             \/ MintToken(r) \/ RevokeToken(r) \/ AnswerRequest(r)
      PROVE  SessionInv'
  <2>1. UNCHANGED <<tick, student, session, ended>>
    BY <1>3 DEF CheckRefresh, LetIn, Resolve, MintToken, RevokeToken, AnswerRequest, Ask
  <2>2. pasted' \in [Pasted -> [state : {"none", "live", "revoked"}, expires : 0..Never]]
    <3>1. CASE MintToken(r)
      BY <3>1, SessionAssumption DEF MintToken, SessionInv, SessionTypeOK, Never
    <3>2. CASE RevokeToken(r)
      BY <3>2, SessionAssumption DEF RevokeToken, SessionInv, SessionTypeOK, Never
    <3>3. CASE UNCHANGED pasted
      BY <3>3 DEF SessionInv, SessionTypeOK
    <3> QED
      BY <1>3, <3>1, <3>2, <3>3 DEF CheckRefresh, LetIn, Resolve, AnswerRequest, Ask
  <2>3. CASE MintToken(r) \/ RevokeToken(r) \/ AnswerRequest(r)
    BY <2>1, <2>2, <2>3, RequestKeeps DEF MintToken, RevokeToken, AnswerRequest, Answered
  <2>4. CASE \E s \in Sessions : CheckRefresh(r, s)
    BY <2>1, <2>2, <2>4, RequestKeeps DEF CheckRefresh, Ask
  <2>5. CASE \E s \in Sessions : LetIn(r, s)
    BY <2>1, <2>2, <2>5, RequestKeeps DEF LetIn, Ask
  <2>6. CASE \E t \in Pasted : Resolve(r, t)
    BY <2>1, <2>2, <2>6, RequestKeeps DEF Resolve, Ask
  <2> QED
    BY <1>3, <2>3, <2>4, <2>5, <2>6
<1>4. ASSUME NEW r \in Requests, AnswerRefresh(r) PROVE SessionInv'
  BY <1>4, AnswerRefreshKeeps
<1>5. ASSUME NEW on \in BOOLEAN, SetProfile(on) \/ SetAccount(on) PROVE SessionInv'
  <2>1. student' \in [account : BOOLEAN, profile : BOOLEAN, ends : 0..LastTick]
    BY <1>5 DEF SetProfile, SetAccount, SessionInv, SessionTypeOK
  <2> QED
    BY <1>5, <2>1, StudentKeeps DEF SetProfile, SetAccount
<1>6. ASSUME NEW until \in 0..LastTick, SuspendUntil(until) PROVE SessionInv'
  <2>1. student' \in [account : BOOLEAN, profile : BOOLEAN, ends : 0..LastTick]
    BY <1>6 DEF SuspendUntil, SessionInv, SessionTypeOK
  <2> QED
    BY <1>6, <2>1, StudentKeeps DEF SuspendUntil
<1>7. CASE TimePasses
  BY <1>7, TimePassesKeeps
<1>8. CASE UNCHANGED sessionVars
  BY <1>8, StudentKeeps DEF sessionVars, SessionInv, SessionTypeOK
<1> QED
  BY <1>1, <1>2, <1>3, <1>4, <1>5, <1>6, <1>7, <1>8 DEF SessionNext

-----------------------------------------------------------------------------
(* The theorems *)

\* The invariant holds in every state.
THEOREM SessionInvariance == SessionSpec => []SessionInv
BY SessionStarts, SessionStep, PTL DEF SessionSpec

\* Every variable keeps its type.
THEOREM SessionTypes == SessionSpec => []SessionTypeOK
<1>1. SessionInv => SessionTypeOK
  BY DEF SessionInv
<1> QED
  BY <1>1, SessionInvariance, PTL

\* Nobody is let in with a login whose tokens' lives have passed, nor, from one
\* access token's life after a logout that did blacklist its refresh token, with
\* that login (LogoutView, SIMPLE_JWT), whatever refreshes the logout crossed.
THEOREM LoginsEnd == SessionSpec => SessionsEnd
<1> DEFINE EndsHere ==
      \A r \in Requests, s \in Sessions :
        asking[r] = Silent /\ asking'[r] = Acting(s) =>
          /\ tick < ended[s].opened + RefreshLife + AccessLife
          /\ session[s].blacklisted => tick < ended[s].out + AccessLife
<1>1. SessionInv /\ [SessionNext]_sessionVars => [EndsHere]_sessionVars
  <2> SUFFICES ASSUME SessionInv, SessionNext,
                      NEW r \in Requests, NEW s \in Sessions,
                      asking[r] = Silent, asking'[r] = Acting(s)
               PROVE  /\ tick < ended[s].opened + RefreshLife + AccessLife
                      /\ session[s].blacklisted => tick < ended[s].out + AccessLife
    BY DEF EndsHere
  <2>1. LetIn(r, s)
    <3>1. asking[r] # asking'[r]
      BY DEF Silent, Acting
    <3>2. PICK q \in Requests :
            \/ \E l \in Sessions : CheckRefresh(q, l) \/ LetIn(q, l)
            \/ \E t \in Pasted : Resolve(q, t)
            \/ AnswerRefresh(q) \/ MintToken(q) \/ RevokeToken(q) \/ AnswerRequest(q)
      BY <3>1 DEF SessionNext, LoginWithPassword, LoginWithCode, Open, Logout, LogoutFails, SetProfile,
                  SetAccount, SuspendUntil, TimePasses
    <3>3. \/ \E l \in Sessions : CheckRefresh(q, l) \/ LetIn(q, l)
          \/ \E t \in Pasted : Resolve(q, t)
      <4>1. asking \in [Requests -> [stage : {"none", "refresh", "act"},
                                     by : Sessions \cup Pasted \cup {NoCredential}, until : Nat]]
        BY DEF SessionInv, SessionTypeOK
      <4>2. ASSUME Answered(q) PROVE FALSE
        BY <3>1, <3>2, <4>1, <4>2 DEF Answered, Silent, Acting
      <4> QED
        BY <3>2, <4>2 DEF AnswerRefresh, MintToken, RevokeToken, AnswerRequest
    <3>4. ASSUME NEW doing, Ask(q, doing) PROVE q = r /\ doing = Acting(s)
      BY <3>1, <3>4 DEF Ask, SessionInv, SessionTypeOK
    <3>5. ASSUME NEW l \in Sessions, CheckRefresh(q, l) PROVE FALSE
      <4>1. Refreshing(l, tick + AccessLife) = Acting(s)
        BY <3>4, <3>5 DEF CheckRefresh
      <4> QED
        BY <4>1 DEF Refreshing, Acting
    <3>6. ASSUME NEW t \in Pasted, Resolve(q, t) PROVE FALSE
      <4>1. Acting(t) = Acting(s)
        BY <3>4, <3>6 DEF Resolve
      <4> QED
        BY <4>1, SessionAssumption DEF Acting
    <3>7. ASSUME NEW l \in Sessions, LetIn(q, l) PROVE l = s /\ q = r
      <4>1. Acting(l) = Acting(s) /\ q = r
        BY <3>4, <3>7 DEF LetIn
      <4> QED
        BY <4>1 DEF Acting
    <3> QED
      BY <3>3, <3>5, <3>6, <3>7
  <2> QED
    BY <2>1, TimesAreNumbers, SessionAssumption DEF LetIn, SessionInv, AccessEnds, LastsFor
<1> QED
  BY <1>1, SessionInvariance, PTL DEF SessionSpec, SessionsEnd

-----------------------------------------------------------------------------
(* The move to another database *)

\* Rows of the file have keys of the file.
OwnRows ==
  \A t \in Tables : \A r \in source[t] : r.key \in Ids

\* A token is in the file once.
TokensApart ==
  \A r, s \in source["refresh"] : r.key = s.key => r = s

\* What was copied is what the file still says.
UpToDate ==
  quiet =>
    \A n \in 1..Len(CopyOrder) :
      n < copy.at => copy.rows[CopyOrder[n]] = Cloned(CopyOrder[n])

CopyInv == CopyTypeOK /\ OwnRows /\ TokensApart /\ UpToDate

-----------------------------------------------------------------------------

LEMMA CopyTables ==
  /\ Tables = {"user", "permission", "booking", "exchange", "refresh"}
  /\ Len(CopyOrder) = 5
  /\ \A n \in 1..5 : CopyOrder[n] \in Tables
BY DEF Tables, CopyOrder

\* Copies are rows again, and the time is all that inserting them changes.
LEMMA InsertedAreRows ==
  ASSUME NEW rows \in SUBSET Rows
  PROVE  Inserted(rows) \in SUBSET Rows
BY DEF Inserted, Rows

LEMMA ClonesAreRows ==
  ASSUME CopyTypeOK, NEW t \in Tables
  PROVE  Cloned(t) \in SUBSET Rows
<1>1. source[t] \in SUBSET Rows /\ source["permission"] \in SUBSET Rows /\ source["refresh"] \in SUBSET Rows
  BY CopyTables DEF CopyTypeOK
<1>2. PermissionsByName \in SUBSET Rows
  <2> SUFFICES ASSUME NEW q \in PermissionsByName PROVE q \in Rows
    OBVIOUS
  <2>1. PICK r \in source["permission"], n \in Permissions : q = [r EXCEPT !.val = n]
    BY DEF PermissionsByName
  <2>2. r \in Rows
    BY <1>1
  <2> QED
    BY <2>1, <2>2 DEF Rows
<1>3. RefreshTokens \in SUBSET Rows
  <2>1. {[r EXCEPT !.ref = Nil] : r \in source["refresh"]} \in SUBSET Rows
    BY <1>1 DEF Rows
  <2>2. {r \in source["refresh"] : r.ref # Nil} \in SUBSET Rows
    BY <1>1
  <2> QED
    BY <2>1, <2>2, InsertedAreRows DEF RefreshTokens
<1> QED
  BY <1>1, <1>2, <1>3, InsertedAreRows DEF Cloned

\* What a token was rotated from comes back with the update.
LEMMA TokensComeWhole ==
  ASSUME CopyTypeOK, TokensApart
  PROVE  RefreshTokens = Inserted(source["refresh"])
<1>1. source["refresh"] \in SUBSET Rows
  BY CopyTables DEF CopyTypeOK
<1> DEFINE Dated(r) == [r EXCEPT !.dated = "copied"]
           Freed(r) == Dated([r EXCEPT !.ref = Nil])
           delayed == {r \in source["refresh"] : r.ref # Nil}
           inserted == {Freed(r) : r \in source["refresh"]}
<1>2. Inserted(source["refresh"]) = {Dated(r) : r \in source["refresh"]}
  BY DEF Inserted
<1>3. RefreshTokens = {r \in inserted : r.key \notin KeysOf(delayed)} \cup {Dated(r) : r \in delayed}
  <2>1. Inserted({[r EXCEPT !.ref = Nil] : r \in source["refresh"]}) = inserted
    BY DEF Inserted
  <2>2. Inserted(delayed) = {Dated(r) : r \in delayed}
    BY DEF Inserted
  <2> QED
    BY <2>1, <2>2 DEF RefreshTokens
<1>4. ASSUME NEW r \in source["refresh"]
      PROVE  /\ r.ref = Nil => Freed(r) = Dated(r)
             /\ Freed(r).key = r.key /\ Dated(r).key = r.key
  <2>1. r \in Rows
    BY <1>1
  <2> QED
    BY <2>1 DEF Rows
<1> HIDE DEF Dated, Freed
<1>5. ASSUME NEW q \in RefreshTokens
      PROVE  \E r \in source["refresh"] : q = Dated(r)
  <2>1. CASE q \in inserted /\ q.key \notin KeysOf(delayed)
    <3>1. PICK r \in source["refresh"] : q = Freed(r)
      BY <2>1
    <3>2. r \notin delayed
      BY <2>1, <3>1, <1>4 DEF KeysOf
    <3> QED
      BY <3>1, <3>2, <1>4
  <2>2. CASE q \in {Dated(r) : r \in delayed}
    BY <2>2
  <2> QED
    BY <1>3, <2>1, <2>2
<1>6. ASSUME NEW r \in source["refresh"]
      PROVE  Dated(r) \in RefreshTokens
  <2>1. CASE r \in delayed
    BY <2>1, <1>3
  <2>2. CASE r \notin delayed
    <3>1. Dated(r) \in inserted
      BY <2>2, <1>4
    <3>2. Dated(r).key \notin KeysOf(delayed)
      BY <2>2, <1>4 DEF KeysOf, TokensApart
    <3> QED
      BY <1>3, <3>1, <3>2
  <2> QED
    BY <2>1, <2>2
<1> HIDE DEF delayed, inserted
<1> QED
  BY <1>2, <1>5, <1>6

\* Permissions keep their names, and those without one in the target go.
LEMMA PermissionsKeepNames ==
  ASSUME CopyTypeOK
  PROVE  {<<r.ref, NameInTarget[r.val]>> : r \in PermissionsByName}
           = KnownAtTarget(Allowed(source, NameInSource))
<1>1. source["permission"] \in SUBSET Rows
  BY CopyTables DEF CopyTypeOK
<1>2. ASSUME NEW r \in source["permission"], NEW n \in Permissions
      PROVE  [r EXCEPT !.val = n].ref = r.ref /\ [r EXCEPT !.val = n].val = n
  <2>1. r \in Rows
    BY <1>1
  <2> QED
    BY <2>1 DEF Rows
<1>3. ASSUME NEW q \in PermissionsByName
      PROVE  <<q.ref, NameInTarget[q.val]>> \in KnownAtTarget(Allowed(source, NameInSource))
  <2>1. PICK r \in source["permission"], n \in Permissions :
          NameInSource[r.val] = NameInTarget[n] /\ q = [r EXCEPT !.val = n]
    BY DEF PermissionsByName
  <2>2. <<q.ref, NameInTarget[q.val]>> = <<r.ref, NameInSource[r.val]>>
    BY <2>1, <1>2
  <2> QED
    BY <2>1, <2>2 DEF KnownAtTarget, Allowed
<1>4. ASSUME NEW m \in KnownAtTarget(Allowed(source, NameInSource))
      PROVE  \E q \in PermissionsByName : m = <<q.ref, NameInTarget[q.val]>>
  <2>1. PICK r \in source["permission"] : m = <<r.ref, NameInSource[r.val]>>
    BY DEF KnownAtTarget, Allowed
  <2>2. PICK n \in Permissions : NameInSource[r.val] = NameInTarget[n]
    BY <2>1 DEF KnownAtTarget
  <2>3. [r EXCEPT !.val = n] \in PermissionsByName
    BY <2>2 DEF PermissionsByName
  <2> QED
    BY <2>1, <2>2, <2>3, <1>2
<1> QED
  BY <1>3, <1>4

-----------------------------------------------------------------------------

LEMMA CopyStarts == CopyInit => CopyInv
<1> SUFFICES ASSUME CopyInit PROVE CopyInv
  OBVIOUS
<1>1. NoRows \in [Tables -> SUBSET Rows] /\ \A t \in Tables : NoRows[t] = {}
  BY DEF NoRows
<1>2. copy \in [at : 0..6, rows : [Tables -> SUBSET Rows]]
  BY <1>1 DEF CopyInit, NoCopy
<1>3. CopyTypeOK
  <2>1. source = NoRows /\ target = NoRows /\ ready = FALSE /\ writes = 0 /\ quiet = FALSE
    BY DEF CopyInit
  <2>2. writes \in 0..MaxWrites
    BY <2>1, CopyAssumption
  <2>3. copy \in [at : 0..(Len(CopyOrder) + 1), rows : [Tables -> SUBSET Rows]]
    BY <1>2, CopyTables
  <2> QED
    BY <1>1, <2>1, <2>2, <2>3 DEF CopyTypeOK
<1>4. OwnRows /\ TokensApart
  BY <1>1, CopyTables DEF CopyInit, OwnRows, TokensApart
<1>5. UpToDate
  BY DEF CopyInit, UpToDate
<1> QED
  BY <1>3, <1>4, <1>5 DEF CopyInv

\* A write keeps the keys of the file, and ends the quiet.
LEMMA WriteKeeps ==
  ASSUME CopyInv, NEW database, Write(database),
         database \in [Tables -> SUBSET Rows],
         \A t \in Tables : \A r \in database[t] : r.key \in Ids,
         \A r, s \in database["refresh"] : r.key = s.key => r = s
  PROVE  CopyInv'
<1>1. CopyTypeOK'
  BY CopyAssumption DEF CopyInv, CopyTypeOK, Write
<1>2. OwnRows' /\ TokensApart'
  BY DEF Write, OwnRows, TokensApart
<1>3. UpToDate'
  <2>1. copy.at \in Int
    BY CopyTables DEF CopyInv, CopyTypeOK
  <2>2. copy' = copy
    BY DEF Write
  <2>3. quiet' => copy.at <= 1
    BY Zenon DEF Write
  <2>4. ASSUME quiet', NEW n \in 1..5 PROVE ~(n < copy'.at)
    BY <2>1, <2>2, <2>3, <2>4
  <2> QED
    BY <2>4, CopyTables DEF UpToDate
<1> QED
  BY <1>1, <1>2, <1>3 DEF CopyInv

\* So it is when rows are added to one table.
LEMMA AdditionKeeps ==
  ASSUME CopyInv, NEW t \in Tables, NEW r \in Rows, r.key \in Ids,
         t = "refresh" => r.key \notin KeysOf(source["refresh"]),
         Write([source EXCEPT ![t] = @ \cup {r}])
  PROVE  CopyInv'
<1> DEFINE database == [source EXCEPT ![t] = @ \cup {r}]
<1>1. source \in [Tables -> SUBSET Rows]
  BY DEF CopyInv, CopyTypeOK
<1>2. \A u \in Tables : database[u] = IF u = t THEN source[t] \cup {r} ELSE source[u]
  BY <1>1
<1>3. database \in [Tables -> SUBSET Rows]
  BY <1>1
<1>4. \A u \in Tables : \A q \in database[u] : q.key \in Ids
  BY <1>2 DEF CopyInv, OwnRows
<1>5. \A q, s \in database["refresh"] : q.key = s.key => q = s
  BY <1>2, CopyTables DEF CopyInv, TokensApart, KeysOf
<1> HIDE DEF database
<1> QED
  BY <1>3, <1>4, <1>5, WriteKeeps DEF database

LEMMA ProgramKeeps ==
  ASSUME CopyInv, ProgramWrites
  PROVE  CopyInv'
<1> USE CopyTables
<1>1. ASSUME NEW k \in Ids, SignUpAtSource(k) PROVE CopyInv'
  <2>1. Row(k, Nil, k) \in Rows /\ Row(k, Nil, k).key \in Ids
    BY DEF Row, Rows
  <2> QED
    BY <1>1, <2>1, AdditionKeeps DEF SignUpAtSource
<1>2. ASSUME NEW k \in Ids, NEW p \in Permissions, Permit(k, p) PROVE CopyInv'
  <2>1. Row(k, k, p) \in Rows /\ Row(k, k, p).key \in Ids
    BY DEF Row, Rows
  <2> QED
    BY <1>2, <2>1, AdditionKeeps DEF Permit
<1>3. ASSUME NEW k \in Ids, NEW u \in Ids, Book(k, u) PROVE CopyInv'
  <2>1. Row(k, u, 0) \in Rows /\ Row(k, u, 0).key \in Ids
    BY DEF Row, Rows
  <2> QED
    BY <1>3, <2>1, AdditionKeeps DEF Book
<1>4. ASSUME NEW k \in Ids, NEW b \in source["booking"], Offer(k, b) PROVE CopyInv'
  <2>1. Row(k, b.key, 0) \in Rows /\ Row(k, b.key, 0).key \in Ids
    BY DEF Row, Rows, CopyInv, OwnRows
  <2> QED
    BY <1>4, <2>1, AdditionKeeps DEF Offer
<1>5. ASSUME NEW k \in Ids, NEW from \in Ids \cup {Nil}, IssueToken(k, from) PROVE CopyInv'
  <2>1. Row(k, from, 0) \in Rows /\ Row(k, from, 0).key = k
    BY DEF Row, Rows
  <2> QED
    BY <1>5, <2>1, AdditionKeeps DEF IssueToken
<1>6. ASSUME NEW x \in source["exchange"], NEW b \in source["booking"], Accept(x, b) PROVE CopyInv'
  <2> DEFINE X == [x EXCEPT !.val = 1]
             B == [b EXCEPT !.val = 1]
             database == [source EXCEPT !["exchange"] = (@ \ {x}) \cup {X},
                                        !["booking"] = (@ \ {b}) \cup {B}]
  <2>1. source \in [Tables -> SUBSET Rows] /\ x \in Rows /\ b \in Rows
    BY DEF CopyInv, CopyTypeOK
  <2>2. X \in Rows /\ X.key = x.key /\ B \in Rows /\ B.key = b.key
    BY <2>1 DEF Rows
  <2>3. x.key \in Ids /\ b.key \in Ids
    BY DEF CopyInv, OwnRows
  <2>4. Write(database)
    BY <1>6 DEF Accept
  <2> HIDE DEF X, B
  <2>5. /\ database \in [Tables -> SUBSET Rows]
        /\ database["refresh"] = source["refresh"]
        /\ \A t \in Tables : \A r \in database[t] : r \in source[t] \/ r = X \/ r = B
    BY <2>1, <2>2
  <2> HIDE DEF database
  <2>6. \A t \in Tables : \A r \in database[t] : r.key \in Ids
    BY <2>2, <2>3, <2>5 DEF CopyInv, OwnRows
  <2>7. \A r, s \in database["refresh"] : r.key = s.key => r = s
    BY <2>5 DEF CopyInv, TokensApart
  <2> QED
    BY <2>4, <2>5, <2>6, <2>7, WriteKeeps
<1> QED
  BY <1>1, <1>2, <1>3, <1>4, <1>5, <1>6 DEF ProgramWrites

LEMMA CopyStep ==
  ASSUME CopyInv, [CopyNext]_copyVars
  PROVE  CopyInv'
<1> USE CopyTables, CopyAssumption
<1>1. ASSUME ProgramWrites PROVE CopyInv'
  BY <1>1, ProgramKeeps
<1>2. ASSUME Migrate \/ UNCHANGED copyVars PROVE CopyInv'
  <2>1. UNCHANGED <<source, target, copy, writes, quiet>> /\ ready' \in BOOLEAN
    BY <1>2 DEF Migrate, copyVars, CopyInv, CopyTypeOK
  <2>2. CopyTypeOK'
    BY <2>1 DEF CopyInv, CopyTypeOK
  <2>3. OwnRows' /\ TokensApart' /\ UpToDate'
    BY <2>1 DEF CopyInv, OwnRows, TokensApart, UpToDate,
         Cloned, PermissionsByName, RefreshTokens, Inserted
  <2> QED
    BY <2>2, <2>3 DEF CopyInv
<1>3. ASSUME NEW k \in Ids \cup {Newcomer}, SignUpAtTarget(k) PROVE CopyInv'
  <2>1. Row(Newcomer, Nil, k) \in Rows
    BY DEF Row, Rows
  <2>2. CopyTypeOK'
    BY <1>3, <2>1 DEF SignUpAtTarget, CopyInv, CopyTypeOK
  <2>3. OwnRows' /\ TokensApart' /\ UpToDate'
    BY <1>3 DEF SignUpAtTarget, CopyInv, OwnRows, TokensApart, UpToDate,
         Cloned, PermissionsByName, RefreshTokens, Inserted
  <2> QED
    BY <2>2, <2>3 DEF CopyInv
<1>4. ASSUME copy' \in {NoCopy, [NoCopy EXCEPT !.at = 1]},
             UNCHANGED <<source, writes>>, ready' \in BOOLEAN, quiet' \in BOOLEAN,
             target' \in [Tables -> SUBSET Rows]
      PROVE  CopyInv'
  <2>1. copy' \in [at : 0..1, rows : [Tables -> SUBSET Rows]]
    BY <1>4 DEF NoCopy, NoRows
  <2>2. CopyTypeOK'
    BY <1>4, <2>1 DEF CopyInv, CopyTypeOK
  <2>3. OwnRows' /\ TokensApart'
    BY <1>4 DEF CopyInv, OwnRows, TokensApart
  <2>4. UpToDate'
    BY <2>1 DEF UpToDate
  <2> QED
    BY <2>2, <2>3, <2>4 DEF CopyInv
<1>5. ASSUME NEW force \in BOOLEAN, Start(force) PROVE CopyInv'
  BY <1>4, <1>5 DEF Start, CopyInv, CopyTypeOK
<1>6. ASSUME RollBack PROVE CopyInv'
  BY <1>4, <1>6 DEF RollBack, CopyInv, CopyTypeOK
<1>7. ASSUME CopyTable PROVE CopyInv'
  <2>1. CASE RollBack
    BY <2>1, <1>6
  <2>2. CASE ~RollBack
    <3> DEFINE t == CopyOrder[copy.at]
    <3>1. /\ copy.at \in 1..5 /\ t \in Tables
          /\ copy' = [copy EXCEPT !.at = @ + 1, !.rows[t] = Cloned(t)]
          /\ UNCHANGED <<source, target, ready, writes, quiet>>
      BY <1>7, <2>2 DEF CopyTable
    <3>2. Cloned(t) \in SUBSET Rows
      BY <3>1, ClonesAreRows DEF CopyInv
    <3>3. copy \in [at : 0..6, rows : [Tables -> SUBSET Rows]]
      BY DEF CopyInv, CopyTypeOK
    <3>4. /\ copy' \in [at : 0..6, rows : [Tables -> SUBSET Rows]]
          /\ copy'.at = copy.at + 1
          /\ copy'.rows = [copy.rows EXCEPT ![t] = Cloned(t)]
      <4>1. copy' = [at |-> copy.at + 1, rows |-> [copy.rows EXCEPT ![t] = Cloned(t)]]
        <5> HIDE DEF t
        <5> QED
          BY <3>1, <3>3
      <4>2. [copy.rows EXCEPT ![t] = Cloned(t)] \in [Tables -> SUBSET Rows]
        <5> HIDE DEF t
        <5> QED
          BY <3>1, <3>2, <3>3
      <4>3. copy.at + 1 \in 0..6
        BY <3>1
      <4> HIDE DEF t
      <4> QED
        BY <4>1, <4>2, <4>3
    <3>5. CopyTypeOK'
      BY <3>1, <3>4 DEF CopyInv, CopyTypeOK
    <3>6. OwnRows' /\ TokensApart'
      BY <3>1 DEF CopyInv, OwnRows, TokensApart
    <3>7. \A u : Cloned(u)' = Cloned(u)
      BY <3>1 DEF Cloned, PermissionsByName, RefreshTokens, Inserted
    <3>8. \A m, n \in 1..5 : CopyOrder[m] = CopyOrder[n] => m = n
      BY DEF CopyOrder
    <3>9. UpToDate'
      <4> SUFFICES ASSUME quiet', NEW n \in 1..5, n < copy'.at
                   PROVE  copy'.rows[CopyOrder[n]] = Cloned(CopyOrder[n])
        BY <3>7 DEF UpToDate
      <4>1. CASE n = copy.at
        BY <4>1, <3>1, <3>3, <3>4
      <4>2. CASE n < copy.at
        <5>1. CopyOrder[n] # t /\ CopyOrder[n] \in Tables
          BY <4>2, <3>1, <3>8
        <5>2. copy.rows[CopyOrder[n]] = Cloned(CopyOrder[n])
          BY <4>2, <3>1 DEF CopyInv, UpToDate
        <5> HIDE DEF t
        <5> QED
          BY <5>1, <5>2, <3>3, <3>4
      <4> QED
        BY <4>1, <4>2, <3>1, <3>4
    <3> QED
      BY <3>5, <3>6, <3>9 DEF CopyInv
  <2> QED
    BY <2>1, <2>2
<1>8. ASSUME Commit PROVE CopyInv'
  <2>1. Merged \in [Tables -> SUBSET Rows]
    BY DEF Merged, CopyInv, CopyTypeOK
  <2> QED
    BY <1>4, <1>8, <2>1 DEF Commit, CopyInv, CopyTypeOK
<1> QED
  BY <1>1, <1>2, <1>3, <1>5, <1>6, <1>7, <1>8 DEF CopyNext, Refuse, Interrupt

\* Every variable of the command, of the file and of the target keeps its
\* type, and what was copied is what the file still says.
THEOREM CopyInvariance == CopySpec => []CopyInv
<1> QED
  BY CopyStarts, CopyStep, PTL DEF CopySpec

\* What is committed is the file, whole but for the times.
LEMMA CommitIsWhole ==
  ASSUME CopyInv, Commit
  PROVE  /\ copy' = NoCopy
         /\ \A t \in Tables : target[t] \subseteq target'[t]
         /\ Closed(target')
         /\ quiet =>
              /\ \A t \in Tables \ {"permission"} : target'[t] = target[t] \cup Inserted(source[t])
              /\ Allowed(target', NameInTarget) =
                   Allowed(target, NameInTarget)
                     \cup KnownAtTarget(Allowed(source, NameInSource))
<1> USE CopyTables
<1>1. copy' = NoCopy /\ target' = Merged /\ Closed(target')
  BY DEF Commit
<1>2. \A t \in Tables : target'[t] = target[t] \cup copy.rows[t]
  BY <1>1 DEF Merged
<1>3. ASSUME quiet, NEW t \in Tables PROVE target'[t] = target[t] \cup Cloned(t)
  <2>1. PICK n \in 1..5 : t = CopyOrder[n]
    BY DEF Tables
  <2>2. copy.rows[t] = Cloned(t)
    BY <1>3, <2>1 DEF Commit, CopyInv, UpToDate
  <2> QED
    BY <1>2, <2>2
<1>4. RefreshTokens = Inserted(source["refresh"])
  BY TokensComeWhole DEF CopyInv
<1>5. ASSUME quiet PROVE \A t \in Tables \ {"permission"} : target'[t] = target[t] \cup Inserted(source[t])
  BY <1>3, <1>4, <1>5 DEF Cloned
<1>6. ASSUME quiet
      PROVE  Allowed(target', NameInTarget) =
               Allowed(target, NameInTarget) \cup KnownAtTarget(Allowed(source, NameInSource))
  <2>1. target'["permission"] = target["permission"] \cup PermissionsByName
    BY <1>3, <1>6 DEF Cloned
  <2>2. Allowed(target', NameInTarget) =
          Allowed(target, NameInTarget)
            \cup {<<r.ref, NameInTarget[r.val]>> : r \in PermissionsByName}
    BY <2>1 DEF Allowed
  <2> QED
    BY <2>2, PermissionsKeepNames DEF CopyInv
<1> QED
  BY <1>1, <1>2, <1>5, <1>6

\* The command changes the target only as a whole, and unless the program
\* wrote to the file while it ran, every row of the file is there then, with its
\* key, what it refers to and what it holds, but dated by the copy, and with the
\* permission of the same name.
THEOREM CopiesComeWhole == CopySpec => CopiesAreWhole
<1> DEFINE Whole ==
      target' # target =>
       \/ target' = [target EXCEPT !["user"] = target'["user"]] /\ copy' = copy
       \/ /\ copy' = NoCopy
          /\ \A t \in Tables : target[t] \subseteq target'[t]
          /\ Closed(target')
          /\ quiet =>
               /\ \A t \in Tables \ {"permission"} : target'[t] = target[t] \cup Inserted(source[t])
               /\ Allowed(target', NameInTarget) =
                    Allowed(target, NameInTarget)
                      \cup KnownAtTarget(Allowed(source, NameInSource))
<1>1. ASSUME CopyInv, [CopyNext]_copyVars PROVE [Whole]_copyVars
  <2>1. ASSUME NEW k \in Ids \cup {Newcomer}, SignUpAtTarget(k)
        PROVE  target' = [target EXCEPT !["user"] = target'["user"]] /\ copy' = copy
    <3>1. target \in [Tables -> SUBSET Rows] /\ "user" \in Tables
      BY <1>1, CopyTables DEF CopyInv, CopyTypeOK
    <3> QED
      BY <2>1, <3>1 DEF SignUpAtTarget
  <2>2. CASE Commit
    BY <1>1, <2>2, CommitIsWhole
  <2>3. ASSUME target' # target, ~Commit
        PROVE  \E k \in Ids \cup {Newcomer} : SignUpAtTarget(k)
    BY <1>1, <2>3
       DEF CopyNext, copyVars, ProgramWrites, SignUpAtSource, Permit, Book, Offer, Accept,
           IssueToken, Write, Migrate, Start, CopyTable, RollBack, Refuse, Interrupt
  <2> QED
    BY <2>1, <2>2, <2>3
<1> QED
  BY <1>1, CopyInvariance, PTL DEF CopySpec, CopiesAreWhole

-----------------------------------------------------------------------------
(* The components side by side *)

\* A step of the whole is a step of every component, or leaves it alone.
LEMMA AccountsSteps ==
  ASSUME [AccountsNext]_<<focus, signInVars, sessionVars, residentVars, copyVars>>
  PROVE  /\ [SignInNext]_signInVars /\ [SessionNext]_sessionVars
         /\ [ResidentsNext]_residentVars /\ [CopyNext]_copyVars
BY DEF AccountsNext, SigningIn, SignedIn, Administering, Copying

\* The components are run side by side, one at a time: what is a behaviour of
\* them together is a behaviour of sign-in, of the sessions, of the residents'
\* administration and of the move to another database, so that what is proved of
\* each holds where TLC checks them together.
THEOREM AccountsCompose ==
  AccountsSpec => SignInSpec /\ SessionSpec /\ ResidentsSpec /\ CopySpec
<1>1. AccountsInit => SignInInit /\ SessionInit /\ ResidentsInit /\ CopyInit
  BY DEF AccountsInit, NobodySignsIn
<1> QED
  BY <1>1, AccountsSteps, PTL DEF AccountsSpec, SignInSpec, SessionSpec, ResidentsSpec, CopySpec

\* Every variable of every component keeps its type while they run together.
THEOREM AccountsTypes == AccountsSpec => []AccountsTypeOK
<1>1. CopyInv => CopyTypeOK
  BY DEF CopyInv
<1>2. SignInTypeOK /\ SessionTypeOK /\ ResidentTypeOK /\ CopyTypeOK => AccountsTypeOK
  BY DEF AccountsTypeOK
<1> QED
  BY <1>1, <1>2, AccountsCompose, SignInTypes, SessionTypes, ResidentTypes, CopyInvariance, PTL
=============================================================================
