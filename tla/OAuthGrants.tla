---------------------------- MODULE OAuthGrants ----------------------------
(***************************************************************************)
(* The authorization server in front of the assistants' endpoint           *)
(* (mcp_server/): connectors register, a student approves one and it gets  *)
(* a code, the code is exchanged for an access and a refresh token, and    *)
(* each refresh token for the next pair.  What a replay and a disconnect   *)
(* revoke is modelled statement by statement, since neither is a           *)
(* transaction; reading a row and using it up are separate steps.          *)
(*                                                                         *)
(* One student; the tokens that a student mints to paste somewhere belong  *)
(* to no connector, and nothing here reads or changes them.  An access     *)
(* token and a refresh token are issued together, as a pair; the pairs that*)
(* go back to one code are its grant.  Hashes,                             *)
(* the proof key, the redirect address and the resource of a request are   *)
(* right or the request changes nothing, except that a code or token that  *)
(* is no longer usable counts as replayed before the code's are looked at. *)
(***************************************************************************)
EXTENDS Integers, FiniteSets

CONSTANTS
  Connectors,   \* the clients that may register
  ProviderOf,   \* the product that a connector is classified as
  Calls,        \* requests that may be in flight
  Unissued,     \* in place of the connector of a code that has not been issued
  MaxCodes, MaxPairs,   \* bounds on the codes and the pairs ever issued
  MaxRows               \* and on both together

ASSUME GrantAssumption ==
  /\ Unissued \notin Connectors
  /\ MaxCodes \in Nat /\ MaxPairs \in Nat /\ MaxRows \in Nat

VARIABLES
  registered,   \* OAuthClient
  code,         \* OAuthAuthorizationCode
  pair,         \* OAuthRefreshToken and the McpToken issued with it
  call,         \* what each request in flight is doing and has read
  \* history variables, read by properties only
  cut,          \* the grants that an answered request has revoked
  stale,        \* those in which a row was used that had been retired since it was read
  halved        \* whether a request died between revoking refresh and access tokens

grantVars == <<registered, code, pair, call, cut, stale, halved>>

Codes == 1..MaxCodes
Pairs == 1..MaxPairs
Grants == Codes
Providers == {ProviderOf[k] : k \in Connectors}

\* "none" until issued; "expired" has run out and is not revoked.
TokenStates == {"none", "live", "expired", "revoked"}

Issued == {i \in Pairs : pair[i].refresh # "none"}
IssuedCodes == {c \in Codes : code[c].state # "none"}
RoomForRow == Cardinality(IssuedCodes) + Cardinality(Issued) < MaxRows
ConnectorOf(i) == code[pair[i].grant].connector
Children(i) == {j \in Issued : pair[j].from = i}

Unrevoked(i) == pair[i].refresh \in {"live", "expired"}

Resting == [stage |-> "none", row |-> 0, frontier |-> {}, targets |-> {}, grants |-> {}]

Take(w, record) ==
  /\ call[w].stage = "none"
  /\ call' = [call EXCEPT ![w] = record]

Answer(w) == call' = [call EXCEPT ![w] = Resting]

-----------------------------------------------------------------------------
(* Registration and approval *)

RegisterClient(k) ==
  /\ k \notin registered
  /\ registered' = registered \cup {k}
  /\ UNCHANGED <<code, pair, call, cut, stale, halved>>

\* Authorize.post: the student has signed in and approves.
Approve(k) ==
  /\ k \in registered /\ RoomForRow
  /\ \E c \in Codes :
       /\ IssuedCodes = 1..(c - 1)
       /\ code' = [code EXCEPT ![c] = [connector |-> k, state |-> "live"]]
  /\ UNCHANGED <<registered, pair, call, cut, stale, halved>>

-----------------------------------------------------------------------------
(* The token endpoint *)

\* Fault: the rotated token keeps working.
IssueBeside(grant, from) ==
  /\ RoomForRow
  /\ \E i \in Pairs :
       /\ Issued = 1..(i - 1)
       /\ pair' = [pair EXCEPT ![i] =
            [grant |-> grant, from |-> from, refresh |-> "live", access |-> "live"]]

\* _issue, for a grant and the pair it is rotated from, in the transaction
\* that retires row `from` or the code.
IssuePair(grant, from) ==
  /\ RoomForRow
  /\ \E i \in Pairs :
       /\ Issued = 1..(i - 1)
       /\ pair' = [j \in Pairs |->
            IF j = i
            THEN [grant |-> grant, from |-> from, refresh |-> "live", access |-> "live"]
            ELSE IF j = from THEN [pair[j] EXCEPT !.refresh = "revoked"] ELSE pair[j]]

\* _authorization_code looks the code up.  A code that has expired unused is
\* refused, a consumed one is a replay.
ResolveCode(w, c) ==
  /\ code[c].state \in {"live", "consumed"}
  /\ Take(w, [Resting EXCEPT !.stage = IF code[c].state = "live" THEN "redeem" ELSE "replay",
                             !.row = c, !.grants = {c}])
  /\ UNCHANGED <<registered, code, pair, cut, stale, halved>>

\* It is consumed by writing its row, whatever the row says by now.
RedeemCode(w) ==
  LET c == call[w].row IN
  /\ call[w].stage = "redeem"
  /\ code' = [code EXCEPT ![c].state = "consumed"]
  /\ IssuePair(c, 0)
  /\ stale' = IF code[c].state = "consumed" THEN stale \cup {c} ELSE stale
  /\ Answer(w)
  /\ UNCHANGED <<registered, cut, halved>>

\* A replay lists the refresh tokens of the student and the connector.
ReplayCode(w) ==
  LET k == code[call[w].row].connector IN
  /\ call[w].stage = "replay"
  /\ call' = [call EXCEPT ![w].stage = "walk", ![w].row = 0, ![w].targets = {k},
                ![w].frontier = {i \in Issued : Unrevoked(i) /\ ConnectorOf(i) = k}]
  /\ UNCHANGED <<registered, code, pair, cut, stale, halved>>

\* Fault: a token that has run out is as good as one that has not.
ResolveRefreshUnrevoked(w, i) ==
  /\ i \in Issued
  /\ Take(w,
       IF Unrevoked(i)
         THEN [Resting EXCEPT !.stage = "rotate", !.row = i, !.grants = {pair[i].grant}]
         ELSE [Resting EXCEPT !.stage = "walk", !.frontier = {i},
                              !.targets = {ConnectorOf(i)}, !.grants = {pair[i].grant}])
  /\ UNCHANGED <<registered, code, pair, cut, stale, halved>>

\* _refresh looks the token up.  One that is not usable is a replay.
ResolveRefresh(w, i) ==
  /\ i \in Issued
  /\ Take(w,
       IF pair[i].refresh = "live"
         THEN [Resting EXCEPT !.stage = "rotate", !.row = i, !.grants = {pair[i].grant}]
         ELSE [Resting EXCEPT !.stage = "walk", !.frontier = {i},
                              !.targets = {ConnectorOf(i)}, !.grants = {pair[i].grant}])
  /\ UNCHANGED <<registered, code, pair, cut, stale, halved>>

Rotate(w) ==
  LET i == call[w].row IN
  /\ call[w].stage = "rotate"
  /\ IssuePair(pair[i].grant, i)
  /\ stale' = IF pair[i].refresh = "revoked" THEN stale \cup {pair[i].grant} ELSE stale
  /\ Answer(w)
  /\ UNCHANGED <<registered, code, cut, halved>>

\* Fault: what was rotated from a token is left alone.
WalkWithoutDescendants(w) ==
  /\ call[w].stage = "walk"
  /\ \E i \in call[w].frontier :
       /\ pair' = [pair EXCEPT ![i].refresh = "revoked"]
       /\ call' = [call EXCEPT ![w].frontier = @ \ {i}]
  /\ UNCHANGED <<registered, code, cut, stale, halved>>

\* revoke_chain, one row at a time: revoke it, then read what was rotated from
\* it.  (A child that appears between the two is one that appeared before.)
Walk(w) ==
  /\ call[w].stage = "walk"
  /\ \E i \in call[w].frontier :
       /\ pair' = [pair EXCEPT ![i].refresh = "revoked"]
       /\ call' = [call EXCEPT ![w].frontier = (@ \ {i}) \cup Children(i)]
  /\ UNCHANGED <<registered, code, cut, stale, halved>>

\* Fault: the access tokens are left to expire.
CutAccessLater(w) ==
  /\ call[w].stage = "walk" /\ call[w].frontier = {}
  /\ cut' = cut \cup call[w].grants
  /\ Answer(w)
  /\ UNCHANGED <<registered, code, pair, stale, halved>>

\* Fault: the access tokens of every connector are revoked.
CutAccessOfAll(w) ==
  /\ call[w].stage = "walk" /\ call[w].frontier = {}
  /\ pair' = [i \in Pairs |->
       IF i \in Issued THEN [pair[i] EXCEPT !.access = "revoked"] ELSE pair[i]]
  /\ cut' = cut \cup call[w].grants
  /\ Answer(w)
  /\ UNCHANGED <<registered, code, stale, halved>>

\* Last, one update revokes the access tokens of the student and the connectors.
CutAccess(w) ==
  /\ call[w].stage = "walk" /\ call[w].frontier = {}
  /\ pair' = [i \in Pairs |->
       IF i \in Issued /\ ConnectorOf(i) \in call[w].targets
       THEN [pair[i] EXCEPT !.access = "revoked"] ELSE pair[i]]
  /\ cut' = cut \cup call[w].grants
  /\ Answer(w)
  /\ UNCHANGED <<registered, code, stale, halved>>

-----------------------------------------------------------------------------
(* The student's side *)

OfProvider(p) == {i \in Issued : ProviderOf[ConnectorOf(i)] = p}

\* disconnect_provider lists the refresh tokens,
Disconnect(w, p) ==
  /\ Take(w, [Resting EXCEPT !.stage = "clients",
                !.frontier = {i \in OfProvider(p) : Unrevoked(i)},
                !.targets = {k \in Connectors : ProviderOf[k] = p},
                !.grants = {pair[i].grant : i \in OfProvider(p)}])
  /\ UNCHANGED <<registered, code, pair, cut, stale, halved>>

\* then the access tokens, and goes on if either names a connector.
ListClients(w) ==
  LET found == {ConnectorOf(i) : i \in Issued} \cap call[w].targets IN
  /\ call[w].stage = "clients"
  /\ IF found = {} THEN Answer(w)
     ELSE call' = [call EXCEPT ![w].stage = "walk", ![w].targets = found]
  /\ UNCHANGED <<registered, code, pair, cut, stale, halved>>

\* connections_payload: whether a product is shown as connected.
Connected(p) == \E i \in OfProvider(p) : pair[i].refresh = "live"

-----------------------------------------------------------------------------
(* Time and failure *)

\* A process dies while it revokes: what it has committed stays.  (A request
\* that has written nothing yet may as well never go on.)
Abort(w) ==
  /\ call[w].stage = "walk"
  /\ halved' = TRUE
  /\ Answer(w)
  /\ UNCHANGED <<registered, code, pair, cut, stale>>

\* Rows run out in the order they were issued, an access token long before
\* the refresh token it came with.
ExpireCode(c) ==
  /\ code[c].state = "live"
  /\ code' = [code EXCEPT ![c].state = "expired"]
  /\ UNCHANGED <<registered, pair, call, cut, stale, halved>>

ExpireAccess(i) ==
  /\ pair[i].access = "live"
  /\ \A j \in 1..(i - 1) : pair[j].access # "live"
  /\ pair' = [pair EXCEPT ![i].access = "expired"]
  /\ UNCHANGED <<registered, code, call, cut, stale, halved>>

ExpireRefresh(i) ==
  /\ pair[i].refresh = "live"
  /\ \A j \in 1..(i - 1) : pair[j].refresh # "live"
  /\ \A j \in 1..i : pair[j].access # "live"
  /\ pair' = [pair EXCEPT ![i].refresh = "expired"]
  /\ UNCHANGED <<registered, code, call, cut, stale, halved>>

-----------------------------------------------------------------------------
(* The specification *)

GrantInit ==
  /\ registered = {}
  /\ code = [c \in Codes |-> [connector |-> Unissued, state |-> "none"]]
  /\ pair = [i \in Pairs |-> [grant |-> 0, from |-> 0, refresh |-> "none", access |-> "none"]]
  /\ call = [w \in Calls |-> Resting]
  /\ cut = {} /\ stale = {} /\ halved = FALSE

TokenStep(w) ==
  \/ \E c \in Codes : ResolveCode(w, c)
  \/ \E i \in Pairs : ResolveRefresh(w, i)
  \/ RedeemCode(w) \/ ReplayCode(w) \/ Rotate(w) \/ Walk(w) \/ CutAccess(w) \/ Abort(w)

GrantNext ==
  \/ \E k \in Connectors : RegisterClient(k) \/ Approve(k)
  \/ \E w \in Calls : TokenStep(w)
  \/ \E w \in Calls : ListClients(w) \/ \E p \in Providers : Disconnect(w, p)
  \/ \E c \in Codes : ExpireCode(c)
  \/ \E i \in Pairs : ExpireAccess(i) \/ ExpireRefresh(i)

GrantSpec == GrantInit /\ [][GrantNext]_grantVars

-----------------------------------------------------------------------------
(* Properties *)

GrantTypeOK ==
  /\ registered \subseteq Connectors
  /\ code \in [Codes -> [connector : Connectors \cup {Unissued},
                         state : {"none", "live", "expired", "consumed"}]]
  /\ pair \in [Pairs -> [grant : Codes \cup {0}, from : Pairs \cup {0},
                         refresh : TokenStates, access : TokenStates]]
  /\ call \in [Calls ->
       [stage : {"none", "redeem", "replay", "rotate", "clients", "walk"},
        row : Codes \cup Pairs \cup {0}, frontier : SUBSET Pairs,
        targets : SUBSET Connectors, grants : SUBSET Codes]]
  /\ cut \subseteq Grants /\ stale \subseteq Grants /\ halved \in BOOLEAN

Roots(c) == {i \in Issued : pair[i].grant = c /\ pair[i].from = 0}

\* "Codes and refresh tokens are single-use" (oauth_models.py): no code and no
\* refresh token yields two pairs, unless a redemption was under way that had
\* found it unused before.
YieldsOnePair ==
  /\ \A c \in Codes : Cardinality(Roots(c)) > 1 => c \in stale
  /\ \A i \in Issued : Cardinality(Children(i)) > 1 => pair[i].grant \in stale

\* "Reusing either is treated as theft, and the whole grant is revoked"
\* (oauth_models.py), and a disconnect cuts the grant of every connector of the
\* product (providers.py): once such a request has been answered nothing of the
\* grant is left, however it interleaved with rotations, unless a redemption
\* went through on a row that had been retired since it was read.
CutGrantsStayCut ==
  \A i \in Issued : pair[i].grant \in cut \ stale =>
    pair[i].refresh = "revoked" /\ pair[i].access = "revoked"

\* "Connected means a live, unrevoked OAuth refresh token" (views.py): an
\* assistant that is shown as disconnected can no longer act, unless a request
\* that is revoking has not come to the access tokens, or died before it did.
ConnectedWhileUsable ==
  \A i \in Issued :
    \/ pair[i].access # "live"
    \/ Connected(ProviderOf[ConnectorOf(i)])
    \/ halved
    \/ \E w \in Calls : call[w].stage = "walk" /\ ConnectorOf(i) \in call[w].targets

\* "Cut the OAuth grant for every client classified as this provider"
\* (providers.py), and of no other: following the rotations never leads out of the connector whose
\* code or token was presented, or the product that was disconnected.
OthersAreSpared ==
  [][\A i \in Issued :
       \/ (pair'[i].refresh = "revoked") = (pair[i].refresh = "revoked")
            /\ (pair'[i].access = "revoked") = (pair[i].access = "revoked")
       \/ \E w \in Calls :
            /\ call'[w] # call[w]
            /\ \/ call[w].stage = "rotate" /\ call[w].row = i
               \/ ConnectorOf(i) \in call[w].targets]_grantVars

\* What the tables show of the keys of a grant, the code being key 0: nothing, if
\* a row was used in it that had been retired since it was read.
Keys(c, states) ==
  IF c \in stale THEN {}
  ELSE (IF code[c].state \in states THEN {0} ELSE {})
         \cup {i \in Issued : pair[i].grant = c /\ pair[i].refresh \in states}

Known == [c \in Codes |-> Keys(c, {"live", "expired", "revoked", "consumed"})]
Unspent == [c \in Codes |-> Keys(c, {"live", "expired"})]
Valid == [c \in Codes |-> Keys(c, {"live"})]
Usable ==
  [c \in Codes |->
    {i \in Issued : c \notin stale /\ pair[i].grant = c /\ pair[i].access = "live"}]

\* A redemption has its key in hand from its lookup to its write.
InHand ==
  [w \in Calls |->
    CASE call[w].stage = "redeem" -> <<call[w].row, 0>>
      [] call[w].stage = "rotate" -> <<pair[call[w].row].grant, call[w].row>>
      [] OTHER -> Unissued]

Promised ==
  INSTANCE GrantKeys WITH
    Grants <- Codes, Tokens <- Pairs, TheCode <- 0, Hands <- Calls, Empty <- Unissued,
    known <- Known, unspent <- Unspent, valid <- Valid, usable <- Usable,
    hand <- InHand, closed <- cut \ stale, forked <- stale

\* "Codes and refresh tokens are single-use" and "the whole grant is revoked"
\* (oauth_models.py) as one behaviour: codes and refresh tokens are keys of which
\* a grant has one at a time, given up for the next in one step, and a grant that
\* a replay or a disconnect has cut gets no key or access token any more, whatever
\* redemptions, walks, deaths and expiries cross.
ImplementsGrantKeys == Promised!Spec
=============================================================================
