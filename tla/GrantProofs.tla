---------------------------- MODULE GrantProofs ----------------------------
(***************************************************************************)
(* Proofs, for any number of connectors, codes, tokens and requests in     *)
(* flight, of what OAuthGrants promises.  The heart of it: in a grant in   *)
(* which nothing retired was used, the pairs form one chain, whose last    *)
(* pair alone may be unrevoked, so that a walk which has reached any pair  *)
(* of the chain cannot miss the last one, however often it moves on.       *)
(*                                                                         *)
(* Last, that OAuthGrants implements GrantKeys: each of its steps opens a  *)
(* grant, presents, exchanges or forks a key, or takes some away.          *)
(***************************************************************************)
EXTENDS OAuthGrants, FiniteSetTheorems, TLAPS

-----------------------------------------------------------------------------
(* The invariant *)

\* A pair is of a code that was consumed, and was rotated from an earlier pair
\* of the same code.
GrantsNamed ==
  /\ \A c \in Codes : code[c].state # "none" => code[c].connector \in Connectors
  /\ \A i \in Pairs : pair[i].refresh = "none" => pair[i].access = "none"
  /\ \A i \in Issued :
       /\ pair[i].grant \in Codes /\ code[pair[i].grant].state = "consumed"
       /\ pair[i].from # 0 =>
            /\ pair[i].from \in Issued /\ pair[i].from < i
            /\ pair[pair[i].from].grant = pair[i].grant

\* A request names rows that are in the tables; one that revokes has listed
\* rows of its connectors, and connectors of its grants.
CallsNamed ==
  \A w \in Calls :
    /\ call[w].stage \in {"redeem", "replay"} =>
         /\ call[w].row \in Codes /\ code[call[w].row].state # "none"
         /\ call[w].grants = {call[w].row}
    /\ call[w].stage = "replay" => code[call[w].row].state = "consumed"
    /\ call[w].stage = "rotate" => call[w].row \in Issued
    /\ call[w].stage \in {"clients", "walk"} =>
         /\ \A f \in call[w].frontier : f \in Issued /\ ConnectorOf(f) \in call[w].targets
         /\ \A c \in call[w].grants :
              code[c].state = "consumed" /\ code[c].connector \in call[w].targets
    /\ call[w].stage = "clients" =>
         \A c \in call[w].grants : \E i \in Issued : pair[i].grant = c

\* The pairs of a grant form a chain, unless a row was used when it was retired.
Chains ==
  /\ \A i, j \in Issued :
       (pair[i].grant = pair[j].grant /\ pair[i].grant \notin stale) =>
         /\ pair[i].from = pair[j].from => i = j
         /\ Children(i) = {} /\ Children(j) = {} => i = j
  /\ \A i \in Issued :
       pair[i].grant \notin stale /\ Unrevoked(i) => Children(i) = {}

\* While a grant that is being cut has an unrevoked pair, the walk has one of
\* its pairs before it.
WalksReach ==
  \A w \in Calls : call[w].stage \in {"clients", "walk"} =>
    \A i \in Issued :
      (pair[i].grant \in call[w].grants \ stale /\ Unrevoked(i)) =>
        \E f \in call[w].frontier : pair[f].grant = pair[i].grant

\* A grant that was cut has nothing left.
CutsHold ==
  /\ \A c \in cut : code[c].state = "consumed"
  /\ CutGrantsStayCut

Walking(k) == \E w \in Calls : call[w].stage = "walk" /\ k \in call[w].targets

\* A pair with a live access token is followed in its grant by one, or is
\* itself one, with a live refresh token, unless it is being revoked.
UsableFollowed ==
  \A i \in Issued : pair[i].access = "live" =>
    \/ halved
    \/ Walking(ConnectorOf(i))
    \/ \E j \in Issued :
         j >= i /\ pair[j].grant = pair[i].grant /\ pair[j].refresh = "live"

GrantInv ==
  GrantTypeOK /\ GrantsNamed /\ CallsNamed /\ Chains /\ WalksReach /\ CutsHold /\ UsableFollowed

-----------------------------------------------------------------------------
(* Facts *)

PairRow == [grant : Codes \cup {0}, from : Pairs \cup {0},
            refresh : TokenStates, access : TokenStates]

CallRow ==
  [stage : {"none", "redeem", "replay", "rotate", "clients", "walk"},
   row : Codes \cup Pairs \cup {0}, frontier : SUBSET Pairs,
   targets : SUBSET Connectors, grants : SUBSET Codes]

LEMMA RestingTyped == Resting \in CallRow
BY DEF Resting, CallRow

LEMMA Ranges == Codes \subseteq Nat \ {0} /\ Pairs \subseteq Nat \ {0}
BY GrantAssumption DEF Codes, Pairs

\* What _issue writes: one new pair, and the end of the one it is rotated from.
LEMMA IssueEffect ==
  ASSUME pair \in [Pairs -> PairRow], NEW grant \in Codes, NEW from \in Issued \cup {0},
         IssuePair(grant, from)
  PROVE  \E n \in Pairs :
           /\ n \notin Issued /\ \A j \in Issued : j < n
           /\ Issued' = Issued \cup {n}
           /\ pair' \in [Pairs -> PairRow]
           /\ pair'[n] = [grant |-> grant, from |-> from, refresh |-> "live", access |-> "live"]
           /\ \A j \in Pairs \ {n} :
                /\ pair'[j].grant = pair[j].grant /\ pair'[j].from = pair[j].from
                /\ pair'[j].access = pair[j].access
                /\ pair'[j].refresh = IF j = from THEN "revoked" ELSE pair[j].refresh
<1>1. PICK n \in Pairs :
        /\ Issued = 1..(n - 1)
        /\ pair' = [j \in Pairs |->
             IF j = n
             THEN [grant |-> grant, from |-> from, refresh |-> "live", access |-> "live"]
             ELSE IF j = from THEN [pair[j] EXCEPT !.refresh = "revoked"] ELSE pair[j]]
  BY DEF IssuePair
<1>2. n \notin Issued /\ \A j \in Issued : j < n
  BY <1>1, Ranges
<1>3. Issued \subseteq Pairs /\ from \in Pairs \cup {0}
  BY DEF Issued
<1>4. pair' \in [Pairs -> PairRow]
  BY <1>1, <1>3 DEF PairRow, TokenStates
<1>5. pair'[n] = [grant |-> grant, from |-> from, refresh |-> "live", access |-> "live"]
  BY <1>1
<1>6. ASSUME NEW j \in Pairs \ {n}
      PROVE  /\ pair'[j].grant = pair[j].grant /\ pair'[j].from = pair[j].from
             /\ pair'[j].access = pair[j].access
             /\ pair'[j].refresh = IF j = from THEN "revoked" ELSE pair[j].refresh
  BY <1>1, <1>6 DEF PairRow
<1>7. Issued' = Issued \cup {n}
  <2>1. \A j \in Pairs \ {n} : pair'[j].refresh # "none" <=> pair[j].refresh # "none"
    BY <1>6, Ranges DEF Issued
  <2> QED
    BY <1>5, <2>1 DEF Issued
<1> QED
  BY <1>2, <1>3, <1>4, <1>5, <1>6, <1>7

-----------------------------------------------------------------------------
(* Steps that only change what a request is doing *)

\* It is enough that the request's new record is in order, and that it is not
\* one that stops revoking.
LEMMA CallStep ==
  ASSUME GrantInv, UNCHANGED <<registered, code, pair, cut, stale, halved>>,
         NEW w \in Calls, NEW record \in CallRow,
         call' = [call EXCEPT ![w] = record],
         call[w].stage # "walk",
         record.stage \in {"redeem", "replay"} =>
           /\ record.row \in Codes /\ code[record.row].state # "none"
           /\ record.grants = {record.row},
         record.stage = "replay" => code[record.row].state = "consumed",
         record.stage = "rotate" => record.row \in Issued,
         record.stage \in {"clients", "walk"} =>
           /\ \A f \in record.frontier : f \in Issued /\ ConnectorOf(f) \in record.targets
           /\ \A c \in record.grants :
                code[c].state = "consumed" /\ code[c].connector \in record.targets
           /\ \A i \in Issued :
                (pair[i].grant \in record.grants \ stale /\ Unrevoked(i)) =>
                  \E f \in record.frontier : pair[f].grant = pair[i].grant,
         record.stage = "clients" =>
           \A c \in record.grants : \E i \in Issued : pair[i].grant = c
  PROVE  GrantInv'
<1> USE DEF GrantInv
<1>1. call' \in [Calls -> CallRow] /\ call'[w] = record
      /\ \A v \in Calls \ {w} : call'[v] = call[v]
  BY DEF GrantTypeOK, CallRow
<1>2. Issued' = Issued /\ (\A i : ConnectorOf(i)' = ConnectorOf(i))
      /\ (\A i : Unrevoked(i)' <=> Unrevoked(i)) /\ (\A i : Children(i)' = Children(i))
  BY DEF Issued, ConnectorOf, Unrevoked, Children
<1>3. GrantTypeOK'
  BY <1>1 DEF GrantTypeOK, CallRow
<1>4. GrantsNamed'
  BY <1>2 DEF GrantsNamed
<1>5. CallsNamed'
  <2>1. ASSUME NEW v \in Calls \ {w}
        PROVE  call'[v] = call[v]
    BY <1>1
  <2> QED
    BY <1>1, <1>2, <2>1 DEF CallsNamed
<1>6. Chains'
  BY <1>2 DEF Chains
<1>7. WalksReach'
  BY <1>1, <1>2 DEF WalksReach
<1>8. CutsHold'
  BY <1>2 DEF CutsHold, CutGrantsStayCut
<1>9. UsableFollowed'
  <2>1. ASSUME NEW k, Walking(k) PROVE Walking(k)'
    BY <1>1, <2>1 DEF Walking
  <2> QED
    BY <1>2, <2>1 DEF UsableFollowed
<1> QED
  BY <1>3, <1>4, <1>5, <1>6, <1>7, <1>8, <1>9

LEMMA AnswerKeeps ==
  ASSUME GrantInv, UNCHANGED <<registered, code, pair, cut, stale, halved>>,
         NEW w \in Calls, call[w].stage # "walk", Answer(w)
  PROVE  GrantInv'
<1>1. Resting.stage = "none"
  BY DEF Resting
<1> QED
  BY <1>1, RestingTyped, CallStep DEF Answer

LEMMA ResolveCodeKeeps ==
  ASSUME GrantInv, NEW w \in Calls, NEW c \in Codes, ResolveCode(w, c)
  PROVE  GrantInv'
<1> DEFINE record == [Resting EXCEPT
                        !.stage = IF code[c].state = "live" THEN "redeem" ELSE "replay",
                        !.row = c, !.grants = {c}]
<1>1. record \in CallRow
  BY DEF Resting, CallRow
<1>2. record.stage = (IF code[c].state = "live" THEN "redeem" ELSE "replay")
      /\ record.row = c /\ record.grants = {c}
  BY DEF Resting
<1>3. code[c].state \in {"live", "consumed"} /\ call[w].stage = "none"
      /\ call' = [call EXCEPT ![w] = record]
      /\ UNCHANGED <<registered, code, pair, cut, stale, halved>>
  BY DEF ResolveCode, Take
<1> HIDE DEF record
<1> QED
  BY <1>1, <1>2, <1>3, CallStep

LEMMA ReplayCodeKeeps ==
  ASSUME GrantInv, NEW w \in Calls, ReplayCode(w)
  PROVE  GrantInv'
<1> USE DEF GrantInv
<1> DEFINE k == code[call[w].row].connector
           record == [call[w] EXCEPT !.stage = "walk", !.row = 0, !.targets = {k},
                        !.frontier = {i \in Issued : Unrevoked(i) /\ ConnectorOf(i) = k}]
<1>1. call[w].stage = "replay" /\ call[w] \in CallRow
      /\ call' = [call EXCEPT ![w] = record]
      /\ UNCHANGED <<registered, code, pair, cut, stale, halved>>
  BY DEF ReplayCode, GrantTypeOK, CallRow
<1>2. call[w].row \in Codes /\ code[call[w].row].state = "consumed"
      /\ call[w].grants = {call[w].row} /\ k \in Connectors
  BY <1>1 DEF CallsNamed, GrantsNamed
<1>3. record \in CallRow
  BY <1>1, <1>2 DEF CallRow, Issued
<1>4. record.stage = "walk" /\ record.targets = {k} /\ record.grants = {call[w].row}
      /\ record.frontier = {i \in Issued : Unrevoked(i) /\ ConnectorOf(i) = k}
  BY <1>1, <1>2 DEF CallRow
<1>5. \A f \in record.frontier : f \in Issued /\ ConnectorOf(f) \in record.targets
  BY <1>4
<1>6. \A i \in Issued :
        (pair[i].grant \in record.grants \ stale /\ Unrevoked(i)) => i \in record.frontier
  BY <1>4 DEF ConnectorOf
<1>7. \A c \in record.grants : code[c].state = "consumed" /\ code[c].connector \in record.targets
  BY <1>2, <1>4
<1>8. record.stage = "walk"
  BY <1>4
<1> HIDE DEF record, k
<1> QED
  BY <1>1, <1>3, <1>5, <1>6, <1>7, <1>8, CallStep

LEMMA ResolveRefreshKeeps ==
  ASSUME GrantInv, NEW w \in Calls, NEW i \in Pairs, ResolveRefresh(w, i)
  PROVE  GrantInv'
<1> USE DEF GrantInv
<1> DEFINE c == pair[i].grant
<1>1. i \in Issued /\ c \in Codes /\ code[c].state = "consumed"
      /\ ConnectorOf(i) = code[c].connector /\ ConnectorOf(i) \in Connectors
      /\ UNCHANGED <<registered, code, pair, cut, stale, halved>>
      /\ call[w].stage = "none"
  BY DEF ResolveRefresh, GrantsNamed, ConnectorOf, Take
<1>2. CASE pair[i].refresh = "live"
  <2> DEFINE record == [Resting EXCEPT !.stage = "rotate", !.row = i, !.grants = {c}]
  <2>1. record \in CallRow
    BY <1>1 DEF Resting, CallRow
  <2>2. record.stage = "rotate" /\ record.row = i
    BY DEF Resting
  <2>3. call' = [call EXCEPT ![w] = record]
    BY <1>2 DEF ResolveRefresh, Take
  <2> HIDE DEF record
  <2> QED
    BY <1>1, <2>1, <2>2, <2>3, CallStep
<1>3. CASE pair[i].refresh # "live"
  <2> DEFINE record == [Resting EXCEPT !.stage = "walk", !.frontier = {i},
                                       !.targets = {ConnectorOf(i)}, !.grants = {c}]
  <2>1. record \in CallRow
    BY <1>1 DEF Resting, CallRow
  <2>2. record.stage = "walk" /\ record.frontier = {i} /\ record.grants = {c}
        /\ record.targets = {ConnectorOf(i)}
    BY DEF Resting
  <2>3. call' = [call EXCEPT ![w] = record]
    BY <1>3 DEF ResolveRefresh, Take
  <2> HIDE DEF record
  <2> QED
    BY <1>1, <2>1, <2>2, <2>3, CallStep
<1> QED
  BY <1>2, <1>3

LEMMA DisconnectKeeps ==
  ASSUME GrantInv, NEW w \in Calls, NEW p \in Providers, Disconnect(w, p)
  PROVE  GrantInv'
<1> USE DEF GrantInv
<1> DEFINE record == [Resting EXCEPT !.stage = "clients",
                        !.frontier = {i \in OfProvider(p) : Unrevoked(i)},
                        !.targets = {k \in Connectors : ProviderOf[k] = p},
                        !.grants = {pair[i].grant : i \in OfProvider(p)}]
<1>1. call[w].stage = "none" /\ call' = [call EXCEPT ![w] = record]
      /\ UNCHANGED <<registered, code, pair, cut, stale, halved>>
  BY DEF Disconnect, Take
<1>2. \A i \in OfProvider(p) :
        /\ i \in Issued /\ pair[i].grant \in Codes /\ code[pair[i].grant].state = "consumed"
        /\ ConnectorOf(i) = code[pair[i].grant].connector
        /\ ConnectorOf(i) \in {k \in Connectors : ProviderOf[k] = p}
  BY DEF OfProvider, GrantsNamed, ConnectorOf
<1>3. record \in CallRow
  BY <1>2 DEF Resting, CallRow, Issued
<1>4. record.stage = "clients" /\ record.frontier = {i \in OfProvider(p) : Unrevoked(i)}
      /\ record.targets = {k \in Connectors : ProviderOf[k] = p}
      /\ record.grants = {pair[i].grant : i \in OfProvider(p)}
  BY DEF Resting
<1>5. ASSUME NEW i \in Issued, pair[i].grant \in record.grants, Unrevoked(i)
      PROVE  i \in record.frontier
  <2>1. PICK j \in OfProvider(p) : pair[j].grant = pair[i].grant
    BY <1>4, <1>5
  <2> QED
    BY <1>4, <1>5, <2>1 DEF OfProvider, ConnectorOf
<1>6. \A f \in record.frontier : f \in Issued /\ ConnectorOf(f) \in record.targets
  BY <1>2, <1>4
<1>7. ASSUME NEW c \in record.grants
      PROVE  /\ code[c].state = "consumed" /\ code[c].connector \in record.targets
             /\ \E i \in Issued : pair[i].grant = c
  BY <1>2, <1>4
<1>8. record.stage = "clients"
  BY <1>4
<1> HIDE DEF record
<1> QED
  BY <1>1, <1>3, <1>5, <1>6, <1>7, <1>8, CallStep

LEMMA ListClientsKeeps ==
  ASSUME GrantInv, NEW w \in Calls, ListClients(w)
  PROVE  GrantInv'
<1> USE DEF GrantInv
<1> DEFINE found == {ConnectorOf(i) : i \in Issued} \cap call[w].targets
           record == [call[w] EXCEPT !.stage = "walk", !.targets = found]
<1>1. call[w].stage = "clients" /\ call[w] \in CallRow
      /\ UNCHANGED <<registered, code, pair, cut, stale, halved>>
  BY DEF ListClients, GrantTypeOK, CallRow
<1>2. CASE found = {}
  BY <1>1, <1>2, AnswerKeeps DEF ListClients
<1>3. CASE found # {}
  <2>1. call' = [call EXCEPT ![w] = record]
    BY <1>1, <1>3 DEF ListClients, GrantTypeOK
  <2>2. record \in CallRow
    BY <1>1 DEF CallRow
  <2>3. record.stage = "walk" /\ record.targets = found
        /\ record.frontier = call[w].frontier /\ record.grants = call[w].grants
    BY <1>1 DEF CallRow
  <2>4. \A f \in call[w].frontier : f \in Issued /\ ConnectorOf(f) \in found
    BY <1>1 DEF CallsNamed
  <2>5. ASSUME NEW c \in call[w].grants
        PROVE  code[c].state = "consumed" /\ code[c].connector \in found
    <3>1. PICK i \in Issued : pair[i].grant = c
      BY <1>1 DEF CallsNamed
    <3> QED
      BY <1>1, <3>1 DEF CallsNamed, ConnectorOf
  <2>6. \A i \in Issued :
          (pair[i].grant \in call[w].grants \ stale /\ Unrevoked(i)) =>
            \E f \in call[w].frontier : pair[f].grant = pair[i].grant
    BY <1>1 DEF WalksReach
  <2> HIDE DEF record, found
  <2> QED
    BY <1>1, <2>1, <2>2, <2>3, <2>4, <2>5, <2>6, CallStep
<1> QED
  BY <1>2, <1>3

-----------------------------------------------------------------------------
(* Steps that only write rows *)

\* Registering a connector changes nothing else.
LEMMA RegisterKeeps ==
  ASSUME GrantInv, NEW k \in Connectors, RegisterClient(k)
  PROVE  GrantInv'
<1>1. /\ registered' \subseteq Connectors
      /\ UNCHANGED <<code, pair, call, cut, stale, halved>>
  BY DEF RegisterClient, GrantInv, GrantTypeOK
<1>2. Issued' = Issued /\ (\A i : ConnectorOf(i)' = ConnectorOf(i))
      /\ (\A i : Unrevoked(i)' <=> Unrevoked(i)) /\ (\A i : Children(i)' = Children(i))
      /\ (\A c : Walking(c)' <=> Walking(c))
  BY <1>1 DEF Issued, ConnectorOf, Unrevoked, Children, Walking
<1> QED
  BY <1>1, <1>2 DEF GrantInv, GrantTypeOK, GrantsNamed, CallsNamed, Chains, WalksReach,
                    CutsHold, CutGrantsStayCut, UsableFollowed

\* A code appears or runs out: no code that was consumed changes.
LEMMA CodeKeeps ==
  ASSUME GrantInv, UNCHANGED <<registered, pair, call, cut, stale, halved>>,
         NEW c \in Codes, code[c].state \in {"none", "live"},
         NEW record \in [connector : Connectors, state : {"live", "expired"}],
         code[c].state = "live" => record.connector = code[c].connector,
         code' = [code EXCEPT ![c] = record]
  PROVE  GrantInv'
<1> USE DEF GrantInv
<1>1. \A d \in Codes \ {c} : code'[d] = code[d]
  BY DEF GrantTypeOK
<1>2. code'[c] = record
  BY DEF GrantTypeOK
<1>3. Issued' = Issued /\ (\A i : Unrevoked(i)' <=> Unrevoked(i))
      /\ (\A i : Children(i)' = Children(i)) /\ (\A k : Walking(k)' <=> Walking(k))
  BY DEF Issued, Unrevoked, Children, Walking
<1>4. \A i \in Issued : ConnectorOf(i)' = ConnectorOf(i)
  BY <1>1 DEF ConnectorOf, GrantsNamed
<1>5. GrantTypeOK'
  <2>1. code' \in [Codes -> [connector : Connectors \cup {Unissued},
                             state : {"none", "live", "expired", "consumed"}]]
    BY DEF GrantTypeOK
  <2> QED
    BY <2>1 DEF GrantTypeOK
<1>6. GrantsNamed'
  BY <1>1, <1>2, <1>3 DEF GrantsNamed
<1>7. CallsNamed'
  <2> SUFFICES ASSUME NEW w \in Calls
               PROVE  /\ call[w].stage \in {"redeem", "replay"} =>
                           /\ call[w].row \in Codes /\ code'[call[w].row].state # "none"
                           /\ call[w].grants = {call[w].row}
                      /\ call[w].stage = "replay" => code'[call[w].row].state = "consumed"
                      /\ call[w].stage = "rotate" => call[w].row \in Issued
                      /\ call[w].stage \in {"clients", "walk"} =>
                           /\ \A f \in call[w].frontier :
                                f \in Issued /\ ConnectorOf(f) \in call[w].targets
                           /\ \A d \in call[w].grants :
                                code'[d].state = "consumed" /\ code'[d].connector \in call[w].targets
                      /\ call[w].stage = "clients" =>
                           \A d \in call[w].grants : \E i \in Issued : pair[i].grant = d
    BY <1>3, <1>4 DEF CallsNamed
  <2>1. call[w].grants \subseteq Codes
    BY DEF GrantTypeOK
  <2> QED
    BY <1>1, <1>2, <2>1 DEF CallsNamed
<1>8. Chains' /\ WalksReach'
  BY <1>3 DEF Chains, WalksReach
<1>9. CutsHold'
  BY <1>1, <1>3 DEF CutsHold, CutGrantsStayCut, GrantTypeOK, Grants
<1>10. UsableFollowed'
  BY <1>3, <1>4 DEF UsableFollowed
<1> QED
  BY <1>5, <1>6, <1>7, <1>8, <1>9, <1>10

LEMMA ApproveKeeps ==
  ASSUME GrantInv, NEW k \in Connectors, Approve(k)
  PROVE  GrantInv'
<1>1. PICK c \in Codes :
        /\ IssuedCodes = 1..(c - 1)
        /\ code' = [code EXCEPT ![c] = [connector |-> k, state |-> "live"]]
  BY DEF Approve
<1>2. code[c].state = "none"
  BY <1>1, Ranges DEF IssuedCodes
<1> QED
  BY <1>1, <1>2, CodeKeeps DEF Approve

LEMMA ExpireCodeKeeps ==
  ASSUME GrantInv, NEW c \in Codes, ExpireCode(c)
  PROVE  GrantInv'
<1> DEFINE record == [code[c] EXCEPT !.state = "expired"]
<1>1. record \in [connector : Connectors, state : {"live", "expired"}]
      /\ record.connector = code[c].connector
  BY DEF ExpireCode, GrantInv, GrantTypeOK, GrantsNamed
<1>2. code' = [code EXCEPT ![c] = record]
  BY DEF ExpireCode, GrantInv, GrantTypeOK
<1> HIDE DEF record
<1> QED
  BY <1>1, <1>2, CodeKeeps DEF ExpireCode

\* What every write of a pair that is there leaves alone.
LEMMA PairsFade ==
  ASSUME GrantInv, UNCHANGED <<registered, code, stale>>,
         pair' \in [Pairs -> PairRow],
         \A j \in Pairs :
           /\ pair'[j].grant = pair[j].grant /\ pair'[j].from = pair[j].from
           /\ pair'[j].refresh = "none" <=> pair[j].refresh = "none"
           /\ pair'[j].access = "none" <=> pair[j].access = "none"
           /\ pair[j].refresh = "revoked" => pair'[j].refresh = "revoked"
  PROVE  /\ Issued' = Issued
         /\ \A j \in Pairs : ConnectorOf(j)' = ConnectorOf(j) /\ Children(j)' = Children(j)
         /\ \A j \in Pairs : Unrevoked(j)' => Unrevoked(j)
         /\ GrantsNamed' /\ Chains'
<1> USE DEF GrantInv
<1>1. Issued' = Issued
  BY DEF Issued
<1>2. \A j \in Pairs : ConnectorOf(j)' = ConnectorOf(j) /\ Children(j)' = Children(j)
  BY <1>1 DEF ConnectorOf, Children, Issued
<1>3. \A j \in Pairs : Unrevoked(j)' => Unrevoked(j)
  BY DEF Unrevoked, GrantTypeOK, PairRow, TokenStates
<1>4. Issued \subseteq Pairs
  BY DEF Issued
<1>5. GrantsNamed'
  <2>1. \A i \in Issued : pair[i].from # 0 => pair[i].from \in Pairs
    BY <1>4 DEF GrantsNamed
  <2> QED
    BY <1>1, <1>4, <2>1 DEF GrantsNamed
<1>6. Chains'
  BY <1>1, <1>2, <1>3, <1>4 DEF Chains
<1> QED
  BY <1>1, <1>2, <1>3, <1>5, <1>6

\* A row with another state of a token is a row.
LEMMA StateSaved ==
  ASSUME pair \in [Pairs -> PairRow], NEW i \in Pairs, NEW state \in TokenStates,
         \/ pair' = [pair EXCEPT ![i].access = state]
         \/ pair' = [pair EXCEPT ![i].refresh = state]
  PROVE  pair' \in [Pairs -> PairRow]
<1>1. PICK row : row = pair[i]
  OBVIOUS
<1>2. /\ [row EXCEPT !.access = state] \in PairRow
      /\ [row EXCEPT !.refresh = state] \in PairRow
  BY <1>1 DEF PairRow
<1>3. \/ pair' = [pair EXCEPT ![i] = [row EXCEPT !.access = state]]
      \/ pair' = [pair EXCEPT ![i] = [row EXCEPT !.refresh = state]]
  BY <1>1
<1> QED
  BY <1>2, <1>3

\* A pair's tokens run out.
LEMMA ExpiryKeeps ==
  ASSUME GrantInv, NEW i \in Pairs, ExpireAccess(i) \/ ExpireRefresh(i)
  PROVE  GrantInv'
<1> USE DEF GrantInv
<1>1. UNCHANGED <<registered, code, call, cut, stale, halved>>
  BY DEF ExpireAccess, ExpireRefresh
<1>2. pair \in [Pairs -> PairRow] /\ pair' \in [Pairs -> PairRow]
  <2>1. pair \in [Pairs -> PairRow] /\ "expired" \in TokenStates
    BY DEF GrantTypeOK, PairRow, TokenStates
  <2> QED
    BY <2>1, StateSaved DEF ExpireAccess, ExpireRefresh
<1>3. i \in Issued
  BY DEF ExpireAccess, ExpireRefresh, GrantsNamed, Issued
<1>4. \A j \in Pairs :
        /\ pair'[j].grant = pair[j].grant /\ pair'[j].from = pair[j].from
        /\ pair'[j].refresh = "none" <=> pair[j].refresh = "none"
        /\ pair'[j].refresh = "revoked" <=> pair[j].refresh = "revoked"
        /\ pair'[j].access = "none" <=> pair[j].access = "none"
        /\ pair'[j].access = "revoked" <=> pair[j].access = "revoked"
        /\ pair'[j].access = "live" => pair[j].access = "live"
  BY <1>2 DEF ExpireAccess, ExpireRefresh, PairRow
<1>5. /\ Issued' = Issued /\ Issued \subseteq Pairs
      /\ \A j \in Pairs : ConnectorOf(j)' = ConnectorOf(j)
      /\ \A j \in Pairs : Unrevoked(j)' => Unrevoked(j)
      /\ GrantsNamed' /\ Chains'
  BY <1>1, <1>2, <1>4, PairsFade DEF Issued
<1>6. GrantTypeOK'
  BY <1>1, <1>2 DEF GrantTypeOK, PairRow
<1>7. CallsNamed'
  BY <1>1, <1>4, <1>5 DEF CallsNamed
<1>8. WalksReach'
  <2>1. \A w \in Calls : call[w].stage \in {"clients", "walk"} => call[w].frontier \subseteq Pairs
    BY DEF GrantTypeOK
  <2> QED
    BY <1>1, <1>4, <1>5, <2>1 DEF WalksReach
<1>9. CutsHold'
  BY <1>1, <1>4, <1>5 DEF CutsHold, CutGrantsStayCut
<1>10. UsableFollowed'
  <2> SUFFICES ASSUME NEW j \in Issued, pair'[j].access = "live", ~halved,
                      ~Walking(ConnectorOf(j))
               PROVE  \E k \in Issued : /\ k >= j /\ pair'[k].grant = pair'[j].grant
                                        /\ pair'[k].refresh = "live"
    BY <1>1, <1>5 DEF UsableFollowed, Walking
  <2>1. PICK k \in Issued : k >= j /\ pair[k].grant = pair[j].grant /\ pair[k].refresh = "live"
    BY <1>4, <1>5 DEF UsableFollowed
  <2>2. CASE ExpireAccess(i)
    BY <1>2, <1>4, <1>5, <2>1, <2>2 DEF ExpireAccess, PairRow
  <2>3. CASE ExpireRefresh(i)
    <3>1. j \notin 1..i
      BY <1>4, <1>5, <2>3 DEF ExpireRefresh
    <3>2. k # i
      <4>1. i \in Nat /\ j \in Nat /\ k \in Nat /\ j >= 1
        BY <1>5, <2>1, Ranges
      <4> QED
        BY <2>1, <3>1, <4>1
    <3> QED
      BY <1>2, <1>4, <1>5, <2>1, <2>3, <3>2 DEF ExpireRefresh, PairRow
  <2> QED
    BY <2>2, <2>3
<1> QED
  BY <1>5, <1>6, <1>7, <1>8, <1>9, <1>10

-----------------------------------------------------------------------------
(* Revocation *)

LEMMA WalkKeeps ==
  ASSUME GrantInv, NEW w \in Calls, Walk(w)
  PROVE  GrantInv'
<1> USE DEF GrantInv
<1>1. PICK f \in call[w].frontier :
        /\ pair' = [pair EXCEPT ![f].refresh = "revoked"]
        /\ call' = [call EXCEPT ![w].frontier = (@ \ {f}) \cup Children(f)]
  BY DEF Walk
<1>2. UNCHANGED <<registered, code, cut, stale, halved>> /\ call[w].stage = "walk"
  BY DEF Walk
<1>3. f \in Issued /\ f \in Pairs /\ ConnectorOf(f) \in call[w].targets
      /\ Issued \subseteq Pairs
  BY <1>2 DEF CallsNamed, Issued
<1>4. pair \in [Pairs -> PairRow] /\ pair' \in [Pairs -> PairRow]
  <2>1. pair \in [Pairs -> PairRow] /\ "revoked" \in TokenStates
    BY DEF GrantTypeOK, PairRow, TokenStates
  <2> QED
    BY <1>1, <1>3, <2>1, StateSaved
<1>5. /\ pair'[f].refresh = "revoked" /\ pair'[f].grant = pair[f].grant
      /\ pair'[f].from = pair[f].from /\ pair'[f].access = pair[f].access
      /\ \A j \in Pairs \ {f} : pair'[j] = pair[j]
  BY <1>1, <1>3, <1>4 DEF PairRow
<1>6. /\ Issued' = Issued
      /\ \A j \in Pairs : ConnectorOf(j)' = ConnectorOf(j)
      /\ \A j \in Pairs : Unrevoked(j)' => Unrevoked(j)
      /\ GrantsNamed' /\ Chains'
  <2>1. \A j \in Pairs :
           /\ pair'[j].grant = pair[j].grant /\ pair'[j].from = pair[j].from
           /\ pair'[j].refresh = "none" <=> pair[j].refresh = "none"
           /\ pair'[j].access = "none" <=> pair[j].access = "none"
           /\ pair[j].refresh = "revoked" => pair'[j].refresh = "revoked"
    BY <1>3, <1>5 DEF Issued
  <2> QED
    BY <1>2, <1>4, <2>1, PairsFade
<1>7. call \in [Calls -> CallRow] /\ call' \in [Calls -> CallRow]
      /\ call'[w].stage = "walk" /\ call'[w].targets = call[w].targets
      /\ call'[w].grants = call[w].grants
      /\ call'[w].frontier = (call[w].frontier \ {f}) \cup Children(f)
      /\ \A v \in Calls \ {w} : call'[v] = call[v]
  <2>1. call \in [Calls -> CallRow]
    BY DEF GrantTypeOK, CallRow
  <2>2. Children(f) \subseteq Pairs
    BY <1>3 DEF Children
  <2> QED
    BY <1>1, <1>2, <2>1, <2>2 DEF CallRow
<1>8. \A k \in Children(f) :
        k \in Issued /\ pair[k].grant = pair[f].grant /\ ConnectorOf(k) = ConnectorOf(f)
  BY <1>3, Ranges DEF Children, GrantsNamed, ConnectorOf
<1>9. GrantTypeOK'
  BY <1>2, <1>4, <1>7 DEF GrantTypeOK, PairRow, CallRow
<1>10. CallsNamed'
  <2>1. ASSUME NEW v \in Calls, v # w
        PROVE  call'[v] = call[v] /\ (\A i \in Issued : pair'[i].grant = pair[i].grant)
    BY <1>3, <1>5, <1>7, <2>1
  <2>2. \A g \in call'[w].frontier : g \in Issued /\ ConnectorOf(g) \in call[w].targets
    BY <1>2, <1>3, <1>7, <1>8 DEF CallsNamed
  <2>3. \A v \in Calls : call[v].stage \in {"clients", "walk"} =>
          \A g \in call[v].frontier : g \in Pairs
    BY <1>3 DEF CallsNamed
  <2> QED
    BY <1>2, <1>3, <1>6, <1>7, <2>1, <2>2, <2>3 DEF CallsNamed
<1>11. WalksReach'
  <2> SUFFICES ASSUME NEW v \in Calls, call[v].stage \in {"clients", "walk"},
                      NEW i \in Issued, pair[i].grant \in call[v].grants \ stale,
                      Unrevoked(i)'
               PROVE  \E g \in call'[v].frontier : pair'[g].grant = pair[i].grant
    BY <1>2, <1>3, <1>5, <1>6, <1>7 DEF WalksReach
  <2>1. i # f /\ Unrevoked(i)
    BY <1>3, <1>5, <1>6 DEF Unrevoked
  <2>2. PICK g \in call[v].frontier : pair[g].grant = pair[i].grant
    BY <2>1 DEF WalksReach
  <2>3. g \in Pairs /\ pair'[g].grant = pair[g].grant
    BY <1>3, <1>5 DEF CallsNamed
  <2>4. CASE v # w \/ g # f
    BY <1>7, <2>2, <2>3, <2>4
  <2>5. CASE v = w /\ g = f
    <3>1. Children(f) # {}
      BY <1>3, <2>1, <2>2, <2>5 DEF Chains
    <3>2. PICK k \in Children(f) : TRUE
      BY <3>1
    <3>3. k \in call'[w].frontier /\ k \in Pairs /\ pair'[k].grant = pair[k].grant
      BY <1>3, <1>5, <1>7, <1>8, <3>2
    <3> QED
      BY <1>8, <2>2, <2>5, <3>3
  <2> QED
    BY <2>4, <2>5
<1>12. CutsHold'
  BY <1>2, <1>3, <1>5, <1>6 DEF CutsHold, CutGrantsStayCut
<1>13. UsableFollowed'
  <2> SUFFICES ASSUME NEW j \in Issued, pair[j].access = "live", ~halved,
                      ~Walking(ConnectorOf(j))'
               PROVE  \E k \in Issued : /\ k >= j /\ pair'[k].grant = pair'[j].grant
                                        /\ pair'[k].refresh = "live"
    BY <1>2, <1>3, <1>5, <1>6 DEF UsableFollowed
  <2>1. ~Walking(ConnectorOf(j)) /\ ConnectorOf(j) \notin call[w].targets
    BY <1>2, <1>3, <1>6, <1>7 DEF Walking
  <2>2. PICK k \in Issued : k >= j /\ pair[k].grant = pair[j].grant /\ pair[k].refresh = "live"
    BY <2>1 DEF UsableFollowed
  <2>3. k # f
    BY <1>3, <2>1, <2>2 DEF ConnectorOf
  <2> QED
    BY <1>3, <1>5, <2>2, <2>3
<1> QED
  BY <1>6, <1>9, <1>10, <1>11, <1>12, <1>13

LEMMA CutAccessKeeps ==
  ASSUME GrantInv, NEW w \in Calls, CutAccess(w)
  PROVE  GrantInv'
<1> USE DEF GrantInv
<1>1. /\ call[w].stage = "walk" /\ call[w].frontier = {}
      /\ pair' = [i \in Pairs |->
           IF i \in Issued /\ ConnectorOf(i) \in call[w].targets
           THEN [pair[i] EXCEPT !.access = "revoked"] ELSE pair[i]]
      /\ cut' = cut \cup call[w].grants
      /\ call' = [call EXCEPT ![w] = Resting]
      /\ UNCHANGED <<registered, code, stale, halved>>
  BY DEF CutAccess, Answer
<1>2. pair \in [Pairs -> PairRow] /\ pair' \in [Pairs -> PairRow] /\ Issued \subseteq Pairs
  BY <1>1 DEF GrantTypeOK, PairRow, TokenStates, Issued
<1>3. \A j \in Pairs :
        /\ pair'[j].grant = pair[j].grant /\ pair'[j].from = pair[j].from
        /\ pair'[j].refresh = pair[j].refresh
        /\ pair'[j].access = IF j \in Issued /\ ConnectorOf(j) \in call[w].targets
                            THEN "revoked" ELSE pair[j].access
  BY <1>1, <1>2 DEF PairRow
<1>4. GrantsNamed' /\ Chains' /\ Issued' = Issued
      /\ (\A j \in Pairs : ConnectorOf(j)' = ConnectorOf(j))
      /\ (\A j \in Pairs : Unrevoked(j)' <=> Unrevoked(j))
  <2>1. Issued' = Issued /\ (\A j \in Pairs : Unrevoked(j)' <=> Unrevoked(j))
        /\ (\A j \in Pairs : Children(j)' = Children(j))
        /\ (\A j \in Pairs : ConnectorOf(j)' = ConnectorOf(j))
    BY <1>1, <1>3 DEF Issued, Unrevoked, Children, ConnectorOf
  <2>2. GrantsNamed'
    <3>1. \A i \in Issued : pair[i].from # 0 => pair[i].from \in Pairs
      BY <1>2 DEF GrantsNamed
    <3>2. \A i \in Pairs \ Issued : pair'[i].access = "none"
      BY <1>3 DEF GrantsNamed, Issued
    <3>3. \A i \in Pairs : pair'[i].refresh = "none" => i \notin Issued
      BY <1>3 DEF Issued
    <3> QED
      BY <1>1, <1>2, <1>3, <2>1, <3>1, <3>2, <3>3 DEF GrantsNamed
  <2>3. Chains'
    BY <1>1, <1>2, <1>3, <2>1 DEF Chains
  <2> QED
    BY <2>1, <2>2, <2>3
<1>5. call' \in [Calls -> CallRow] /\ call'[w] = Resting
      /\ \A v \in Calls \ {w} : call'[v] = call[v]
  BY <1>1, RestingTyped DEF GrantTypeOK, CallRow
<1>6. GrantTypeOK'
  <2>1. call[w].grants \subseteq Codes
    BY DEF GrantTypeOK
  <2> QED
    BY <1>1, <1>2, <1>5, <2>1 DEF GrantTypeOK, PairRow, CallRow, Grants
<1>7. Resting.stage = "none"
  BY DEF Resting
<1>8. CallsNamed' /\ WalksReach'
  <2>1. \A v \in Calls : call[v].stage \in {"clients", "walk"} => call[v].frontier \subseteq Pairs
    BY <1>2 DEF CallsNamed
  <2>2. CallsNamed'
    BY <1>1, <1>2, <1>3, <1>4, <1>5, <1>7, <2>1 DEF CallsNamed
  <2>3. WalksReach'
    BY <1>1, <1>2, <1>3, <1>4, <1>5, <1>7, <2>1 DEF WalksReach
  <2> QED
    BY <2>2, <2>3
<1>9. CutsHold'
  <2>1. \A c \in call[w].grants : code[c].state = "consumed" /\ code[c].connector \in call[w].targets
    BY <1>1 DEF CallsNamed
  <2>2. ASSUME NEW i \in Issued, pair[i].grant \in call[w].grants \ stale
        PROVE  pair'[i].refresh = "revoked" /\ pair'[i].access = "revoked"
    <3>1. ~Unrevoked(i)
      BY <1>1, <2>2 DEF WalksReach
    <3>2. pair[i].refresh = "revoked"
      BY <1>2, <3>1 DEF Unrevoked, Issued, PairRow, TokenStates
    <3> QED
      BY <1>2, <1>3, <2>1, <2>2, <3>2 DEF ConnectorOf
  <2> QED
    BY <1>1, <1>2, <1>3, <1>4, <2>1, <2>2 DEF CutsHold, CutGrantsStayCut
<1>10. UsableFollowed'
  <2> SUFFICES ASSUME NEW j \in Issued, pair'[j].access = "live", ~halved,
                      ~Walking(ConnectorOf(j))'
               PROVE  \E k \in Issued : /\ k >= j /\ pair'[k].grant = pair'[j].grant
                                        /\ pair'[k].refresh = "live"
    BY <1>1, <1>2, <1>4 DEF UsableFollowed
  <2>1. ConnectorOf(j) \notin call[w].targets /\ pair[j].access = "live"
    BY <1>2, <1>3
  <2>2. ~Walking(ConnectorOf(j))
    BY <1>2, <1>4, <1>5, <2>1 DEF Walking
  <2> QED
    BY <1>2, <1>3, <2>1, <2>2 DEF UsableFollowed
<1> QED
  BY <1>4, <1>6, <1>8, <1>9, <1>10

LEMMA AbortKeeps ==
  ASSUME GrantInv, NEW w \in Calls, Abort(w)
  PROVE  GrantInv'
<1> USE DEF GrantInv
<1>1. /\ halved' = TRUE /\ call' = [call EXCEPT ![w] = Resting]
      /\ UNCHANGED <<registered, code, pair, cut, stale>>
  BY DEF Abort, Answer
<1>2. call' \in [Calls -> CallRow] /\ call'[w] = Resting
      /\ \A v \in Calls \ {w} : call'[v] = call[v]
  BY <1>1, RestingTyped DEF GrantTypeOK, CallRow
<1>3. Resting.stage = "none"
  BY DEF Resting
<1>4. Issued' = Issued /\ (\A i : ConnectorOf(i)' = ConnectorOf(i))
      /\ (\A i : Unrevoked(i)' <=> Unrevoked(i)) /\ (\A i : Children(i)' = Children(i))
  BY <1>1 DEF Issued, ConnectorOf, Unrevoked, Children
<1>5. GrantTypeOK'
  BY <1>1, <1>2 DEF GrantTypeOK, CallRow
<1>6. GrantsNamed' /\ Chains'
  BY <1>1, <1>4 DEF GrantsNamed, Chains
<1>7. CallsNamed' /\ WalksReach'
  BY <1>1, <1>2, <1>3, <1>4 DEF CallsNamed, WalksReach
<1>8. CutsHold' /\ UsableFollowed'
  BY <1>1, <1>4 DEF CutsHold, CutGrantsStayCut, UsableFollowed
<1> QED
  BY <1>5, <1>6, <1>7, <1>8

-----------------------------------------------------------------------------
(* Issuing *)

\* A request that issues a pair is answered, and the grant is stale from then on
\* or what it used was not retired.
LEMMA IssueKeeps ==
  ASSUME GrantInv, NEW w \in Calls, NEW grant \in Codes, NEW from \in Issued \cup {0},
         call[w].stage \in {"redeem", "rotate"}, Answer(w),
         IssuePair(grant, from),
         code[grant].state # "none",
         code' \in [Codes -> [connector : Connectors \cup {Unissued},
                             state : {"none", "live", "expired", "consumed"}]],
         code'[grant].state = "consumed" /\ code'[grant].connector = code[grant].connector,
         \A c \in Codes \ {grant} : code'[c] = code[c],
         UNCHANGED <<registered, cut, halved>>,
         stale \subseteq stale' /\ stale' \subseteq stale \cup {grant},
         from # 0 => pair[from].grant = grant,
         grant \notin stale' =>
           IF from = 0 THEN code[grant].state # "consumed" ELSE pair[from].refresh # "revoked"
  PROVE  GrantInv'
<1> USE DEF GrantInv
<1>1. pair \in [Pairs -> PairRow] /\ Issued \subseteq Pairs
  BY DEF GrantTypeOK, PairRow, Issued
<1>2. PICK n \in Pairs :
        /\ n \notin Issued /\ \A j \in Issued : j < n
        /\ Issued' = Issued \cup {n}
        /\ pair' \in [Pairs -> PairRow]
        /\ pair'[n] = [grant |-> grant, from |-> from, refresh |-> "live", access |-> "live"]
        /\ \A j \in Pairs \ {n} :
             /\ pair'[j].grant = pair[j].grant /\ pair'[j].from = pair[j].from
             /\ pair'[j].access = pair[j].access
             /\ pair'[j].refresh = IF j = from THEN "revoked" ELSE pair[j].refresh
  BY <1>1, IssueEffect
<1>3. call' \in [Calls -> CallRow] /\ call'[w] = Resting
      /\ \A v \in Calls \ {w} : call'[v] = call[v]
  BY RestingTyped DEF Answer, GrantTypeOK, CallRow
<1>4. Resting.stage = "none"
  BY DEF Resting
<1>5. \A j \in Issued : j \in Pairs \ {n} /\ ConnectorOf(j)' = ConnectorOf(j)
                         /\ (Unrevoked(j)' => Unrevoked(j) /\ j # from)
  BY <1>1, <1>2 DEF ConnectorOf, Unrevoked, GrantsNamed
<1>6. \A c \in Codes :
        /\ code[c].state = "consumed" => code'[c].state = "consumed"
        /\ code[c].state # "none" =>
             code'[c].state # "none" /\ code'[c].connector = code[c].connector
  OBVIOUS
<1>7. GrantTypeOK'
  <2>1. stale' \subseteq Grants
    BY DEF GrantTypeOK, Grants
  <2> QED
    BY <1>2, <1>3, <2>1 DEF GrantTypeOK, PairRow, CallRow
<1>8. GrantsNamed'
  <2>1. ASSUME NEW i \in Issued
        PROVE  /\ pair'[i].grant \in Codes /\ code'[pair'[i].grant].state = "consumed"
               /\ pair'[i].from # 0 =>
                    /\ pair'[i].from \in Issued' /\ pair'[i].from < i
                    /\ pair'[pair'[i].from].grant = pair'[i].grant
    <3>1. pair'[i].grant = pair[i].grant /\ pair'[i].from = pair[i].from
      BY <1>2, <1>5
    <3>2. pair[i].grant \in Codes /\ code'[pair[i].grant].state = "consumed"
      BY <1>6 DEF GrantsNamed
    <3>3. pair[i].from # 0 =>
            /\ pair[i].from \in Issued /\ pair[i].from < i
            /\ pair'[pair[i].from].grant = pair[i].grant
      BY <1>2, <1>5 DEF GrantsNamed
    <3> QED
      BY <1>2, <3>1, <3>2, <3>3
  <2>2. /\ pair'[n].grant \in Codes /\ code'[pair'[n].grant].state = "consumed"
        /\ pair'[n].from # 0 =>
             /\ pair'[n].from \in Issued' /\ pair'[n].from < n
             /\ pair'[pair'[n].from].grant = pair'[n].grant
    BY <1>2, <1>5
  <2>3. \A c \in Codes : code'[c].state # "none" => code'[c].connector \in Connectors
    BY DEF GrantsNamed
  <2>4. \A i \in Pairs : pair'[i].refresh = "none" => pair'[i].access = "none"
    BY <1>2 DEF GrantsNamed
  <2> QED
    BY <1>2, <2>1, <2>2, <2>3, <2>4 DEF GrantsNamed
<1>9. CallsNamed'
  <2> SUFFICES ASSUME NEW v \in Calls \ {w}
               PROVE  /\ call[v].stage \in {"redeem", "replay"} =>
                           /\ call[v].row \in Codes /\ code'[call[v].row].state # "none"
                           /\ call[v].grants = {call[v].row}
                      /\ call[v].stage = "replay" => code'[call[v].row].state = "consumed"
                      /\ call[v].stage = "rotate" => call[v].row \in Issued'
                      /\ call[v].stage \in {"clients", "walk"} =>
                           /\ \A f \in call[v].frontier :
                                f \in Issued' /\ ConnectorOf(f)' \in call[v].targets
                           /\ \A c \in call[v].grants :
                                code'[c].state = "consumed" /\ code'[c].connector \in call[v].targets
                      /\ call[v].stage = "clients" =>
                           \A c \in call[v].grants : \E i \in Issued' : pair'[i].grant = c
    BY <1>3, <1>4 DEF CallsNamed
  <2>1. call[v].grants \subseteq Codes
    BY DEF GrantTypeOK
  <2>2. CASE call[v].stage \in {"redeem", "replay", "rotate"}
    BY <1>2, <1>6, <2>2 DEF CallsNamed
  <2>3. CASE call[v].stage \in {"clients", "walk"}
    <3>1. \A c \in call[v].grants :
            code'[c].state = "consumed" /\ code'[c].connector \in call[v].targets
      BY <1>6, <2>1, <2>3 DEF CallsNamed
    <3>2. \A f \in call[v].frontier : f \in Issued' /\ ConnectorOf(f)' \in call[v].targets
      BY <1>2, <1>5, <2>3 DEF CallsNamed
    <3>3. call[v].stage = "clients" =>
            \A c \in call[v].grants : \E i \in Issued' : pair'[i].grant = c
      BY <1>2, <1>5, <2>3 DEF CallsNamed
    <3> QED
      BY <2>3, <3>1, <3>2, <3>3
  <2> QED
    BY <2>2, <2>3
\* In a grant that is not stale: the code was new, or the pair rotated from was
\* the last of the chain.
<1>10. ASSUME grant \notin stale', NEW i \in Issued, pair[i].grant = grant
       PROVE  /\ from \in Issued /\ Unrevoked(from) /\ Children(from) = {}
              /\ Children(i) = {} => i = from
  <2>1. from # 0
    BY <1>10 DEF GrantsNamed
  <2>2. from \in Issued /\ Unrevoked(from)
    BY <1>1, <1>10, <2>1 DEF Issued, Unrevoked, PairRow, TokenStates
  <2>3. Children(from) = {}
    BY <1>10, <2>1, <2>2 DEF Chains
  <2> QED
    BY <1>10, <2>1, <2>2, <2>3 DEF Chains
<1>11. \A j \in Issued : Children(j)' = IF j = from THEN Children(j) \cup {n} ELSE Children(j)
  BY <1>2, <1>5 DEF Children
<1>12. Children(n)' = {}
  <2>1. \A j \in Issued : pair[j].from # n
    BY <1>1, <1>2, Ranges DEF GrantsNamed
  <2>2. from # n
    BY <1>2, Ranges
  <2> QED
    BY <1>2, <1>5, <2>1, <2>2 DEF Children
<1>13. Chains'
  <2>1. ASSUME NEW i \in Issued, NEW j \in Issued,
               pair[i].grant = pair[j].grant, pair[i].grant \notin stale'
        PROVE  /\ pair[i].from = pair[j].from => i = j
               /\ Children(i)' = {} /\ Children(j)' = {} => i = j
    BY <1>11, <2>1 DEF Chains
  <2>2. ASSUME NEW i \in Issued, pair[i].grant = grant, grant \notin stale'
        PROVE  pair[i].from # from /\ Children(i)' # {}
    BY <1>10, <1>11, <2>2 DEF Children
  <2>3. ASSUME NEW i \in Issued, pair[i].grant \notin stale', Unrevoked(i)'
        PROVE  Children(i)' = {}
    BY <1>5, <1>11, <2>3 DEF Chains
  <2>4. \A i \in Issued : pair'[i].grant = pair[i].grant /\ pair'[i].from = pair[i].from
    BY <1>2, <1>5
  <2>5. pair'[n].grant = grant /\ pair'[n].from = from
    BY <1>2
  <2>6. \A i \in Issued' : i \in Issued \/ i = n
    BY <1>2
  <2>7. \A i, j \in Issued' :
          (pair'[i].grant = pair'[j].grant /\ pair'[i].grant \notin stale') =>
            /\ pair'[i].from = pair'[j].from => i = j
            /\ Children(i)' = {} /\ Children(j)' = {} => i = j
    BY <2>1, <2>2, <2>4, <2>5, <2>6
  <2>8. \A i \in Issued' :
          pair'[i].grant \notin stale' /\ Unrevoked(i)' => Children(i)' = {}
    BY <1>12, <2>3, <2>4, <2>5, <2>6
  <2> QED
    BY <2>7, <2>8 DEF Chains
<1>14. WalksReach'
  <2> SUFFICES ASSUME NEW v \in Calls \ {w}, call[v].stage \in {"clients", "walk"},
                      NEW i \in Issued', pair'[i].grant \in call[v].grants \ stale',
                      Unrevoked(i)'
               PROVE  \E f \in call[v].frontier : pair'[f].grant = pair'[i].grant
    BY <1>3, <1>4 DEF WalksReach
  <2>1. \A f \in call[v].frontier : pair'[f].grant = pair[f].grant
    BY <1>2, <1>5 DEF CallsNamed
  <2>2. CASE i \in Issued
    BY <1>2, <1>5, <2>1, <2>2 DEF WalksReach
  <2>3. CASE i = n
    <3>1. grant \in call[v].grants \ stale' /\ pair'[i].grant = grant
      BY <1>2, <2>3
    <3>2. from # 0
      BY <3>1 DEF CallsNamed
    <3>3. from \in Issued /\ Unrevoked(from)
      BY <1>1, <3>1, <3>2 DEF Issued, Unrevoked, PairRow, TokenStates
    <3> QED
      BY <2>1, <3>1, <3>2, <3>3 DEF WalksReach
  <2> QED
    BY <1>2, <2>2, <2>3
<1>15. CutsHold'
  <2>1. \A c \in cut : code'[c].state = "consumed"
    BY <1>6 DEF CutsHold, GrantTypeOK, Grants
  <2>2. grant \in cut => grant \in stale'
    <3> SUFFICES ASSUME grant \in cut, grant \notin stale' PROVE FALSE
      OBVIOUS
    <3>1. from # 0
      BY DEF CutsHold
    <3> QED
      BY <3>1 DEF CutsHold, CutGrantsStayCut
  <2>3. CutGrantsStayCut'
    BY <1>2, <1>5, <2>2 DEF CutsHold, CutGrantsStayCut
  <2> QED
    BY <2>1, <2>3 DEF CutsHold
<1>16. UsableFollowed'
  <2> SUFFICES ASSUME NEW j \in Issued', pair'[j].access = "live", ~halved,
                      ~Walking(ConnectorOf(j))'
               PROVE  \E k \in Issued' : /\ k >= j /\ pair'[k].grant = pair'[j].grant
                                         /\ pair'[k].refresh = "live"
    BY DEF UsableFollowed
  <2>1. CASE j = n
    BY <1>2, <2>1, Ranges
  <2>2. CASE j \in Issued
    <3>1. ~Walking(ConnectorOf(j))
      BY <1>3, <1>5, <2>2 DEF Walking
    <3>2. PICK k \in Issued : k >= j /\ pair[k].grant = pair[j].grant /\ pair[k].refresh = "live"
      BY <1>2, <1>5, <2>2, <3>1 DEF UsableFollowed
    <3>3. CASE k # from
      BY <1>2, <1>5, <2>2, <3>2, <3>3
    <3>4. CASE k = from
      <4>1. n >= j /\ pair'[n].grant = pair'[j].grant /\ pair'[n].refresh = "live"
        BY <1>1, <1>2, <1>5, <2>2, <3>2, <3>4, Ranges
      <4> QED
        BY <1>2, <4>1
    <3> QED
      BY <3>3, <3>4
  <2> QED
    BY <1>2, <2>1, <2>2
<1> QED
  BY <1>7, <1>8, <1>9, <1>13, <1>14, <1>15, <1>16

LEMMA RedeemCodeKeeps ==
  ASSUME GrantInv, NEW w \in Calls, RedeemCode(w)
  PROVE  GrantInv'
<1> USE DEF GrantInv
<1> DEFINE c == call[w].row
<1>1. call[w].stage = "redeem" /\ c \in Codes /\ code[c].state # "none"
  BY DEF RedeemCode, CallsNamed
<1>2. /\ code' = [code EXCEPT ![c].state = "consumed"] /\ IssuePair(c, 0) /\ Answer(w)
      /\ stale' = IF code[c].state = "consumed" THEN stale \cup {c} ELSE stale
      /\ UNCHANGED <<registered, cut, halved>>
  BY DEF RedeemCode
<1>3. /\ code' \in [Codes -> [connector : Connectors \cup {Unissued},
                              state : {"none", "live", "expired", "consumed"}]]
      /\ code'[c].state = "consumed" /\ code'[c].connector = code[c].connector
      /\ \A d \in Codes \ {c} : code'[d] = code[d]
  BY <1>1, <1>2 DEF GrantTypeOK
<1> HIDE DEF c
<1> QED
  BY <1>1, <1>2, <1>3, IssueKeeps

LEMMA RotateKeeps ==
  ASSUME GrantInv, NEW w \in Calls, Rotate(w)
  PROVE  GrantInv'
<1> USE DEF GrantInv
<1> DEFINE i == call[w].row
           c == pair[i].grant
<1>1. call[w].stage = "rotate" /\ i \in Issued
  BY DEF Rotate, CallsNamed
<1>2. /\ IssuePair(c, i) /\ Answer(w)
      /\ stale' = IF pair[i].refresh = "revoked" THEN stale \cup {c} ELSE stale
      /\ UNCHANGED <<registered, code, cut, halved>>
  BY DEF Rotate
<1>3. c \in Codes /\ code[c].state = "consumed"
      /\ code' \in [Codes -> [connector : Connectors \cup {Unissued},
                              state : {"none", "live", "expired", "consumed"}]]
      /\ i # 0
  BY <1>1, <1>2, Ranges DEF GrantsNamed, GrantTypeOK, Issued
<1> HIDE DEF c, i
<1>4. pair[i].grant = c
  BY DEF c
<1> QED
  BY <1>1, <1>2, <1>3, <1>4, IssueKeeps

-----------------------------------------------------------------------------
(* The invariant is one *)

LEMMA GrantStarts == GrantInit => GrantInv
<1> SUFFICES ASSUME GrantInit PROVE GrantInv
  OBVIOUS
<1>1. Issued = {}
  BY DEF GrantInit, Issued
<1>2. \A w \in Calls : call[w].stage = "none"
  BY DEF GrantInit, Resting
<1>3. GrantTypeOK
  BY RestingTyped DEF GrantInit, GrantTypeOK, TokenStates, CallRow
<1>4. GrantsNamed
  BY <1>1 DEF GrantInit, GrantsNamed
<1>5. CallsNamed /\ WalksReach
  BY <1>2 DEF CallsNamed, WalksReach
<1>6. Chains /\ UsableFollowed /\ CutsHold
  BY <1>1 DEF GrantInit, Chains, UsableFollowed, CutsHold, CutGrantsStayCut
<1> QED
  BY <1>3, <1>4, <1>5, <1>6 DEF GrantInv

LEMMA GrantStep == GrantInv /\ [GrantNext]_grantVars => GrantInv'
<1> SUFFICES ASSUME GrantInv, [GrantNext]_grantVars PROVE GrantInv'
  OBVIOUS
<1>1. ASSUME NEW k \in Connectors, RegisterClient(k) PROVE GrantInv'
  BY <1>1, RegisterKeeps
<1>2. ASSUME NEW k \in Connectors, Approve(k) PROVE GrantInv'
  BY <1>2, ApproveKeeps
<1>3. ASSUME NEW w \in Calls, TokenStep(w) PROVE GrantInv'
  BY <1>3, ResolveCodeKeeps, ResolveRefreshKeeps, RedeemCodeKeeps, ReplayCodeKeeps,
     RotateKeeps, WalkKeeps, CutAccessKeeps, AbortKeeps DEF TokenStep
<1>4. ASSUME NEW w \in Calls, ListClients(w) \/ \E p \in Providers : Disconnect(w, p)
      PROVE  GrantInv'
  BY <1>4, ListClientsKeeps, DisconnectKeeps
<1>5. ASSUME NEW c \in Codes, ExpireCode(c) PROVE GrantInv'
  BY <1>5, ExpireCodeKeeps
<1>6. ASSUME NEW i \in Pairs, ExpireAccess(i) \/ ExpireRefresh(i) PROVE GrantInv'
  BY <1>6, ExpiryKeeps
<1>7. CASE UNCHANGED grantVars
  <2>1. Issued' = Issued /\ (\A i : ConnectorOf(i)' = ConnectorOf(i))
        /\ (\A i : Unrevoked(i)' <=> Unrevoked(i)) /\ (\A i : Children(i)' = Children(i))
        /\ (\A k : Walking(k)' <=> Walking(k))
    BY <1>7 DEF grantVars, Issued, ConnectorOf, Unrevoked, Children, Walking
  <2> QED
    BY <1>7, <2>1 DEF grantVars, GrantInv, GrantTypeOK, GrantsNamed, CallsNamed, Chains,
                      WalksReach, CutsHold, CutGrantsStayCut, UsableFollowed
<1> QED
  BY <1>1, <1>2, <1>3, <1>4, <1>5, <1>6, <1>7 DEF GrantNext

-----------------------------------------------------------------------------
(* The theorems *)

\* The invariant holds in every state.
THEOREM GrantInvariance == GrantSpec => []GrantInv
BY GrantStarts, GrantStep, PTL DEF GrantSpec

\* Every variable keeps its type.
THEOREM GrantTypes == GrantSpec => []GrantTypeOK
<1>1. GrantInv => GrantTypeOK
  BY DEF GrantInv
<1> QED
  BY <1>1, GrantInvariance, PTL

\* A set whose elements are all the same has at most one.
LEMMA AtMostOne ==
  ASSUME NEW S, \A x, y \in S : x = y
  PROVE  ~(Cardinality(S) > 1)
<1>1. CASE S = {}
  BY <1>1, FS_EmptySet
<1>2. CASE S # {}
  <2>1. PICK x \in S : TRUE
    BY <1>2
  <2>2. S = {x}
    BY <2>1
  <2> QED
    BY <2>2, FS_Singleton
<1> QED
  BY <1>1, <1>2

\* Codes and refresh tokens are single-use (oauth_models.py), whatever is in
\* flight, where no redemption went through on a row that was retired since it
\* was read.
THEOREM SingleUse == GrantSpec => []YieldsOnePair
<1>1. GrantInv => YieldsOnePair
  <2> SUFFICES ASSUME GrantInv PROVE YieldsOnePair
    OBVIOUS
  <2>1. ASSUME NEW c \in Codes, c \notin stale PROVE ~(Cardinality(Roots(c)) > 1)
    BY <2>1, AtMostOne DEF Roots, GrantInv, Chains
  <2>2. ASSUME NEW i \in Issued, pair[i].grant \notin stale
        PROVE  ~(Cardinality(Children(i)) > 1)
    <3>1. \A j \in Children(i) : j \in Issued /\ pair[j].from = i /\ pair[j].grant = pair[i].grant
      BY Ranges DEF Children, GrantInv, GrantsNamed, Issued
    <3> QED
      BY <2>2, <3>1, AtMostOne DEF GrantInv, Chains
  <2> QED
    BY <2>1, <2>2 DEF YieldsOnePair
<1> QED
  BY <1>1, GrantInvariance, PTL

\* Once a replay or a disconnect has been answered nothing of the grant is left
\* (revoke_chain, disconnect_provider), whatever rotations crossed it, except of
\* a grant where a redemption went through on a row retired since it was read.
THEOREM CutsArePermanent == GrantSpec => []CutGrantsStayCut
<1>1. GrantInv => CutGrantsStayCut
  BY DEF GrantInv, CutsHold
<1> QED
  BY <1>1, GrantInvariance, PTL

\* An assistant shown as disconnected cannot act (connections_payload), but
\* while it is being disconnected.
THEOREM UsableIsConnected == GrantSpec => []ConnectedWhileUsable
<1>1. GrantInv => ConnectedWhileUsable
  <2> SUFFICES ASSUME GrantInv, NEW i \in Issued, pair[i].access = "live", ~halved,
                      ~Walking(ConnectorOf(i))
               PROVE  Connected(ProviderOf[ConnectorOf(i)])
    BY DEF ConnectedWhileUsable, Walking
  <2>1. PICK j \in Issued :
          j >= i /\ pair[j].grant = pair[i].grant /\ pair[j].refresh = "live"
    BY DEF GrantInv, UsableFollowed
  <2>2. ConnectorOf(j) = ConnectorOf(i)
    BY <2>1 DEF ConnectorOf
  <2> QED
    BY <2>1, <2>2 DEF Connected, OfProvider
<1> QED
  BY <1>1, GrantInvariance, PTL

\* No revocation reaches a connector that it is not about (revoke_chain,
\* disconnect_provider).
THEOREM OthersStay == GrantSpec => OthersAreSpared
<1> DEFINE Spared ==
      \A i \in Issued :
        \/ (pair'[i].refresh = "revoked") = (pair[i].refresh = "revoked")
             /\ (pair'[i].access = "revoked") = (pair[i].access = "revoked")
        \/ \E w \in Calls :
             /\ call'[w] # call[w]
             /\ \/ call[w].stage = "rotate" /\ call[w].row = i
                \/ ConnectorOf(i) \in call[w].targets
<1>1. GrantInv /\ [GrantNext]_grantVars => [Spared]_grantVars
  <2> SUFFICES ASSUME GrantInv, GrantNext PROVE Spared
    OBVIOUS
  <2> USE DEF GrantInv
  <2>1. pair \in [Pairs -> PairRow] /\ Issued \subseteq Pairs
        /\ call \in [Calls -> CallRow]
    BY DEF GrantTypeOK, PairRow, CallRow, Issued
  <2>2. ASSUME NEW grant \in Codes, NEW from \in Issued \cup {0}, IssuePair(grant, from),
               NEW w \in Calls, call'[w] # call[w],
               from # 0 => call[w].stage = "rotate" /\ call[w].row = from
        PROVE  Spared
    <3>1. PICK n \in Pairs :
            /\ n \notin Issued /\ \A j \in Issued : j < n
            /\ Issued' = Issued \cup {n}
            /\ pair' \in [Pairs -> PairRow]
            /\ pair'[n] = [grant |-> grant, from |-> from, refresh |-> "live", access |-> "live"]
            /\ \A j \in Pairs \ {n} :
                 /\ pair'[j].grant = pair[j].grant /\ pair'[j].from = pair[j].from
                 /\ pair'[j].access = pair[j].access
                 /\ pair'[j].refresh = IF j = from THEN "revoked" ELSE pair[j].refresh
      BY <2>1, <2>2, IssueEffect
    <3>2. \A j \in Issued :
            /\ pair'[j].access = pair[j].access
            /\ pair'[j].refresh = IF j = from THEN "revoked" ELSE pair[j].refresh
      BY <2>1, <3>1
    <3>3. ASSUME NEW j \in Issued, j = from
          PROVE  call'[w] # call[w] /\ call[w].stage = "rotate" /\ call[w].row = j
      BY <2>1, <2>2, <3>3, Ranges
    <3>4. ASSUME NEW j \in Issued, j # from
          PROVE  /\ (pair'[j].refresh = "revoked") = (pair[j].refresh = "revoked")
                 /\ (pair'[j].access = "revoked") = (pair[j].access = "revoked")
      BY <3>2, <3>4
    <3> QED
      BY <3>3, <3>4
  <2>3. ASSUME NEW w \in Calls, call[w].stage # "none", Answer(w)
        PROVE  call'[w] # call[w]
    BY <2>1, <2>3 DEF Answer, Resting
  <2>4. ASSUME NEW w \in Calls, RedeemCode(w) PROVE Spared
    BY <2>2, <2>3, <2>4 DEF RedeemCode, CallsNamed
  <2>5. ASSUME NEW w \in Calls, Rotate(w) PROVE Spared
    <3>1. call[w].row \in Issued /\ pair[call[w].row].grant \in Codes
      BY <2>5 DEF Rotate, CallsNamed, GrantsNamed
    <3> QED
      BY <2>2, <2>3, <2>5, <3>1 DEF Rotate
  <2>6. ASSUME NEW w \in Calls, Walk(w) PROVE Spared
    <3>1. PICK f \in call[w].frontier :
            /\ pair' = [pair EXCEPT ![f].refresh = "revoked"]
            /\ call' = [call EXCEPT ![w].frontier = (@ \ {f}) \cup Children(f)]
      BY <2>6 DEF Walk
    <3>2. f \in Issued /\ ConnectorOf(f) \in call[w].targets
      BY <2>6 DEF Walk, CallsNamed
    <3>3. f \notin Children(f)
      BY <2>1, <3>2, Ranges DEF Children, GrantsNamed
    <3>4. call'[w] # call[w]
      BY <2>1, <3>1, <3>3 DEF CallRow
    <3> QED
      BY <2>1, <3>1, <3>2, <3>4 DEF PairRow
  <2>7. ASSUME NEW w \in Calls, CutAccess(w) PROVE Spared
    <3>1. call'[w] # call[w]
      BY <2>3, <2>7 DEF CutAccess
    <3>2. \A i \in Issued :
            /\ pair'[i].refresh = pair[i].refresh
            /\ ConnectorOf(i) \notin call[w].targets => pair'[i].access = pair[i].access
      BY <2>1, <2>7 DEF CutAccess, PairRow
    <3> QED
      BY <3>1, <3>2
  <2>8. ASSUME NEW i \in Pairs, ExpireAccess(i) \/ ExpireRefresh(i) PROVE Spared
    <3>1. \A j \in Issued :
            /\ pair'[j].refresh = "revoked" <=> pair[j].refresh = "revoked"
            /\ pair'[j].access = "revoked" <=> pair[j].access = "revoked"
      BY <2>1, <2>8 DEF ExpireAccess, ExpireRefresh, PairRow
    <3> QED
      BY <3>1
  <2>9. CASE UNCHANGED pair
    BY <2>9
  <2> QED
    BY <2>4, <2>5, <2>6, <2>7, <2>8, <2>9
       DEF GrantNext, TokenStep, RegisterClient, Approve, ResolveCode, ReplayCode,
           ResolveRefresh, Abort, ListClients, Disconnect, ExpireCode
<1> QED
  BY <1>1, GrantInvariance, PTL DEF GrantSpec, OthersAreSpared

-----------------------------------------------------------------------------
(* Grants as keys *)

\* A key of a grant is its code or a refresh token issued in it.
LEMMA KeyIs ==
  ASSUME NEW c \in Codes, NEW states, NEW k
  PROVE  k \in Keys(c, states) <=>
           /\ c \notin stale
           /\ \/ k = 0 /\ code[c].state \in states
              \/ k \in Issued /\ pair[k].grant = c /\ pair[k].refresh \in states
BY DEF Keys

LEMMA NextKeyIs ==
  ASSUME NEW c \in Codes, NEW states, NEW k
  PROVE  k \in Keys(c, states)' <=>
           /\ c \notin stale'
           /\ \/ k = 0 /\ code'[c].state \in states
              \/ k \in Issued' /\ pair'[k].grant = c /\ pair'[k].refresh \in states
BY DEF Keys

KnownStates == {"live", "expired", "revoked", "consumed"}

\* What is shown of a grant depends on its code and its pairs only.
LEMMA ShownAlike ==
  ASSUME NEW c \in Codes, NEW states, c \in stale' <=> c \in stale,
         code'[c].state = code[c].state,
         \A i \in Pairs : pair'[i].grant = pair[i].grant /\ pair'[i].refresh = pair[i].refresh
  PROVE  Keys(c, states)' = Keys(c, states)
<1>1. Issued' = Issued
  BY DEF Issued
<1>2. \A k : k \in Keys(c, states)' <=> k \in Keys(c, states)
  BY <1>1, KeyIs, NextKeyIs DEF Issued
<1> QED
  BY <1>2

\* The redemption of a code or a refresh token exchanges a key that is still
\* there for the new pair, and forks the grant if it is not.
LEMMA IssueIsPromised ==
  ASSUME GrantInv, NEW w \in Calls, NEW grant \in Codes, NEW from \in Issued \cup {0},
         call[w].stage \in {"redeem", "rotate"}, Answer(w), IssuePair(grant, from),
         InHand[w] = <<grant, from>>,
         code[grant].state # "none", code'[grant].state = "consumed",
         \A c \in Codes \ {grant} : code'[c] = code[c],
         cut' = cut,
         from # 0 => pair[from].grant = grant /\ code[grant].state = "consumed",
         stale' = IF (from = 0 /\ code[grant].state = "consumed")
                        \/ (from # 0 /\ pair[from].refresh = "revoked")
                  THEN stale \cup {grant} ELSE stale
  PROVE  \/ \E n \in Pairs : Promised!Exchange(w, grant, from, n)
         \/ Promised!Fork(w, grant, from)
<1> USE DEF GrantInv
<1>1. /\ pair \in [Pairs -> PairRow] /\ Issued \subseteq Pairs /\ 0 \notin Pairs
      /\ code \in [Codes -> [connector : Connectors \cup {Unissued},
                             state : {"none", "live", "expired", "consumed"}]]
      /\ call \in [Calls -> CallRow]
  BY Ranges DEF GrantTypeOK, PairRow, CallRow, Issued
<1>2. PICK n \in Pairs :
        /\ n \notin Issued /\ \A j \in Issued : j < n
        /\ Issued' = Issued \cup {n}
        /\ pair' \in [Pairs -> PairRow]
        /\ pair'[n] = [grant |-> grant, from |-> from, refresh |-> "live", access |-> "live"]
        /\ \A j \in Pairs \ {n} :
             /\ pair'[j].grant = pair[j].grant /\ pair'[j].from = pair[j].from
             /\ pair'[j].access = pair[j].access
             /\ pair'[j].refresh = IF j = from THEN "revoked" ELSE pair[j].refresh
  BY <1>1, IssueEffect
<1>3. \A i \in Issued :
        /\ pair'[i].grant = pair[i].grant /\ pair'[i].access = pair[i].access
        /\ pair'[i].refresh = IF i = from THEN "revoked" ELSE pair[i].refresh
  BY <1>1, <1>2
<1>4. \A c \in Codes \ {grant} : c \in stale' <=> c \in stale
  OBVIOUS
\* The other grants.
<1>5. ASSUME NEW c \in Codes \ {grant}, NEW states
      PROVE  Keys(c, states)' = Keys(c, states)
  <2>1. from # 0 => pair[from].grant # c
    OBVIOUS
  <2>2. \A k : k \in Keys(c, states)' <=> k \in Keys(c, states)
    BY <1>1, <1>2, <1>3, <1>4, <2>1, KeyIs, NextKeyIs
  <2> QED
    BY <2>2
<1>6. \A c \in Codes \ {grant} : Usable'[c] = Usable[c]
  BY <1>1, <1>2, <1>3, <1>4 DEF Usable
\* The requests.
<1>7. InHand' = [InHand EXCEPT ![w] = Unissued]
  <2>1. call' = [call EXCEPT ![w] = Resting]
    BY DEF Answer
  <2>2. ASSUME NEW v \in Calls \ {w} PROVE InHand'[v] = InHand[v]
    <3>1. call'[v] = call[v] /\ (call[v].stage = "rotate" => call[v].row \in Issued)
      BY <1>1, <2>1 DEF CallsNamed
    <3> QED
      BY <1>3, <3>1 DEF InHand
  <2>3. InHand'[w] = Unissued
    BY <1>1, <2>1 DEF InHand, Resting
  <2>4. InHand' = [v \in Calls |-> InHand'[v]] /\ InHand = [v \in Calls |-> InHand[v]]
    BY DEF InHand
  <2> QED
    BY <2>2, <2>3, <2>4
<1>8. CASE grant \in stale'
  <2>1. \A states : Keys(grant, states)' = {}
    BY <1>8 DEF Keys
  <2>2. Usable'[grant] = {}
    BY <1>8 DEF Usable
  <2>3. from \notin Unspent[grant]
    <3>1. CASE grant \in stale
      BY <3>1 DEF Unspent, Keys
    <3>2. CASE grant \notin stale
      <4>1. from \notin Keys(grant, {"live", "expired"})
        BY <1>1, <1>8, <3>2, KeyIs
      <4> QED
        BY <4>1 DEF Unspent
    <3> QED
      BY <3>1, <3>2
  <2>4. /\ Known' = [Known EXCEPT ![grant] = {}] /\ Unspent' = [Unspent EXCEPT ![grant] = {}]
        /\ Valid' = [Valid EXCEPT ![grant] = {}]
    BY <1>5, <2>1 DEF Known, Unspent, Valid
  <2>5. Usable' = [Usable EXCEPT ![grant] = {}]
    <3>1. Usable' = [c \in Codes |-> Usable'[c]] /\ Usable = [c \in Codes |-> Usable[c]]
      BY DEF Usable
    <3> QED
      BY <1>6, <2>2, <3>1
  <2>6. stale' = stale \cup {grant} /\ (cut \ stale)' = (cut \ stale) \ {grant}
    BY <1>8
  <2> QED
    BY <1>7, <2>3, <2>4, <2>5, <2>6 DEF Promised!Fork
<1>9. CASE grant \notin stale'
  <2>1. grant \notin stale /\ stale' = stale /\ (cut \ stale)' = cut \ stale
    BY <1>9
  <2>2. from = 0 => code[grant].state \in {"live", "expired"}
    BY <1>1, <1>9
  <2>3. from # 0 => from \in Issued /\ pair[from].refresh \in {"live", "expired"}
    BY <1>1, <1>9 DEF PairRow, TokenStates, Issued
  <2>4. from \in Unspent[grant]
    <3>1. from \in Keys(grant, {"live", "expired"})
      BY <2>1, <2>2, <2>3, KeyIs
    <3> QED
      BY <3>1 DEF Unspent
  <2>5. \A c \in Codes : n \notin Known[c]
    BY <1>1, <1>2 DEF Known, Keys
  <2>6. Keys(grant, KnownStates)' = Keys(grant, KnownStates) \cup {n}
    <3>1. code[grant].state \in KnownStates /\ code'[grant].state \in KnownStates
      BY <1>1 DEF KnownStates
    <3>2. /\ \A i \in Issued : pair[i].refresh \in KnownStates
          /\ \A i \in Issued' : pair'[i].refresh \in KnownStates
      BY <1>1, <1>2 DEF KnownStates, PairRow, TokenStates, Issued
    <3>3. \A k : k \in Keys(grant, KnownStates)' <=> k \in Keys(grant, KnownStates) \cup {n}
      BY <1>2, <1>3, <2>1, <3>1, <3>2, KeyIs, NextKeyIs
    <3> QED
      BY <3>3
  <2>7. ASSUME NEW states, states = {"live", "expired"} \/ states = {"live"}
        PROVE  Keys(grant, states)' = (Keys(grant, states) \ {from}) \cup {n}
    <3>1. "live" \in states /\ "revoked" \notin states /\ "consumed" \notin states
      BY <2>7
    <3>2. 0 \notin Keys(grant, states)'
      BY <1>1, <1>2, <3>1, NextKeyIs
    <3>3. from # 0 => 0 \notin Keys(grant, states)
      BY <1>1, <3>1, KeyIs
    <3>4. ASSUME NEW k, k # 0
          PROVE  k \in Keys(grant, states)' <=> k \in (Keys(grant, states) \ {from}) \cup {n}
      <4>1. CASE k = n
        BY <1>2, <2>1, <3>1, <4>1, NextKeyIs
      <4>2. CASE k # n
        BY <1>2, <1>3, <2>1, <3>1, <3>4, <4>2, KeyIs, NextKeyIs
      <4> QED
        BY <4>1, <4>2
    <3>5. n # 0 /\ (0 \in (Keys(grant, states) \ {from}) \cup {n} <=> FALSE)
      BY <1>1, <3>3
    <3> QED
      BY <3>2, <3>4, <3>5
  <2>8. Usable'[grant] = Usable[grant] \cup {n}
    BY <1>1, <1>2, <1>3, <2>1 DEF Usable
  <2>9. Known' = [Known EXCEPT ![grant] = @ \cup {n}]
    BY <1>5, <2>6 DEF Known, KnownStates
  <2>10. /\ Unspent' = [Unspent EXCEPT ![grant] = (@ \ {from}) \cup {n}]
         /\ Valid' = [Valid EXCEPT ![grant] = (@ \ {from}) \cup {n}]
    BY <1>5, <2>7 DEF Unspent, Valid
  <2>11. Usable' = [Usable EXCEPT ![grant] = @ \cup {n}]
    <3>1. Usable' = [c \in Codes |-> Usable'[c]] /\ Usable = [c \in Codes |-> Usable[c]]
      BY DEF Usable
    <3> QED
      BY <1>6, <2>8, <3>1
  <2> QED
    BY <1>7, <2>1, <2>4, <2>5, <2>9, <2>10, <2>11 DEF Promised!Exchange
<1> QED
  BY <1>8, <1>9

\* Looking a row up puts a key that is valid in hand, or a grant is walked.
LEMMA LookupIsPromised ==
  ASSUME GrantInv, NEW w \in Calls, NEW c \in Codes, NEW k \in Pairs \cup {0},
         UNCHANGED <<code, pair, cut, stale>>,
         call[w].stage = "none", call' = [call EXCEPT ![w] = call'[w]],
         InHand'[w] = <<c, k>>,
         IF k = 0 THEN code[c].state = "live"
         ELSE k \in Issued /\ pair[k].refresh = "live" /\ pair[k].grant = c
  PROVE  Promised!Present(w, c, k)
<1>1. call \in [Calls -> CallRow]
  BY DEF GrantInv, GrantTypeOK, CallRow
<1>2. InHand[w] = Unissued
  BY DEF InHand
<1>3. InHand' = [InHand EXCEPT ![w] = <<c, k>>]
  <2>1. \A v \in Calls \ {w} : InHand'[v] = InHand[v]
    BY <1>1 DEF InHand
  <2>2. InHand' = [v \in Calls |-> InHand'[v]] /\ InHand = [v \in Calls |-> InHand[v]]
    BY DEF InHand
  <2> QED
    BY <2>1, <2>2
<1>4. k \in Valid[c] \/ c \in stale
  <2>1. k \in Keys(c, {"live"}) \/ c \in stale
    BY KeyIs
  <2> QED
    BY <2>1 DEF Valid
<1>5. Known' = Known /\ Unspent' = Unspent /\ Valid' = Valid /\ Usable' = Usable
  BY DEF Known, Unspent, Valid, Usable, Keys, Issued
<1> QED
  BY <1>2, <1>3, <1>4, <1>5 DEF Promised!Present

\* Rows run out or are revoked.
Losing ==
  /\ stale' = stale /\ cut \subseteq cut'
  /\ \A c \in Codes :
       \/ code'[c].state = code[c].state
       \/ code[c].state = "live" /\ code'[c].state = "expired"
  /\ Issued' = Issued
  /\ \A i \in Issued :
       /\ pair'[i].grant = pair[i].grant
       /\ \/ pair'[i].refresh \in {pair[i].refresh, "revoked"}
          \/ pair[i].refresh = "live" /\ pair'[i].refresh = "expired"
       /\ pair'[i].access = pair[i].access \/ pair'[i].access # "live"

\* What revokes and what runs out only takes away, and what an answered request
\* has cut has nothing left.
LEMMA LossIsPromised ==
  ASSUME GrantInv, GrantInv', InHand' = InHand, Losing
  PROVE  Promised!Fade
<1>1. ASSUME NEW c \in Codes
      PROVE  Keys(c, {"live", "expired"})' \subseteq Keys(c, {"live", "expired"})
  BY KeyIs, NextKeyIs DEF Losing
<1>2. ASSUME NEW c \in Codes
      PROVE  Keys(c, {"live"})' \subseteq Keys(c, {"live"})
  BY KeyIs, NextKeyIs DEF Losing
<1>3. ASSUME NEW c \in Codes
      PROVE  Keys(c, {"live"})' \subseteq Keys(c, {"live", "expired"})'
  BY NextKeyIs
<1>4. ASSUME NEW c \in Codes
      PROVE  Usable'[c] \subseteq Usable[c]
  BY DEF Usable, Losing
<1>5. ASSUME NEW c \in Codes
      PROVE  Keys(c, KnownStates)' = Keys(c, KnownStates)
  <2>1. \A i \in Issued : pair[i].refresh \in KnownStates /\ pair'[i].refresh \in KnownStates
    BY DEF GrantInv, GrantTypeOK, TokenStates, Issued, KnownStates, Losing
  <2>2. \A k : k \in Keys(c, KnownStates)' <=> k \in Keys(c, KnownStates)
    BY <2>1, KeyIs, NextKeyIs DEF KnownStates, Losing
  <2> QED
    BY <2>2
<1>6. Known' = Known
  BY <1>5 DEF Known, KnownStates
<1>7. ASSUME NEW c \in (cut \ stale)' PROVE c \in Codes /\ Unspent'[c] = {} /\ Usable'[c] = {}
  <2>1. c \in Codes /\ code'[c].state = "consumed"
    BY <1>7 DEF GrantInv, CutsHold, GrantTypeOK, Grants
  <2>2. \A i \in Issued' : pair'[i].grant = c =>
          pair'[i].refresh = "revoked" /\ pair'[i].access = "revoked"
    BY <1>7 DEF GrantInv, CutsHold, CutGrantsStayCut
  <2>3. \A k : k \notin Keys(c, {"live", "expired"})'
    BY <2>1, <2>2, NextKeyIs
  <2>4. Unspent'[c] = {}
    BY <2>1, <2>3 DEF Unspent
  <2>5. Usable'[c] = {}
    BY <2>1, <2>2 DEF Usable
  <2> QED
    BY <2>1, <2>4, <2>5
<1>8. \A c \in Codes : Unspent'[c] \subseteq Unspent[c]
  BY <1>1 DEF Unspent
<1>9. \A c \in Codes : Valid'[c] \subseteq Valid[c] /\ Valid'[c] \subseteq Unspent'[c]
  BY <1>2, <1>3 DEF Valid, Unspent
<1> QED
  BY <1>4, <1>6, <1>7, <1>8, <1>9 DEF Promised!Fade, Losing

\* Approval opens a grant with its code.
LEMMA ApproveIsPromised ==
  ASSUME GrantInv, NEW k \in Connectors, Approve(k)
  PROVE  (\E c \in Codes : Promised!Open(c)) \/ UNCHANGED Promised!vars
<1>1. PICK c \in Codes :
        /\ IssuedCodes = 1..(c - 1)
        /\ code' = [code EXCEPT ![c] = [connector |-> k, state |-> "live"]]
  BY DEF Approve
<1>2. /\ UNCHANGED <<pair, call, cut, stale>> /\ code[c].state = "none"
      /\ \A d \in Codes : code' [d] = IF d = c THEN [connector |-> k, state |-> "live"] ELSE code[d]
  <2>1. c \notin IssuedCodes
    BY <1>1, Ranges
  <2> QED
    BY <1>1, <2>1 DEF Approve, IssuedCodes, GrantInv, GrantTypeOK
<1>3. Issued' = Issued /\ \A i \in Issued : pair[i].grant # c
  BY <1>2 DEF Issued, GrantInv, GrantsNamed
<1>4. Usable' = Usable /\ InHand' = InHand /\ (cut \ stale)' = cut \ stale
  BY <1>2, <1>3 DEF Usable, InHand
<1>5. ASSUME NEW d \in Codes \ {c}, NEW states PROVE Keys(d, states)' = Keys(d, states)
  BY <1>2, <1>3 DEF Keys
<1>6. CASE c \in stale
  <2>1. \A states : Keys(c, states)' = Keys(c, states)
    BY <1>2, <1>6 DEF Keys
  <2>2. \A d \in Codes : \A states : Keys(d, states)' = Keys(d, states)
    BY <1>5, <2>1
  <2>3. Known' = Known /\ Unspent' = Unspent /\ Valid' = Valid
    BY <2>2 DEF Known, Unspent, Valid
  <2> QED
    BY <1>2, <1>4, <2>3 DEF Promised!vars
<1>7. CASE c \notin stale
  <2>1. ASSUME NEW states, "live" \in states PROVE Keys(c, states)' = {0}
    BY <1>2, <1>3, <1>7, <2>1 DEF Keys
  <2>2. Keys(c, KnownStates) = {}
    BY <1>2, <1>3 DEF Keys, KnownStates
  <2>3. Known' = [Known EXCEPT ![c] = {0}] /\ Known[c] = {}
    <3>1. /\ Keys(c, KnownStates)' = {0}
          /\ \A d \in Codes \ {c} : Keys(d, KnownStates)' = Keys(d, KnownStates)
      BY <1>5, <2>1 DEF KnownStates
    <3> QED
      BY <2>2, <3>1 DEF Known, KnownStates
  <2>4. Unspent' = [Unspent EXCEPT ![c] = {0}]
    <3>1. /\ Keys(c, {"live", "expired"})' = {0}
          /\ \A d \in Codes \ {c} :
               Keys(d, {"live", "expired"})' = Keys(d, {"live", "expired"})
      BY <1>5, <2>1
    <3> QED
      BY <3>1 DEF Unspent
  <2>5. Valid' = [Valid EXCEPT ![c] = {0}]
    <3>1. /\ Keys(c, {"live"})' = {0}
          /\ \A d \in Codes \ {c} : Keys(d, {"live"})' = Keys(d, {"live"})
      BY <1>5, <2>1
    <3> QED
      BY <3>1 DEF Valid
  <2> QED
    BY <1>2, <1>4, <2>3, <2>4, <2>5 DEF Promised!Open
<1> QED
  BY <1>6, <1>7

\* A step that leaves the tables alone, and no key in hand or out of it.
LEMMA NothingIsPromised ==
  ASSUME GrantInv, UNCHANGED <<code, pair, cut, stale>>, InHand' = InHand
  PROVE  UNCHANGED Promised!vars
<1>1. Known' = Known /\ Unspent' = Unspent /\ Valid' = Valid /\ Usable' = Usable
  BY DEF Known, Unspent, Valid, Usable, Keys, Issued
<1> QED
  BY <1>1 DEF Promised!vars

\* A request that has no key in hand before or after its step.
LEMMA NoneInHand ==
  ASSUME GrantInv, NEW w \in Calls, call' = [call EXCEPT ![w] = call'[w]],
         call[w].stage \notin {"redeem", "rotate"},
         call'[w].stage \notin {"redeem", "rotate"},
         \A i \in Issued : pair'[i].grant = pair[i].grant
  PROVE  InHand' = InHand
<1>1. call \in [Calls -> CallRow]
  BY DEF GrantInv, GrantTypeOK, CallRow
<1>2. ASSUME NEW v \in Calls PROVE InHand'[v] = InHand[v]
  <2>1. call[v].stage = "rotate" => call[v].row \in Issued
    BY DEF GrantInv, CallsNamed
  <2>2. v # w => call'[v] = call[v]
    BY <1>1
  <2> QED
    BY <2>1, <2>2 DEF InHand
<1>3. InHand' = [v \in Calls |-> InHand'[v]] /\ InHand = [v \in Calls |-> InHand[v]]
  BY DEF InHand
<1> QED
  BY <1>2, <1>3

\* The requests stay as they are.
LEMMA SameInHand ==
  ASSUME GrantInv, call' = call, \A i \in Issued : pair'[i].grant = pair[i].grant
  PROVE  InHand' = InHand
<1>1. \A v \in Calls : call[v].stage = "rotate" => call[v].row \in Issued
  BY DEF GrantInv, CallsNamed
<1>2. \A v \in Calls : InHand'[v] = InHand[v]
  BY <1>1 DEF InHand
<1>3. InHand' = [v \in Calls |-> InHand'[v]] /\ InHand = [v \in Calls |-> InHand[v]]
  BY DEF InHand
<1> QED
  BY <1>2, <1>3

LEMMA TokenStepIsPromised ==
  ASSUME GrantInv, GrantInv', NEW w \in Calls, TokenStep(w)
  PROVE  Promised!Next \/ UNCHANGED Promised!vars
<1>1. call \in [Calls -> CallRow] /\ Issued \subseteq Pairs /\ 0 \notin Pairs
      /\ pair \in [Pairs -> PairRow]
  BY Ranges DEF GrantInv, GrantTypeOK, CallRow, PairRow, Issued
<1>2. Answer(w) => call'[w] = Resting /\ call' = [call EXCEPT ![w] = call'[w]]
  BY <1>1 DEF Answer
<1>3. Resting.stage = "none"
  BY DEF Resting
<1>5. ASSUME NEW c \in Codes, ResolveCode(w, c)
      PROVE  Promised!Next \/ UNCHANGED Promised!vars
  <2>1. CASE code[c].state = "live"
    <3>1. call'[w].stage = "redeem" /\ call'[w].row = c /\ call[w].stage = "none"
          /\ call' = [call EXCEPT ![w] = call'[w]]
      BY <1>1, <1>5, <2>1 DEF ResolveCode, Resting, Take
    <3>2. InHand'[w] = <<c, 0>>
      BY <3>1 DEF InHand
    <3>3. Promised!Present(w, c, 0)
      BY <1>5, <2>1, <3>1, <3>2, LookupIsPromised DEF ResolveCode
    <3> QED
      BY <3>3 DEF Promised!Next
  <2>2. CASE code[c].state # "live"
    <3>1. call'[w].stage = "replay" /\ call[w].stage = "none"
          /\ call' = [call EXCEPT ![w] = call'[w]]
      BY <1>1, <1>5, <2>2 DEF ResolveCode, Resting, Take
    <3> QED
      BY <1>5, <3>1, NoneInHand, NothingIsPromised DEF ResolveCode
  <2> QED
    BY <2>1, <2>2
<1>6. ASSUME NEW i \in Pairs, ResolveRefresh(w, i)
      PROVE  Promised!Next \/ UNCHANGED Promised!vars
  <2>1. i \in Issued /\ i # 0 /\ pair[i].grant \in Codes /\ pair' = pair
    BY <1>1, <1>6 DEF ResolveRefresh, GrantInv, GrantsNamed
  <2>2. CASE pair[i].refresh = "live"
    <3>1. call'[w].stage = "rotate" /\ call'[w].row = i /\ call[w].stage = "none"
          /\ call' = [call EXCEPT ![w] = call'[w]]
      BY <1>1, <1>6, <2>2 DEF ResolveRefresh, Resting, Take
    <3>2. InHand'[w] = <<pair[i].grant, i>>
      BY <2>1, <3>1 DEF InHand
    <3>3. Promised!Present(w, pair[i].grant, i)
      BY <1>6, <2>1, <2>2, <3>1, <3>2, LookupIsPromised DEF ResolveRefresh
    <3> QED
      BY <2>1, <3>3 DEF Promised!Next
  <2>3. CASE pair[i].refresh # "live"
    <3>1. call'[w].stage = "walk" /\ call[w].stage = "none"
          /\ call' = [call EXCEPT ![w] = call'[w]]
      BY <1>1, <1>6, <2>3 DEF ResolveRefresh, Resting, Take
    <3> QED
      BY <1>6, <3>1, NoneInHand, NothingIsPromised DEF ResolveRefresh
  <2> QED
    BY <2>2, <2>3
<1>7. ASSUME RedeemCode(w) PROVE Promised!Next
  <2> DEFINE c == call[w].row
  <2>1. /\ call[w].stage = "redeem" /\ c \in Codes /\ code[c].state # "none"
        /\ Answer(w) /\ IssuePair(c, 0) /\ cut' = cut
        /\ stale' = IF code[c].state = "consumed" THEN stale \cup {c} ELSE stale
    BY <1>7 DEF RedeemCode, GrantInv, CallsNamed
  <2>2. code'[c].state = "consumed" /\ \A d \in Codes \ {c} : code'[d] = code[d]
    BY <1>7, <2>1 DEF RedeemCode, GrantInv, GrantTypeOK
  <2>3. InHand[w] = <<c, 0>>
    BY <2>1 DEF InHand
  <2> HIDE DEF c
  <2>4. (\E n \in Pairs : Promised!Exchange(w, c, 0, n)) \/ Promised!Fork(w, c, 0)
    BY <2>1, <2>2, <2>3, IssueIsPromised
  <2> QED
    BY <2>1, <2>4 DEF Promised!Next
<1>8. ASSUME Rotate(w) PROVE Promised!Next
  <2> DEFINE i == call[w].row
             c == pair[i].grant
  <2>1. /\ call[w].stage = "rotate" /\ i \in Issued
        /\ Answer(w) /\ IssuePair(c, i) /\ cut' = cut /\ code' = code
        /\ stale' = IF pair[i].refresh = "revoked" THEN stale \cup {c} ELSE stale
    BY <1>8 DEF Rotate, GrantInv, CallsNamed
  <2>2. i # 0 /\ i \in Pairs /\ c \in Codes /\ code[c].state = "consumed"
    BY <1>1, <2>1 DEF GrantInv, GrantsNamed
  <2>3. InHand[w] = <<c, i>>
    BY <2>1 DEF InHand
  <2>4. pair[i].grant = c
    OBVIOUS
  <2> HIDE DEF c, i
  <2>5. (\E n \in Pairs : Promised!Exchange(w, c, i, n)) \/ Promised!Fork(w, c, i)
    BY <2>1, <2>2, <2>3, <2>4, IssueIsPromised
  <2> QED
    BY <2>2, <2>5 DEF Promised!Next
<1>9. ASSUME ReplayCode(w) PROVE UNCHANGED Promised!vars
  <2>1. call'[w].stage = "walk" /\ call[w].stage = "replay"
        /\ call' = [call EXCEPT ![w] = call'[w]]
    BY <1>1, <1>9 DEF ReplayCode, CallRow
  <2> QED
    BY <1>9, <2>1, NoneInHand, NothingIsPromised DEF ReplayCode
<1>10. ASSUME Walk(w) PROVE Promised!Next
  <2>1. PICK f \in call[w].frontier :
          /\ pair' = [pair EXCEPT ![f].refresh = "revoked"]
          /\ call' = [call EXCEPT ![w].frontier = (@ \ {f}) \cup Children(f)]
    BY <1>10 DEF Walk
  <2>2. f \in Issued
    BY <1>10 DEF Walk, GrantInv, CallsNamed
  <2>3. /\ \A i \in Pairs :
             /\ pair'[i].grant = pair[i].grant /\ pair'[i].access = pair[i].access
             /\ pair'[i].refresh = IF i = f THEN "revoked" ELSE pair[i].refresh
        /\ Issued' = Issued
    BY <1>1, <2>1, <2>2 DEF PairRow, Issued
  <2>4. call'[w].stage = "walk" /\ call[w].stage = "walk"
        /\ call' = [call EXCEPT ![w] = call'[w]]
    BY <1>1, <1>10, <2>1 DEF Walk, CallRow
  <2>5. InHand' = InHand
    BY <1>1, <2>3, <2>4, NoneInHand
  <2>6. Losing
    BY <1>1, <1>10, <2>3 DEF Losing, Walk
  <2>7. Promised!Fade
    BY <2>5, <2>6, LossIsPromised
  <2> QED
    BY <2>7 DEF Promised!Next
<1>11. ASSUME CutAccess(w) PROVE Promised!Next
  <2>1. /\ \A i \in Pairs :
             /\ pair'[i].grant = pair[i].grant /\ pair'[i].refresh = pair[i].refresh
             /\ pair'[i].access = pair[i].access \/ pair'[i].access = "revoked"
        /\ Issued' = Issued
    BY <1>1, <1>11 DEF CutAccess, PairRow, Issued
  <2>2. InHand' = InHand
    BY <1>1, <1>2, <1>3, <1>11, <2>1, NoneInHand DEF CutAccess
  <2>3. Losing
    BY <1>1, <1>11, <2>1 DEF Losing, CutAccess
  <2>4. Promised!Fade
    BY <2>2, <2>3, LossIsPromised
  <2> QED
    BY <2>4 DEF Promised!Next
<1>12. ASSUME Abort(w) PROVE UNCHANGED Promised!vars
  BY <1>2, <1>3, <1>12, NoneInHand, NothingIsPromised DEF Abort
<1> QED
  BY <1>5, <1>6, <1>7, <1>8, <1>9, <1>10, <1>11, <1>12 DEF TokenStep

LEMMA OtherStepIsPromised ==
  ASSUME GrantInv, GrantInv'
  PROVE  /\ \A k \in Connectors : RegisterClient(k) => UNCHANGED Promised!vars
         /\ \A w \in Calls :
              ListClients(w) \/ (\E p \in Providers : Disconnect(w, p))
                => UNCHANGED Promised!vars
         /\ \A c \in Codes : ExpireCode(c) => Promised!Next
         /\ \A i \in Pairs : ExpireAccess(i) \/ ExpireRefresh(i) => Promised!Next
<1>1. call \in [Calls -> CallRow] /\ pair \in [Pairs -> PairRow] /\ Issued \subseteq Pairs
  BY DEF GrantInv, GrantTypeOK, CallRow, PairRow, Issued
<1>2. ASSUME NEW k \in Connectors, RegisterClient(k) PROVE UNCHANGED Promised!vars
  BY <1>2, SameInHand, NothingIsPromised DEF RegisterClient
<1>3. ASSUME NEW w \in Calls, ListClients(w) PROVE UNCHANGED Promised!vars
  <2>1. call'[w].stage \in {"none", "walk"} /\ call' = [call EXCEPT ![w] = call'[w]]
        /\ call[w].stage = "clients"
    BY <1>1, <1>3 DEF ListClients, Answer, Resting, CallRow
  <2> QED
    BY <1>3, <2>1, NoneInHand, NothingIsPromised DEF ListClients
<1>4. ASSUME NEW w \in Calls, NEW p \in Providers, Disconnect(w, p)
      PROVE  UNCHANGED Promised!vars
  <2>1. call'[w].stage = "clients" /\ call' = [call EXCEPT ![w] = call'[w]]
        /\ call[w].stage = "none"
    BY <1>1, <1>4 DEF Disconnect, Take, Resting
  <2> QED
    BY <1>4, <2>1, NoneInHand, NothingIsPromised DEF Disconnect
<1>5. ASSUME NEW c \in Codes, ExpireCode(c) PROVE Promised!Next
  <2>1. /\ UNCHANGED <<pair, call, cut, stale>> /\ Issued' = Issued
        /\ \A d \in Codes : code'[d].state = IF d = c THEN "expired" ELSE code[d].state
        /\ code[c].state = "live"
    BY <1>5 DEF ExpireCode, Issued, GrantInv, GrantTypeOK
  <2>2. InHand' = InHand
    BY <2>1, SameInHand
  <2>3. Losing
    BY <2>1 DEF Losing
  <2>4. Promised!Fade
    BY <2>2, <2>3, LossIsPromised
  <2> QED
    BY <2>4 DEF Promised!Next
<1>6. ASSUME NEW i \in Pairs, ExpireAccess(i) \/ ExpireRefresh(i) PROVE Promised!Next
  <2>1. /\ UNCHANGED <<code, call, cut, stale>>
        /\ \A j \in Pairs :
             /\ pair'[j].grant = pair[j].grant
             /\ \/ pair'[j].refresh = pair[j].refresh
                \/ pair[j].refresh = "live" /\ pair'[j].refresh = "expired"
             /\ pair'[j].access = pair[j].access \/ pair'[j].access = "expired"
    BY <1>1, <1>6 DEF ExpireAccess, ExpireRefresh, PairRow
  <2>2. Issued' = Issued
    BY <2>1 DEF Issued
  <2>3. InHand' = InHand
    BY <1>1, <2>1, SameInHand
  <2>4. Losing
    BY <1>1, <2>1, <2>2 DEF Losing
  <2>5. Promised!Fade
    BY <2>3, <2>4, LossIsPromised
  <2> QED
    BY <2>5 DEF Promised!Next
<1> QED
  BY <1>2, <1>3, <1>4, <1>5, <1>6

\* Codes and refresh tokens are keys of which a grant has one at a time
\* (oauth_views.py), and a grant that revoke_chain or disconnect_provider has cut
\* gets none any more: the tables and requests implement GrantKeys.
THEOREM KeysImplemented == GrantSpec => ImplementsGrantKeys
<1>1. GrantInit => Promised!Init
  <2> SUFFICES ASSUME GrantInit PROVE Promised!Init
    OBVIOUS
  <2>1. Issued = {} /\ \A c \in Codes : code[c].state = "none"
    BY DEF GrantInit, Issued
  <2>2. \A c \in Codes : /\ Keys(c, {"live", "expired", "revoked", "consumed"}) = {}
                         /\ Keys(c, {"live", "expired"}) = {} /\ Keys(c, {"live"}) = {}
    BY <2>1 DEF Keys
  <2>3. InHand = [w \in Calls |-> Unissued]
    BY DEF GrantInit, InHand, Resting
  <2>4. Known = [c \in Codes |-> {}] /\ Unspent = Known /\ Valid = Known
    BY <2>2 DEF Known, Unspent, Valid
  <2>5. Usable = [c \in Codes |-> {}]
    BY <2>1 DEF Usable
  <2> QED
    BY <2>3, <2>4, <2>5 DEF Promised!Init, GrantInit
<1>2. GrantInv /\ GrantInv' /\ [GrantNext]_grantVars => [Promised!Next]_(Promised!vars)
  <2> SUFFICES ASSUME GrantInv, GrantInv', [GrantNext]_grantVars
               PROVE  Promised!Next \/ UNCHANGED Promised!vars
    OBVIOUS
  <2>1. ASSUME NEW k \in Connectors, Approve(k)
        PROVE  Promised!Next \/ UNCHANGED Promised!vars
    BY <2>1, ApproveIsPromised DEF Promised!Next
  <2>2. CASE UNCHANGED grantVars
    <3>1. InHand' = InHand
      BY <2>2 DEF grantVars, InHand
    <3> QED
      BY <2>2, <3>1, NothingIsPromised DEF grantVars
  <2> QED
    BY <2>1, <2>2, TokenStepIsPromised, OtherStepIsPromised DEF GrantNext
<1> QED
  BY <1>1, <1>2, GrantInvariance, PTL DEF GrantSpec, ImplementsGrantKeys, Promised!Spec
=============================================================================
