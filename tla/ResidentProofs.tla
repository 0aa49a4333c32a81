--------------------------- MODULE ResidentProofs ---------------------------
(***************************************************************************)
(* Proofs, for any number of people, hostels, institutes and requests in   *)
(* flight, that a student lives in a hostel of the own institute, that     *)
(* the committee's requests stay with the students of their scope, that a  *)
(* suspension in force ends only by those who may end it, and that the two *)
(* flags of a disabled student agree unless a save came between them.      *)
(***************************************************************************)
EXTENDS Residents, TLAPS

-----------------------------------------------------------------------------
(* The invariant *)

SheetRows ==
  [op : {"none", "import", "assign", "disable", "enable", "suspend", "unsuspend", "edit"},
   stage : {"none", "rows", "save", "account"},
   scope : Scopes, who : People \cup {NoOne}, row : StudentRows, known : SUBSET Hostels]

Own(h, i) == h \in uprooted \/ house[h].institute = i

\* What a request in flight has loaded still holds of the tables: nothing moves
\* a student to another institute, and a hostel leaves one only by being moved.
Loaded(r) ==
  /\ r.stage = "none" => r = Empty
  /\ r.stage = "rows" =>
       /\ r.who = NoOne /\ r.row.institute \in Institutes
       /\ r.scope \in {NoOne, r.row.institute}
       /\ \A h \in r.known : Own(h, r.row.institute)
  /\ r.stage \in {"save", "account"} =>
       /\ r.who \in People /\ folk[r.who].account # "none"
       /\ r.row.institute = folk[r.who].institute
       /\ r.scope \in {NoOne, folk[r.who].institute}
  /\ r.stage = "save" /\ r.op = "edit" =>
       r.row.home \in Hostels /\ Own(r.row.home, r.row.institute)

\* Of a student's row: the rules of whoever enrolled the student hold.
Enrolment(p) ==
  /\ folk[p].account = "none" => folk[p].ends = 0
  /\ folk[p].account # "none" =>
       /\ folk[p].institute \in AllowedAt[p]
       /\ Own(folk[p].home, folk[p].institute)

ResidentInv ==
  ResidentTypeOK /\ (\A s \in Sheets : Loaded(sheet[s])) /\ (\A p \in People : Enrolment(p))

LEMMA ResidentStarts == ResidentsInit => ResidentInv
BY ResidentAssumption
   DEF ResidentsInit, ResidentInv, ResidentTypeOK, StudentRows, Scopes, Loaded, Enrolment,
       NoStudent, Empty

-----------------------------------------------------------------------------
(* Every step keeps it *)

\* One hostel is written.
LEMMA HouseKeeps ==
  ASSUME ResidentInv, NEW h \in Hostels, NEW x \in [institute : Institutes, active : BOOLEAN],
         house' = [house EXCEPT ![h] = x],
         uprooted \subseteq uprooted', uprooted' \subseteq Hostels,
         house[h].institute \in {NoOne, x.institute} \/ h \in uprooted',
         UNCHANGED <<day, folk, sheet, crossed>>
  PROVE  ResidentInv'
<1> USE ResidentAssumption DEF ResidentInv
<1>1. ResidentTypeOK'
  BY DEF ResidentTypeOK, Scopes
<1>2. ASSUME NEW g \in Hostels, NEW i \in Institutes, Own(g, i)
      PROVE  Own(g, i)'
  BY <1>2 DEF Own, ResidentTypeOK
<1>3. ASSUME NEW p \in People PROVE Enrolment(p)'
  BY <1>2 DEF Enrolment, ResidentTypeOK
<1>4. ASSUME NEW s \in Sheets PROVE Loaded(sheet[s])'
  <2>1. sheet[s] \in SheetRows /\ sheet'[s] = sheet[s]
    BY DEF ResidentTypeOK, SheetRows
  <2>2. sheet[s].known \subseteq Hostels
    BY <2>1 DEF SheetRows
  <2>3. sheet[s].stage = "save" => sheet[s].row.institute \in Institutes
    BY DEF Loaded, ResidentTypeOK
  <2> QED
    BY <1>2, <2>1, <2>2, <2>3 DEF Loaded
<1> QED
  BY <1>1, <1>3, <1>4

\* One student is written, and requests end or go on to the account.
LEMMA FolkKeeps ==
  ASSUME ResidentInv, NEW p \in People, NEW row \in StudentRows,
         folk' = [folk EXCEPT ![p] = row],
         row.account # "none", row.institute \in AllowedAt[p],
         row.home \in Hostels, Own(row.home, row.institute),
         folk[p].account # "none" => row.institute = folk[p].institute,
         sheet' \in [Sheets -> SheetRows],
         \A s \in Sheets :
           \/ sheet'[s] \in {sheet[s], Empty}
           \/ sheet[s].stage = "save" /\ sheet'[s] = [sheet[s] EXCEPT !.stage = "account"],
         UNCHANGED <<day, house, uprooted, crossed>>
  PROVE  ResidentInv'
<1> USE ResidentAssumption DEF ResidentInv
<1>1. row.institute \in Institutes
  OBVIOUS
<1>2. ResidentTypeOK'
  BY <1>1 DEF ResidentTypeOK, SheetRows
<1>3. ASSUME NEW q \in People PROVE Enrolment(q)'
  BY DEF Enrolment, Own, ResidentTypeOK
<1>4. ASSUME NEW q \in People, folk[q].account # "none"
      PROVE  folk'[q].account # "none" /\ folk'[q].institute = folk[q].institute
  BY <1>4 DEF ResidentTypeOK
<1>5. ASSUME NEW s \in Sheets PROVE Loaded(sheet[s])'
  <2>1. sheet[s] \in SheetRows /\ Loaded(sheet[s])
    BY DEF ResidentTypeOK, SheetRows
  <2>2. CASE sheet'[s] = sheet[s]
    BY <1>4, <2>1, <2>2 DEF Loaded, Own
  <2>3. CASE sheet'[s] = Empty
    BY <2>3 DEF Loaded, Empty
  <2>4. CASE sheet[s].stage = "save" /\ sheet'[s] = [sheet[s] EXCEPT !.stage = "account"]
    BY <1>4, <2>1, <2>4 DEF Loaded, Own, SheetRows
  <2> QED
    BY <2>2, <2>3, <2>4
<1> QED
  BY <1>2, <1>3, <1>5

\* One request goes on, and no row is written.
LEMMA SheetKeeps ==
  ASSUME ResidentInv, NEW s \in Sheets, NEW r \in SheetRows, Loaded(r),
         sheet' = [sheet EXCEPT ![s] = r], crossed' \subseteq People,
         UNCHANGED <<day, folk, house, uprooted>>
  PROVE  ResidentInv'
<1> USE ResidentAssumption DEF ResidentInv
<1>1. ResidentTypeOK'
  BY DEF ResidentTypeOK, SheetRows
<1>2. \A p \in People : Enrolment(p)'
  BY DEF Enrolment, Own
<1>3. \A q \in Sheets : Loaded(sheet[q])'
  BY DEF Loaded, Own, ResidentTypeOK
<1> QED
  BY <1>1, <1>2, <1>3

LEMMA NoStudentIsARow == NoStudent \in StudentRows
<1>1. 0 \in 0..LastDay
  BY ResidentAssumption
<1> QED
  BY <1>1 DEF NoStudent, StudentRows, Scopes

LEMMA EmptyIsARow == Empty \in SheetRows
BY NoStudentIsARow DEF Empty, SheetRows, Scopes

\* What BeginImport writes.
Importing(i, scope, known) ==
  [Empty EXCEPT !.op = "import", !.stage = "rows", !.scope = scope, !.row.institute = i,
                !.known = known]

LEMMA ImportSheet ==
  ASSUME NEW i \in Scopes, NEW scope \in Scopes, NEW known \in SUBSET Hostels
  PROVE  /\ Importing(i, scope, known) \in SheetRows
         /\ Importing(i, scope, known).op = "import"
         /\ Importing(i, scope, known).stage = "rows"
         /\ Importing(i, scope, known).scope = scope
         /\ Importing(i, scope, known).who = NoOne
         /\ Importing(i, scope, known).row.institute = i
         /\ Importing(i, scope, known).known = known
<1>1. PICK e : e = Empty
  OBVIOUS
<1>2. e \in SheetRows /\ e.who = NoOne
  BY <1>1, EmptyIsARow DEF Empty
<1>3. PICK r : r = [e EXCEPT !.op = "import", !.stage = "rows", !.scope = scope,
                             !.row.institute = i, !.known = known]
  OBVIOUS
<1> DEFINE x == [e.row EXCEPT !.institute = i]
<1>4. x \in StudentRows /\ x.institute = i
  BY <1>2 DEF StudentRows, SheetRows
<1>5. r = [e EXCEPT !.op = "import", !.stage = "rows", !.scope = scope, !.row = x,
                    !.known = known]
  BY <1>2, <1>3 DEF SheetRows
<1> HIDE DEF x
<1>6. /\ r \in SheetRows /\ r.op = "import" /\ r.stage = "rows" /\ r.scope = scope
      /\ r.who = NoOne /\ r.row.institute = i /\ r.known = known
  BY <1>2, <1>4, <1>5 DEF SheetRows
<1>7. r = Importing(i, scope, known)
  BY <1>1, <1>3 DEF Importing
<1> QED
  BY <1>6, <1>7

LEMMA HostelsKeep ==
  ASSUME ResidentInv, NEW h \in Hostels, NEW scope \in Scopes,
         CreateHostel(scope, h) \/ SetHostelActive(scope, h) \/ MoveHostel(scope, h)
  PROVE  ResidentInv'
<1> USE ResidentAssumption DEF ResidentInv
<1>0. house \in [Hostels -> [institute : Scopes, active : BOOLEAN]] /\ uprooted \subseteq Hostels
  BY DEF ResidentTypeOK
<1>1. CASE CreateHostel(scope, h)
  <2>1. PICK i \in Institutes : house' = [house EXCEPT ![h] = [institute |-> i, active |-> TRUE]]
    BY <1>1 DEF CreateHostel
  <2> QED
    BY <1>1, <2>1, HouseKeeps, <1>0 DEF CreateHostel
<1>2. CASE SetHostelActive(scope, h)
  <2>1. house' = [house EXCEPT ![h] = [house[h] EXCEPT !.active = ~@]]
        /\ [house[h] EXCEPT !.active = ~@] \in [institute : Institutes, active : BOOLEAN]
        /\ [house[h] EXCEPT !.active = ~@].institute = house[h].institute
    BY <1>0, <1>2 DEF SetHostelActive, Scopes
  <2> QED
    BY <1>0, <1>2, <2>1, HouseKeeps DEF SetHostelActive
<1>3. CASE MoveHostel(scope, h)
  <2>1. PICK i \in Institutes : house' = [house EXCEPT ![h].institute = i]
    BY <1>3 DEF MoveHostel
  <2>2. house' = [house EXCEPT ![h] = [house[h] EXCEPT !.institute = i]]
        /\ [house[h] EXCEPT !.institute = i] \in [institute : Institutes, active : BOOLEAN]
    BY <1>0, <2>1
  <2>3. uprooted' = uprooted \cup {h} /\ UNCHANGED <<day, folk, sheet, crossed>>
    BY <1>3 DEF MoveHostel
  <2> QED
    BY <1>0, <2>2, <2>3, HouseKeeps
<1> QED
  BY <1>1, <1>2, <1>3

LEMMA EnrolKeeps ==
  ASSUME ResidentInv, NEW p \in People, NEW i \in AllowedAt[p], NEW h \in Hostels,
         folk[p].account = "none",
         Own(h, i), folk' = [folk EXCEPT ![p] = Enrolled(i, h)],
         UNCHANGED <<day, house, sheet, uprooted, crossed>>
  PROVE  ResidentInv'
<1>1. i \in Institutes
  BY ResidentAssumption
<1>2. Enrolled(i, h) \in StudentRows
  BY <1>1, ResidentAssumption DEF Enrolled, StudentRows, Scopes
<1>3. sheet' \in [Sheets -> SheetRows]
  BY DEF ResidentInv, ResidentTypeOK, SheetRows
<1> QED
  BY <1>2, <1>3, FolkKeeps DEF Enrolled

LEMMA NewStudentsKeep ==
  ASSUME ResidentInv, NEW p \in People,
         \/ SignUp(p)
         \/ \E scope \in Scopes : CreateStudent(scope, p)
         \/ \E s \in Sheets : ImportRow(s, p)
  PROVE  ResidentInv'
<1>1. CASE SignUp(p)
  BY <1>1, EnrolKeeps DEF SignUp, OpenHostels, HostelsOf, Own
<1>2. ASSUME NEW scope \in Scopes, CreateStudent(scope, p) PROVE ResidentInv'
  BY <1>2, EnrolKeeps DEF CreateStudent, HostelsOf, Own
<1>3. ASSUME NEW s \in Sheets, ImportRow(s, p) PROVE ResidentInv'
  <2>1. PICK h \in sheet[s].known :
          folk' = [folk EXCEPT ![p] = Enrolled(sheet[s].row.institute, h)]
    BY <1>3 DEF ImportRow
  <2>2. h \in Hostels /\ Own(h, sheet[s].row.institute)
    BY <1>3, <2>1 DEF ImportRow, ResidentInv, ResidentTypeOK, Loaded
  <2> QED
    BY <1>3, <2>1, <2>2, EnrolKeeps DEF ImportRow
<1> QED
  BY <1>1, <1>2, <1>3

LEMMA LoadsKeep ==
  ASSUME ResidentInv, NEW s \in Sheets, NEW p \in People, NEW scope \in Scopes,
         NEW op \in {"assign", "disable", "enable", "suspend", "unsuspend", "edit"},
         folk[p].account # "none", scope \in {folk[p].institute, NoOne}, Load(s, op, scope, p)
  PROVE  ResidentInv'
<1> DEFINE row == IF op = "edit" THEN folk[p] ELSE [NoStudent EXCEPT !.institute = folk[p].institute]
           r == [Empty EXCEPT !.op = op, !.stage = "save", !.scope = scope, !.who = p, !.row = row]
<1>1. folk[p] \in StudentRows /\ Enrolment(p)
      /\ folk[p].institute \in Institutes /\ folk[p].home \in Hostels
  BY DEF ResidentInv, ResidentTypeOK
<1>2. row \in StudentRows /\ row.institute = folk[p].institute /\ (op = "edit" => row = folk[p])
  BY <1>1, NoStudentIsARow DEF StudentRows
<1>3. sheet' = [sheet EXCEPT ![s] = r] /\ crossed' \subseteq People
      /\ UNCHANGED <<day, folk, house, uprooted>>
  BY DEF Load, ResidentInv, ResidentTypeOK
<1> HIDE DEF row
<1>4. /\ r \in SheetRows /\ r.op = op /\ r.stage = "save" /\ r.scope = scope
      /\ r.who = p /\ r.row = row
  BY <1>2, EmptyIsARow DEF SheetRows
<1>5. Loaded(r)
  BY <1>1, <1>2, <1>4 DEF Loaded, Enrolment
<1> HIDE DEF r
<1> QED
  BY <1>3, <1>4, <1>5, SheetKeeps

\* A request of the committee is about a student that is enrolled, and so is a
\* profile edit; each save writes the columns named and keeps the rest.
LEMMA SavesKeep ==
  ASSUME ResidentInv, NEW s \in Sheets,
         \/ SaveAssign(s) \/ SaveSuspend(s) \/ SaveUnsuspend(s)
         \/ SaveActive(s) \/ SaveAccount(s) \/ SaveProfile(s)
  PROVE  ResidentInv'
<1> DEFINE p == sheet[s].who
           old == folk[p]
<1>0. /\ sheet \in [Sheets -> SheetRows] /\ folk \in [People -> StudentRows]
      /\ day \in Nat /\ LastDay \in Nat
  BY ResidentAssumption DEF ResidentInv, ResidentTypeOK, SheetRows
<1>1. sheet[s].stage \in {"save", "account"}
  BY DEF SaveAssign, SaveSuspend, SaveUnsuspend, SaveActive, SaveAccount, SaveProfile
<1>2. /\ p \in People /\ old.account # "none" /\ sheet[s].row.institute = old.institute
      /\ Enrolment(p) /\ old.home \in Hostels
  BY <1>1 DEF ResidentInv, ResidentTypeOK, Loaded
<1>3. old \in StudentRows /\ old.institute \in AllowedAt[p] /\ Own(old.home, old.institute)
  BY <1>0, <1>2 DEF Enrolment
<1>4. Conclude(s) =>
        /\ sheet' \in [Sheets -> SheetRows]
        /\ \A q \in Sheets : sheet'[q] \in {sheet[q], Empty}
  BY <1>0, EmptyIsARow DEF Conclude
<1>5. CASE SaveAssign(s)
  <2>1. PICK h \in HostelsOf(sheet[s].row.institute) : folk' = [folk EXCEPT ![p].home = h]
    BY <1>5 DEF SaveAssign
  <2>2. folk' = [folk EXCEPT ![p] = [old EXCEPT !.home = h]]
    BY <1>0, <1>2, <2>1
  <2>3. h \in Hostels /\ Own(h, old.institute)
    BY <1>2, <2>1 DEF HostelsOf, Own
  <2> DEFINE new == [old EXCEPT !.home = h]
  <2>4. new \in StudentRows
    BY <1>3, <2>3 DEF StudentRows
  <2>5. new.account = old.account /\ new.institute = old.institute /\ new.home = h
    BY <1>3 DEF StudentRows
  <2>6. folk' = [folk EXCEPT ![p] = new]
    BY <2>2
  <2>7. Conclude(s) /\ UNCHANGED <<day, house, uprooted, crossed>>
    BY <1>5 DEF SaveAssign
  <2> HIDE DEF new
  <2> QED
    BY <1>2, <1>3, <1>4, <2>3, <2>4, <2>5, <2>6, <2>7, FolkKeeps
<1>6. ASSUME NEW d \in 0..LastDay, folk' = [folk EXCEPT ![p].ends = d],
             Conclude(s), UNCHANGED <<day, house, uprooted, crossed>>
      PROVE  ResidentInv'
  <2>1. folk' = [folk EXCEPT ![p] = [old EXCEPT !.ends = d]]
    BY <1>0, <1>2, <1>6
  <2>2. [old EXCEPT !.ends = d] \in StudentRows
    BY <1>3 DEF StudentRows
  <2>3. /\ [old EXCEPT !.ends = d].account = old.account
        /\ [old EXCEPT !.ends = d].institute = old.institute
        /\ [old EXCEPT !.ends = d].home = old.home
    BY <1>3 DEF StudentRows
  <2> QED
    BY <1>2, <1>3, <1>4, <1>6, <2>1, <2>2, <2>3, FolkKeeps
<1>7. CASE SaveSuspend(s)
  <2>1. PICK d \in (day + 1)..LastDay : folk' = [folk EXCEPT ![p].ends = d]
    BY <1>7 DEF SaveSuspend
  <2>2. d \in 0..LastDay
    BY <1>0, <2>1
  <2> QED
    BY <1>6, <1>7, <2>1, <2>2 DEF SaveSuspend
<1>8. CASE SaveUnsuspend(s)
  <2>1. 0 \in 0..LastDay
    BY <1>0
  <2> QED
    BY <1>6, <1>8, <2>1 DEF SaveUnsuspend
<1>9. CASE SaveActive(s)
  <2> DEFINE b == sheet[s].op = "enable"
  <2>1. folk' = [folk EXCEPT ![p] = [old EXCEPT !.active = b]]
    BY <1>0, <1>2, <1>9 DEF SaveActive
  <2>2. [old EXCEPT !.active = b] \in StudentRows
    BY <1>3 DEF StudentRows
  <2>3. /\ [old EXCEPT !.active = b].account = old.account
        /\ [old EXCEPT !.active = b].institute = old.institute
        /\ [old EXCEPT !.active = b].home = old.home
    BY <1>3 DEF StudentRows
  <2>4. /\ sheet[s].stage = "save"
        /\ sheet' = [sheet EXCEPT ![s] = [sheet[s] EXCEPT !.stage = "account"]]
        /\ UNCHANGED <<day, house, uprooted, crossed>>
    BY <1>0, <1>9 DEF SaveActive
  <2>5. [sheet[s] EXCEPT !.stage = "account"] \in SheetRows
    BY <1>0 DEF SheetRows
  <2>6. /\ sheet' \in [Sheets -> SheetRows]
        /\ \A q \in Sheets :
             \/ sheet'[q] \in {sheet[q], Empty}
             \/ sheet[q].stage = "save" /\ sheet'[q] = [sheet[q] EXCEPT !.stage = "account"]
    BY <1>0, <2>4, <2>5
  <2> HIDE DEF b
  <2> QED
    BY <1>2, <1>3, <2>1, <2>2, <2>3, <2>4, <2>6, FolkKeeps
<1>10. CASE SaveAccount(s)
  <2> DEFINE a == IF sheet[s].op = "enable" THEN "on" ELSE "off"
  <2>1. folk' = [folk EXCEPT ![p] = [old EXCEPT !.account = a]]
    BY <1>0, <1>2, <1>10 DEF SaveAccount
  <2>2. [old EXCEPT !.account = a] \in StudentRows
    BY <1>3 DEF StudentRows
  <2>3. /\ [old EXCEPT !.account = a].account # "none"
        /\ [old EXCEPT !.account = a].institute = old.institute
        /\ [old EXCEPT !.account = a].home = old.home
    BY <1>3 DEF StudentRows
  <2> HIDE DEF a
  <2> QED
    BY <1>2, <1>3, <1>4, <1>10, <2>1, <2>2, <2>3, FolkKeeps DEF SaveAccount
<1>11. CASE SaveProfile(s)
  <2> DEFINE mine == [sheet[s].row EXCEPT !.account = old.account]
  <2>1. sheet[s].row \in StudentRows /\ sheet[s].row.home \in Hostels
        /\ Own(sheet[s].row.home, old.institute)
    BY <1>0, <1>2, <1>11 DEF SaveProfile, ResidentInv, Loaded, SheetRows
  <2>2. mine.institute = old.institute /\ mine.home = sheet[s].row.home
        /\ mine.account = old.account /\ mine \in StudentRows
    BY <1>2, <1>3, <2>1 DEF StudentRows
  <2>3. PICK h \in {mine.home} \cup OpenHostels(mine.institute) :
          folk' = [folk EXCEPT ![p] = [mine EXCEPT !.home = h]]
    BY <1>11 DEF SaveProfile
  <2>4. h \in Hostels /\ Own(h, old.institute)
    BY <2>1, <2>2, <2>3 DEF OpenHostels, HostelsOf, Own
  <2> DEFINE new == [mine EXCEPT !.home = h]
  <2>5. new \in StudentRows
    BY <2>2, <2>4 DEF StudentRows
  <2>6. new.account = old.account /\ new.institute = old.institute /\ new.home = h
    BY <2>2 DEF StudentRows
  <2>7. folk' = [folk EXCEPT ![p] = new]
    BY <2>3
  <2> HIDE DEF new
  <2> QED
    BY <1>2, <1>3, <1>4, <1>11, <2>4, <2>5, <2>6, <2>7, FolkKeeps DEF SaveProfile
<1> QED
  BY <1>5, <1>7, <1>8, <1>9, <1>10, <1>11

LEMMA ResidentStep == ResidentInv /\ [ResidentsNext]_residentVars => ResidentInv'
<1> SUFFICES ASSUME ResidentInv, [ResidentsNext]_residentVars PROVE ResidentInv'
  OBVIOUS
<1>1. ASSUME NEW s \in Sheets, NEW scope \in Scopes, BeginImport(s, scope)
      PROVE  ResidentInv'
  <2>1. PICK i \in Institutes :
          /\ scope \in {i, NoOne}
          /\ sheet' = [sheet EXCEPT ![s] = [Empty EXCEPT !.op = "import", !.stage = "rows",
               !.scope = scope, !.row.institute = i, !.known = OpenHostels(i)]]
    BY <1>1 DEF BeginImport
  <2> DEFINE r == Importing(i, scope, OpenHostels(i))
  <2>2. sheet' = [sheet EXCEPT ![s] = r]
    BY <2>1 DEF Importing
  <2>3. OpenHostels(i) \in SUBSET Hostels /\ i \in Scopes
    BY DEF OpenHostels, HostelsOf, Scopes
  <2>4. /\ r \in SheetRows /\ r.op = "import" /\ r.stage = "rows" /\ r.scope = scope
        /\ r.who = NoOne /\ r.row.institute = i /\ r.known = OpenHostels(i)
    BY <2>3, ImportSheet
  <2> HIDE DEF r
  <2>5. Loaded(r)
    BY <2>1, <2>4 DEF Loaded, OpenHostels, HostelsOf, Own
  <2>6. crossed' \subseteq People /\ UNCHANGED <<day, folk, house, uprooted>>
    BY <1>1 DEF BeginImport, ResidentInv, ResidentTypeOK
  <2> QED
    BY <2>2, <2>4, <2>5, <2>6, SheetKeeps
<1>2. ASSUME NEW s \in Sheets, EndImport(s) \/ Abandon(s) PROVE ResidentInv'
  <2>1. sheet' = [sheet EXCEPT ![s] = Empty] /\ UNCHANGED <<day, folk, house, uprooted>>
    BY <1>2 DEF EndImport, Abandon, Conclude
  <2>2. crossed' \subseteq People
    BY <1>2 DEF EndImport, Abandon, ResidentInv, ResidentTypeOK, Loaded
  <2>3. Loaded(Empty)
    BY DEF Loaded, Empty
  <2> QED
    BY <2>1, <2>2, <2>3, EmptyIsARow, SheetKeeps
<1>3. ASSUME NEW s \in Sheets, NEW p \in People, LoadProfile(s, p) PROVE ResidentInv'
  BY <1>3, LoadsKeep DEF LoadProfile, Scopes
<1>4. ASSUME NEW s \in Sheets, NEW p \in People, NEW scope \in Scopes,
             NEW op \in {"assign", "disable", "enable", "suspend", "unsuspend"},
             LoadStudent(s, op, scope, p)
      PROVE  ResidentInv'
  BY <1>4, LoadsKeep DEF LoadStudent
<1>5. CASE DayPasses
  BY <1>5, ResidentAssumption
     DEF DayPasses, ResidentInv, ResidentTypeOK, Loaded, Enrolment, Own
<1>6. CASE UNCHANGED residentVars
  BY <1>6 DEF residentVars, ResidentInv, ResidentTypeOK, Loaded, Enrolment, Own
<1> QED
  BY <1>1, <1>2, <1>3, <1>4, <1>5, <1>6, HostelsKeep, NewStudentsKeep, SavesKeep
     DEF ResidentsNext

-----------------------------------------------------------------------------
(* The theorems *)

\* The invariant holds in every state.
THEOREM ResidentInvariance == ResidentsSpec => []ResidentInv
BY ResidentStarts, ResidentStep, PTL DEF ResidentsSpec

\* Every variable keeps its type, and a student has an institute and a home.
THEOREM ResidentTypes == ResidentsSpec => []ResidentTypeOK
<1>1. ResidentInv => ResidentTypeOK
  BY DEF ResidentInv
<1> QED
  BY <1>1, ResidentInvariance, PTL

\* Sign-up, creation, import, assignment and the profile edit all give a student
\* a hostel of the own institute.
THEOREM HomesStayOwn == ResidentsSpec => []HomesAreOwn
<1>1. ResidentInv => HomesAreOwn
  BY DEF ResidentInv, Enrolment, Own, HomesAreOwn
<1> QED
  BY <1>1, ResidentInvariance, PTL

\* The scoped queryset is asked when a request loads, and is still right when
\* it saves (scoped_institute_id).
THEOREM ScopesHold == ResidentsSpec => []RequestsStayInScope
<1>1. ResidentInv => RequestsStayInScope
  <2> SUFFICES ASSUME ResidentInv PROVE RequestsStayInScope
    OBVIOUS
  <2>1. ASSUME NEW s \in Sheets, sheet[s].scope # NoOne
        PROVE  IF sheet[s].who = NoOne THEN sheet[s].row.institute = sheet[s].scope
               ELSE folk[sheet[s].who].institute = sheet[s].scope
    <3>1. sheet[s] \in SheetRows /\ Loaded(sheet[s])
      BY DEF ResidentInv, ResidentTypeOK, SheetRows
    <3>2. sheet[s].stage \in {"rows", "save", "account"}
      BY <2>1, <3>1 DEF Loaded, Empty, SheetRows
    <3> QED
      BY <2>1, <3>1, <3>2 DEF Loaded
  <2> QED
    BY <2>1 DEF RequestsStayInScope, ResidentInv, Enrolment
<1> QED
  BY <1>1, ResidentInvariance, PTL

\* Of all the requests that write a student, only the committee's own and an
\* edit that loaded an older row change a suspension in force.
THEOREM SuspensionsHold == ResidentsSpec => SuspensionsAreServed
<1> DEFINE Served ==
      \A p \in People : Suspended(p) /\ folk'[p].ends # folk[p].ends =>
        \E s \in WorkingOn(p) :
          /\ sheet[s].stage = "save" /\ sheet'[s].stage = "none"
          /\ \/ sheet[s].op \in {"suspend", "unsuspend"}
             \/ sheet[s].op = "edit" /\ sheet[s].row.ends # folk[p].ends
<1>1. ResidentInv /\ [ResidentsNext]_residentVars => [Served]_residentVars
  <2> SUFFICES ASSUME ResidentInv, ResidentsNext, NEW p \in People,
                      Suspended(p), folk'[p].ends # folk[p].ends
               PROVE  \E s \in WorkingOn(p) :
                        /\ sheet[s].stage = "save" /\ sheet'[s].stage = "none"
                        /\ \/ sheet[s].op \in {"suspend", "unsuspend"}
                           \/ sheet[s].op = "edit" /\ sheet[s].row.ends # folk[p].ends
    BY DEF Served
  <2>1. /\ sheet \in [Sheets -> SheetRows] /\ folk \in [People -> StudentRows]
        /\ day \in Nat
    BY ResidentAssumption DEF ResidentInv, ResidentTypeOK, SheetRows
  <2>2. folk[p].account # "none"
    BY <2>1 DEF Suspended, ResidentInv, Enrolment
  <2>3. ~\E q \in People : SignUp(q) \/ \E scope \in Scopes : CreateStudent(scope, q)
    BY <2>1, <2>2 DEF SignUp, CreateStudent
  <2>4. ~\E q \in People, s \in Sheets : ImportRow(s, q)
    BY <2>1, <2>2 DEF ImportRow
  <2>5. PICK s \in Sheets :
          \/ SaveAssign(s) \/ SaveSuspend(s) \/ SaveUnsuspend(s)
          \/ SaveActive(s) \/ SaveAccount(s) \/ SaveProfile(s)
    BY <2>3, <2>4 DEF ResidentsNext, CreateHostel, SetHostelActive, MoveHostel, BeginImport,
       EndImport, LoadProfile, LoadStudent, Load, Abandon, DayPasses
  <2>6. ~SaveAssign(s) /\ ~SaveActive(s) /\ ~SaveAccount(s)
    <3>1. ASSUME NEW q \in People, NEW x,
                 \/ folk' = [folk EXCEPT ![q].home = x]
                 \/ folk' = [folk EXCEPT ![q].active = x]
                 \/ folk' = [folk EXCEPT ![q].account = x]
          PROVE  folk'[p].ends = folk[p].ends
      BY <2>1, <3>1 DEF StudentRows
    <3>2. sheet[s].stage \in {"save", "account"} => sheet[s].who \in People
      BY DEF ResidentInv, Loaded
    <3>3. ~SaveAssign(s)
      BY <3>1, <3>2 DEF SaveAssign
    <3>4. ~SaveActive(s)
      BY <3>1, <3>2 DEF SaveActive
    <3>5. ~SaveAccount(s)
      BY <3>1, <3>2 DEF SaveAccount
    <3> QED
      BY <3>3, <3>4, <3>5
  <2>7. /\ sheet[s].stage = "save" /\ sheet[s].op \in {"suspend", "unsuspend", "edit"}
        /\ sheet'[s] = Empty
    BY <2>1, <2>5, <2>6 DEF SaveSuspend, SaveUnsuspend, SaveProfile, Conclude
  <2>8. sheet[s].who = p
    BY <2>1, <2>5, <2>6 DEF SaveSuspend, SaveUnsuspend, SaveProfile
  <2>9. s \in WorkingOn(p)
    BY <2>7, <2>8 DEF WorkingOn
  <2>10. ASSUME sheet[s].op = "edit" PROVE sheet[s].row.ends # folk[p].ends
    <3>1. SaveProfile(s)
      BY <2>5, <2>6, <2>10 DEF SaveSuspend, SaveUnsuspend
    <3>2. folk'[p].ends = sheet[s].row.ends
      BY <2>1, <2>8, <3>1 DEF SaveProfile, SheetRows, StudentRows
    <3> QED
      BY <3>2
  <2> QED
    BY <2>7, <2>9, <2>10 DEF Empty
<1> QED
  BY <1>1, ResidentInvariance, PTL DEF ResidentsSpec, SuspensionsAreServed
-----------------------------------------------------------------------------
(* Students and their accounts *)

\* Request s is going to write student p.
Writes(s, p) == sheet[s].stage \in {"save", "account"} /\ sheet[s].who = p

\* One request at a time writes a student whom no two of them crossed.  Halfway
\* it has written the student as it will write the account, and a profile that
\* is being edited is as active as when it was loaded.
Agreeing(p) ==
  /\ \A s, q \in Sheets : Writes(s, p) /\ Writes(q, p) => s = q
  /\ \A s \in Sheets : Writes(s, p) =>
       /\ sheet[s].stage = "account" =>
            /\ sheet[s].op \in {"disable", "enable"}
            /\ folk[p].active <=> sheet[s].op = "enable"
       /\ sheet[s].stage = "save" /\ sheet[s].op = "edit" =>
            (sheet[s].row.active <=> folk[p].active)
  /\ folk[p].account # "none" /\ (\A s \in Sheets : Writes(s, p) => sheet[s].stage = "save") =>
       (folk[p].active <=> folk[p].account = "on")

AgreeInv == ResidentInv /\ \A p \in People \ crossed : Agreeing(p)

LEMMA AgreeStarts == ResidentsInit => AgreeInv
<1> SUFFICES ASSUME ResidentsInit PROVE \A p \in People : Agreeing(p)
  BY ResidentStarts DEF AgreeInv
<1> QED
  BY DEF ResidentsInit, Agreeing, Writes, NoStudent, Empty

\* What is about others does not change what a request on p relies on.
LEMMA AgreeSame ==
  ASSUME NEW p \in People, Agreeing(p),
         folk'[p].active = folk[p].active, folk'[p].account = folk[p].account,
         \A s \in Sheets :
           \/ sheet'[s] = sheet[s]
           \/ ~Writes(s, p)' /\ (Writes(s, p) => sheet[s].stage = "save")
  PROVE  Agreeing(p)'
<1>1. ASSUME NEW s \in Sheets, Writes(s, p)'
      PROVE  sheet'[s] = sheet[s] /\ Writes(s, p)
  BY <1>1 DEF Writes
<1>2. ASSUME NEW s \in Sheets, Writes(s, p), sheet[s].stage = "account"
      PROVE  Writes(s, p)' /\ sheet'[s] = sheet[s]
  BY <1>2 DEF Writes
<1>3. \A s, q \in Sheets : Writes(s, p)' /\ Writes(q, p)' => s = q
  BY <1>1 DEF Agreeing
<1>4. ASSUME NEW s \in Sheets, Writes(s, p)'
      PROVE  /\ sheet'[s].stage = "account" =>
                  /\ sheet'[s].op \in {"disable", "enable"}
                  /\ folk'[p].active <=> sheet'[s].op = "enable"
             /\ sheet'[s].stage = "save" /\ sheet'[s].op = "edit" =>
                  (sheet'[s].row.active <=> folk'[p].active)
  BY <1>1, <1>4 DEF Agreeing
<1>5. ASSUME folk'[p].account # "none",
             \A s \in Sheets : Writes(s, p)' => sheet'[s].stage = "save"
      PROVE  folk'[p].active <=> folk'[p].account = "on"
  <2>1. \A s \in Sheets : Writes(s, p) => sheet[s].stage = "save"
    BY <1>2, <1>5 DEF Writes
  <2> QED
    BY <1>5, <2>1 DEF Agreeing
<1> QED
  BY <1>3, <1>4, <1>5 DEF Agreeing

\* A request that loads a student is alone with the student, or crosses another.
LEMMA AgreeLoad ==
  ASSUME AgreeInv, NEW s \in Sheets, NEW q \in People, NEW scope \in Scopes,
         NEW op \in {"assign", "disable", "enable", "suspend", "unsuspend", "edit"},
         folk[q].account # "none", Load(s, op, scope, q), NEW p \in People \ crossed'
  PROVE  Agreeing(p)'
<1>1. /\ folk' = folk /\ sheet \in [Sheets -> SheetRows] /\ p \notin crossed
      /\ sheet[s].stage = "none" /\ \A r \in Sheets \ {s} : sheet'[r] = sheet[r]
  BY DEF Load, AgreeInv, ResidentInv, ResidentTypeOK, SheetRows
<1>2. ~Writes(s, p) /\ Agreeing(p)
  BY <1>1 DEF Writes, AgreeInv
<1>3. /\ sheet'[s].who = q /\ sheet'[s].stage = "save" /\ sheet'[s].op = op
      /\ op = "edit" => sheet'[s].row = folk[q]
  BY <1>1, EmptyIsARow DEF Load, SheetRows
<1>4. CASE p # q
  BY <1>1, <1>2, <1>3, <1>4, AgreeSame DEF Writes
<1>5. CASE p = q
  <2>1. \A r \in Sheets : ~Writes(r, p)
    BY <1>1, <1>5 DEF Load, WorkingOn, Writes
  <2>2. \A r \in Sheets : Writes(r, p)' => r = s
    BY <1>1, <2>1 DEF Writes
  <2> QED
    BY <1>1, <1>2, <1>3, <1>5, <2>1, <2>2 DEF Agreeing
<1> QED
  BY <1>4, <1>5

\* The saves: the request is the only one that writes its student, or the student
\* is crossed.
LEMMA AgreeSaves ==
  ASSUME AgreeInv, NEW s \in Sheets,
         \/ SaveAssign(s) \/ SaveSuspend(s) \/ SaveUnsuspend(s)
         \/ SaveActive(s) \/ SaveAccount(s) \/ SaveProfile(s),
         NEW p \in People \ crossed
  PROVE  Agreeing(p)'
<1> DEFINE q == sheet[s].who
<1>1. /\ folk \in [People -> StudentRows] /\ sheet \in [Sheets -> SheetRows] /\ Agreeing(p)
      /\ Loaded(sheet[s])
  BY DEF AgreeInv, ResidentInv, ResidentTypeOK, SheetRows
<1>2. sheet[s].stage \in {"save", "account"} /\ q \in People /\ folk[q].account # "none"
  BY <1>1 DEF SaveAssign, SaveSuspend, SaveUnsuspend, SaveActive, SaveAccount, SaveProfile, Loaded
<1>3. \A r \in People \ {q} : folk'[r] = folk[r]
  BY <1>1, <1>2 DEF SaveAssign, SaveSuspend, SaveUnsuspend, SaveActive, SaveAccount, SaveProfile
<1>4. \A r \in Sheets \ {s} : sheet'[r] = sheet[r]
  BY <1>1 DEF SaveAssign, SaveSuspend, SaveUnsuspend, SaveActive, SaveAccount, SaveProfile,
              Conclude
<1>5. \/ sheet'[s] = Empty
      \/ sheet[s].stage = "save" /\ sheet'[s] = [sheet[s] EXCEPT !.stage = "account"]
  BY <1>1 DEF SaveAssign, SaveSuspend, SaveUnsuspend, SaveActive, SaveAccount, SaveProfile,
              Conclude
<1>6. CASE p # q
  <2>1. ~Writes(s, p) /\ ~Writes(s, p)'
    BY <1>1, <1>5, <1>6 DEF Writes, Empty, SheetRows
  <2> QED
    BY <1>1, <1>3, <1>4, <1>6, <2>1, AgreeSame
<1>7. CASE p = q
  <2>1. Writes(s, p) /\ \A r \in Sheets \ {s} : ~Writes(r, p) /\ ~Writes(r, p)'
    BY <1>1, <1>2, <1>4, <1>7 DEF Writes, Agreeing
  <2>2. CASE SaveAssign(s) \/ SaveSuspend(s) \/ SaveUnsuspend(s)
    <3>1. folk'[p].active = folk[p].active /\ folk'[p].account = folk[p].account
      <4>1. \/ \E h : folk' = [folk EXCEPT ![p].home = h]
            \/ \E d : folk' = [folk EXCEPT ![p].ends = d]
        BY <1>1, <1>7, <2>2 DEF SaveAssign, SaveSuspend, SaveUnsuspend
      <4>2. PICK row \in StudentRows : row = folk[p]
        BY <1>1
      <4>3. CASE \E h : folk' = [folk EXCEPT ![p].home = h]
        <5>1. PICK h : folk'[p] = [row EXCEPT !.home = h]
          BY <1>1, <4>2, <4>3
        <5> QED
          BY <4>2, <5>1 DEF StudentRows
      <4>4. CASE \E d : folk' = [folk EXCEPT ![p].ends = d]
        <5>1. PICK d : folk'[p] = [row EXCEPT !.ends = d]
          BY <1>1, <4>2, <4>4
        <5> QED
          BY <4>2, <5>1 DEF StudentRows
      <4> QED
        BY <4>1, <4>3, <4>4
    <3>2. sheet'[s] = Empty /\ sheet[s].stage = "save"
      BY <1>1, <2>2 DEF SaveAssign, SaveSuspend, SaveUnsuspend, Conclude
    <3> QED
      BY <1>1, <1>4, <3>1, <3>2, AgreeSame DEF Writes, Empty
  <2>3. CASE SaveProfile(s)
    <3> DEFINE old == [sheet[s].row EXCEPT !.account = folk[p].account]
    <3>0. /\ old \in StudentRows /\ old.active = sheet[s].row.active
          /\ old.account = folk[p].account
      BY <1>1, <1>2, <1>7 DEF StudentRows, SheetRows
    <3>1. /\ folk'[p].active = sheet[s].row.active /\ folk'[p].account = folk[p].account
          /\ sheet'[s] = Empty /\ sheet[s].stage = "save" /\ sheet[s].op = "edit"
      <4>1. PICK h : folk' = [folk EXCEPT ![p] = [old EXCEPT !.home = h]]
        BY <1>7, <2>3 DEF SaveProfile
      <4>2. /\ [old EXCEPT !.home = h].active = old.active
            /\ [old EXCEPT !.home = h].account = old.account
        BY <3>0 DEF StudentRows
      <4>3. folk'[p] = [old EXCEPT !.home = h]
        BY <1>1, <1>2, <1>7, <4>1
      <4>4. sheet'[s] = Empty /\ sheet[s].stage = "save" /\ sheet[s].op = "edit"
        BY <1>1, <2>3 DEF SaveProfile, Conclude
      <4> QED
        BY <3>0, <4>2, <4>3, <4>4
    <3>2. folk'[p].active = folk[p].active
      <4>1. sheet[s].row.active <=> folk[p].active
        BY <1>1, <2>1, <3>1 DEF Agreeing
      <4>2. sheet[s].row.active \in BOOLEAN /\ folk[p].active \in BOOLEAN
        BY <1>1 DEF SheetRows, StudentRows
      <4> QED
        BY <3>1, <4>1, <4>2
    <3> QED
      BY <1>1, <1>4, <3>1, <3>2, AgreeSame DEF Writes, Empty
  <2>4. CASE SaveActive(s)
    <3>1. /\ sheet[s].op \in {"disable", "enable"} /\ sheet'[s].op = sheet[s].op
          /\ sheet'[s].stage = "account" /\ sheet'[s].who = p
      BY <1>1, <1>7, <2>4 DEF SaveActive, SheetRows
    <3>2. folk'[p].active = (sheet[s].op = "enable")
      BY <1>1, <1>7, <2>4 DEF SaveActive, StudentRows
    <3>3. Writes(s, p)'
      BY <3>1 DEF Writes
    <3> QED
      BY <2>1, <3>1, <3>2, <3>3 DEF Agreeing
  <2>5. CASE SaveAccount(s)
    <3>1. /\ folk'[p].account = (IF sheet[s].op = "enable" THEN "on" ELSE "off")
          /\ folk'[p].active = folk[p].active /\ sheet'[s] = Empty
          /\ sheet[s].stage = "account"
      BY <1>1, <1>7, <2>5 DEF SaveAccount, StudentRows, SheetRows, Conclude
    <3>2. folk[p].active <=> sheet[s].op = "enable"
      BY <1>1, <2>1, <3>1 DEF Agreeing
    <3>3. \A r \in Sheets : ~Writes(r, p)'
      BY <2>1, <3>1 DEF Writes, Empty
    <3> QED
      BY <3>1, <3>2, <3>3 DEF Agreeing
  <2> QED
    BY <2>2, <2>3, <2>4, <2>5
<1> QED
  BY <1>6, <1>7

LEMMA AgreeStep == AgreeInv /\ [ResidentsNext]_residentVars => AgreeInv'
<1> SUFFICES ASSUME AgreeInv, [ResidentsNext]_residentVars, NEW p \in People \ crossed'
             PROVE  Agreeing(p)'
  BY ResidentStep DEF AgreeInv
<1>1. /\ folk \in [People -> StudentRows] /\ sheet \in [Sheets -> SheetRows]
      /\ \A s \in Sheets : Loaded(sheet[s])
  BY DEF AgreeInv, ResidentInv, ResidentTypeOK, SheetRows
<1>2. CASE p \in crossed
  BY <1>2, ZenonT(60) DEF ResidentsNext, residentVars, CreateHostel, SetHostelActive, MoveHostel, SignUp,
     CreateStudent, BeginImport, ImportRow, EndImport, LoadProfile, LoadStudent, Load, SaveAssign,
     SaveSuspend, SaveUnsuspend, SaveActive, SaveAccount, SaveProfile, Abandon, DayPasses
<1> SUFFICES ASSUME p \notin crossed PROVE Agreeing(p)'
  BY <1>2
<1>3. Agreeing(p)
  BY DEF AgreeInv
<1>4. ASSUME folk' = folk, sheet' = sheet PROVE Agreeing(p)'
  BY <1>3, <1>4, AgreeSame
<1>5. ASSUME NEW q \in People, NEW i, NEW h, folk[q].account = "none",
             folk' = [folk EXCEPT ![q] = Enrolled(i, h)], sheet' = sheet
      PROVE  Agreeing(p)'
  <2>1. CASE p # q
    BY <1>1, <1>3, <1>5, <2>1, AgreeSame
  <2>2. CASE p = q
    <3>1. \A s \in Sheets : ~Writes(s, p)'
      BY <1>1, <1>5, <2>2 DEF Writes, Loaded
    <3>2. folk'[p].active /\ folk'[p].account = "on"
      BY <1>1, <1>5, <2>2 DEF Enrolled
    <3> QED
      BY <3>1, <3>2 DEF Agreeing
  <2> QED
    BY <2>1, <2>2
<1>6. ASSUME NEW s \in Sheets, EndImport(s) \/ Abandon(s) \/ \E scope \in Scopes : BeginImport(s, scope)
      PROVE  Agreeing(p)'
  <2>1. folk' = folk /\ \A r \in Sheets \ {s} : sheet'[r] = sheet[r]
    BY <1>1, <1>6 DEF EndImport, Abandon, Conclude, BeginImport
  <2>2. sheet'[s].stage \in {"none", "rows"}
    <3>1. ASSUME NEW scope \in Scopes, BeginImport(s, scope) PROVE sheet'[s].stage = "rows"
      <4>1. PICK i \in Institutes : sheet'[s] = Importing(i, scope, OpenHostels(i))
        BY <1>1, <3>1 DEF BeginImport, Importing
      <4>2. OpenHostels(i) \in SUBSET Hostels /\ i \in Scopes
        BY DEF OpenHostels, HostelsOf, Scopes
      <4> QED
        BY <4>1, <4>2, ImportSheet
    <3> QED
      BY <1>1, <1>6, <3>1 DEF EndImport, Abandon, Conclude, Empty
  <2>3. Writes(s, p) => sheet[s].stage = "save"
    BY <1>1, <1>6 DEF EndImport, Abandon, Conclude, BeginImport, Writes
  <2> QED
    BY <1>3, <2>1, <2>2, <2>3, AgreeSame DEF Writes
<1>7. ASSUME NEW s \in Sheets, NEW q \in People, LoadProfile(s, q) PROVE Agreeing(p)'
  BY <1>7, AgreeLoad DEF LoadProfile, Scopes
<1>8. ASSUME NEW s \in Sheets, NEW q \in People, NEW scope \in Scopes,
             NEW op \in {"assign", "disable", "enable", "suspend", "unsuspend"},
             LoadStudent(s, op, scope, q)
      PROVE  Agreeing(p)'
  BY <1>8, AgreeLoad DEF LoadStudent
<1>9. CASE \E h \in Hostels, scope \in Scopes :
             CreateHostel(scope, h) \/ SetHostelActive(scope, h) \/ MoveHostel(scope, h)
  BY <1>4, <1>9 DEF CreateHostel, SetHostelActive, MoveHostel
<1>10. ASSUME NEW q \in People,
             SignUp(q) \/ (\E scope \in Scopes : CreateStudent(scope, q))
               \/ \E s \in Sheets : ImportRow(s, q)
      PROVE  Agreeing(p)'
  BY <1>5, <1>10 DEF SignUp, CreateStudent, ImportRow
<1>11. CASE DayPasses \/ UNCHANGED residentVars
  BY <1>4, <1>11 DEF DayPasses, residentVars
<1> QED
  BY <1>6, <1>7, <1>8, <1>9, <1>10, <1>11, AgreeSaves DEF ResidentsNext

\* A student is disabled exactly when the account is: the two saves of disable
\* and enable agree with each other and with whatever else saves the row, unless
\* two requests crossed or one died between the saves.
THEOREM DisabledTogether == ResidentsSpec => []AccountsAgree
<1>1. AgreeInv => AccountsAgree
  <2> SUFFICES ASSUME AgreeInv, NEW p \in People \ crossed, folk[p].account # "none",
                      \A s \in WorkingOn(p) : sheet[s].stage # "account"
               PROVE  folk[p].active = (folk[p].account = "on")
    BY DEF AccountsAgree
  <2>1. folk[p].active \in BOOLEAN
    BY DEF AgreeInv, ResidentInv, ResidentTypeOK, StudentRows
  <2>2. folk[p].active <=> folk[p].account = "on"
    BY DEF AgreeInv, Agreeing, Writes, WorkingOn
  <2> QED
    BY <2>1, <2>2
<1> QED
  BY <1>1, AgreeStarts, AgreeStep, PTL DEF ResidentsSpec
=============================================================================
