----------------------------- MODULE Residents -----------------------------
(***************************************************************************)
(* The committee's administration of students and hostels (HostelViewSet,  *)
(* StudentViewSet and their serializers), sign-up as far as it fills the   *)
(* same rows, and the student's own profile edit (MeView.patch).           *)
(*                                                                         *)
(* Every handler loads the student's row when the request is authorised    *)
(* and saves later.  The committee's handlers save the columns they        *)
(* change; the profile edit saves every column of the row it loaded.       *)
(* Disabling and enabling save the student and the account one after the   *)
(* other.  A request works for a scope: an institute, or NoOne for a       *)
(* platform operator, whom nothing scopes (scoped_institute_id).           *)
(*                                                                         *)
(* Left out: names, phones, genders and whether the address is verified,   *)
(* which no property of residents reads, and the notification and the audit*)
(* entry that follow a save.  A hostel's PATCH loads and saves at once.    *)
(***************************************************************************)
EXTENDS Integers, FiniteSets

CONSTANTS
  People,      \* addresses that may become students
  Institutes,
  Hostels,
  NoOne,       \* no institute, no hostel; as a scope: no limits
  AllowedAt,   \* AllowedAt[p]: the institutes whose domains admit p's address
  Sheets,      \* requests that may be in flight
  LastDay,     \* bound on the clock and on suspensions
  MaxMoves     \* bound on the hostels moved to another institute

ASSUME ResidentAssumption ==
  /\ NoOne \notin Institutes \cup Hostels
  /\ AllowedAt \in [People -> SUBSET Institutes]
  /\ LastDay \in Nat
  /\ MaxMoves \in Nat

VARIABLES
  day,
  folk,      \* BaseUser.is_active and the Student of each address
  house,     \* Hostel: its institute (NoOne before it exists), is_active
  sheet,     \* what each request is doing, and the row it loaded
  \* history variables, read by properties only
  uprooted,  \* hostels a platform operator moved to another institute
  crossed    \* students two requests worked on at once, or one left half done

residentVars == <<day, folk, house, sheet, uprooted, crossed>>

Scopes == Institutes \cup {NoOne}
NoStudent == [account |-> "none", active |-> FALSE, ends |-> 0,
              home |-> NoOne, institute |-> NoOne]
Empty == [op |-> "none", stage |-> "none", scope |-> NoOne, who |-> NoOne,
          row |-> NoStudent, known |-> {}]

HostelsOf(i) == {h \in Hostels : house[h].institute = i}
OpenHostels(i) == {h \in HostelsOf(i) : house[h].active}
WorkingOn(p) == {s \in Sheets : sheet[s].stage # "none" /\ sheet[s].who = p}

\* Student.is_suspended and suspension_ends__gt=now agree.
Suspended(p) == folk[p].ends > day

-----------------------------------------------------------------------------
(* HostelViewSet *)

\* perform_create: a scoped administrator's hostel is of the own institute.
CreateHostel(scope, h) ==
  /\ house[h].institute = NoOne
  /\ \E i \in Institutes :
       /\ scope \in {i, NoOne}
       /\ house' = [house EXCEPT ![h] = [institute |-> i, active |-> TRUE]]
  /\ UNCHANGED <<day, folk, sheet, uprooted, crossed>>

\* DELETE sets is_active to FALSE; a PATCH sets it either way.
SetHostelActive(scope, h) ==
  /\ house[h].institute # NoOne
  /\ scope \in {house[h].institute, NoOne}
  /\ house' = [house EXCEPT ![h].active = ~@]
  /\ UNCHANGED <<day, folk, sheet, uprooted, crossed>>

\* A PATCH of the institute: validate_institute refuses a scoped
\* administrator any other than the own.  The residents are not looked at.
MoveHostel(scope, h) ==
  /\ house[h].institute # NoOne
  /\ scope \in {house[h].institute, NoOne}
  /\ Cardinality(uprooted) < MaxMoves
  /\ \E i \in Institutes \ {house[h].institute} :
       /\ scope \in {i, NoOne}
       /\ house' = [house EXCEPT ![h].institute = i]
  /\ uprooted' = uprooted \cup {h}
  /\ UNCHANGED <<day, folk, sheet, crossed>>

-----------------------------------------------------------------------------
(* How a student comes to be *)

Enrolled(i, h) ==
  [account |-> "on", active |-> TRUE, ends |-> 0, home |-> h,
   institute |-> i]

\* RegisterView, once the code is verified: the institute of the address's
\* domain and an open hostel of it.
SignUp(p) ==
  /\ folk[p].account = "none"
  /\ \E i \in AllowedAt[p] : \E h \in OpenHostels(i) :
       folk' = [folk EXCEPT ![p] = Enrolled(i, h)]
  /\ UNCHANGED <<day, house, sheet, uprooted, crossed>>

\* Fault: a student may be created without a hostel.
CreateStudentUnhoused(scope, p) ==
  /\ folk[p].account = "none"
  /\ \E i \in AllowedAt[p] : \E h \in HostelsOf(i) \cup {NoOne} :
       /\ scope \in {i, NoOne}
       /\ folk' = [folk EXCEPT ![p] = Enrolled(i, h)]
  /\ UNCHANGED <<day, house, sheet, uprooted, crossed>>

\* StudentCreateSerializer: the hostel decides the institute; a closed hostel
\* is accepted.
CreateStudent(scope, p) ==
  /\ folk[p].account = "none"
  /\ \E i \in AllowedAt[p] : \E h \in HostelsOf(i) :
       /\ scope \in {i, NoOne}
       /\ folk' = [folk EXCEPT ![p] = Enrolled(i, h)]
  /\ UNCHANGED <<day, house, sheet, uprooted, crossed>>

\* Fault: the hostels are not filtered by the institute.
BeginImportAnyHostel(s, scope) ==
  /\ sheet[s].stage = "none"
  /\ \E i \in Institutes :
       /\ scope \in {i, NoOne}
       /\ sheet' = [sheet EXCEPT ![s] = [Empty EXCEPT !.op = "import", !.stage = "rows",
            !.scope = scope, !.row.institute = i,
            !.known = {h \in Hostels : house[h].institute # NoOne /\ house[h].active}]]
  /\ UNCHANGED <<day, folk, house, uprooted, crossed>>

\* import_students: the institute and its open hostels are read once.
BeginImport(s, scope) ==
  /\ sheet[s].stage = "none"
  /\ \E i \in Institutes :
       /\ scope \in {i, NoOne}
       /\ sheet' = [sheet EXCEPT ![s] = [Empty EXCEPT !.op = "import", !.stage = "rows",
            !.scope = scope, !.row.institute = i, !.known = OpenHostels(i)]]
  /\ UNCHANGED <<day, folk, house, uprooted, crossed>>

\* One row of the file, in a transaction of its own.  A known address is
\* skipped, a foreign domain or an unknown hostel is an error of the row.
ImportRow(s, p) ==
  /\ sheet[s].stage = "rows"
  /\ folk[p].account = "none"
  /\ sheet[s].row.institute \in AllowedAt[p]
  /\ \E h \in sheet[s].known :
       folk' = [folk EXCEPT ![p] = Enrolled(sheet[s].row.institute, h)]
  /\ UNCHANGED <<day, house, sheet, uprooted, crossed>>

EndImport(s) ==
  /\ sheet[s].stage = "rows"
  /\ sheet' = [sheet EXCEPT ![s] = Empty]
  /\ UNCHANGED <<day, folk, house, uprooted, crossed>>

-----------------------------------------------------------------------------
(* What the committee does to a student *)

\* Of the row only what the request will use is kept.
Load(s, op, scope, p) ==
  /\ sheet[s].stage = "none"
  /\ sheet' = [sheet EXCEPT ![s] = [Empty EXCEPT !.op = op, !.stage = "save",
                 !.scope = scope, !.who = p,
                 !.row = IF op = "edit" THEN folk[p]
                         ELSE [NoStudent EXCEPT !.institute = folk[p].institute]]]
  /\ crossed' = IF WorkingOn(p) # {} THEN crossed \cup {p} ELSE crossed
  /\ UNCHANGED <<day, folk, house, uprooted>>

\* Fault: the detail actions do not go through the scoped queryset.
LoadStudentAnywhere(s, op, scope, p) ==
  /\ folk[p].account # "none"
  /\ Load(s, op, scope, p)

\* get_object, on the scoped queryset.
LoadStudent(s, op, scope, p) ==
  /\ folk[p].account # "none"
  /\ scope \in {folk[p].institute, NoOne}
  /\ Load(s, op, scope, p)

Conclude(s) == sheet' = [sheet EXCEPT ![s] = Empty]

\* StudentAssignSerializer: any hostel of the student's institute, closed
\* ones too.
SaveAssign(s) ==
  /\ sheet[s].op = "assign" /\ sheet[s].stage = "save"
  /\ \E h \in HostelsOf(sheet[s].row.institute) :
       folk' = [folk EXCEPT ![sheet[s].who].home = h]
  /\ Conclude(s)
  /\ UNCHANGED <<day, house, uprooted, crossed>>

\* StudentSuspendSerializer: to a time in the future.
SaveSuspend(s) ==
  /\ sheet[s].op = "suspend" /\ sheet[s].stage = "save"
  /\ \E d \in (day + 1)..LastDay : folk' = [folk EXCEPT ![sheet[s].who].ends = d]
  /\ Conclude(s)
  /\ UNCHANGED <<day, house, uprooted, crossed>>

SaveUnsuspend(s) ==
  /\ sheet[s].op = "unsuspend" /\ sheet[s].stage = "save"
  /\ folk' = [folk EXCEPT ![sheet[s].who].ends = 0]
  /\ Conclude(s)
  /\ UNCHANGED <<day, house, uprooted, crossed>>

\* Fault: enabling a student lifts the suspension.
SaveActiveAnew(s) ==
  /\ sheet[s].op \in {"disable", "enable"} /\ sheet[s].stage = "save"
  /\ folk' = [folk EXCEPT ![sheet[s].who].active = (sheet[s].op = "enable"),
                          ![sheet[s].who].ends = IF sheet[s].op = "enable" THEN 0 ELSE @]
  /\ sheet' = [sheet EXCEPT ![s].stage = "account"]
  /\ UNCHANGED <<day, house, uprooted, crossed>>

\* disable and enable: the student first.
SaveActive(s) ==
  /\ sheet[s].op \in {"disable", "enable"} /\ sheet[s].stage = "save"
  /\ folk' = [folk EXCEPT ![sheet[s].who].active = (sheet[s].op = "enable")]
  /\ sheet' = [sheet EXCEPT ![s].stage = "account"]
  /\ UNCHANGED <<day, house, uprooted, crossed>>

\* Fault: enabling forgets the account.
SaveAccountDisabled(s) ==
  /\ sheet[s].stage = "account"
  /\ folk' = IF sheet[s].op = "disable"
             THEN [folk EXCEPT ![sheet[s].who].account = "off"] ELSE folk
  /\ Conclude(s)
  /\ UNCHANGED <<day, house, uprooted, crossed>>

\* ... and then the account.
SaveAccount(s) ==
  /\ sheet[s].stage = "account"
  /\ folk' = [folk EXCEPT ![sheet[s].who].account =
                IF sheet[s].op = "enable" THEN "on" ELSE "off"]
  /\ Conclude(s)
  /\ UNCHANGED <<day, house, uprooted, crossed>>

-----------------------------------------------------------------------------
(* What the student does, and what else happens *)

\* IsStudent: the account and the student are active.  request.user.student is
\* the row the edit will save.
LoadProfile(s, p) ==
  /\ folk[p].account = "on" /\ folk[p].active
  /\ Load(s, "edit", NoOne, p)

\* MeUpdateSerializer: a home, if given, is an open hostel of the institute in
\* the loaded row; every column of the student is saved.
SaveProfile(s) ==
  /\ sheet[s].op = "edit" /\ sheet[s].stage = "save"
  /\ LET old == [sheet[s].row EXCEPT !.account = folk[sheet[s].who].account]
     IN  \E h \in {old.home} \cup OpenHostels(old.institute) :
           folk' = [folk EXCEPT ![sheet[s].who] = [old EXCEPT !.home = h]]
  /\ Conclude(s)
  /\ UNCHANGED <<day, house, uprooted, crossed>>

\* The worker dies, or the database refuses the statement.
Abandon(s) ==
  /\ sheet[s].stage # "none"
  /\ crossed' = IF sheet[s].stage = "account" THEN crossed \cup {sheet[s].who} ELSE crossed
  /\ Conclude(s)
  /\ UNCHANGED <<day, folk, house, uprooted>>

DayPasses ==
  /\ day < LastDay
  /\ day' = day + 1
  /\ UNCHANGED <<folk, house, sheet, uprooted, crossed>>

ResidentsInit ==
  /\ day = 0
  /\ folk = [p \in People |-> NoStudent]
  /\ house = [h \in Hostels |-> [institute |-> NoOne, active |-> FALSE]]
  /\ sheet = [s \in Sheets |-> Empty]
  /\ uprooted = {}
  /\ crossed = {}

ResidentsNext ==
  \/ \E h \in Hostels, scope \in Scopes :
       CreateHostel(scope, h) \/ SetHostelActive(scope, h) \/ MoveHostel(scope, h)
  \/ \E p \in People :
       SignUp(p) \/ \E scope \in Scopes : CreateStudent(scope, p)
  \/ \E s \in Sheets :
       \/ \E scope \in Scopes : BeginImport(s, scope)
       \/ \E p \in People : ImportRow(s, p) \/ LoadProfile(s, p)
       \/ EndImport(s)
       \/ \E p \in People, scope \in Scopes :
            \E op \in {"assign", "disable", "enable", "suspend", "unsuspend"} :
              LoadStudent(s, op, scope, p)
       \/ SaveAssign(s) \/ SaveSuspend(s) \/ SaveUnsuspend(s)
       \/ SaveActive(s) \/ SaveAccount(s) \/ SaveProfile(s)
       \/ Abandon(s)
  \/ DayPasses

ResidentsSpec == ResidentsInit /\ [][ResidentsNext]_residentVars

-----------------------------------------------------------------------------
(* Properties *)

StudentRows ==
  [account : {"none", "on", "off"}, active : BOOLEAN, ends : 0..LastDay,
   home : Hostels \cup {NoOne}, institute : Scopes]

\* Every variable stays in its type; a student has an account, an institute
\* and, by every way in, a home.
ResidentTypeOK ==
  /\ day \in 0..LastDay
  /\ folk \in [People -> StudentRows]
  /\ house \in [Hostels -> [institute : Scopes, active : BOOLEAN]]
  /\ sheet \in [Sheets -> [op : {"none", "import", "assign", "disable", "enable",
                                 "suspend", "unsuspend", "edit"},
                           stage : {"none", "rows", "save", "account"},
                           scope : Scopes, who : People \cup {NoOne},
                           row : StudentRows, known : SUBSET Hostels]]
  /\ uprooted \subseteq Hostels
  /\ crossed \subseteq People
  /\ \A p \in People : folk[p].account # "none" =>
       folk[p].institute \in Institutes /\ folk[p].home \in Hostels

\* A suspension in force ends early, or changes, only by the committee's own
\* suspend or unsuspend, or by a profile edit that had loaded the row before
\* the suspension was written and saves the old columns over it.
SuspensionsAreServed ==
  [][\A p \in People : Suspended(p) /\ folk'[p].ends # folk[p].ends =>
       \E s \in WorkingOn(p) :
         /\ sheet[s].stage = "save" /\ sheet'[s].stage = "none"
         /\ \/ sheet[s].op \in {"suspend", "unsuspend"}
            \/ sheet[s].op = "edit" /\ sheet[s].row.ends # folk[p].ends]_residentVars

\* A student is disabled exactly when the account is, once the request that
\* writes both is done, unless another request worked on the student meanwhile
\* or the request died between the two saves.
AccountsAgree ==
  \A p \in People \ crossed :
    folk[p].account # "none" /\ (\A s \in WorkingOn(p) : sheet[s].stage # "account") =>
      folk[p].active = (folk[p].account = "on")

\* Whichever way a student came to live in a hostel, it is one of the
\* student's institute, until a platform operator moves the hostel.
HomesAreOwn ==
  \A p \in People :
    folk[p].account # "none" /\ folk[p].home \notin uprooted =>
      house[folk[p].home].institute = folk[p].institute

\* A request of a committee stays with students of its institute from its load
\* to its save, and a student's institute is one the address may join.
RequestsStayInScope ==
  /\ \A s \in Sheets : sheet[s].scope # NoOne =>
       IF sheet[s].who = NoOne THEN sheet[s].row.institute = sheet[s].scope
       ELSE folk[sheet[s].who].institute = sheet[s].scope
  /\ \A p \in People : folk[p].account # "none" => folk[p].institute \in AllowedAt[p]
============================================================================
