---------------------------- MODULE DatabaseCopy ----------------------------
(***************************************************************************)
(* The command that moves the installation from a SQLite file to Postgres  *)
(* (copy_sqlite_to_postgres): guards, then table after table in the order  *)
(* of the foreign keys, in one transaction of the target.  Each table is   *)
(* read by a statement of its own, and nothing keeps the program from      *)
(* writing to the file meanwhile, nor anyone from registering at the       *)
(* target.                                                                 *)
(*                                                                         *)
(* The tables here stand for all that are copied: users, a link to rows    *)
(* that migrate has created under other numbers (the permissions), two     *)
(* that refer to what was copied before, and one that refers to itself.    *)
(* Of the times in a row only whose they are is kept: those of the program *)
(* that wrote it, or that of the copy.                                     *)
(* Left out: groups, the tables of the token blacklist, the reset of the   *)
(* sequences, and the paths and engines that are refused at the start.     *)
(***************************************************************************)
EXTENDS Integers, Sequences

CONSTANTS
  Ids,           \* primary keys, and the addresses of those who have them
  Newcomer,       \* the key of someone who registers at the target
  Nil,            \* a null reference
  Permissions,    \* numbers of permissions, in either database
  NameInSource, NameInTarget,  \* what each number stands for there
  MaxWrites       \* bound on the writes to the source

ASSUME CopyAssumption ==
  /\ Newcomer \notin Ids /\ Nil \notin Ids \cup {Newcomer}
  /\ MaxWrites \in Nat

VARIABLES
  source, target,  \* the committed rows of each table
  ready,           \* the target's tables exist (start.sh runs migrate)
  copy,            \* the command: the next table, 0 if none runs, and its rows
  writes,          \* how often the source was written
  \* history variable, read by properties only
  quiet            \* no write to the source since the command read a table

copyVars == <<source, target, ready, copy, writes, quiet>>

CopyOrder == <<"user", "permission", "booking", "exchange", "refresh">>
Tables == {CopyOrder[n] : n \in 1..Len(CopyOrder)}

NoRows == [t \in Tables |-> {}]
NoCopy == [at |-> 0, rows |-> NoRows]

\* The table that a row's reference points into.
Parent == [t \in Tables |-> CASE t = "exchange" -> "booking"
                              [] t = "refresh"  -> "refresh"
                              [] OTHER          -> "user"]

\* A row as the program writes it.  dated: whose time created_at and updated_at
\* are.
Row(k, r, v) == [key |-> k, ref |-> r, val |-> v, dated |-> "written"]
KeysOf(rows) == {r.key : r \in rows}

-----------------------------------------------------------------------------
(* The program, still writing to the file: each action is one transaction *)

Write(database) ==
  /\ writes < MaxWrites
  /\ writes' = writes + 1
  /\ source' = database
  /\ quiet' = (quiet /\ copy.at <= 1)
  /\ UNCHANGED <<target, ready, copy>>

SignUpAtSource(k) ==
  /\ k \notin KeysOf(source["user"])
  /\ Write([source EXCEPT !["user"] = @ \cup {Row(k, Nil, k)}])

\* Django's admin site.
Permit(k, p) ==
  /\ k \in KeysOf(source["user"])
  /\ Row(k, k, p) \notin source["permission"]
  /\ Write([source EXCEPT !["permission"] = @ \cup {Row(k, k, p)}])

Book(k, u) ==
  /\ k \notin KeysOf(source["booking"]) /\ u \in KeysOf(source["user"])
  /\ Write([source EXCEPT !["booking"] = @ \cup {Row(k, u, 0)}])

Offer(k, b) ==
  /\ k \notin KeysOf(source["exchange"])
  /\ b.val = 0
  /\ Write([source EXCEPT !["exchange"] = @ \cup {Row(k, b.key, 0)}])

\* An exchange that is accepted changes its own row and the booking's.
Accept(x, b) ==
  /\ x.val = 0 /\ b.val = 0 /\ x.ref = b.key
  /\ Write([source EXCEPT !["exchange"] = (@ \ {x}) \cup {[x EXCEPT !.val = 1]},
                          !["booking"] = (@ \ {b}) \cup {[b EXCEPT !.val = 1]}])

\* A refresh token, the first of its chain or rotated from another.
IssueToken(k, from) ==
  /\ k \notin KeysOf(source["refresh"])
  /\ from \in {Nil} \cup KeysOf(source["refresh"])
  /\ Write([source EXCEPT !["refresh"] = @ \cup {Row(k, from, 0)}])

-----------------------------------------------------------------------------
(* The target *)

Migrate ==
  /\ ~ready
  /\ ready' = TRUE
  /\ UNCHANGED <<source, target, copy, writes, quiet>>

\* Addresses are unique: one that the open transaction has written waits.
SignUpAtTarget(address) ==
  /\ ready
  /\ Newcomer \notin KeysOf(target["user"])
  /\ \A r \in target["user"] \cup copy.rows["user"] : r.val # address
  /\ target' = [target EXCEPT !["user"] = @ \cup {Row(Newcomer, Nil, address)}]
  /\ UNCHANGED <<source, ready, copy, writes, quiet>>

-----------------------------------------------------------------------------
(* The command *)

\* handle: whether there are users is asked before anything is migrated, so
\* without tables the command fails; --force ignores the answer.
Start(force) ==
  /\ copy.at = 0 /\ ready
  /\ force \/ target["user"] = {}
  /\ copy' = [NoCopy EXCEPT !.at = 1]
  /\ quiet' = TRUE
  /\ UNCHANGED <<source, target, ready, writes>>

\* Fault: the link rows keep the permission's number.
PermissionsByNumber ==
  source["permission"]

\* _permission_pk_map and _copy_through: the number that stands for the same
\* permission in the target; a permission it does not know is left out.
PermissionsByName ==
  UNION {{[r EXCEPT !.val = n] :
            n \in {p \in Permissions : NameInTarget[p] = NameInSource[r.val]}} :
         r \in source["permission"]}

\* bulk_create sets created_at (auto_now_add) and updated_at (auto_now) anew,
\* whatever the clone has there.  Links have neither.
Inserted(rows) == {[r EXCEPT !.dated = "copied"] : r \in rows}

\* _copy_refresh_tokens: all rows without what they were rotated from, and
\* then an update of that alone in each that has it.
RefreshTokens ==
  LET delayed == {r \in source["refresh"] : r.ref # Nil}
      inserted == Inserted({[r EXCEPT !.ref = Nil] : r \in source["refresh"]})
  IN  {r \in inserted : r.key \notin KeysOf(delayed)} \cup Inserted(delayed)

Cloned(t) ==
  CASE t = "permission" -> PermissionsByName
    [] t = "refresh"    -> RefreshTokens
    [] OTHER            -> Inserted(source[t])

\* What the target's unique constraints refuse; link rows get new keys.
Collides(t, r) ==
  \E q \in target[t] :
    \/ t # "permission" /\ q.key = r.key
    \/ t = "user" /\ q.val = r.val
    \/ t = "permission" /\ q.ref = r.ref /\ q.val = r.val

RollBack ==
  /\ copy' = NoCopy
  /\ UNCHANGED <<source, target, ready, writes, quiet>>

\* _copy_model and its like: one table is read, and inserted.
CopyTable ==
  /\ copy.at \in 1..Len(CopyOrder)
  /\ LET t == CopyOrder[copy.at] IN
     IF \E r \in Cloned(t) : Collides(t, r) THEN RollBack
     ELSE /\ copy' = [copy EXCEPT !.at = @ + 1, !.rows[t] = Cloned(t)]
          /\ UNCHANGED <<source, target, ready, writes, quiet>>

Merged == [t \in Tables |-> target[t] \cup copy.rows[t]]

Closed(database) ==
  \A t \in Tables : \A r \in database[t] :
    r.ref = Nil \/ r.ref \in KeysOf(database[Parent[t]])

\* The end of copy_rows; the foreign keys are deferred to here.
Commit ==
  /\ copy.at = Len(CopyOrder) + 1
  /\ Closed(Merged)
  /\ target' = Merged
  /\ copy' = NoCopy
  /\ UNCHANGED <<source, ready, writes, quiet>>

Refuse ==
  /\ copy.at = Len(CopyOrder) + 1
  /\ ~Closed(Merged)
  /\ RollBack

Interrupt == copy.at > 0 /\ RollBack

-----------------------------------------------------------------------------
(* The specification *)

CopyInit ==
  /\ source = NoRows /\ target = NoRows /\ ready = FALSE
  /\ copy = NoCopy /\ writes = 0 /\ quiet = FALSE

ProgramWrites ==
  \/ \E k \in Ids :
       \/ SignUpAtSource(k)
       \/ \E p \in Permissions : Permit(k, p)
       \/ \E u \in Ids : Book(k, u)
       \/ \E b \in source["booking"] : Offer(k, b)
       \/ \E from \in Ids \cup {Nil} : IssueToken(k, from)
  \/ \E x \in source["exchange"], b \in source["booking"] : Accept(x, b)

CopyNext ==
  \/ ProgramWrites
  \/ Migrate \/ \E k \in Ids \cup {Newcomer} : SignUpAtTarget(k)
  \/ \E force \in BOOLEAN : Start(force)
  \/ CopyTable \/ Commit \/ Refuse \/ Interrupt

CopySpec == CopyInit /\ [][CopyNext]_copyVars

-----------------------------------------------------------------------------
(* Properties *)

Rows == [key : Ids \cup {Newcomer}, ref : Ids \cup {Nil},
         val : Ids \cup {Newcomer} \cup Permissions \cup {0, 1},
         dated : {"written", "copied"}]

CopyTypeOK ==
  /\ source \in [Tables -> SUBSET Rows]
  /\ target \in [Tables -> SUBSET Rows]
  /\ ready \in BOOLEAN
  /\ copy \in [at : 0..(Len(CopyOrder) + 1), rows : [Tables -> SUBSET Rows]]
  /\ writes \in 0..MaxWrites
  /\ quiet \in BOOLEAN

\* Who may do what, by the names of the permissions.
Allowed(database, NameOf) == {<<r.ref, NameOf[r.val]>> : r \in database["permission"]}
KnownAtTarget(may) == {m \in may : m[2] \in {NameInTarget[p] : p \in Permissions}}

\* "Primary keys are preserved so FKs keep pointing at the same rows"
\* (copy_sqlite_to_postgres): the command changes the target only as a whole,
\* it takes nothing away that was there, and unless the program wrote to the
\* file while it ran, every row of the file is there then, with its key, what it
\* refers to and what it holds, and with the permission of the same name.  Only
\* when it was made and last saved is lost: each row says the time of the copy,
\* which the activity feed, "offline since" and the order of tickets then read.
CopiesAreWhole ==
  [][target' # target =>
       \/ target' = [target EXCEPT !["user"] = target'["user"]] /\ copy' = copy
       \/ /\ copy' = NoCopy
          /\ \A t \in Tables : target[t] \subseteq target'[t]
          /\ Closed(target')
          /\ quiet =>
               /\ \A t \in Tables \ {"permission"} : target'[t] = target[t] \cup Inserted(source[t])
               /\ Allowed(target', NameInTarget) =
                    Allowed(target, NameInTarget)
                      \cup KnownAtTarget(Allowed(source, NameInSource))]_copyVars
=============================================================================
