----------------------------- MODULE MCAccounts -----------------------------
(***************************************************************************)
(* An instance for TLC of sign-in, of what comes after it, of the          *)
(* administration of residents and of the move to another database.  The   *)
(* modules share no variable, and interleaving them would only multiply    *)
(* their states: a behaviour is one component's, named by focus, and the   *)
(* others stay as they start.                                              *)
(*                                                                         *)
(* Interchangeable values of different components have the same names (x1, *)
(* x2), which keeps the symmetry group small.                              *)
(***************************************************************************)
EXTENDS SignIn, Sessions, Residents, DatabaseCopy, TLC

CONSTANTS x1, x2, h1, h2, e1, p1, i1, i2, y1, t1

VARIABLE focus

Symmetric == Permutations({x1, x2}) \cup Permutations({h1, h2})

EveryAddressAtGim == [a \in Addresses |-> "gim"]

\* The interleavings of the database cache cost most: one code there.
FewCodes ==
  [b \in Backends, p \in {"register", "login", "reset"} |-> IF b = "db" THEN 1 ELSE 3]

OnlyTheFirst == [p \in People |-> {i1}]

\* A permission has another number in the target, or is unknown there.
SourceNames == [n \in Permissions |-> IF n = 1 THEN "view" ELSE "delete"]
TargetNames == [n \in Permissions |-> IF n = 1 THEN "add" ELSE "view"]

-----------------------------------------------------------------------------

NobodySignsIn ==
  SignInInit /\ backend = "db" /\ purpose = "login" /\ account = [a \in Addresses |-> NoAccount]

AccountsInit ==
  /\ focus \in {"sign-in", "sessions", "residents", "copy"}
  /\ IF focus = "sign-in" THEN SignInInit ELSE NobodySignsIn
  /\ SessionInit
  /\ ResidentsInit
  /\ CopyInit

SigningIn ==
  /\ focus = "sign-in"
  /\ SignInNext
  /\ UNCHANGED <<focus, sessionVars, residentVars, copyVars>>

SignedIn ==
  /\ focus = "sessions"
  /\ SessionNext
  /\ UNCHANGED <<focus, signInVars, residentVars, copyVars>>

Administering ==
  /\ focus = "residents"
  /\ ResidentsNext
  /\ UNCHANGED <<focus, signInVars, sessionVars, copyVars>>

Copying ==
  /\ focus = "copy"
  /\ CopyNext
  /\ UNCHANGED <<focus, signInVars, sessionVars, residentVars>>

AccountsNext == SigningIn \/ SignedIn \/ Administering \/ Copying

AccountsSpec ==
  AccountsInit
    /\ [][AccountsNext]_<<focus, signInVars, sessionVars, residentVars, copyVars>>

\* Every variable of every component stays in its type.
AccountsTypeOK ==
  SignInTypeOK /\ SessionTypeOK /\ ResidentTypeOK /\ CopyTypeOK
=============================================================================
