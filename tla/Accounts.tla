------------------------------- MODULE Accounts -------------------------------
(***************************************************************************)
(* What the modules about a user's account share (users.ts): Sessions,     *)
(* ProfileImages and Registration.                                         *)
(***************************************************************************)
CONSTANTS
    Users,          \* rows of users
    Null            \* a column without a value

ASSUME UsersAssumption == Null \notin Users
=============================================================================
