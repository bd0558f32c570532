------------------------------ MODULE MCUserForm ------------------------------
(***************************************************************************)
(* Three groups, two of them named "x" under different parents (/a/x and   *)
(* /b/x), two required actions, and realms that allow, forbid or leave out *)
(* username editing, with and without email as username.                  *)
(***************************************************************************)
EXTENDS UserForm

MCGroups == {"ax", "bx", "y"}
MCGroupName == [g \in MCGroups |-> IF g = "y" THEN "y" ELSE "x"]
MCActions == {"VERIFY_EMAIL", "UPDATE_PASSWORD"}
MCRealms == [emailAsUsername : BOOLEAN, editUsernameAllowed : {TRUE, FALSE, Undef},
             userProfileEnabled : BOOLEAN]

=============================================================================
