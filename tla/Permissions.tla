----------------------------- MODULE Permissions -----------------------------
(* The roles and what hasPermission grants them.  The role is the one that  *)
(* the token carries, whatever the users table says by now.                 *)

Roles == {"player", "author", "ops", "admin"}

Reads  == {"contest:read", "challenge:read", "announcement:read",
           "submission:read", "instance:read", "audit:read"}
Writes == {"challenge:write", "attachment:write", "contest:write",
           "announcement:write", "instance:write", "user:write"}

Granted(role) ==
    CASE role = "admin"  -> Reads \cup Writes \cup {"user:read"}
      [] role = "ops"    -> Reads \cup {"attachment:write", "instance:write"}
      [] role = "author" -> {"challenge:read", "challenge:write", "attachment:write"}
      [] OTHER           -> {}

\* Actor.RestrictToOwnedChallenges
RestrictToOwned(role) == role = "author"

=============================================================================
