---------------------------- MODULE ContestPhase ----------------------------
(* What the contest's status allows: contest.NormalizeStatus, BuildPhase   *)
(* and the capability each public handler asks for.  starts_at and ends_at *)
(* are shown to the players and decide nothing.                            *)

Statuses == {"draft", "upcoming", "running", "frozen", "ended"}

\* The status column is free text; anything unknown counts as a draft.
NormalizeStatus(value) == IF value \in Statuses THEN value ELSE "draft"

Viewing == {"announcements", "challenges", "detail", "attachments", "scoreboard"}

Capabilities == Viewing \cup {"submission", "runtime", "registration"}

\* BuildPhase: the capabilities that are true in a status.
Phase(status) ==
    CASE status = "running"  -> Capabilities
      [] status = "frozen"   -> Viewing \cup {"registration"}
      [] status = "ended"    -> Viewing
      [] status = "upcoming" -> {"announcements", "registration"}
      [] OTHER               -> {}

=============================================================================
