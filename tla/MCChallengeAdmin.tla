-------------------------- MODULE MCChallengeAdmin --------------------------
(* Small instances of ChallengeAdmin.                                       *)
EXTENDS ChallengeAdmin, TLC

CONSTANTS p1, p2

OneChal == {"web"}
TwoReqs == {p1, p2}

\* An administrator, and a user who is an author at times.
Staffing == [u \in {"root", "ann"} |-> IF u = "root" THEN {"admin"} ELSE {"author", "player"}]

Names == [ref \in {"ann", "ann@example.com", "root"} |-> IF ref = "root" THEN "root" ELSE "ann"]

-----------------------------------------------------------------------------
(* Templates                                                                *)

Numerals  == "0" :> 0 @@ "2" :> 2 @@ "80" :> 80 @@ "100" :> 100
Lengths   == "500ms" :> 500 @@ "30m" :> 1800000
Folds     == "Published" :> "published" @@ "HTTP" :> "http" @@ "Yes" :> "yes"

Head1(section)    == [indent |-> 0, dash |-> FALSE, key |-> section, value |-> ""]
Pair(key, value)  == [indent |-> 2, dash |-> FALSE, key |-> key, value |-> value]
Under(key, value) == [indent |-> 4, dash |-> FALSE, key |-> key, value |-> value]
Item(line)        == [line EXCEPT !.dash = TRUE]

Meta    == <<Head1("meta"), Pair("slug", "web"), Pair("title", "t"), Pair("category", "web"),
             Pair("points", "100"), Pair("dynamic", "Yes")>>
Flag    == <<Head1("flag"), Pair("value", "f")>>
Runtime == <<Head1("runtime"), Pair("image", "i"), Pair("container_port", "80"), Pair("ttl", "30m")>>
Attached == <<Head1("attachments"), Item(Pair("filename", "a")), Under("source", "s")>>

\* Lines whose order and number matter.
Renewing == {Pair("max_renew_count", "0"), Pair("max_renew_count", "2"),
             Pair("renew_allowed", "true"), Pair("renew_allowed", "false")}
Nesting  == {Pair("env", ""), Under("A", "1"), Pair("command", ""), Item(Under("", "run")),
             Pair("expose", "HTTP")}
Owning   == {Head1("content"), Pair("author", "ann"), Pair("author", "nobody"),
             Pair("status", "Published")}

UpTo(n, S) == UNION {[1..k -> S] : k \in 0..n}
Orders(S)  == {lines \in [1..Cardinality(S) -> S] : IsInjective(lines)}

Templates ==
       { Meta \o Flag \o Runtime \o lines : lines \in UpTo(3, Renewing) }
  \cup { Meta \o Flag \o Runtime \o lines \o Attached : lines \in Orders(Nesting) }
  \cup { Meta \o lines \o Flag : lines \in UpTo(2, Owning) }

\* Requests write a challenge with and without a configuration.
Written(file) ==
    [LoadSpecFile(Meta \o <<Pair("title", "api")>> \o Flag \o file) EXCEPT !.owners = <<>>]
Asks == { Written(<<>>), Written(Runtime) }

=============================================================================
