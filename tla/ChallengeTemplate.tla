-------------------------- MODULE ChallengeTemplate --------------------------
(* What the importer makes of a challenge.yaml: parseSpec reads its lines in *)
(* order, NormalizeSpec checks the outcome and fills in what is missing.     *)
(*                                                                           *)
(* A text is the sequence of its lines, blank lines, comments, quotes and    *)
(* surrounding blanks removed.  A line has its indent, whether it begins     *)
(* with "- ", and the words on either side of the colon that it is split at. *)
(* A line that ends in a colon has no value; one without a colon, no key,    *)
(* nor has an item of a command, which is not split.                         *)
EXTENDS Integers, Sequences, FiniteSets, FiniteSetsExt

CONSTANTS
    Numeral,     \* Numeral[w]: the number that strconv.Atoi reads in the word w
    Duration,    \* Duration[w]: the milliseconds that time.ParseDuration reads in w
    Lower,       \* Lower[w]: w in lower case, for the words that have upper case
    BadRegexes,  \* words that regexp.Compile refuses
    NoConfig,    \* there is no runtime configuration
    NoSpec       \* the text is refused

Line == [indent : Nat, dash : BOOLEAN, key : STRING, value : STRING]

ASSUME TemplateAssumption ==
    /\ \A w \in DOMAIN Numeral : Numeral[w] \in Int
    /\ \A w \in DOMAIN Duration : Duration[w] \in Int
    /\ "" \notin DOMAIN Numeral \cup DOMAIN Duration \cup BadRegexes

-----------------------------------------------------------------------------
(* Words                                                                    *)

Fold(w) == IF w \in DOMAIN Lower THEN Lower[w] ELSE w

Yes == {"true", "yes", "on"}
No  == {"false", "no", "off"}

Truth(w)      == Fold(w) \in Yes
Number(w)     == IF w = "" THEN 0 ELSE Numeral[w]
Millis(w)     == IF w = "" THEN 0 ELSE Duration[w]
Or(w, default) == IF w = "" THEN default ELSE w

\* The scalars of a template, section by section.
Keys ==
    [ meta      |-> {"slug", "title", "category", "points", "difficulty", "dynamic", "status",
                     "visible", "sort_order"},
      flag      |-> {"type", "value"},
      content   |-> {"description", "author"},
      ownership |-> {"author"},
      runtime   |-> {"image", "mode", "expose", "container_port", "ttl", "memory_limit_mb",
                     "cpu_limit_millicores", "max_renew_count", "max_active_instances",
                     "user_cooldown", "renew_allowed"} ]

Numbers   == {"points", "sort_order", "container_port", "memory_limit_mb", "cpu_limit_millicores",
              "max_renew_count", "max_active_instances"}
Truths    == {"dynamic", "visible", "renew_allowed"}
Durations == {"ttl", "user_cooldown"}

AttachmentKeys == {"filename", "source", "content_type"}

\* What assignScalar accepts.
Assignable(section, key, value) ==
    /\ section \in DOMAIN Keys /\ key \in Keys[section]
    /\ key \in Numbers => value \in DOMAIN Numeral
    /\ key \in Truths => Fold(value) \in Yes \cup No
    /\ key \in Durations => value \in DOMAIN Duration

-----------------------------------------------------------------------------
(* parseSpec                                                                *)

\* The locals of the scanner's loop: the specification so far, the section and
\* the nested section of the last line, and whether a line was refused.
Blank ==
    [ given       |-> [s \in DOMAIN Keys |-> [k \in Keys[s] |-> ""]],
      renewals    |-> 0,
      runtime     |-> FALSE,
      env         |-> [k \in {} |-> ""],
      command     |-> <<>>,
      attachments |-> <<>>,
      section     |-> "",
      nested      |-> "",
      refused     |-> FALSE ]

\* Fault: renewals are allowed once, whatever number was given before.
RenewalsReset(count, key, value) ==
    CASE key = "max_renew_count" -> Numeral[value]
      [] key = "renew_allowed"   -> IF Truth(value) THEN 1 ELSE 0
      [] OTHER                   -> count

\* max_renew_count and renew_allowed set the same field, in the order of the lines.
Renewals(count, key, value) ==
    CASE key = "max_renew_count" -> Numeral[value]
      [] key = "renew_allowed"   -> IF ~Truth(value) THEN 0 ELSE IF count = 0 THEN 1 ELSE count
      [] OTHER                   -> count

AssignScalar(st, key, value) ==
    [st EXCEPT !.given[st.section][key] = value,
               !.runtime = @ \/ st.section = "runtime",
               !.renewals = Renewals(@, key, value),
               !.nested = ""]

NewAttachment == [k \in AttachmentKeys |-> ""]

AssignAttachmentScalar(st, key, value) ==
    [st EXCEPT !.attachments[Len(st.attachments)][key] = value, !.nested = "attachment"]

IsHeader(line) == line.value = "" /\ line.key # ""

\* Only in attachments and command is a dash not a part of the key.
Key(line) == IF line.dash THEN "- " \o line.key ELSE line.key

ReadTopLevel(st, line) ==
    IF IsHeader(line)
    THEN [st EXCEPT !.section = Key(line), !.nested = "", !.runtime = @ \/ Key(line) = "runtime"]
    ELSE [st EXCEPT !.refused = TRUE]

ReadEntry(st, line) ==
    CASE st.section = "attachments" /\ line.dash /\ line.key \in AttachmentKeys ->
            AssignAttachmentScalar([st EXCEPT !.attachments = Append(@, NewAttachment)],
                                   line.key, line.value)
      [] st.section = "runtime" /\ IsHeader(line) /\ Key(line) \in {"env", "command"} ->
            [st EXCEPT !.nested = Key(line)]
      [] ~IsHeader(line) /\ Assignable(st.section, Key(line), line.value) ->
            AssignScalar(st, Key(line), line.value)
      [] OTHER -> [st EXCEPT !.refused = TRUE]

ReadNested(st, line) ==
    CASE st.section = "runtime" /\ st.nested = "command" /\ line.dash ->
            [st EXCEPT !.command = Append(@, line.value)]
      [] st.section = "runtime" /\ st.nested = "env" /\ line.key # "" ->
            [st EXCEPT !.env = [k \in DOMAIN @ \cup {Key(line)} |->
                                   IF k = Key(line) THEN line.value ELSE @[k]]]
      [] st.section = "attachments" /\ st.nested = "attachment" /\ Key(line) \in AttachmentKeys ->
            AssignAttachmentScalar(st, Key(line), line.value)
      [] OTHER -> [st EXCEPT !.refused = TRUE]

ReadLine(st, line) ==
    IF st.refused THEN st ELSE
    CASE line.indent = 0 -> ReadTopLevel(st, line)
      [] line.indent = 2 -> ReadEntry(st, line)
      [] line.indent = 4 -> ReadNested(st, line)
      [] OTHER           -> [st EXCEPT !.refused = TRUE]

-----------------------------------------------------------------------------
(* NormalizeSpec                                                            *)

\* NormalizeInputStatus
InputStatus(status, visible) ==
    IF status = "" THEN IF visible THEN "published" ELSE "draft" ELSE Fold(status)

\* normalizeFlagType
FlagType(flag) == Or(Fold(flag.type), "static")

\* ValidateFlagTypeConfig
ValidFlag(flag) ==
    /\ flag.value # ""
    /\ FlagType(flag) \in {"static", "case_insensitive", "regex"}
    /\ FlagType(flag) = "regex" => flag.value \notin BadRegexes

ValidRuntime(draft) ==
    LET runtime == draft.given.runtime IN
    /\ Truth(draft.given.meta.dynamic)
    /\ Or(Fold(runtime.mode), "per-user") = "per-user"
    /\ Or(Fold(runtime.expose), "http") \in {"http", "https", "tcp", "udp"}
    /\ runtime.image # ""
    /\ Number(runtime.container_port) > 0
    /\ Millis(runtime.ttl) > 0
    /\ draft.renewals >= 0
    /\ Number(runtime.max_active_instances) >= 0
    /\ Millis(runtime.user_cooldown) >= 0

Valid(draft) ==
    LET meta == draft.given.meta IN
    /\ Number(meta.points) > 0
    /\ InputStatus(meta.status, Truth(meta.visible)) \in {"draft", "review", "ready", "published"}
    /\ meta.slug # "" /\ meta.title # "" /\ meta.category # ""
    /\ ValidFlag(draft.given.flag)
    /\ \A i \in DOMAIN draft.attachments :
          draft.attachments[i].filename # "" /\ draft.attachments[i].source # ""
    /\ draft.runtime => ValidRuntime(draft)

PositiveOr(n, default) == IF n > 0 THEN n ELSE default

\* The columns of challenge_runtime_configs: whole seconds.
RuntimeConfig(draft) ==
    LET runtime == draft.given.runtime IN
    [ enabled  |-> TRUE,
      image    |-> runtime.image,
      protocol |-> Or(Fold(runtime.expose), "http"),
      port     |-> Number(runtime.container_port),
      ttl      |-> Millis(runtime.ttl) \div 1000,
      renewals |-> draft.renewals,
      memory   |-> PositiveOr(Number(runtime.memory_limit_mb), 256),
      cpu      |-> PositiveOr(Number(runtime.cpu_limit_millicores), 500),
      active   |-> Number(runtime.max_active_instances),
      cooldown |-> Millis(runtime.user_cooldown) \div 1000,
      env      |-> draft.env,
      command  |-> draft.command ]

\* The columns of challenges.
Row(draft) ==
    LET meta == draft.given.meta IN
    [ title       |-> meta.title,
      category    |-> meta.category,
      description |-> draft.given.content.description,
      points      |-> Number(meta.points),
      difficulty  |-> Or(Fold(meta.difficulty), "normal"),
      flagType    |-> FlagType(draft.given.flag),
      flagValue   |-> draft.given.flag.value,
      dynamic     |-> Truth(meta.dynamic),
      status      |-> InputStatus(meta.status, Truth(meta.visible)),
      sortOrder   |-> IF Number(meta.sort_order) = 0 THEN 10 ELSE Number(meta.sort_order) ]

\* normalizedOwnerRefs
OwnerRefs(draft) ==
    LET owner  == draft.given.ownership.author
        author == draft.given.content.author
    IN  (IF owner = "" THEN <<>> ELSE <<owner>>)
        \o (IF author \in {"", owner} THEN <<>> ELSE <<author>>)

NormalizeSpec(draft) ==
    [ slug        |-> draft.given.meta.slug,
      row         |-> Row(draft),
      config      |-> IF draft.runtime THEN RuntimeConfig(draft) ELSE NoConfig,
      owners      |-> OwnerRefs(draft),
      attachments |-> draft.attachments ]

\* The scanner's loop.
Parsed(text) ==
    LET after[n \in 0..Len(text)] == IF n = 0 THEN Blank ELSE ReadLine(after[n - 1], text[n])
    IN after[Len(text)]

LoadSpecFile(text) ==
    LET draft == Parsed(text) IN
    IF ~draft.refused /\ Valid(draft) THEN NormalizeSpec(draft) ELSE NoSpec

-----------------------------------------------------------------------------
(* Reference: what a text that is not refused declares.  It speaks of the    *)
(* text as a whole; the parser goes from line to line.                       *)

\* The line of the given ones that stands at place n among them.
Nth(lines, n) == CHOOSE i \in lines : Cardinality({j \in lines : j <= i}) = n

\* The section that line i is in, and the entry that it belongs to.
Heading(text, i) == Key(text[Max({j \in 1..i : text[j].indent = 0})])
Entry(text, i)   == Max({j \in 1..i : text[j].indent <= 2})

Entries(text, section) == {i \in DOMAIN text : text[i].indent = 2 /\ Heading(text, i) = section}

\* The lines below the entries of a section with the given key.
Below(text, section, key) ==
    {i \in DOMAIN text : /\ text[i].indent = 4
                         /\ Key(text[Entry(text, i)]) = key
                         /\ Heading(text, i) = section}

\* The lines of the item of a list that begins with the given line.
ItemLines(text, item) == {i \in DOMAIN text : Entry(text, i) = item}

\* The key of line i: an attachment begins with a dash.
Named(text, i) ==
    IF text[i].indent = 2 /\ Heading(text, i) = "attachments" THEN text[i].key ELSE Key(text[i])

\* The last of the given lines that has the key says its value.
LastSaid(text, lines, key) ==
    LET said == {i \in lines : Named(text, i) = key} IN
    IF said = {} THEN "" ELSE text[Max(said)].value

\* The last number given, and after it only whether renewals are allowed at all.
RenewalsSaid(text, entries) ==
    LET lines     == {i \in entries : Named(text, i) \in {"max_renew_count", "renew_allowed"}}
        Allows(i) == Named(text, i) = "renew_allowed" /\ Truth(text[i].value)
        fixing    == {i \in lines : ~Allows(i)}
        last      == IF fixing = {} THEN 0 ELSE Max(fixing)
        number    == IF last = 0 \/ Named(text, last) = "renew_allowed" THEN 0
                                                                       ELSE Numeral[text[last].value]
    IN IF number = 0 /\ (\E i \in lines : i > last) THEN 1 ELSE number

Declared(text) ==
    LET env     == Below(text, "runtime", "env")
        command == Below(text, "runtime", "command")
        items   == Entries(text, "attachments")
    IN NormalizeSpec(
        [ given       |-> [s \in DOMAIN Keys |->
                             [k \in Keys[s] |-> LastSaid(text, Entries(text, s), k)]],
          renewals    |-> RenewalsSaid(text, Entries(text, "runtime")),
          runtime     |-> \E i \in DOMAIN text : text[i].indent = 0 /\ Key(text[i]) = "runtime",
          env         |-> [k \in {Named(text, i) : i \in env} |-> LastSaid(text, env, k)],
          command     |-> [n \in 1..Cardinality(command) |-> text[Nth(command, n)].value],
          attachments |-> [n \in 1..Cardinality(items) |-> [k \in AttachmentKeys |->
                             LastSaid(text, ItemLines(text, Nth(items, n)), k)]] ])

=============================================================================
