------------------------ MODULE ChallengeTemplateProofs ------------------------
(* The parser makes of every text that it does not refuse what the text      *)
(* declares, for any number of lines.  An induction over the lines: the      *)
(* locals of parseSpec hold, after n lines, what the first n lines declare.  *)
EXTENDS ChallengeTemplate, Functions, FiniteSetTheorems, WellFoundedInduction, NaturalsInduction,
        SequenceTheorems, TLAPS

-----------------------------------------------------------------------------
(* Numbers.                                                                  *)

\* A set of numbers has a least one.
LEMMA Least ==
    ASSUME NEW S, S \subseteq Nat, S # {}
    PROVE  \E x \in S : \A y \in S : x <= y
  <1>1. IsWellFoundedOn(OpToRel(<, Nat), Nat)
    BY NatLessThanWellFounded
  <1>2. PICK x \in S : \A y \in S : ~ (<<y, x>> \in OpToRel(<, Nat))
    BY <1>1, WFMin, Zenon
  <1>3. \A y \in S : ~ (y < x)
    BY <1>2, Zenon DEF OpToRel
  <1> HIDE <1>2
  <1> QED
    BY <1>3, x \in Nat

\* Induction over 0..n, with the set of the numbers that have the property.
LEMMA Induction ==
    ASSUME NEW n \in Nat, NEW S, 0 \in S,
           \A i \in 0..n : i < n /\ i \in S => i + 1 \in S
    PROVE  0..n \subseteq S
  <1> SUFFICES ASSUME (0..n) \ S # {} PROVE FALSE
    OBVIOUS
  <1>1. PICK x \in (0..n) \ S : \A y \in (0..n) \ S : x <= y
    BY Least, (0..n) \ S \subseteq Nat
  <1>2. x # 0 /\ x - 1 \in 0..n /\ x - 1 < n
    BY <1>1
  <1>3. x - 1 \in S
    BY <1>1, <1>2
  <1> QED
    BY <1>1, <1>2, <1>3

LEMMA MaxIs ==
    ASSUME NEW S, \A x \in S : x \in Nat, NEW m \in S, \A j \in S : j <= m
    PROVE  Max(S) = m
  <1>1. \E x \in S : \A y \in S : x >= y
    OBVIOUS
  <1>2. Max(S) \in S /\ \A y \in S : Max(S) >= y
    BY <1>1 DEF Max
  <1>. QED  BY <1>2

\* A bounded set of numbers has a greatest one.
LEMMA MaxIn ==
    ASSUME NEW n \in Nat, NEW S, \A x \in S : x \in 0..n, S # {}
    PROVE  Max(S) \in S /\ \A y \in S : y <= Max(S)
  <1>. DEFINE Done == {k \in 0..n : (\E j \in S : j <= k)
                         => \E x \in S : x <= k /\ \A y \in S : y <= k => y <= x}
  <1>1. 0 \in Done
    OBVIOUS
  <1>2. ASSUME NEW k \in 0..n, k < n, k \in Done
        PROVE  k + 1 \in Done
    <2>1. CASE k + 1 \in S
      BY <1>2, <2>1
    <2>2. CASE k + 1 \notin S
      <3>1. \A y \in S : y <= k + 1 => y <= k
        BY <2>2
      <3>. QED  BY <1>2, <3>1
    <2>. QED  BY <2>1, <2>2
  <1>3. 0..n \subseteq Done
    <2>. HIDE DEF Done
    <2>. QED  BY <1>1, <1>2, Induction
  <1>4. n \in Done
    BY <1>3
  <1>5. \E x \in S : \A y \in S : x >= y
    BY <1>4
  <1>. QED  BY <1>5 DEF Max

\* The lines of S among the first n.
Upto(S, n) == {i \in S : i <= n}

LEMMA UptoNext ==
    ASSUME NEW S, \A x \in S : x \in Nat, NEW n \in Nat
    PROVE  /\ Upto(S, n) \subseteq 0..n /\ n + 1 \notin Upto(S, n)
           /\ n + 1 \notin S => Upto(S, n + 1) = Upto(S, n)
           /\ n + 1 \in S => Upto(S, n + 1) = Upto(S, n) \cup {n + 1}
  BY DEF Upto

LEMMA UptoFinite ==
    ASSUME NEW S, \A x \in S : x \in Nat, NEW n \in Nat
    PROVE  IsFiniteSet(Upto(S, n)) /\ Cardinality(Upto(S, n)) \in Nat
  <1>1. IsFiniteSet(0..n)
    BY FS_Interval
  <1>2. Upto(S, n) \subseteq 0..n
    BY UptoNext
  <1>. QED  BY <1>1, <1>2, FS_Subset, FS_CardinalityType

LEMMA CountNext ==
    ASSUME NEW S, \A x \in S : x \in Nat, NEW n \in Nat
    PROVE  Cardinality(Upto(S, n + 1)) =
             IF n + 1 \in S THEN Cardinality(Upto(S, n)) + 1 ELSE Cardinality(Upto(S, n))
  BY UptoNext, UptoFinite, FS_AddElement

LEMMA CountLess ==
    ASSUME NEW S, \A x \in S : x \in Nat, NEW i \in S, NEW j \in S, i < j
    PROVE  Cardinality(Upto(S, i)) < Cardinality(Upto(S, j))
  <1>1. Upto(S, i) \cup {j} \subseteq Upto(S, j) /\ j \notin Upto(S, i)
    BY DEF Upto
  <1>2. /\ IsFiniteSet(Upto(S, i)) /\ Cardinality(Upto(S, i)) \in Nat
        /\ IsFiniteSet(Upto(S, j)) /\ Cardinality(Upto(S, j)) \in Nat
    BY UptoFinite
  <1>3. Cardinality(Upto(S, i) \cup {j}) = Cardinality(Upto(S, i)) + 1
    BY <1>1, <1>2, FS_AddElement
  <1>4. Cardinality(Upto(S, i) \cup {j}) <= Cardinality(Upto(S, j))
    BY <1>1, <1>2, FS_Subset
  <1>. QED  BY <1>2, <1>3, <1>4

\* Who has as many lines up to it as n is at place n, and every place is taken.
LEMMA NthIs ==
    ASSUME NEW S, \A x \in S : x \in Nat, NEW i \in S
    PROVE  Nth(S, Cardinality(Upto(S, i))) = i
  <1>1. \A j \in S : Cardinality({k \in S : k <= j}) = Cardinality(Upto(S, i)) => j = i
    <2>. SUFFICES ASSUME NEW j \in S, Cardinality(Upto(S, j)) = Cardinality(Upto(S, i))
                  PROVE  j = i
      BY DEF Upto
    <2>1. Cardinality(Upto(S, i)) \in Nat /\ Cardinality(Upto(S, j)) \in Nat
      BY UptoFinite
    <2>2. ~ (i < j) /\ ~ (j < i)
      BY CountLess, <2>1
    <2>. QED  BY <2>2
  <1>2. Cardinality({k \in S : k <= i}) = Cardinality(Upto(S, i))
    BY DEF Upto
  <1>. QED  BY <1>1, <1>2 DEF Nth

LEMMA NthExists ==
    ASSUME NEW S, \A x \in S : x \in Nat \ {0}, NEW n \in Nat, NEW j \in 1..Cardinality(Upto(S, n))
    PROVE  Nth(S, j) \in S /\ Nth(S, j) <= n /\ Cardinality(Upto(S, Nth(S, j))) = j
  <1>. DEFINE Full(k) == \A place \in 1..Cardinality(Upto(S, k)) :
                            \E i \in S : i <= k /\ Cardinality(Upto(S, i)) = place
              Done == {k \in 0..n : Full(k)}
  <1>1. 0 \in Done
    <2>1. Upto(S, 0) = {}
      BY DEF Upto
    <2>2. Cardinality(Upto(S, 0)) = 0
      BY <2>1, FS_EmptySet
    <2>. QED  BY <2>2
  <1>2. ASSUME NEW k \in 0..n, k < n, k \in Done
        PROVE  k + 1 \in Done
    <2>1. Cardinality(Upto(S, k)) \in Nat /\ k \in Nat
      BY UptoFinite
    <2>2. Cardinality(Upto(S, k + 1)) =
             IF k + 1 \in S THEN Cardinality(Upto(S, k)) + 1 ELSE Cardinality(Upto(S, k))
      BY <2>1, CountNext
    <2>3. ASSUME NEW place \in 1..Cardinality(Upto(S, k + 1))
          PROVE  \E i \in S : i <= k + 1 /\ Cardinality(Upto(S, i)) = place
      <3>1. CASE place \in 1..Cardinality(Upto(S, k))
        <4>1. PICK i \in S : i <= k /\ Cardinality(Upto(S, i)) = place
          BY <1>2, <3>1
        <4>. QED  BY <4>1, <2>1
      <3>2. CASE k + 1 \in S /\ place = Cardinality(Upto(S, k)) + 1
        BY <3>2, <2>1, <2>2
      <3>. QED  BY <2>1, <2>2, <2>3, <3>1, <3>2
    <2>. QED  BY <2>3, <1>2
  <1>3. n \in Done
    <2>1. 0..n \subseteq Done
      <3>. HIDE DEF Done
      <3>. QED  BY <1>1, <1>2, Induction
    <2>. QED  BY <2>1
  <1>4. PICK i \in S : i <= n /\ Cardinality(Upto(S, i)) = j
    BY <1>3
  <1>5. Nth(S, j) = i
    BY <1>4, NthIs
  <1>. QED  BY <1>4, <1>5

-----------------------------------------------------------------------------
(* The parser's loop.                                                        *)

\* What the parser knows after each of the first k lines.
Readings(text, k, g) ==
    /\ g = [i \in 0..k |-> g[i]]
    /\ g[0] = Blank
    /\ \A i \in 1..k : g[i] = ReadLine(g[i - 1], text[i])

LEMMA RunsExist ==
    ASSUME NEW text, NEW n \in Nat
    PROVE  \E g : Readings(text, n, g)
  <1>. DEFINE Good == {k \in 0..n : \E g : Readings(text, k, g)}
  <1>1. 0 \in Good
    <2>. DEFINE start == [i \in 0..0 |-> Blank]
    <2>1. Readings(text, 0, start)
      BY DEF Readings
    <2>. QED  BY <2>1
  <1>2. ASSUME NEW k \in 0..n, k < n, k \in Good
        PROVE  k + 1 \in Good
    <2>1. PICK g : Readings(text, k, g)
      BY <1>2
    <2>. DEFINE next == [i \in 0..(k + 1) |->
                           IF i = k + 1 THEN ReadLine(g[k], text[k + 1]) ELSE g[i]]
    <2>2. next = [i \in 0..(k + 1) |-> next[i]] /\ next[0] = Blank
      BY <2>1 DEF Readings
    <2>3. ASSUME NEW i \in 1..(k + 1)
          PROVE  next[i] = ReadLine(next[i - 1], text[i])
      <3>1. CASE i = k + 1
        BY <3>1
      <3>2. CASE i \in 1..k
        <4>1. next[i] = g[i] /\ next[i - 1] = g[i - 1]
          BY <3>2
        <4>. QED  BY <2>1, <3>2, <4>1 DEF Readings
      <3>. QED  BY <3>1, <3>2
    <2>4. Readings(text, k + 1, next)
      <3>. HIDE DEF next
      <3>. QED  BY <2>2, <2>3 DEF Readings
    <2>. QED  BY <1>2, <2>4
  <1>3. 0..n \subseteq Good
    <2>. HIDE DEF Good
    <2>. QED  BY <1>1, <1>2, Induction
  <1>4. n \in Good
    BY <1>3
  <1>. QED  BY <1>4

\* Parsed is the last of the states that the loop goes through.
LEMMA ParsedRuns ==
    ASSUME NEW text, Len(text) \in Nat
    PROVE  \E g : Readings(text, Len(text), g) /\ Parsed(text) = g[Len(text)]
  <1>. DEFINE Step(g) == [n \in 0..Len(text) |->
                            IF n = 0 THEN Blank ELSE ReadLine(g[n - 1], text[n])]
              after   == CHOOSE g : g = Step(g)
  <1>1. Parsed(text) = after[Len(text)]
    BY Zenon DEF Parsed
  <1>2. PICK g : Readings(text, Len(text), g)
    BY RunsExist
  <1>3. g = Step(g)
    <2>1. \A n \in 0..Len(text) : g[n] = IF n = 0 THEN Blank ELSE ReadLine(g[n - 1], text[n])
      BY <1>2 DEF Readings
    <2>2. g = [n \in 0..Len(text) |-> g[n]]
      BY <1>2 DEF Readings
    <2>. HIDE <1>2
    <2>. QED  BY <2>1, <2>2
  <1>4. after = Step(after)
    BY <1>3, Zenon
  <1>5. Readings(text, Len(text), after)
    <2>. HIDE DEF after
    <2>. QED  BY <1>4 DEF Readings
  <1>. QED  BY <1>1, <1>5

-----------------------------------------------------------------------------
(* Places in a text.                                                         *)

Lines(text) ==
    /\ DOMAIN text = 1..Len(text) /\ Len(text) \in Nat
    /\ \A i \in DOMAIN text : text[i] \in Line

LEMMA Indents ==
    ASSUME NEW text, Lines(text), NEW i \in DOMAIN text
    PROVE  i \in Nat \ {0} /\ text[i].indent \in Nat
  BY DEF Lines, Line

LEMMA OwnHeading ==
    ASSUME NEW text, Lines(text), NEW i \in DOMAIN text, text[i].indent = 0
    PROVE  Heading(text, i) = Key(text[i])
  <1>. DEFINE S == {j \in 1..i : text[j].indent = 0}
  <1>1. i \in S /\ (\A x \in S : x \in Nat) /\ (\A x \in S : x <= i)
    BY Indents
  <1>2. Max(S) = i
    <2>. HIDE DEF S
    <2>. QED  BY <1>1, MaxIs
  <1>. QED  BY <1>2 DEF Heading

LEMMA OwnEntry ==
    ASSUME NEW text, Lines(text), NEW i \in DOMAIN text, text[i].indent <= 2
    PROVE  Entry(text, i) = i
  <1>. DEFINE S == {j \in 1..i : text[j].indent <= 2}
  <1>1. i \in S /\ (\A x \in S : x \in Nat) /\ (\A x \in S : x <= i)
    BY Indents
  <1>2. Max(S) = i
    <2>. HIDE DEF S
    <2>. QED  BY <1>1, MaxIs
  <1>. QED  BY <1>2 DEF Entry

LEMMA SameHeading ==
    ASSUME NEW text, Lines(text), NEW n \in Nat, n + 1 \in DOMAIN text,
           text[n + 1].indent # 0
    PROVE  Heading(text, n + 1) = Heading(text, n)
  <1>1. {j \in 1..(n + 1) : text[j].indent = 0} = {j \in 1..n : text[j].indent = 0}
    OBVIOUS
  <1>. QED  BY <1>1 DEF Heading

LEMMA SameEntry ==
    ASSUME NEW text, Lines(text), NEW n \in Nat, n + 1 \in DOMAIN text,
           text[n + 1].indent > 2
    PROVE  Entry(text, n + 1) = Entry(text, n)
  <1>1. text[n + 1].indent \in Nat
    BY Indents
  <1>2. {j \in 1..(n + 1) : text[j].indent <= 2} = {j \in 1..n : text[j].indent <= 2}
    BY <1>1
  <1>. QED  BY <1>2 DEF Entry

\* In a text that begins with a heading every line belongs to an entry or is a
\* heading, and has the heading of that line.
LEMMA EntryBefore ==
    ASSUME NEW text, Lines(text), NEW i \in DOMAIN text, text[1].indent = 0
    PROVE  /\ Entry(text, i) \in 1..i
           /\ text[Entry(text, i)].indent <= 2
           /\ \A j \in 1..i : text[j].indent <= 2 => j <= Entry(text, i)
  <1>. DEFINE S == {j \in 1..i : text[j].indent <= 2}
  <1>1. 1 \in S /\ (\A x \in S : x \in 0..i)
    BY Indents
  <1>2. Max(S) \in S /\ \A y \in S : y <= Max(S)
    <2>. HIDE DEF S
    <2>. QED  BY <1>1, MaxIn, Indents
  <1>. QED  BY <1>2 DEF Entry

LEMMA EntryHeading ==
    ASSUME NEW text, Lines(text), NEW i \in DOMAIN text, text[1].indent = 0
    PROVE  Heading(text, Entry(text, i)) = Heading(text, i)
  <1>1. PICK e \in 1..i : e = Entry(text, i) /\ \A j \in 1..i : text[j].indent <= 2 => j <= e
    BY EntryBefore
  <1>2. {j \in 1..i : text[j].indent = 0} = {j \in 1..e : text[j].indent = 0}
    BY <1>1, Indents
  <1>. QED  BY <1>1, <1>2 DEF Heading

\* The heading of a line stands in the text.
LEMMA HeadingThere ==
    ASSUME NEW text, Lines(text), NEW i \in DOMAIN text, text[1].indent = 0
    PROVE  \E j \in 1..i : text[j].indent = 0 /\ Key(text[j]) = Heading(text, i)
  <1>. DEFINE S == {j \in 1..i : text[j].indent = 0}
  <1>1. 1 \in S /\ (\A x \in S : x \in 0..i)
    BY Indents
  <1>2. Max(S) \in S
    <2>. HIDE DEF S
    <2>. QED  BY <1>1, MaxIn, Indents
  <1>. QED  BY <1>2 DEF Heading

\* What the lines up to the next one say.
LEMMA SaidNext ==
    ASSUME NEW text, NEW S, \A x \in S : x \in Nat, NEW n \in Nat, NEW key
    PROVE  LastSaid(text, Upto(S, n + 1), key) =
             IF n + 1 \in S /\ Named(text, n + 1) = key THEN text[n + 1].value
                                                        ELSE LastSaid(text, Upto(S, n), key)
  <1>. DEFINE Said(k) == {i \in Upto(S, k) : Named(text, i) = key}
  <1>1. CASE n + 1 \in S /\ Named(text, n + 1) = key
    <2>1. n + 1 \in Said(n + 1) /\ (\A x \in Said(n + 1) : x \in Nat)
          /\ \A x \in Said(n + 1) : x <= n + 1
      BY <1>1 DEF Upto
    <2>2. Max(Said(n + 1)) = n + 1 /\ Said(n + 1) # {}
      <3>. HIDE DEF Said
      <3>. QED  BY <2>1, MaxIs
    <2>. QED  BY <1>1, <2>2 DEF LastSaid
  <1>2. CASE ~ (n + 1 \in S /\ Named(text, n + 1) = key)
    <2>1. Said(n + 1) = Said(n)
      BY <1>2, UptoNext
    <2>. QED  BY <1>2, <2>1 DEF LastSaid
  <1>. QED  BY <1>1, <1>2

-----------------------------------------------------------------------------
(* What the first n lines declare, field by field.                           *)

Env(text)   == Below(text, "runtime", "env")
Cmd(text)   == Below(text, "runtime", "command")
Items(text) == Entries(text, "attachments")

SectionAt(text, n) == IF n = 0 THEN "" ELSE Heading(text, n)

NestedAt(text, n) ==
    IF n = 0 \/ text[Entry(text, n)].indent # 2 THEN ""
    ELSE IF Heading(text, n) = "attachments" THEN "attachment"
    ELSE IF Heading(text, n) = "runtime" /\ Key(text[Entry(text, n)]) \in {"env", "command"}
         THEN Key(text[Entry(text, n)]) ELSE ""

GivenAt(text, n) ==
    [s \in DOMAIN Keys |-> [k \in Keys[s] |-> LastSaid(text, Upto(Entries(text, s), n), k)]]

RenewalsAt(text, n) == RenewalsSaid(text, Upto(Entries(text, "runtime"), n))

RuntimeAt(text, n) == \E i \in 1..n : text[i].indent = 0 /\ Key(text[i]) = "runtime"

EnvAt(text, n) ==
    [k \in {Named(text, i) : i \in Upto(Env(text), n)} |-> LastSaid(text, Upto(Env(text), n), k)]

CmdAt(text, n) ==
    [j \in 1..Cardinality(Upto(Cmd(text), n)) |-> text[Nth(Cmd(text), j)].value]

ItemAt(text, n, item) ==
    [k \in AttachmentKeys |-> LastSaid(text, Upto(ItemLines(text, item), n), k)]

ItemsAt(text, n) ==
    [j \in 1..Cardinality(Upto(Items(text), n)) |-> ItemAt(text, n, Nth(Items(text), j))]

LEMMA LineSets ==
    ASSUME NEW text, Lines(text), NEW section, NEW key
    PROVE  /\ \A x \in Entries(text, section) : x \in Nat \ {0}
           /\ \A x \in Below(text, section, key) : x \in Nat \ {0}
           /\ \A x \in ItemLines(text, key) : x \in Nat \ {0}
  BY Indents DEF Entries, Below, ItemLines

LEMMA KeyFacts ==
    /\ "" \notin DOMAIN Keys /\ "attachments" \notin DOMAIN Keys /\ "runtime" \in DOMAIN Keys
    /\ \A s \in DOMAIN Keys : s # "runtime" => /\ "max_renew_count" \notin Keys[s]
                                               /\ "renew_allowed" \notin Keys[s]
    /\ "env" \notin Keys["runtime"] /\ "command" \notin Keys["runtime"]
  BY DEF Keys

Put(f, k, v)      == [f EXCEPT ![k] = v]
PutIn(f, i, k, v) == [f EXCEPT ![i][k] = v]

LEMMA GivenSame ==
    ASSUME NEW text, Lines(text), NEW n \in Nat,
           \A s \in DOMAIN Keys : n + 1 \in Entries(text, s) => Named(text, n + 1) \notin Keys[s]
    PROVE  GivenAt(text, n + 1) = GivenAt(text, n)
  <1>1. ASSUME NEW s \in DOMAIN Keys, NEW k \in Keys[s]
        PROVE  LastSaid(text, Upto(Entries(text, s), n + 1), k)
                 = LastSaid(text, Upto(Entries(text, s), n), k)
    <2>1. \A x \in Entries(text, s) : x \in Nat
      BY LineSets
    <2>. QED  BY <2>1, SaidNext
  <1>. QED  BY <1>1 DEF GivenAt

LEMMA GivenSet ==
    ASSUME NEW text, Lines(text), NEW n \in Nat, NEW s \in DOMAIN Keys, NEW k \in Keys[s],
           n + 1 \in Entries(text, s), Named(text, n + 1) = k
    PROVE  GivenAt(text, n + 1) = PutIn(GivenAt(text, n), s, k, text[n + 1].value)
  <1>1. ASSUME NEW t \in DOMAIN Keys, NEW key \in Keys[t]
        PROVE  LastSaid(text, Upto(Entries(text, t), n + 1), key)
                 = IF t = s /\ key = k THEN text[n + 1].value
                                       ELSE LastSaid(text, Upto(Entries(text, t), n), key)
    <2>1. \A x \in Entries(text, t) : x \in Nat
      BY LineSets
    <2>2. n + 1 \in Entries(text, t) => t = s
      BY DEF Entries
    <2>. QED  BY <2>1, <2>2, SaidNext
  <1>. DEFINE old == GivenAt(text, n)
              new == GivenAt(text, n + 1)
  <1>2. ASSUME NEW t \in DOMAIN Keys
        PROVE  new[t] = [key \in Keys[t] |-> IF t = s /\ key = k THEN text[n + 1].value
                                                                 ELSE old[t][key]]
    BY <1>1, <1>2 DEF GivenAt
  <1>3. new = [t \in DOMAIN Keys |-> new[t]] /\ old = [t \in DOMAIN Keys |-> old[t]]
    BY DEF GivenAt
  <1>4. \A t \in DOMAIN Keys : old[t] = [key \in Keys[t] |-> old[t][key]]
    BY DEF GivenAt
  <1>. HIDE DEF old, new
  <1>5. \A t \in DOMAIN Keys : t # s => new[t] = old[t]
    BY <1>2, <1>4
  <1>6. new[s] = [old[s] EXCEPT ![k] = text[n + 1].value]
    BY <1>2, <1>4
  <1>7. new = [old EXCEPT ![s] = [old[s] EXCEPT ![k] = text[n + 1].value]]
    BY <1>3, <1>5, <1>6
  <1>. QED  BY <1>7 DEF old, new, PutIn

LEMMA RuntimeNext ==
    ASSUME NEW text, NEW n \in Nat
    PROVE  RuntimeAt(text, n + 1)
             <=> RuntimeAt(text, n) \/ (text[n + 1].indent = 0 /\ Key(text[n + 1]) = "runtime")
  BY DEF RuntimeAt

LEMMA EnvSame ==
    ASSUME NEW text, Lines(text), NEW n \in Nat, n + 1 \notin Env(text)
    PROVE  EnvAt(text, n + 1) = EnvAt(text, n)
  <1>1. Upto(Env(text), n + 1) = Upto(Env(text), n)
    BY LineSets, UptoNext DEF Env
  <1>. QED  BY <1>1 DEF EnvAt

LEMMA EnvSet ==
    ASSUME NEW text, Lines(text), NEW n \in Nat, n + 1 \in Env(text)
    PROVE  EnvAt(text, n + 1) =
             [k \in DOMAIN EnvAt(text, n) \cup {Named(text, n + 1)} |->
                 IF k = Named(text, n + 1) THEN text[n + 1].value ELSE EnvAt(text, n)[k]]
  <1>1. \A x \in Env(text) : x \in Nat
    BY LineSets DEF Env
  <1>2. Upto(Env(text), n + 1) = Upto(Env(text), n) \cup {n + 1}
    BY <1>1, UptoNext
  <1>3. {Named(text, i) : i \in Upto(Env(text), n + 1)}
          = {Named(text, i) : i \in Upto(Env(text), n)} \cup {Named(text, n + 1)}
    BY <1>2
  <1>4. \A k : LastSaid(text, Upto(Env(text), n + 1), k)
                 = IF k = Named(text, n + 1) THEN text[n + 1].value
                                             ELSE LastSaid(text, Upto(Env(text), n), k)
    BY <1>1, SaidNext
  <1>. QED  BY <1>3, <1>4 DEF EnvAt

List(s, c) == s = [j \in 1..c |-> s[j]]

LEMMA AppendIs ==
    ASSUME NEW c \in Nat, NEW s, NEW t, NEW v,
           List(s, c), List(t, c + 1),
           \A j \in 1..c : t[j] = s[j], t[c + 1] = v
    PROVE  t = Append(s, v)
  <1>. USE DEF List
  <1>. DEFINE V == {t[j] : j \in 1..(c + 1)}
  <1>1. s \in Seq(V) /\ Len(s) = c /\ v \in V
    <2>1. ASSUME NEW j \in 1..c
          PROVE  s[j] \in V
      <3>1. j \in 1..(c + 1) /\ s[j] = t[j]
        OBVIOUS
      <3>. QED  BY <3>1
    <2>2. s \in [1..c -> V]
      <3>. HIDE DEF V
      <3>. QED  BY <2>1
    <2>3. v \in V
      BY c + 1 \in 1..(c + 1)
    <2>4. Len(s) = c
      OBVIOUS
    <2>. HIDE DEF V, List
    <2>5. s \in Seq(V)
      BY <2>2
    <2>. QED  BY <2>3, <2>4, <2>5
  <1>2. t \in Seq(V) /\ Len(t) = c + 1
    OBVIOUS
  <1>3. /\ Append(s, v) \in Seq(V) /\ Len(Append(s, v)) = c + 1
        /\ \A i \in 1..c : Append(s, v)[i] = s[i]
        /\ Append(s, v)[c + 1] = v
    <2>. HIDE DEF V
    <2>. QED  BY <1>1, AppendProperties
  <1>4. ASSUME NEW i \in 1..Len(t)
        PROVE  t[i] = Append(s, v)[i]
    <2>1. i \in 1..c \/ i = c + 1
      BY <1>2
    <2>. QED  BY <1>3, <2>1
  <1>. QED  BY <1>2, <1>3, <1>4, SeqEqual

\* A list grows by the line that comes next.
LEMMA NthNext ==
    ASSUME NEW S, \A x \in S : x \in Nat \ {0}, NEW n \in Nat, n + 1 \in S
    PROVE  /\ Cardinality(Upto(S, n)) \in Nat
           /\ Cardinality(Upto(S, n + 1)) = Cardinality(Upto(S, n)) + 1
           /\ Nth(S, Cardinality(Upto(S, n)) + 1) = n + 1
  <1>1. \A x \in S : x \in Nat
    OBVIOUS
  <1>2. Cardinality(Upto(S, n)) \in Nat
    BY <1>1, UptoFinite
  <1>3. Cardinality(Upto(S, n + 1)) = Cardinality(Upto(S, n)) + 1
    BY <1>1, CountNext
  <1>4. Nth(S, Cardinality(Upto(S, n + 1))) = n + 1
    BY <1>1, NthIs
  <1>. QED  BY <1>2, <1>3, <1>4

LEMMA CmdSame ==
    ASSUME NEW text, Lines(text), NEW n \in Nat, n + 1 \notin Cmd(text)
    PROVE  CmdAt(text, n + 1) = CmdAt(text, n)
  <1>1. Upto(Cmd(text), n + 1) = Upto(Cmd(text), n)
    BY LineSets, UptoNext DEF Cmd
  <1>. QED  BY <1>1 DEF CmdAt

LEMMA CmdSet ==
    ASSUME NEW text, Lines(text), NEW n \in Nat, n + 1 \in Cmd(text)
    PROVE  CmdAt(text, n + 1) = Append(CmdAt(text, n), text[n + 1].value)
  <1>. DEFINE S == Cmd(text)
              c == Cardinality(Upto(S, n))
              s == CmdAt(text, n)
              t == CmdAt(text, n + 1)
  <1>1. c \in Nat /\ Cardinality(Upto(S, n + 1)) = c + 1 /\ Nth(S, c + 1) = n + 1
    BY LineSets, NthNext DEF Cmd
  <1>2. List(s, c) /\ \A j \in 1..c : s[j] = text[Nth(S, j)].value
    BY DEF CmdAt, List
  <1>3. List(t, c + 1) /\ \A j \in 1..(c + 1) : t[j] = text[Nth(S, j)].value
    BY <1>1 DEF CmdAt, List
  <1>4. \A j \in 1..c : t[j] = s[j]
    BY <1>1, <1>2, <1>3
  <1>5. t[c + 1] = text[n + 1].value
    BY <1>1, <1>3
  <1>. HIDE DEF s, t, c
  <1>6. t = Append(s, text[n + 1].value)
    BY <1>1, <1>2, <1>3, <1>4, <1>5, AppendIs
  <1>. QED  BY <1>6 DEF s, t

-----------------------------------------------------------------------------
(* Attachments.                                                              *)

\* The items begun by the first n lines.
LEMMA ItemThere ==
    ASSUME NEW text, Lines(text), NEW n \in Nat,
           NEW j \in 1..Cardinality(Upto(Items(text), n))
    PROVE  /\ Nth(Items(text), j) \in Items(text) /\ Nth(Items(text), j) <= n
           /\ Cardinality(Upto(Items(text), Nth(Items(text), j))) = j
  <1>1. \A x \in Items(text) : x \in Nat \ {0}
    BY LineSets DEF Items
  <1>. QED  BY <1>1, NthExists

\* A line that belongs to another item, or to none, leaves an item as it was.
LEMMA ItemSame ==
    ASSUME NEW text, Lines(text), NEW n \in Nat, NEW item, Entry(text, n + 1) # item
    PROVE  ItemAt(text, n + 1, item) = ItemAt(text, n, item)
  <1>1. (\A x \in ItemLines(text, item) : x \in Nat) /\ n + 1 \notin ItemLines(text, item)
    BY LineSets DEF ItemLines
  <1>2. Upto(ItemLines(text, item), n + 1) = Upto(ItemLines(text, item), n)
    BY <1>1, UptoNext
  <1>. QED  BY <1>2 DEF ItemAt

LEMMA ItemSet ==
    ASSUME NEW text, Lines(text), NEW n \in Nat, n + 1 \in DOMAIN text
    PROVE  ItemAt(text, n + 1, Entry(text, n + 1)) =
             [ItemAt(text, n, Entry(text, n + 1)) EXCEPT ![Named(text, n + 1)] = text[n + 1].value]
  <1>. DEFINE item == Entry(text, n + 1)
  <1>1. (\A x \in ItemLines(text, item) : x \in Nat) /\ n + 1 \in ItemLines(text, item)
    BY LineSets DEF ItemLines
  <1>2. \A k : LastSaid(text, Upto(ItemLines(text, item), n + 1), k)
                 = IF k = Named(text, n + 1) THEN text[n + 1].value
                                             ELSE LastSaid(text, Upto(ItemLines(text, item), n), k)
    BY <1>1, SaidNext
  <1>. QED  BY <1>2 DEF ItemAt

LEMMA ItemsSame ==
    ASSUME NEW text, Lines(text), NEW n \in Nat, n + 1 \in DOMAIN text, n + 1 \notin Items(text),
           \A item \in Items(text) : item <= n => Entry(text, n + 1) # item
    PROVE  ItemsAt(text, n + 1) = ItemsAt(text, n)
  <1>1. Upto(Items(text), n + 1) = Upto(Items(text), n)
    BY LineSets, UptoNext DEF Items
  <1>2. \A j \in 1..Cardinality(Upto(Items(text), n)) :
           ItemAt(text, n + 1, Nth(Items(text), j)) = ItemAt(text, n, Nth(Items(text), j))
    BY ItemThere, ItemSame
  <1>. QED  BY <1>1, <1>2 DEF ItemsAt

\* The first line of an item.
LEMMA ItemsNew ==
    ASSUME NEW text, Lines(text), NEW n \in Nat, n + 1 \in Items(text), text[1].indent = 0,
           Named(text, n + 1) \in AttachmentKeys
    PROVE  ItemsAt(text, n + 1)
             = Append(ItemsAt(text, n), Put(NewAttachment, Named(text, n + 1), text[n + 1].value))
  <1>. DEFINE S == Items(text)
              c == Cardinality(Upto(S, n))
              s == ItemsAt(text, n)
              t == ItemsAt(text, n + 1)
              new == Put(NewAttachment, Named(text, n + 1), text[n + 1].value)
  <1>1. c \in Nat /\ Cardinality(Upto(S, n + 1)) = c + 1 /\ Nth(S, c + 1) = n + 1
    BY LineSets, NthNext DEF Items
  <1>2. n + 1 \in DOMAIN text /\ Entry(text, n + 1) = n + 1
    BY OwnEntry DEF Items, Entries
  <1>3. s = [j \in 1..c |-> s[j]] /\ \A j \in 1..c : s[j] = ItemAt(text, n, Nth(S, j))
    BY DEF ItemsAt
  <1>4. /\ t = [j \in 1..(c + 1) |-> t[j]]
        /\ \A j \in 1..(c + 1) : t[j] = ItemAt(text, n + 1, Nth(S, j))
    BY <1>1 DEF ItemsAt
  <1>5. ASSUME NEW j \in 1..c
        PROVE  t[j] = s[j]
    <2>1. Nth(S, j) <= n /\ Nth(S, j) \in Nat
      BY ItemThere, LineSets DEF Items
    <2>2. ItemAt(text, n + 1, Nth(S, j)) = ItemAt(text, n, Nth(S, j))
      BY <1>2, <2>1, ItemSame
    <2>. QED  BY <1>1, <1>3, <1>4, <2>2
  <1>6. t[c + 1] = new
    <2>1. t[c + 1] = ItemAt(text, n + 1, n + 1)
      BY <1>1, <1>4
    <2>2. Upto(ItemLines(text, n + 1), n) = {}
      <3>1. ASSUME NEW i \in ItemLines(text, n + 1), i <= n
            PROVE  FALSE
        <4>1. i \in DOMAIN text /\ Entry(text, i) = n + 1
          BY <3>1 DEF ItemLines
        <4>2. Entry(text, i) \in 1..i /\ i \in Nat
          BY <4>1, EntryBefore, Indents
        <4>. QED  BY <3>1, <4>1, <4>2
      <3>. QED  BY <3>1 DEF Upto
    <2>3. ItemAt(text, n, n + 1) = NewAttachment
      BY <2>2 DEF ItemAt, LastSaid, NewAttachment
    <2>. QED  BY <1>2, <2>1, <2>3, ItemSet DEF Put
  <1>7. t = Append(s, new)
    <2>1. \A j \in 1..c : t[j] = s[j]
      BY <1>5
    <2>2. List(s, c) /\ List(t, c + 1) /\ c \in Nat
      BY <1>1, <1>3, <1>4 DEF List
    <2>. HIDE DEF s, t, c, new
    <2>. QED  BY <1>6, <2>1, <2>2, AppendIs
  <1>. QED  BY <1>7

\* Another line of the last item.
LEMMA ItemsSet ==
    ASSUME NEW text, Lines(text), NEW n \in Nat, n + 1 \in DOMAIN text, n # 0, text[1].indent = 0,
           text[n + 1].indent > 2, Heading(text, n) = "attachments",
           text[Entry(text, n)].indent = 2, Named(text, n + 1) \in AttachmentKeys
    PROVE  ItemsAt(text, n + 1)
             = PutIn(ItemsAt(text, n), Len(ItemsAt(text, n)), Named(text, n + 1), text[n + 1].value)
  <1>. DEFINE S == Items(text)
              c == Cardinality(Upto(S, n))
              s == ItemsAt(text, n)
              t == ItemsAt(text, n + 1)
  <1>1. PICK e \in 1..n : e = Entry(text, n) /\ \A j \in 1..n : text[j].indent <= 2 => j <= e
    <2>1. n \in DOMAIN text
      BY Indents DEF Lines
    <2>. QED  BY <2>1, EntryBefore
  <1>2. n \in DOMAIN text /\ e \in DOMAIN text /\ n + 1 \notin S
    BY DEF Lines, Items, Entries
  <1>3. e \in S /\ \A x \in S : x \in Nat \ {0}
    BY <1>1, <1>2, EntryHeading, LineSets DEF Items, Entries
  <1>4. \A x \in S : x <= n => x <= e
    BY <1>1, <1>3 DEF Items, Entries
  <1>5. Upto(S, n) = Upto(S, e) /\ Upto(S, n + 1) = Upto(S, n)
    <2>1. \A x \in S : x \in Nat
      BY <1>3
    <2>2. Upto(S, n) = Upto(S, e)
      <3>. HIDE DEF S
      <3>. QED  BY <1>1, <1>4, <2>1 DEF Upto
    <2>. QED  BY <1>2, <2>1, <2>2, UptoNext
  <1>6. c \in Nat /\ c = Cardinality(Upto(S, e))
    BY <1>3, <1>5, UptoFinite
  <1>7. Nth(S, c) = e
    BY <1>3, <1>6, NthIs
  <1>8. c # 0
    <2>1. e \in Upto(S, e)
      BY <1>1, <1>3 DEF Upto
    <2>2. IsFiniteSet(Upto(S, e))
      BY <1>1, <1>3, UptoFinite
    <2>. QED  BY <2>1, <2>2, <1>6, FS_EmptySet
  <1>9. Entry(text, n + 1) = e
    BY <1>1, SameEntry
  <1>10. s = [j \in 1..c |-> s[j]] /\ \A j \in 1..c : s[j] = ItemAt(text, n, Nth(S, j))
    BY DEF ItemsAt
  <1>11. t = [j \in 1..c |-> t[j]] /\ \A j \in 1..c : t[j] = ItemAt(text, n + 1, Nth(S, j))
    BY <1>5 DEF ItemsAt
  <1>12. ASSUME NEW j \in 1..c, j # c
         PROVE  t[j] = s[j]
    <2>1. Cardinality(Upto(S, Nth(S, j))) = j
      BY ItemThere
    <2>2. Nth(S, j) # e
      BY <1>6, <1>12, <2>1
    <2>. QED  BY <1>9, <1>10, <1>11, <2>2, ItemSame
  <1>13. t[c] = [s[c] EXCEPT ![Named(text, n + 1)] = text[n + 1].value]
    <2>1. c \in 1..c
      BY <1>6, <1>8
    <2>2. s[c] = ItemAt(text, n, e) /\ t[c] = ItemAt(text, n + 1, e)
      BY <1>7, <1>10, <1>11, <2>1
    <2>. QED  BY <1>9, <2>2, ItemSet
  <1>. HIDE DEF s, t, c
  <1>14. Len(s) = c
    BY <1>6, <1>10
  <1>15. t = [s EXCEPT ![c] = [s[c] EXCEPT ![Named(text, n + 1)] = text[n + 1].value]]
    BY <1>6, <1>8, <1>10, <1>11, <1>12, <1>13
  <1>. QED  BY <1>14, <1>15 DEF s, t, PutIn

-----------------------------------------------------------------------------
(* Renewals.                                                                 *)

RenewalLines(text, n) ==
    {i \in Upto(Entries(text, "runtime"), n) :
        Named(text, i) \in {"max_renew_count", "renew_allowed"}}

Allows(text, i) == Named(text, i) = "renew_allowed" /\ Truth(text[i].value)

Fixing(text, n) == {i \in RenewalLines(text, n) : ~Allows(text, i)}

LastFixing(text, n) == IF Fixing(text, n) = {} THEN 0 ELSE Max(Fixing(text, n))

NumberAt(text, n) ==
    IF LastFixing(text, n) = 0 \/ Named(text, LastFixing(text, n)) = "renew_allowed" THEN 0
    ELSE Numeral[text[LastFixing(text, n)].value]

LEMMA RenewalsAre ==
    ASSUME NEW text, NEW n
    PROVE  RenewalsAt(text, n) =
             IF NumberAt(text, n) = 0 /\ (\E i \in RenewalLines(text, n) : i > LastFixing(text, n))
             THEN 1 ELSE NumberAt(text, n)
  BY Zenon DEF RenewalsAt, RenewalsSaid, NumberAt, LastFixing, Fixing, Allows, RenewalLines

LEMMA RenewalsSame ==
    ASSUME NEW text, Lines(text), NEW n \in Nat,
           n + 1 \in Entries(text, "runtime")
              => Named(text, n + 1) \notin {"max_renew_count", "renew_allowed"}
    PROVE  RenewalsAt(text, n + 1) = RenewalsAt(text, n)
  <1>1. \A x \in Entries(text, "runtime") : x \in Nat
    BY LineSets
  <1>2. RenewalLines(text, n + 1) = RenewalLines(text, n)
    BY <1>1, UptoNext DEF RenewalLines
  <1>3. Fixing(text, n + 1) = Fixing(text, n) /\ LastFixing(text, n + 1) = LastFixing(text, n)
    BY <1>2 DEF Fixing, LastFixing
  <1>4. NumberAt(text, n + 1) = NumberAt(text, n)
    BY <1>3 DEF NumberAt
  <1>. QED  BY <1>2, <1>3, <1>4, RenewalsAre

LEMMA LastFixingBounded ==
    ASSUME NEW text, Lines(text), NEW n \in Nat
    PROVE  LastFixing(text, n) \in 0..n
  <1>1. \A x \in Fixing(text, n) : x \in 0..n
    BY LineSets DEF Fixing, RenewalLines, Upto
  <1>2. CASE Fixing(text, n) # {}
    <2>1. Max(Fixing(text, n)) \in Fixing(text, n)
      BY <1>1, <1>2, MaxIn
    <2>. QED  BY <1>1, <1>2, <2>1 DEF LastFixing
  <1>. QED  BY <1>2 DEF LastFixing

\* A line about renewals: a number, or whether they are allowed at all.
LEMMA RenewalsSet ==
    ASSUME NEW text, Lines(text), NEW n \in Nat, n + 1 \in Entries(text, "runtime"),
           Named(text, n + 1) \in {"max_renew_count", "renew_allowed"}
    PROVE  RenewalsAt(text, n + 1)
             = Renewals(RenewalsAt(text, n), Named(text, n + 1), text[n + 1].value)
  <1>1. \A x \in Entries(text, "runtime") : x \in Nat
    BY LineSets
  <1>2. RenewalLines(text, n + 1) = RenewalLines(text, n) \cup {n + 1}
    BY <1>1, UptoNext DEF RenewalLines
  <1>3. \A x \in RenewalLines(text, n) : x \in 0..n
    BY <1>1 DEF RenewalLines, Upto
  <1>4. CASE ~Allows(text, n + 1)
    <2>1. Fixing(text, n + 1) = Fixing(text, n) \cup {n + 1}
      BY <1>2, <1>4 DEF Fixing
    <2>2. \A x \in Fixing(text, n + 1) : x \in Nat /\ x <= n + 1
      BY <1>3, <2>1 DEF Fixing
    <2>3. Max(Fixing(text, n + 1)) = n + 1
      BY <2>1, <2>2, MaxIs
    <2>4. LastFixing(text, n + 1) = n + 1
      BY <2>1, <2>3 DEF LastFixing
    <2>5. ~ \E i \in RenewalLines(text, n + 1) : i > n + 1
      BY <1>2, <1>3
    <2>6. RenewalsAt(text, n + 1) = NumberAt(text, n + 1)
      BY <2>4, <2>5, RenewalsAre
    <2>7. NumberAt(text, n + 1) = IF Named(text, n + 1) = "renew_allowed" THEN 0
                                  ELSE Numeral[text[n + 1].value]
      BY <2>4 DEF NumberAt
    <2>. QED  BY <1>4, <2>6, <2>7 DEF Renewals, Allows
  <1>5. CASE Allows(text, n + 1)
    <2>1. Fixing(text, n + 1) = Fixing(text, n)
      BY <1>2, <1>5 DEF Fixing
    <2>2. LastFixing(text, n + 1) = LastFixing(text, n)
      BY <2>1 DEF LastFixing
    <2>3. NumberAt(text, n + 1) = NumberAt(text, n)
      BY <2>2 DEF NumberAt
    <2>4. n + 1 \in RenewalLines(text, n + 1) /\ n + 1 > LastFixing(text, n + 1)
      BY <1>2, <2>2, LastFixingBounded
    <2>5. RenewalsAt(text, n + 1) = IF NumberAt(text, n) = 0 THEN 1 ELSE NumberAt(text, n)
      BY <2>3, <2>4, RenewalsAre
    <2>6. \/ RenewalsAt(text, n) = 0 \/ RenewalsAt(text, n) = 1
          \/ RenewalsAt(text, n) = NumberAt(text, n)
      BY RenewalsAre
    <2>7. RenewalsAt(text, n + 1) = IF RenewalsAt(text, n) = 0 THEN 1 ELSE RenewalsAt(text, n)
      BY <2>5, RenewalsAre
    <2>. QED  BY <1>5, <2>7 DEF Renewals, Allows
  <1>. QED  BY <1>4, <1>5

-----------------------------------------------------------------------------
(* The locals of the parser.                                                 *)

Locals == {"given", "renewals", "runtime", "env", "command", "attachments", "section", "nested",
           "refused"}

Draft(st, given, renewals, env, command, attachments, section, nested) ==
    /\ DOMAIN st = Locals /\ ~st.refused
    /\ st.given = given /\ st.renewals = renewals
    /\ st.env = env /\ st.command = command /\ st.attachments = attachments
    /\ st.section = section /\ st.nested = nested

\* The locals hold what the first n lines declare.
Holds(st, text, n) ==
    /\ Draft(st, GivenAt(text, n), RenewalsAt(text, n), EnvAt(text, n), CmdAt(text, n),
             ItemsAt(text, n), SectionAt(text, n), NestedAt(text, n))
    /\ st.runtime <=> RuntimeAt(text, n)

\* The assignments to the locals.
Open(st, key)     == [st EXCEPT !.section = key, !.nested = "", !.runtime = @ \/ key = "runtime"]
Nest(st, key)     == [st EXCEPT !.nested = key]
AddItem(st, item) == [st EXCEPT !.attachments = Append(@, item)]
AddWord(st, word) == [st EXCEPT !.command = Append(@, word)]
WithVariable(e, key, value) == [k \in DOMAIN e \cup {key} |-> IF k = key THEN value ELSE e[k]]
SetEnv(st, key, value) ==
    [st EXCEPT !.env = [k \in DOMAIN @ \cup {key} |-> IF k = key THEN value ELSE @[k]]]

LEMMA OpenDraft ==
    ASSUME NEW st, NEW g, NEW r, NEW e, NEW c, NEW a, NEW s, NEW x,
           Draft(st, g, r, e, c, a, s, x), NEW key
    PROVE  /\ Draft(Open(st, key), g, r, e, c, a, key, "")
           /\ Open(st, key).runtime <=> st.runtime \/ key = "runtime"
  BY DEF Draft, Locals, Open

LEMMA NestDraft ==
    ASSUME NEW st, NEW g, NEW r, NEW e, NEW c, NEW a, NEW s, NEW x,
           Draft(st, g, r, e, c, a, s, x), NEW key
    PROVE  /\ Draft(Nest(st, key), g, r, e, c, a, s, key)
           /\ Nest(st, key).runtime <=> st.runtime
  BY DEF Draft, Locals, Nest

LEMMA AddItemDraft ==
    ASSUME NEW st, NEW g, NEW r, NEW e, NEW c, NEW a, NEW s, NEW x,
           Draft(st, g, r, e, c, a, s, x), NEW item
    PROVE  /\ Draft(AddItem(st, item), g, r, e, c, Append(a, item), s, x)
           /\ AddItem(st, item).runtime <=> st.runtime
  BY DEF Draft, Locals, AddItem

LEMMA AddWordDraft ==
    ASSUME NEW st, NEW g, NEW r, NEW e, NEW c, NEW a, NEW s, NEW x,
           Draft(st, g, r, e, c, a, s, x), NEW word
    PROVE  /\ Draft(AddWord(st, word), g, r, e, Append(c, word), a, s, x)
           /\ AddWord(st, word).runtime <=> st.runtime
  BY DEF Draft, Locals, AddWord

LEMMA ScalarDraft ==
    ASSUME NEW st, NEW g, NEW r, NEW e, NEW c, NEW a, NEW s, NEW x,
           Draft(st, g, r, e, c, a, s, x), NEW key, NEW value
    PROVE  Draft(AssignScalar(st, key, value), PutIn(g, s, key, value), Renewals(r, key, value),
                 e, c, a, s, "")
  BY DEF Draft, Locals, AssignScalar, PutIn

LEMMA AttachmentDraft ==
    ASSUME NEW st, NEW g, NEW r, NEW e, NEW c, NEW a, NEW s, NEW x,
           Draft(st, g, r, e, c, a, s, x), NEW key, NEW value
    PROVE  /\ Draft(AssignAttachmentScalar(st, key, value), g, r, e, c,
                    PutIn(a, Len(a), key, value), s, "attachment")
           /\ AssignAttachmentScalar(st, key, value).runtime <=> st.runtime
  BY DEF Draft, Locals, AssignAttachmentScalar, PutIn

LEMMA SetEnvDraft ==
    ASSUME NEW st, NEW g, NEW r, NEW e, NEW c, NEW a, NEW s, NEW x,
           Draft(st, g, r, e, c, a, s, x), NEW key, NEW value
    PROVE  /\ Draft(SetEnv(st, key, value), g, r, WithVariable(e, key, value), c, a, s, x)
           /\ SetEnv(st, key, value).runtime <=> st.runtime
  BY DEF Draft, Locals, SetEnv, WithVariable

LEMMA Refused ==
    ASSUME NEW st, NEW g, NEW r, NEW e, NEW c, NEW a, NEW s, NEW x,
           Draft(st, g, r, e, c, a, s, x)
    PROVE  [st EXCEPT !.refused = TRUE].refused
  BY DEF Draft, Locals

-----------------------------------------------------------------------------
(* A line of indent 0.                                                       *)

\* The next line of a text whose first line is a heading.
Here(text, n) ==
    /\ Lines(text) /\ n \in Nat /\ n + 1 \in DOMAIN text /\ n + 1 # 0
    /\ text[1].indent = 0

\* A line that is not below an entry does not touch the items before it.
LEMMA NoItem ==
    ASSUME NEW text, Lines(text), NEW n \in Nat, n + 1 \in DOMAIN text, text[n + 1].indent <= 2
    PROVE  \A item \in Items(text) : item <= n => Entry(text, n + 1) # item
  BY OwnEntry, LineSets DEF Items

LEMMA TopLevel ==
    ASSUME NEW st, NEW text, NEW n, Here(text, n), Holds(st, text, n), text[n + 1].indent = 0,
           ~ReadTopLevel(st, text[n + 1]).refused
    PROVE  Holds(ReadTopLevel(st, text[n + 1]), text, n + 1)
  <1>. DEFINE line == text[n + 1]
              key  == Key(line)
  <1>1. IsHeader(line)
    BY Refused DEF ReadTopLevel, Holds
  <1>2. ReadTopLevel(st, line) = Open(st, key)
    BY <1>1 DEF ReadTopLevel, Open
  <1>3. /\ n \in Nat /\ n + 1 \in DOMAIN text /\ Lines(text) /\ n + 1 # 0
        /\ n + 1 \notin Env(text) /\ n + 1 \notin Cmd(text) /\ n + 1 \notin Items(text)
        /\ \A s : n + 1 \notin Entries(text, s)
    BY DEF Here, Env, Cmd, Items, Below, Entries
  <1>4. GivenAt(text, n + 1) = GivenAt(text, n)
    BY <1>3, GivenSame
  <1>5. RenewalsAt(text, n + 1) = RenewalsAt(text, n)
    BY <1>3, RenewalsSame
  <1>6. RuntimeAt(text, n + 1) <=> RuntimeAt(text, n) \/ key = "runtime"
    BY <1>3, RuntimeNext
  <1>7. EnvAt(text, n + 1) = EnvAt(text, n) /\ CmdAt(text, n + 1) = CmdAt(text, n)
    BY <1>3, EnvSame, CmdSame
  <1>8. ItemsAt(text, n + 1) = ItemsAt(text, n)
    BY <1>3, NoItem, ItemsSame
  <1>9. SectionAt(text, n + 1) = key
    BY <1>3, OwnHeading DEF SectionAt
  <1>10. NestedAt(text, n + 1) = ""
    <2>1. Entry(text, n + 1) = n + 1
      BY <1>3, OwnEntry
    <2>2. text[Entry(text, n + 1)].indent # 2
      BY <2>1
    <2>. QED  BY <2>2, Zenon DEF NestedAt
  <1>11. /\ Draft(Open(st, key), GivenAt(text, n), RenewalsAt(text, n), EnvAt(text, n),
                  CmdAt(text, n), ItemsAt(text, n), key, "")
         /\ Open(st, key).runtime <=> RuntimeAt(text, n) \/ key = "runtime"
    BY OpenDraft DEF Holds
  <1>. QED  BY <1>2, <1>4, <1>5, <1>6, <1>7, <1>8, <1>9, <1>10, <1>11 DEF Holds

\* Below the heading runtime the template has a runtime already.
LEMMA RuntimeKept ==
    ASSUME NEW text, NEW n, Here(text, n), n # 0, Heading(text, n) = "runtime"
    PROVE  RuntimeAt(text, n)
  <1>1. n \in DOMAIN text /\ Lines(text)
    BY DEF Here, Lines
  <1>2. PICK j \in 1..n : text[j].indent = 0 /\ Key(text[j]) = "runtime"
    BY <1>1, HeadingThere DEF Here
  <1>. QED  BY <1>2 DEF RuntimeAt

LEMMA AppendSet ==
    ASSUME NEW c \in Nat, NEW s, List(s, c), NEW x, NEW k, NEW v
    PROVE  PutIn(Append(s, x), Len(Append(s, x)), k, v) = Append(s, Put(x, k, v))
  <1>. DEFINE y == Put(x, k, v)
              S == {s[j] : j \in 1..c} \cup {x, y}
              t == [Append(s, x) EXCEPT ![c + 1] = y]
  <1>1. s \in [1..c -> S] /\ Len(s) = c
    BY DEF List
  <1>2. x \in S /\ y \in S
    OBVIOUS
  <1>. HIDE DEF S
  <1>3. s \in Seq(S)
    BY <1>1
  <1>4. /\ Append(s, x) \in Seq(S) /\ Len(Append(s, x)) = c + 1
        /\ \A i \in 1..c : Append(s, x)[i] = s[i]
        /\ Append(s, x)[c + 1] = x
    BY <1>1, <1>2, <1>3, AppendProperties
  <1>5. Append(s, x) \in [1..(c + 1) -> S]
    BY <1>4, LenProperties
  <1>6. List(t, c + 1) /\ t[c + 1] = y /\ \A i \in 1..c : t[i] = s[i]
    <2>. HIDE DEF y
    <2>1. DOMAIN Append(s, x) = 1..(c + 1)
      BY <1>5
    <2>2. DOMAIN t = 1..(c + 1) /\ t = [i \in DOMAIN t |-> t[i]]
      BY <2>1
    <2>3. t[c + 1] = y
      BY <2>1, c + 1 \in 1..(c + 1)
    <2>4. ASSUME NEW i \in 1..c
          PROVE  t[i] = Append(s, x)[i]
      <3>1. i \in 1..(c + 1) /\ i # c + 1
        OBVIOUS
      <3>. QED  BY <2>1, <3>1
    <2>. QED  BY <1>4, <2>2, <2>3, <2>4 DEF List
  <1>7. t = Append(s, y)
    <2>. HIDE DEF t, y
    <2>. QED  BY <1>6, AppendIs
  <1>8. PutIn(Append(s, x), c + 1, k, v) = t
    BY <1>4 DEF PutIn, Put
  <1>. QED  BY <1>4, <1>7, <1>8

LEMMA ItemsList ==
    ASSUME NEW text, Lines(text), NEW n \in Nat
    PROVE  \E c \in Nat : List(ItemsAt(text, n), c)
  <1>1. Cardinality(Upto(Items(text), n)) \in Nat
    BY LineSets, UptoFinite DEF Items
  <1>. QED  BY <1>1 DEF ItemsAt, List

\* What every entry of a section leaves alone.
LEMMA EntryKeeps ==
    ASSUME NEW text, NEW n, Here(text, n), text[n + 1].indent = 2
    PROVE  /\ n \in Nat /\ n # 0 /\ n + 1 # 0 /\ n + 1 \in DOMAIN text /\ Lines(text)
           /\ Heading(text, n + 1) = Heading(text, n)
           /\ SectionAt(text, n) = Heading(text, n)
           /\ SectionAt(text, n + 1) = Heading(text, n)
           /\ Entry(text, n + 1) = n + 1
           /\ EnvAt(text, n + 1) = EnvAt(text, n)
           /\ CmdAt(text, n + 1) = CmdAt(text, n)
           /\ RuntimeAt(text, n + 1) <=> RuntimeAt(text, n)
           /\ \A s : n + 1 \in Entries(text, s) <=> s = Heading(text, n)
  <1>1. n \in Nat /\ n + 1 # 0 /\ n + 1 \in DOMAIN text /\ Lines(text)
    BY DEF Here
  <1>2. n # 0
    BY DEF Here
  <1>3. Heading(text, n + 1) = Heading(text, n) /\ Entry(text, n + 1) = n + 1
    BY <1>1, SameHeading, OwnEntry
  <1>4. n + 1 \notin Env(text) /\ n + 1 \notin Cmd(text)
    BY DEF Env, Cmd, Below
  <1>5. RuntimeAt(text, n + 1) <=> RuntimeAt(text, n)
    <2>1. text[n + 1].indent # 0
      OBVIOUS
    <2>. QED  BY <1>1, <2>1, RuntimeNext, Zenon
  <1>6. \A s : n + 1 \in Entries(text, s) <=> s = Heading(text, n)
    BY <1>1, <1>3 DEF Entries
  <1>. QED  BY <1>1, <1>2, <1>3, <1>4, <1>5, <1>6, EnvSame, CmdSame DEF SectionAt

LEMMA EntryOfAttachments ==
    ASSUME NEW st, NEW text, NEW n, Here(text, n), Holds(st, text, n), text[n + 1].indent = 2,
           Heading(text, n) = "attachments", text[n + 1].key \in AttachmentKeys
    PROVE  Holds(AssignAttachmentScalar(AddItem(st, NewAttachment),
                                        text[n + 1].key, text[n + 1].value), text, n + 1)
  <1>. DEFINE key == text[n + 1].key
              value == text[n + 1].value
              a == ItemsAt(text, n)
              more == Append(a, NewAttachment)
              new == AssignAttachmentScalar(AddItem(st, NewAttachment), key, value)
  <1>1. /\ n \in Nat /\ n + 1 \in DOMAIN text /\ Lines(text)
        /\ SectionAt(text, n + 1) = SectionAt(text, n)
        /\ EnvAt(text, n + 1) = EnvAt(text, n) /\ CmdAt(text, n + 1) = CmdAt(text, n)
        /\ RuntimeAt(text, n + 1) <=> RuntimeAt(text, n)
    BY EntryKeeps
  <1>2. \A s : n + 1 \in Entries(text, s) <=> s = "attachments"
    BY EntryKeeps
  <1>3. GivenAt(text, n + 1) = GivenAt(text, n)
    BY <1>1, <1>2, KeyFacts, GivenSame
  <1>4. RenewalsAt(text, n + 1) = RenewalsAt(text, n)
    BY <1>1, <1>2, RenewalsSame
  <1>5. Named(text, n + 1) = key
    BY EntryKeeps DEF Named
  <1>6. ItemsAt(text, n + 1) = Append(a, Put(NewAttachment, key, value))
    <2>1. n + 1 \in Items(text)
      BY <1>2 DEF Items
    <2>. QED  BY <1>1, <1>5, <2>1, ItemsNew DEF Here
  <1>7. ItemsAt(text, n + 1) = PutIn(more, Len(more), key, value)
    <2>1. PICK c \in Nat : List(a, c)
      BY <1>1, ItemsList
    <2>2. PutIn(more, Len(more), key, value) = Append(a, Put(NewAttachment, key, value))
      BY <2>1, AppendSet
    <2>. QED  BY <1>6, <2>2
  <1>8. NestedAt(text, n + 1) = "attachment"
    <2>1. Entry(text, n + 1) = n + 1 /\ Heading(text, n + 1) = "attachments" /\ n + 1 # 0
      BY EntryKeeps
    <2>2. text[Entry(text, n + 1)].indent = 2
      BY <2>1
    <2>. QED  BY <2>1, <2>2, Zenon DEF NestedAt
  <1>9. /\ Draft(AddItem(st, NewAttachment), GivenAt(text, n), RenewalsAt(text, n), EnvAt(text, n),
                 CmdAt(text, n), more, SectionAt(text, n), NestedAt(text, n))
        /\ AddItem(st, NewAttachment).runtime <=> RuntimeAt(text, n)
    BY AddItemDraft DEF Holds
  <1>10. /\ Draft(new, GivenAt(text, n), RenewalsAt(text, n), EnvAt(text, n), CmdAt(text, n),
                  PutIn(more, Len(more), key, value), SectionAt(text, n), "attachment")
         /\ new.runtime <=> RuntimeAt(text, n)
    BY <1>9, AttachmentDraft
  <1>. QED  BY <1>1, <1>3, <1>4, <1>7, <1>8, <1>10, Zenon DEF Holds

LEMMA EntryOfRuntime ==
    ASSUME NEW st, NEW text, NEW n, Here(text, n), Holds(st, text, n), text[n + 1].indent = 2,
           Heading(text, n) = "runtime", Key(text[n + 1]) \in {"env", "command"}
    PROVE  Holds(Nest(st, Key(text[n + 1])), text, n + 1)
  <1>1. /\ n \in Nat /\ n + 1 \in DOMAIN text /\ Lines(text)
        /\ SectionAt(text, n + 1) = SectionAt(text, n)
        /\ EnvAt(text, n + 1) = EnvAt(text, n) /\ CmdAt(text, n + 1) = CmdAt(text, n)
        /\ RuntimeAt(text, n + 1) <=> RuntimeAt(text, n)
        /\ Entry(text, n + 1) = n + 1 /\ Heading(text, n + 1) = "runtime" /\ n + 1 # 0
    BY EntryKeeps
  <1>2. \A s : n + 1 \in Entries(text, s) <=> s = "runtime"
    BY EntryKeeps
  <1>3. Named(text, n + 1) = Key(text[n + 1])
    BY <1>1 DEF Named
  <1>4. GivenAt(text, n + 1) = GivenAt(text, n)
    BY <1>1, <1>2, <1>3, KeyFacts, GivenSame
  <1>5. RenewalsAt(text, n + 1) = RenewalsAt(text, n)
    BY <1>1, <1>2, <1>3, RenewalsSame
  <1>6. ItemsAt(text, n + 1) = ItemsAt(text, n)
    BY <1>1, <1>2, NoItem, ItemsSame DEF Items
  <1>7. NestedAt(text, n + 1) = Key(text[n + 1])
    <2>1. text[Entry(text, n + 1)].indent = 2 /\ text[Entry(text, n + 1)] = text[n + 1]
      BY <1>1
    <2>. QED  BY <1>1, <2>1, Zenon DEF NestedAt
  <1>8. /\ Draft(Nest(st, Key(text[n + 1])), GivenAt(text, n), RenewalsAt(text, n), EnvAt(text, n),
                 CmdAt(text, n), ItemsAt(text, n), SectionAt(text, n), Key(text[n + 1]))
        /\ Nest(st, Key(text[n + 1])).runtime <=> RuntimeAt(text, n)
    BY NestDraft DEF Holds
  <1>. QED  BY <1>1, <1>4, <1>5, <1>6, <1>7, <1>8, Zenon DEF Holds

LEMMA EntryOfScalars ==
    ASSUME NEW st, NEW text, NEW n, Here(text, n), Holds(st, text, n), text[n + 1].indent = 2,
           Heading(text, n) \in DOMAIN Keys, Key(text[n + 1]) \in Keys[Heading(text, n)]
    PROVE  Holds(AssignScalar(st, Key(text[n + 1]), text[n + 1].value), text, n + 1)
  <1>. DEFINE s == Heading(text, n)
              key == Key(text[n + 1])
              value == text[n + 1].value
  <1>1. /\ n \in Nat /\ n # 0 /\ n + 1 \in DOMAIN text /\ Lines(text)
        /\ SectionAt(text, n + 1) = s /\ SectionAt(text, n) = s
        /\ EnvAt(text, n + 1) = EnvAt(text, n) /\ CmdAt(text, n + 1) = CmdAt(text, n)
        /\ RuntimeAt(text, n + 1) <=> RuntimeAt(text, n)
        /\ Entry(text, n + 1) = n + 1 /\ Heading(text, n + 1) = s /\ n + 1 # 0
    BY EntryKeeps
  <1>2. \A t : n + 1 \in Entries(text, t) <=> t = s
    BY EntryKeeps
  <1>3. s # "attachments" /\ Named(text, n + 1) = key
    BY <1>1, KeyFacts DEF Named
  <1>4. GivenAt(text, n + 1) = PutIn(GivenAt(text, n), s, key, value)
    BY <1>1, <1>2, <1>3, GivenSet
  <1>5. RenewalsAt(text, n + 1) = Renewals(RenewalsAt(text, n), key, value)
    <2>1. CASE key \in {"max_renew_count", "renew_allowed"}
      <3>1. s = "runtime"
        BY <2>1, KeyFacts
      <3>. QED  BY <1>1, <1>2, <1>3, <2>1, <3>1, RenewalsSet
    <2>2. CASE key \notin {"max_renew_count", "renew_allowed"}
      <3>1. RenewalsAt(text, n + 1) = RenewalsAt(text, n)
        BY <1>1, <1>3, <2>2, RenewalsSame
      <3>. QED  BY <2>2, <3>1 DEF Renewals
    <2>. QED  BY <2>1, <2>2
  <1>6. ItemsAt(text, n + 1) = ItemsAt(text, n)
    BY <1>1, <1>2, <1>3, NoItem, ItemsSame DEF Items
  <1>7. RuntimeAt(text, n + 1) <=> RuntimeAt(text, n) \/ s = "runtime"
    <2>1. s = "runtime" => RuntimeAt(text, n)
      BY <1>1, RuntimeKept
    <2>. QED  BY <1>1, <2>1, Zenon
  <1>8. NestedAt(text, n + 1) = ""
    <2>1. text[Entry(text, n + 1)] = text[n + 1]
      BY <1>1
    <2>2. ~ (s = "runtime" /\ key \in {"env", "command"})
      BY KeyFacts
    <2>. QED  BY <1>1, <1>3, <2>1, <2>2, Zenon DEF NestedAt
  <1>9. /\ Draft(AssignScalar(st, key, value), PutIn(GivenAt(text, n), s, key, value),
                 Renewals(RenewalsAt(text, n), key, value), EnvAt(text, n), CmdAt(text, n),
                 ItemsAt(text, n), s, "")
        /\ AssignScalar(st, key, value).runtime <=> RuntimeAt(text, n) \/ s = "runtime"
    <2>1. Draft(st, GivenAt(text, n), RenewalsAt(text, n), EnvAt(text, n), CmdAt(text, n),
                ItemsAt(text, n), s, NestedAt(text, n))
      BY <1>1 DEF Holds
    <2>2. st.runtime <=> RuntimeAt(text, n)
      BY DEF Holds
    <2>. HIDE DEF s, key, value
    <2>3. Draft(AssignScalar(st, key, value), PutIn(GivenAt(text, n), s, key, value),
                Renewals(RenewalsAt(text, n), key, value), EnvAt(text, n), CmdAt(text, n),
                ItemsAt(text, n), s, "")
      BY <2>1, ScalarDraft
    <2>4. AssignScalar(st, key, value).runtime <=> st.runtime \/ s = "runtime"
      BY <2>1 DEF Draft, Locals, AssignScalar
    <2>. QED  BY <2>2, <2>3, <2>4
  <1>. QED  BY <1>1, <1>4, <1>5, <1>6, <1>7, <1>8, <1>9, Zenon DEF Holds

LEMMA EntryLine ==
    ASSUME NEW st, NEW text, NEW n, Here(text, n), Holds(st, text, n), text[n + 1].indent = 2,
           ~ReadEntry(st, text[n + 1]).refused
    PROVE  Holds(ReadEntry(st, text[n + 1]), text, n + 1)
  <1>. DEFINE line == text[n + 1]
              InAttachments == st.section = "attachments" /\ line.dash /\ line.key \in AttachmentKeys
              InRuntime     == st.section = "runtime" /\ IsHeader(line)
                                 /\ Key(line) \in {"env", "command"}
              IsScalar      == ~IsHeader(line) /\ Assignable(st.section, Key(line), line.value)
  <1>1. st.section = Heading(text, n)
    BY EntryKeeps DEF Holds, Draft
  <1>2. CASE InAttachments
    <2>1. ReadEntry(st, line)
            = AssignAttachmentScalar(AddItem(st, NewAttachment), line.key, line.value)
      BY <1>2, KeyFacts DEF ReadEntry, AddItem, Assignable
    <2>2. Heading(text, n) = "attachments" /\ line.key \in AttachmentKeys
      BY <1>1, <1>2
    <2>. QED  BY <2>1, <2>2, EntryOfAttachments
  <1>3. CASE InRuntime
    <2>1. ReadEntry(st, line) = Nest(st, Key(line))
      BY <1>3 DEF ReadEntry, Nest
    <2>2. Heading(text, n) = "runtime" /\ Key(line) \in {"env", "command"}
      BY <1>1, <1>3
    <2>. QED  BY <2>1, <2>2, EntryOfRuntime
  <1>4. CASE IsScalar
    <2>1. st.section \in DOMAIN Keys /\ Key(line) \in Keys[st.section]
      BY <1>4 DEF Assignable
    <2>2. ReadEntry(st, line) = AssignScalar(st, Key(line), line.value)
      BY <1>4, <2>1, KeyFacts DEF ReadEntry
    <2>. QED  BY <1>1, <2>1, <2>2, EntryOfScalars
  <1>5. CASE ~InAttachments /\ ~InRuntime /\ ~IsScalar
    <2>1. ReadEntry(st, line) = [st EXCEPT !.refused = TRUE]
      BY <1>5 DEF ReadEntry
    <2>. QED  BY <2>1, Refused DEF Holds
  <1>. QED  BY <1>2, <1>3, <1>4, <1>5

-----------------------------------------------------------------------------
(* A line of indent 4.                                                       *)

LEMMA NestedKeeps ==
    ASSUME NEW text, NEW n, Here(text, n), text[n + 1].indent = 4
    PROVE  /\ n \in Nat /\ n # 0 /\ n \in DOMAIN text /\ n + 1 \in DOMAIN text /\ Lines(text)
           /\ Heading(text, n + 1) = Heading(text, n) /\ Entry(text, n + 1) = Entry(text, n)
           /\ SectionAt(text, n) = Heading(text, n) /\ SectionAt(text, n + 1) = SectionAt(text, n)
           /\ NestedAt(text, n + 1) = NestedAt(text, n)
           /\ GivenAt(text, n + 1) = GivenAt(text, n)
           /\ RenewalsAt(text, n + 1) = RenewalsAt(text, n)
           /\ RuntimeAt(text, n + 1) <=> RuntimeAt(text, n)
           /\ Named(text, n + 1) = Key(text[n + 1])
           /\ n + 1 \notin Items(text)
  <1>1. n \in Nat /\ n + 1 # 0 /\ n + 1 \in DOMAIN text /\ Lines(text)
    BY DEF Here
  <1>2. n # 0 /\ n \in DOMAIN text
    <2>1. n # 0
      BY DEF Here
    <2>. QED  BY <1>1, <2>1 DEF Lines
  <1>3. Heading(text, n + 1) = Heading(text, n) /\ Entry(text, n + 1) = Entry(text, n)
    BY <1>1, SameHeading, SameEntry
  <1>4. SectionAt(text, n) = Heading(text, n) /\ SectionAt(text, n + 1) = SectionAt(text, n)
    BY <1>1, <1>2, <1>3 DEF SectionAt
  <1>5. NestedAt(text, n + 1) = NestedAt(text, n)
    BY <1>1, <1>2, <1>3, Zenon DEF NestedAt
  <1>6. \A s : n + 1 \notin Entries(text, s)
    BY DEF Entries
  <1>7. GivenAt(text, n + 1) = GivenAt(text, n) /\ RenewalsAt(text, n + 1) = RenewalsAt(text, n)
    BY <1>1, <1>6, GivenSame, RenewalsSame
  <1>8. RuntimeAt(text, n + 1) <=> RuntimeAt(text, n)
    <2>1. text[n + 1].indent # 0
      OBVIOUS
    <2>. QED  BY <1>1, <2>1, RuntimeNext, Zenon
  <1>9. Named(text, n + 1) = Key(text[n + 1])
    BY DEF Named
  <1>. QED  BY <1>1, <1>2, <1>3, <1>4, <1>5, <1>6, <1>7, <1>8, <1>9 DEF Items

\* The entry that a nested line belongs to.
LEMMA NestedEntry ==
    ASSUME NEW text, NEW n, n # 0, NestedAt(text, n) # ""
    PROVE  /\ text[Entry(text, n)].indent = 2
           /\ Heading(text, n) = "runtime" => Key(text[Entry(text, n)]) = NestedAt(text, n)
  BY DEF NestedAt

\* Below an entry that is not an attachment, no item is touched.
LEMMA NoItemBelow ==
    ASSUME NEW text, NEW n, Here(text, n), text[n + 1].indent = 4, Heading(text, n) # "attachments"
    PROVE  ItemsAt(text, n + 1) = ItemsAt(text, n)
  <1>1. /\ n \in Nat /\ n \in DOMAIN text /\ n + 1 \in DOMAIN text /\ Lines(text)
        /\ n + 1 \notin Items(text)
        /\ Entry(text, n + 1) = Entry(text, n)
    BY NestedKeeps
  <1>2. Heading(text, Entry(text, n)) = Heading(text, n)
    BY <1>1, EntryHeading DEF Here
  <1>3. \A item \in Items(text) : Entry(text, n + 1) # item
    BY <1>1, <1>2 DEF Items, Entries
  <1>. QED  BY <1>1, <1>3, ItemsSame

LEMMA NestedCommand ==
    ASSUME NEW st, NEW text, NEW n, Here(text, n), Holds(st, text, n), text[n + 1].indent = 4,
           Heading(text, n) = "runtime", NestedAt(text, n) = "command"
    PROVE  Holds(AddWord(st, text[n + 1].value), text, n + 1)
  <1>. DEFINE word == text[n + 1].value
  <1>1. /\ n \in Nat /\ n # 0 /\ n + 1 \in DOMAIN text /\ Lines(text)
        /\ Heading(text, n + 1) = "runtime" /\ Entry(text, n + 1) = Entry(text, n)
        /\ SectionAt(text, n + 1) = SectionAt(text, n) /\ NestedAt(text, n + 1) = NestedAt(text, n)
        /\ GivenAt(text, n + 1) = GivenAt(text, n) /\ RenewalsAt(text, n + 1) = RenewalsAt(text, n)
        /\ RuntimeAt(text, n + 1) <=> RuntimeAt(text, n)
    BY NestedKeeps
  <1>2. Key(text[Entry(text, n + 1)]) = "command"
    BY <1>1, NestedEntry
  <1>3. n + 1 \in Cmd(text) /\ n + 1 \notin Env(text)
    BY <1>1, <1>2 DEF Cmd, Env, Below
  <1>4. CmdAt(text, n + 1) = Append(CmdAt(text, n), word)
    BY <1>1, <1>3, CmdSet
  <1>5. EnvAt(text, n + 1) = EnvAt(text, n)
    BY <1>1, <1>3, EnvSame
  <1>6. ItemsAt(text, n + 1) = ItemsAt(text, n)
    BY NoItemBelow
  <1>7. /\ Draft(AddWord(st, word), GivenAt(text, n), RenewalsAt(text, n), EnvAt(text, n),
                 Append(CmdAt(text, n), word), ItemsAt(text, n), SectionAt(text, n), NestedAt(text, n))
        /\ AddWord(st, word).runtime <=> RuntimeAt(text, n)
    BY AddWordDraft DEF Holds
  <1>. QED  BY <1>1, <1>4, <1>5, <1>6, <1>7, Zenon DEF Holds

LEMMA NestedEnv ==
    ASSUME NEW st, NEW text, NEW n, Here(text, n), Holds(st, text, n), text[n + 1].indent = 4,
           Heading(text, n) = "runtime", NestedAt(text, n) = "env"
    PROVE  Holds(SetEnv(st, Key(text[n + 1]), text[n + 1].value), text, n + 1)
  <1>. DEFINE key   == Key(text[n + 1])
              value == text[n + 1].value
  <1>1. /\ n \in Nat /\ n # 0 /\ n + 1 \in DOMAIN text /\ Lines(text)
        /\ Heading(text, n + 1) = "runtime" /\ Entry(text, n + 1) = Entry(text, n)
        /\ SectionAt(text, n + 1) = SectionAt(text, n) /\ NestedAt(text, n + 1) = NestedAt(text, n)
        /\ GivenAt(text, n + 1) = GivenAt(text, n) /\ RenewalsAt(text, n + 1) = RenewalsAt(text, n)
        /\ RuntimeAt(text, n + 1) <=> RuntimeAt(text, n)
        /\ Named(text, n + 1) = key
    BY NestedKeeps
  <1>2. Key(text[Entry(text, n + 1)]) = "env"
    BY <1>1, NestedEntry
  <1>3. n + 1 \in Env(text) /\ n + 1 \notin Cmd(text)
    BY <1>1, <1>2 DEF Cmd, Env, Below
  <1>4. EnvAt(text, n + 1) = WithVariable(EnvAt(text, n), key, value)
    BY <1>1, <1>3, EnvSet DEF WithVariable
  <1>5. CmdAt(text, n + 1) = CmdAt(text, n)
    BY <1>1, <1>3, CmdSame
  <1>6. ItemsAt(text, n + 1) = ItemsAt(text, n)
    BY NoItemBelow
  <1>7. /\ Draft(SetEnv(st, key, value), GivenAt(text, n), RenewalsAt(text, n),
                 WithVariable(EnvAt(text, n), key, value), CmdAt(text, n), ItemsAt(text, n),
                 SectionAt(text, n), NestedAt(text, n))
        /\ SetEnv(st, key, value).runtime <=> RuntimeAt(text, n)
    BY SetEnvDraft DEF Holds
  <1>. QED  BY <1>1, <1>4, <1>5, <1>6, <1>7, Zenon DEF Holds

LEMMA NestedAttachment ==
    ASSUME NEW st, NEW text, NEW n, Here(text, n), Holds(st, text, n), text[n + 1].indent = 4,
           Heading(text, n) = "attachments", NestedAt(text, n) = "attachment",
           Key(text[n + 1]) \in AttachmentKeys
    PROVE  Holds(AssignAttachmentScalar(st, Key(text[n + 1]), text[n + 1].value), text, n + 1)
  <1>. DEFINE key   == Key(text[n + 1])
              value == text[n + 1].value
              a     == ItemsAt(text, n)
  <1>1. /\ n \in Nat /\ n # 0 /\ n + 1 \in DOMAIN text /\ Lines(text)
        /\ Heading(text, n + 1) = "attachments"
        /\ SectionAt(text, n + 1) = SectionAt(text, n) /\ NestedAt(text, n + 1) = "attachment"
        /\ GivenAt(text, n + 1) = GivenAt(text, n) /\ RenewalsAt(text, n + 1) = RenewalsAt(text, n)
        /\ RuntimeAt(text, n + 1) <=> RuntimeAt(text, n)
        /\ Named(text, n + 1) = key
    BY NestedKeeps
  <1>2. text[Entry(text, n)].indent = 2
    BY <1>1, NestedEntry
  <1>3. n + 1 \notin Cmd(text) /\ n + 1 \notin Env(text)
    BY <1>1 DEF Cmd, Env, Below
  <1>4. EnvAt(text, n + 1) = EnvAt(text, n) /\ CmdAt(text, n + 1) = CmdAt(text, n)
    BY <1>1, <1>3, EnvSame, CmdSame
  <1>5. ItemsAt(text, n + 1) = PutIn(a, Len(a), key, value)
    <2>1. text[1].indent = 0 /\ text[n + 1].indent > 2
      BY DEF Here
    <2>2. Named(text, n + 1) \in AttachmentKeys
      BY <1>1
    <2>. QED  BY <1>1, <1>2, <2>1, <2>2, ItemsSet
  <1>6. /\ Draft(AssignAttachmentScalar(st, key, value), GivenAt(text, n), RenewalsAt(text, n),
                 EnvAt(text, n), CmdAt(text, n), PutIn(a, Len(a), key, value), SectionAt(text, n),
                 "attachment")
        /\ AssignAttachmentScalar(st, key, value).runtime <=> RuntimeAt(text, n)
    BY AttachmentDraft DEF Holds
  <1>. QED  BY <1>1, <1>4, <1>5, <1>6, Zenon DEF Holds

LEMMA NestedLine ==
    ASSUME NEW st, NEW text, NEW n, Here(text, n), Holds(st, text, n), text[n + 1].indent = 4,
           ~ReadNested(st, text[n + 1]).refused
    PROVE  Holds(ReadNested(st, text[n + 1]), text, n + 1)
  <1>. DEFINE line == text[n + 1]
              InCommand    == st.section = "runtime" /\ st.nested = "command" /\ line.dash
              InEnv        == st.section = "runtime" /\ st.nested = "env" /\ line.key # ""
              InAttachment == st.section = "attachments" /\ st.nested = "attachment"
                                /\ Key(line) \in AttachmentKeys
  <1>1. st.section = Heading(text, n) /\ st.nested = NestedAt(text, n)
    BY NestedKeeps DEF Holds, Draft
  <1>2. CASE InCommand
    <2>1. ReadNested(st, line) = AddWord(st, line.value)
      BY <1>2 DEF ReadNested, AddWord
    <2>. QED  BY <1>1, <1>2, <2>1, NestedCommand
  <1>3. CASE InEnv
    <2>1. ReadNested(st, line) = SetEnv(st, Key(line), line.value)
      BY <1>3 DEF ReadNested, SetEnv
    <2>. QED  BY <1>1, <1>3, <2>1, NestedEnv
  <1>4. CASE InAttachment
    <2>1. ReadNested(st, line) = AssignAttachmentScalar(st, Key(line), line.value)
      BY <1>4 DEF ReadNested
    <2>. QED  BY <1>1, <1>4, <2>1, NestedAttachment
  <1>5. CASE ~InCommand /\ ~InEnv /\ ~InAttachment
    <2>1. ReadNested(st, line) = [st EXCEPT !.refused = TRUE]
      BY <1>5 DEF ReadNested
    <2>. QED  BY <2>1, Refused DEF Holds
  <1>. QED  BY <1>2, <1>3, <1>4, <1>5

-----------------------------------------------------------------------------
(* A text.                                                                   *)

\* A line that is not refused keeps the locals right.
LEMMA NextLine ==
    ASSUME NEW st, NEW text, NEW n, Here(text, n), Holds(st, text, n),
           ~ReadLine(st, text[n + 1]).refused
    PROVE  Holds(ReadLine(st, text[n + 1]), text, n + 1)
  <1>. DEFINE line == text[n + 1]
  <1>1. ~st.refused
    BY DEF Holds, Draft
  <1>2. CASE line.indent = 0
    <2>1. ReadLine(st, line) = ReadTopLevel(st, line)
      BY <1>1, <1>2 DEF ReadLine
    <2>. QED  BY <1>2, <2>1, TopLevel
  <1>3. CASE line.indent = 2
    <2>1. ReadLine(st, line) = ReadEntry(st, line)
      BY <1>1, <1>3 DEF ReadLine
    <2>. QED  BY <1>3, <2>1, EntryLine
  <1>4. CASE line.indent = 4
    <2>1. ReadLine(st, line) = ReadNested(st, line)
      BY <1>1, <1>4 DEF ReadLine
    <2>. QED  BY <1>4, <2>1, NestedLine
  <1>5. CASE line.indent \notin {0, 2, 4}
    <2>1. ReadLine(st, line) = [st EXCEPT !.refused = TRUE]
      BY <1>1, <1>5 DEF ReadLine
    <2>. QED  BY <2>1, Refused DEF Holds
  <1>. QED  BY <1>2, <1>3, <1>4, <1>5

\* Before the first heading every line is refused.
LEMMA FirstLine ==
    ASSUME NEW st, NEW text, Holds(st, text, 0), NEW line, line.indent # 0
    PROVE  ReadLine(st, line).refused
  <1>1. st.section = "" /\ ~st.refused /\ [st EXCEPT !.refused = TRUE].refused
    BY Refused DEF Holds, Draft, SectionAt
  <1>2. ReadEntry(st, line) = [st EXCEPT !.refused = TRUE]
    BY <1>1, KeyFacts DEF ReadEntry, Assignable
  <1>3. ReadNested(st, line) = [st EXCEPT !.refused = TRUE]
    BY <1>1 DEF ReadNested
  <1>. QED  BY <1>1, <1>2, <1>3 DEF ReadLine

LEMMA BlankHolds ==
    ASSUME NEW text, Lines(text)
    PROVE  Holds(Blank, text, 0)
  <1>1. ASSUME NEW S, \A x \in S : x \in Nat \ {0}
        PROVE  Upto(S, 0) = {} /\ Cardinality(Upto(S, 0)) = 0
    <2>1. Upto(S, 0) = {}
      BY <1>1 DEF Upto
    <2>. QED  BY <2>1, FS_EmptySet
  <1>2. \A S, key : (\A x \in S : x \in Nat \ {0}) => LastSaid(text, Upto(S, 0), key) = ""
    BY <1>1 DEF LastSaid
  <1>3. Blank.given = GivenAt(text, 0)
    <2>1. \A s \in DOMAIN Keys : \A k \in Keys[s] : LastSaid(text, Upto(Entries(text, s), 0), k) = ""
      BY <1>2, LineSets
    <2>. QED  BY <2>1 DEF Blank, GivenAt
  <1>4. Blank.renewals = RenewalsAt(text, 0)
    <2>1. Upto(Entries(text, "runtime"), 0) = {}
      BY <1>1, LineSets
    <2>2. RenewalLines(text, 0) = {} /\ Fixing(text, 0) = {}
      BY <2>1 DEF RenewalLines, Fixing
    <2>3. LastFixing(text, 0) = 0 /\ NumberAt(text, 0) = 0
      BY <2>2 DEF LastFixing, NumberAt
    <2>. QED  BY <2>2, <2>3, RenewalsAre DEF Blank
  <1>5. Blank.env = EnvAt(text, 0)
    <2>1. Upto(Env(text), 0) = {}
      BY <1>1, LineSets DEF Env
    <2>. QED  BY <2>1 DEF Blank, EnvAt
  <1>6. Blank.command = CmdAt(text, 0)
    <2>1. Cardinality(Upto(Cmd(text), 0)) = 0
      BY <1>1, LineSets DEF Cmd
    <2>. QED  BY <2>1 DEF Blank, CmdAt
  <1>7. Blank.attachments = ItemsAt(text, 0)
    <2>1. Cardinality(Upto(Items(text), 0)) = 0
      BY <1>1, LineSets DEF Items
    <2>. QED  BY <2>1 DEF Blank, ItemsAt
  <1>8. Blank.section = SectionAt(text, 0) /\ Blank.nested = NestedAt(text, 0)
    BY DEF Blank, SectionAt, NestedAt
  <1>9. Blank.runtime <=> RuntimeAt(text, 0)
    BY DEF Blank, RuntimeAt
  <1>10. DOMAIN Blank = Locals /\ ~Blank.refused
    BY DEF Blank, Locals
  <1>. QED  BY <1>3, <1>4, <1>5, <1>6, <1>7, <1>8, <1>9, <1>10 DEF Holds, Draft

LEMMA RefusedStays ==
    ASSUME NEW st, st.refused, NEW line
    PROVE  ReadLine(st, line) = st
  BY DEF ReadLine

\* After the last line the text is refused, or the locals hold what it declares.
LEMMA Reading ==
    ASSUME NEW text, Lines(text), NEW g, Readings(text, Len(text), g)
    PROVE  g[Len(text)].refused \/ Holds(g[Len(text)], text, Len(text))
  <1>. DEFINE Right(k) == g[k].refused \/ (Holds(g[k], text, k) /\ (k # 0 => text[1].indent = 0))
              Good == {k \in 0..Len(text) : Right(k)}
  <1>1. Len(text) \in Nat /\ DOMAIN text = 1..Len(text)
    BY DEF Lines
  <1>2. 0 \in Good
    BY <1>1, BlankHolds DEF Readings
  <1>3. ASSUME NEW k \in 0..Len(text), k < Len(text), k \in Good
        PROVE  k + 1 \in Good
    <2>1. g[k + 1] = ReadLine(g[k], text[k + 1])
      <3>1. k + 1 \in 1..Len(text) /\ k + 1 - 1 = k
        BY <1>1, <1>3
      <3>2. \A i \in 1..Len(text) : g[i] = ReadLine(g[i - 1], text[i])
        BY DEF Readings
      <3>. QED  BY <3>1, <3>2
    <2>2. CASE g[k].refused
      BY <1>1, <1>3, <2>1, <2>2, RefusedStays
    <2>3. CASE Holds(g[k], text, k) /\ text[1].indent = 0
      <3>1. Here(text, k)
        BY <1>1, <1>3, <2>3 DEF Here
      <3>2. g[k + 1].refused \/ Holds(g[k + 1], text, k + 1)
        BY <2>1, <2>3, <3>1, NextLine
      <3>. QED  BY <1>1, <1>3, <2>3, <3>2
    <2>4. CASE Holds(g[k], text, k) /\ k = 0 /\ text[1].indent # 0
      <3>1. g[k + 1].refused
        BY <2>1, <2>4, FirstLine
      <3>. QED  BY <1>1, <1>3, <3>1
    <2>. QED  BY <1>3, <2>2, <2>3, <2>4
  <1>4. 0..Len(text) \subseteq Good
    <2>. HIDE DEF Good
    <2>. QED  BY <1>1, <1>2, <1>3, Induction
  <1>. QED  BY <1>1, <1>4

\* The outcome depends on what the template gives only.
LEMMA NormalizeSame ==
    ASSUME NEW a, NEW b, a.given = b.given, a.renewals = b.renewals, a.runtime <=> b.runtime,
           a.env = b.env, a.command = b.command, a.attachments = b.attachments
    PROVE  NormalizeSpec(a) = NormalizeSpec(b)
  <1>1. Row(a) = Row(b) /\ OwnerRefs(a) = OwnerRefs(b)
    BY DEF Row, OwnerRefs
  <1>2. RuntimeConfig(a) = RuntimeConfig(b)
    BY DEF RuntimeConfig
  <1>. QED  BY <1>1, <1>2 DEF NormalizeSpec

\* What the parser makes of a text that it does not refuse is what it declares.
LEMMA ParsedDeclared ==
    ASSUME NEW text \in Seq(Line), ~Parsed(text).refused
    PROVE  NormalizeSpec(Parsed(text)) = Declared(text)
  <1>. DEFINE n     == Len(text)
              draft == [ given       |-> [s \in DOMAIN Keys |->
                             [k \in Keys[s] |-> LastSaid(text, Entries(text, s), k)]],
                         renewals    |-> RenewalsSaid(text, Entries(text, "runtime")),
                         runtime     |-> \E i \in DOMAIN text : text[i].indent = 0
                                                                /\ Key(text[i]) = "runtime",
                         env         |-> [k \in {Named(text, i) : i \in Env(text)} |->
                                             LastSaid(text, Env(text), k)],
                         command     |-> [j \in 1..Cardinality(Cmd(text)) |->
                                             text[Nth(Cmd(text), j)].value],
                         attachments |-> [j \in 1..Cardinality(Items(text)) |->
                             [k \in AttachmentKeys |->
                                 LastSaid(text, ItemLines(text, Nth(Items(text), j)), k)]] ]
  <1>1. Declared(text) = NormalizeSpec(draft)
    BY Zenon DEF Declared, Env, Cmd, Items
  <1>2. Lines(text)
    BY DEF Lines
  <1>3. PICK g : Readings(text, n, g) /\ Parsed(text) = g[n]
    BY <1>2, ParsedRuns DEF Lines
  <1>4. PICK st : st = Parsed(text) /\ Holds(st, text, n)
    BY <1>2, <1>3, Reading
  <1>5. \A S : S \subseteq DOMAIN text => Upto(S, n) = S
    BY <1>2 DEF Lines, Upto
  <1>6. /\ \A s : Upto(Entries(text, s), n) = Entries(text, s)
        /\ Upto(Env(text), n) = Env(text) /\ Upto(Cmd(text), n) = Cmd(text)
        /\ Upto(Items(text), n) = Items(text)
        /\ \A item : Upto(ItemLines(text, item), n) = ItemLines(text, item)
    BY <1>5 DEF Entries, Env, Cmd, Items, Below, ItemLines
  <1>7. st.given = draft.given
    BY <1>4, <1>6 DEF Holds, Draft, GivenAt
  <1>8. st.renewals = draft.renewals
    BY <1>4, <1>6 DEF Holds, Draft, RenewalsAt
  <1>9. st.runtime <=> draft.runtime
    BY <1>2, <1>4 DEF Holds, RuntimeAt, Lines
  <1>10. st.env = draft.env
    BY <1>4, <1>6 DEF Holds, Draft, EnvAt
  <1>11. st.command = draft.command
    BY <1>4, <1>6 DEF Holds, Draft, CmdAt
  <1>12. st.attachments = draft.attachments
    BY <1>4, <1>6 DEF Holds, Draft, ItemsAt, ItemAt
  <1>13. NormalizeSpec(st) = NormalizeSpec(draft)
    <2>. HIDE DEF draft
    <2>. QED  BY <1>7, <1>8, <1>9, <1>10, <1>11, <1>12, NormalizeSame
  <1>. QED  BY <1>1, <1>4, <1>13

\* LoadSpecFile refuses a text or gives the specification that it declares: the last value of each
\* key under its heading, every item of the command and every attachment in order, the environment
\* and the number of renewals, in whichever order and nesting the lines stand.
THEOREM LoadedAsDeclared ==
    \A text \in Seq(Line) : LoadSpecFile(text) # NoSpec => LoadSpecFile(text) = Declared(text)
  <1>. SUFFICES ASSUME NEW text \in Seq(Line), LoadSpecFile(text) # NoSpec
                PROVE  LoadSpecFile(text) = Declared(text)
    OBVIOUS
  <1>1. PICK draft : draft = Parsed(text)
    OBVIOUS
  <1>2. LoadSpecFile(text) = IF ~draft.refused /\ Valid(draft) THEN NormalizeSpec(draft) ELSE NoSpec
    BY <1>1, Zenon DEF LoadSpecFile
  <1>3. ~draft.refused /\ LoadSpecFile(text) = NormalizeSpec(draft)
    BY <1>2
  <1>. QED  BY <1>1, <1>3, ParsedDeclared

================================================================================
