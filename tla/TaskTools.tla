------------------------------ MODULE TaskTools ------------------------------
(***************************************************************************)
(* Two tasks whose turns run their tools at one set of files (AgentTools     *)
(* over FileSystemService), and what that promises for every set of paths,    *)
(* whatever the turns ask for and however many runs there are.                *)
(***************************************************************************)
EXTENDS FileSystemService, FiniteSetTheorems, SequenceTheorems, TLAPS, TLC

CONSTANTS
    w, v,                                                 \* the tasks
    ToolTurns, ToolRuns, TurnsOfARun                      \* what is asked of each of them, and bounds

VARIABLES toolRun, live, asked, toolTurn, work, commands, running, context, told, overrun

-----------------------------------------------------------------------------
(* A task that works at files, and one that runs commands.                  *)
file == <<"w", "f">>
room == <<"w", "d">>
inside == <<"w", "d", "g">>
Files == {<<>>, <<"w">>, <<"v">>, file, room, inside}
Rooms == [t \in {w, v} |-> IF t = w THEN <<"w">> ELSE <<"v">>]

Plain(tool, path) == [tool |-> tool, path |-> path, to |-> path, old |-> "none", new |-> "none", all |-> FALSE, seen |-> {}]
Edit(old, new) == [Plain("edit_file", file) EXCEPT !.old = old, !.new = new]
Writes(tool, path, text) == [Plain(tool, path) EXCEPT !.new = text]
Puts(tool, from, to) == [Plain(tool, from) EXCEPT !.to = to]

FileTurns == {
    <<Edit("x", "y"), Edit("x", "z")>>,
    <<Edit("x", "y"), Plain("read_file", file), Writes("generate_speech", file, "z")>>,
    <<Plain("create_directory", room), Writes("write_file", inside, "y"), Plain("remove_path", room)>>,
    <<Puts("move_path", file, inside), Puts("copy_file", file, room)>>,
    <<Plain("list_directory", <<"w">>), Plain("search_files", room), Writes("generate_image", inside, "z")>>,
    <<Plain("fetch_url", file), Plain("describe_task", file)>>,
    <<Plain("read_skill", file), Edit("x", "y")>>,
    <<Plain("mcp_tool", file), Plain("read_image", file)>>}

CommandTurns == {<<Plain("run_command", <<"v">>), Plain("describe_task", <<"v">>)>>}

Menu == (w :> FileTurns) @@ (v :> CommandTurns)

ToolWork == INSTANCE AgentTools WITH
    Tasks <- {w, v}, RootOf <- Rooms, Turns <- ToolTurns, SharedIds <- FALSE, MaxRuns <- ToolRuns, MaxTurns <- TurnsOfARun,
    run <- toolRun, turn <- toolTurn

(* What a task may be asked: calls with paths of the model (one that has one  *)
(* path has it twice), none to write, move or remove the directory of the     *)
(* task itself.                                                            *)
CallSet ==
    [tool : STRING, path : Paths, to : Paths, old : STRING, new : STRING, all : BOOLEAN, seen : SUBSET STRING]
CallsFor(t) ==
    {c \in CallSet :
        /\ c.seen = {} /\ (c.tool \notin ToolWork!Pairs => c.to = c.path)
        /\ c.tool \in ToolWork!Writing \cup ToolWork!Pairs => Rooms[t] \notin {c.path, c.to}}

ASSUME ToolsAssumption ==
    /\ w # v /\ Files \subseteq Paths /\ "x" \in STRING
    /\ \A t \in {w, v} : ToolTurns[t] \subseteq Seq(CallsFor(t))

fileVars == <<tree, jobs, answers>>
toolVars == <<fileVars, toolRun, live, asked, toolTurn, work, commands, running, context, told, overrun>>

-----------------------------------------------------------------------------
(* Paths and trees.                                                         *)

(* A prefix is no longer and holds the same.                                *)
LEMMA PrefixIs ==
    ASSUME NEW p \in Seq(STRING), NEW q \in Seq(STRING)
    PROVE  IsPrefix(p, q) <=> Len(p) <= Len(q) /\ \A i \in 1..Len(p) : p[i] = q[i]
<1>1. SubSeq(p, 1, Len(p)) = p
  OBVIOUS
<1>2. ASSUME Len(p) <= Len(q)
      PROVE  /\ SubSeq(q, 1, Len(p)) \in Seq(STRING) /\ Len(SubSeq(q, 1, Len(p))) = Len(p)
             /\ \A i \in 1..Len(p) : SubSeq(q, 1, Len(p))[i] = q[i]
  BY <1>2
<1>3. ASSUME Len(p) <= Len(q), \A i \in 1..Len(p) : p[i] = q[i] PROVE SubSeq(q, 1, Len(p)) = p
  BY <1>2, <1>3, SeqEqual
<1> QED BY <1>1, <1>2, <1>3 DEF IsPrefix

LEMMA PrefixOfItself ==
    ASSUME NEW p \in Seq(STRING)
    PROVE  IsPrefix(p, p)
BY PrefixIs

LEMMA PrefixOfPrefix ==
    ASSUME NEW p \in Seq(STRING), NEW q \in Seq(STRING), NEW r \in Seq(STRING), IsPrefix(p, q), IsPrefix(q, r)
    PROVE  IsPrefix(p, r)
BY PrefixIs

LEMMA PrefixBothWays ==
    ASSUME NEW p \in Seq(STRING), NEW q \in Seq(STRING), IsPrefix(p, q), IsPrefix(q, p)
    PROVE  p = q
BY PrefixIs, SeqEqual

(* Of two prefixes of one path, one is a prefix of the other.               *)
LEMMA PrefixesOfOne ==
    ASSUME NEW p \in Seq(STRING), NEW q \in Seq(STRING), NEW r \in Seq(STRING), IsPrefix(p, r), IsPrefix(q, r)
    PROVE  IsPrefix(p, q) \/ IsPrefix(q, p)
BY PrefixIs

(* Trees, and what a step may change of one: what is at its paths or below  *)
(* them, and the directories above that were missing.                      *)
Entry == {Absent, Directory} \cup {File(text) : text \in SUBSET STRING}
Trees == {t \in [Paths -> Entry] : IsTree(t)}
Disturbs(t, new, places) ==
    \A q \in Paths : new[q] # t[q] =>
        \E s \in places : IsPrefix(s, q) \/ (IsStrictPrefix(q, s) /\ t[q] = Absent)

LEMMA PathIs == \A p \in Paths : p \in Seq(STRING)
BY PathsAssumption

(* What is above a directory above a path is above the path.                *)
LEMMA AboveAbove ==
    ASSUME NEW p \in Paths, NEW q \in Above(p), NEW r \in Above(q)
    PROVE  r \in Above(p)
<1>1. IsPrefix(r, q) /\ IsPrefix(q, p) /\ r # q /\ q # p /\ r \in Paths /\ q \in Paths
  BY DEF Above, IsStrictPrefix
<1>2. IsPrefix(r, p)
  BY <1>1, PathIs, PrefixOfPrefix
<1>3. r # p
  BY <1>1, PathIs, PrefixBothWays
<1> QED BY <1>1, <1>2, <1>3 DEF Above, IsStrictPrefix

(* An entry is of one kind.                                                 *)
LEMMA EntryIs ==
    /\ Absent.kind = "absent" /\ Directory.kind = "directory"
    /\ \A text : File(text).kind = "file" /\ File(text).text = text
    /\ \A e \in Entry : /\ e.kind = "directory" => e = Directory
                        /\ e.kind = "absent" => e = Absent
                        /\ e.kind = "file" => e = File(e.text) /\ e.text \in SUBSET STRING
                        /\ e.kind \in {"absent", "directory", "file"}
<1>1. Absent.kind = "absent" /\ Directory.kind = "directory"
  BY DEF Absent, Directory
<1>2. \A text : File(text).kind = "file" /\ File(text).text = text
  BY DEF File
<1>3. ASSUME NEW e \in Entry, e \notin {Absent, Directory}
      PROVE  e.kind = "file" /\ e = File(e.text) /\ e.text \in SUBSET STRING
  <2>1. PICK text \in SUBSET STRING : e = File(text)
    BY <1>3 DEF Entry
  <2> QED BY <1>2, <2>1
<1> QED BY <1>1, <1>2, <1>3

(* Nothing is below a file or below what is not there.                      *)
LEMMA NothingBelow ==
    ASSUME NEW t \in Trees, NEW p \in Paths, t[p].kind # "directory", NEW q \in Below(p)
    PROVE  t[q] = Absent
<1>1. q \in Paths /\ p \in Above(q)
  BY DEF Below, Above
<1>2. ~Exists(t, q)
  BY <1>1 DEF Trees, IsTree
<1> QED BY <1>1, <1>2, EntryIs DEF Trees, Exists

(* A tree with the directories above a path made (createLevels) is a tree.  *)
LEMMA LevelsAreATree ==
    ASSUME NEW t \in Trees, NEW S \in SUBSET Paths,
           \A q \in S : Above(q) \subseteq S /\ t[q].kind # "file"
    PROVE  /\ WithLevels(t, S) \in Trees /\ \A q \in S : WithLevels(t, S)[q] = Directory
           /\ \A q \in Paths : WithLevels(t, S)[q] # t[q] => q \in S /\ t[q] = Absent
<1> DEFINE new == WithLevels(t, S)
<1>1. new \in [Paths -> Entry]
  BY DEF WithLevels, Trees, Entry
<1>2. \A q \in S : new[q] = Directory
  BY EntryIs DEF WithLevels, Trees, Exists
<1>3. \A q \in Paths : new[q] # t[q] => q \in S /\ t[q] = Absent
  BY EntryIs DEF WithLevels, Trees, Exists
<1>4. \A q \in Paths : q \notin S => new[q] = t[q]
  BY DEF WithLevels
<1> HIDE DEF new
<1>5. ASSUME NEW p \in Paths, Exists(new, p), NEW q \in Above(p) PROVE new[q].kind = "directory"
  <2>1. CASE p \in S
    BY <1>2, <2>1, EntryIs
  <2>2. CASE p \notin S
    <3>1. t[q].kind = "directory" /\ q \in Paths
      BY <1>4, <1>5, <2>2 DEF Trees, IsTree, Exists, Above
    <3> QED BY <1>3, <3>1, EntryIs
  <2> QED BY <2>1, <2>2
<1> QED BY <1>1, <1>2, <1>3, <1>5 DEF Trees, IsTree, new

(* A file is put where it has its directories.                              *)
LEMMA FileInATree ==
    ASSUME NEW t \in Trees, NEW p \in Paths, t[p].kind # "directory", NEW text \in SUBSET STRING,
           \A q \in Above(p) : t[q].kind = "directory"
    PROVE  [t EXCEPT ![p] = File(text)] \in Trees
<1> DEFINE new == [t EXCEPT ![p] = File(text)]
<1>1. new \in [Paths -> Entry] /\ new[p] = File(text) /\ \A q \in Paths : q # p => new[q] = t[q]
  BY DEF Trees, Entry
<1> HIDE DEF new
<1>2. ASSUME NEW r \in Paths, Exists(new, r), NEW q \in Above(r) PROVE new[q].kind = "directory"
  <2>1. q \in Paths /\ r \in Below(q)
    BY DEF Above, Below
  <2>2. CASE r = p
    <3>1. q # p
      BY <2>2 DEF Above, IsStrictPrefix
    <3> QED BY <1>1, <2>1, <2>2, <3>1
  <2>3. CASE r # p
    <3>1. t[q].kind = "directory"
      BY <1>1, <1>2, <2>3 DEF Trees, IsTree, Exists
    <3> QED BY <1>1, <2>1, <3>1
  <2> QED BY <2>2, <2>3
<1> QED BY <1>1, <1>2 DEF Trees, IsTree, new

(* A tree without what is below a path, and without the path, is a tree.    *)
LEMMA WithoutIsATree ==
    ASSUME NEW t \in Trees, NEW S \in SUBSET Paths, \A q \in S : \A r \in Below(q) : r \in S \/ t[r] = Absent
    PROVE  Without(t, S) \in Trees /\ \A q \in Paths : Without(t, S)[q] = IF q \in S THEN Absent ELSE t[q]
<1> DEFINE new == Without(t, S)
<1>1. new \in [Paths -> Entry] /\ \A q \in Paths : new[q] = IF q \in S THEN Absent ELSE t[q]
  BY DEF Without, Trees, Entry
<1> HIDE DEF new
<1>2. ASSUME NEW r \in Paths, Exists(new, r), NEW q \in Above(r) PROVE new[q].kind = "directory"
  <2>1. q \in Paths /\ r \in Below(q) /\ r \notin S /\ new[r] = t[r] /\ t[r] # Absent
    BY <1>1, <1>2, EntryIs DEF Above, Below, Exists
  <2>2. q \notin S
    BY <2>1
  <2>3. t[q].kind = "directory"
    BY <1>2, <2>1 DEF Trees, IsTree, Exists
  <2> QED BY <1>1, <2>1, <2>2, <2>3
<1> QED BY <1>1, <1>2 DEF Trees, IsTree, new

(* The directory of a path is above it, and below all others above it.      *)
LEMMA Front1 ==
    ASSUME NEW p \in Paths, p # <<>>
    PROVE  Front(p) \in Paths /\ \A q \in Above(p) : IsPrefix(q, Front(p))
<1>1. p \in Seq(STRING) /\ Len(p) \in Nat \ {0} /\ Len(p) - 1 \in 0..Len(p)
  BY PathIs
<1>2. Front(p) \in Paths
  BY <1>1, PathsAssumption DEF Front
<1>3. Len(Front(p)) = Len(p) - 1 /\ \A i \in 1..Len(p) - 1 : Front(p)[i] = p[i]
  <2>1. Front(p) = SubSeq(p, 1, Len(p) - 1)
    BY DEF Front
  <2>2. Len(Front(p)) = Len(p) - 1
    <3>1. PICK n \in Nat : n = Len(p) - 1 /\ n <= Len(p)
      <4>1. Len(p) - 1 \in Nat /\ Len(p) - 1 <= Len(p)
        BY <1>1
      <4> QED BY <4>1
    <3>2. 1 \in Int /\ n \in Int /\ \A i \in 1..n : p[i] \in STRING
      BY <1>1, <3>1
    <3>3. Len(SubSeq(p, 1, n)) = IF 1 <= n THEN n - 1 + 1 ELSE 0
      BY <3>2, SubSeqProperties
    <3> QED BY <2>1, <3>1, <3>3
  <2>3. \A i \in 1..Len(p) - 1 : SubSeq(p, 1, Len(p) - 1)[i] = p[i]
    <3>1. PICK n \in Nat : n = Len(p) - 1
      BY <1>1
    <3>2. \A i \in 1..n : SubSeq(p, 1, n)[i] = p[i]
      BY <1>1, <3>1
    <3> QED BY <3>1, <3>2
  <2> QED BY <2>1, <2>2, <2>3
<1>4. ASSUME NEW q \in Above(p) PROVE IsPrefix(q, Front(p))
  <2>1. q \in Seq(STRING) /\ IsPrefix(q, p) /\ q # p
    BY PathIs DEF Above, IsStrictPrefix
  <2>2. Len(q) <= Len(p) /\ \A i \in 1..Len(q) : q[i] = p[i]
    BY <1>1, <2>1, PrefixIs
  <2>3. Len(q) # Len(p)
    BY <1>1, <2>1, <2>2, SeqEqual
  <2> QED BY <1>1, <1>2, <1>3, <2>1, <2>2, <2>3, PathIs, PrefixIs
<1> QED BY <1>2, <1>4

(* What moves keeps its place below what it moves with.                     *)
LEMMA SourceOf ==
    ASSUME NEW from \in Paths, NEW to \in Paths, NEW p \in Paths, NEW q \in Paths, IsPrefix(to, q), IsStrictPrefix(q, p),
           from \o SubSeq(p, Len(to) + 1, Len(p)) \in Paths
    PROVE  from \o SubSeq(q, Len(to) + 1, Len(q)) \in Above(from \o SubSeq(p, Len(to) + 1, Len(p)))
<1> DEFINE below(r) == SubSeq(r, Len(to) + 1, Len(r))
           P == from \o below(p)
           Q == from \o below(q)
<1>1. /\ from \in Seq(STRING) /\ to \in Seq(STRING) /\ p \in Seq(STRING) /\ q \in Seq(STRING)
      /\ IsPrefix(q, p) /\ q # p
  BY PathIs DEF IsStrictPrefix
<1>2. /\ Len(to) <= Len(q) /\ Len(q) <= Len(p) /\ \A i \in 1..Len(q) : q[i] = p[i]
  BY <1>1, PrefixIs
<1>3. Len(q) < Len(p)
  <2>1. Len(q) # Len(p)
    BY <1>1, <1>2, SeqEqual
  <2> QED BY <1>1, <1>2, <2>1
<1>4. /\ below(p) \in Seq(STRING) /\ Len(below(p)) = Len(p) - Len(to)
      /\ \A i \in 1..Len(p) - Len(to) : below(p)[i] = p[Len(to) + i]
  BY <1>1, <1>2
<1>5. /\ below(q) \in Seq(STRING) /\ Len(below(q)) = Len(q) - Len(to)
      /\ \A i \in 1..Len(q) - Len(to) : below(q)[i] = q[Len(to) + i]
  BY <1>1, <1>2
<1> HIDE DEF below
<1>6. ASSUME NEW r \in {p, q}
      PROVE  /\ from \o below(r) \in Seq(STRING) /\ Len(from \o below(r)) = Len(from) + Len(r) - Len(to)
             /\ \A i \in 1..Len(from) : (from \o below(r))[i] = from[i]
             /\ \A i \in 1..Len(r) - Len(to) : (from \o below(r))[Len(from) + i] = r[Len(to) + i]
  <2>1. below(r) \in Seq(STRING) /\ Len(below(r)) = Len(r) - Len(to)
        /\ \A i \in 1..Len(r) - Len(to) : below(r)[i] = r[Len(to) + i]
    BY <1>4, <1>5
  <2>2. /\ from \o below(r) \in Seq(STRING) /\ Len(from \o below(r)) = Len(from) + Len(below(r))
        /\ \A i \in 1..Len(from) + Len(below(r)) :
              (from \o below(r))[i] = IF i <= Len(from) THEN from[i] ELSE below(r)[i - Len(from)]
    BY <1>1, <2>1, ConcatProperties, Zenon
  <2>5. Len(from) \in Nat /\ Len(r) \in Nat /\ Len(to) \in Nat
    BY <1>1
  <2>6. PICK all : all = from \o below(r)
    OBVIOUS
  <2>7. \A i \in 1..Len(from) : all[i] = from[i]
    BY <2>1, <2>2, <2>5, <2>6
  <2>8. ASSUME NEW i \in 1..Len(r) - Len(to) PROVE all[Len(from) + i] = r[Len(to) + i]
    <3>1. Len(from) + i \in 1..Len(from) + Len(below(r)) /\ ~(Len(from) + i <= Len(from))
          /\ (Len(from) + i) - Len(from) = i
      BY <2>1, <2>5
    <3> QED BY <2>1, <2>2, <2>6, <3>1
  <2> QED BY <2>1, <2>2, <2>5, <2>6, <2>7, <2>8
<1>7. /\ P \in Seq(STRING) /\ Len(P) = Len(from) + Len(p) - Len(to)
      /\ Q \in Seq(STRING) /\ Len(Q) = Len(from) + Len(q) - Len(to)
  BY <1>6
<1>11. ASSUME NEW i \in 1..Len(Q) PROVE Q[i] = P[i]
  <2>1. i \in Nat /\ Len(from) \in Nat /\ Len(p) \in Nat /\ Len(q) \in Nat /\ Len(to) \in Nat /\ 1 <= i
        /\ i <= Len(from) + Len(q) - Len(to)
    <3> HIDE DEF Q
    <3> QED BY <1>1, <1>7
  <2>2. CASE i <= Len(from)
    BY <1>6, <2>1, <2>2
  <2>3. CASE i > Len(from)
    <3>1. PICK k \in Nat : k = i - Len(from)
      BY <2>1, <2>3
    <3>2. k \in 1..Len(q) - Len(to) /\ k \in 1..Len(p) - Len(to) /\ i = Len(from) + k /\ Len(to) + k \in 1..Len(q)
      BY <1>2, <1>3, <2>1, <2>3, <3>1
    <3>3. Q[Len(from) + k] = q[Len(to) + k] /\ P[Len(from) + k] = p[Len(to) + k]
      BY <1>6, <3>2
    <3> QED BY <1>2, <3>2, <3>3
  <2> HIDE DEF P, Q
  <2> QED BY <2>1, <2>2, <2>3
<1> HIDE DEF P, Q
<1>8. Len(Q) < Len(P) /\ Len(Q) \in 0..Len(P)
  BY <1>1, <1>3, <1>7
<1>9. IsPrefix(Q, P) /\ Q # P
  BY <1>7, <1>8, <1>11, PrefixIs
<1>10. Q \in Paths
  <2>1. SubSeq(Q, 1, Len(Q)) = Q
    BY <1>7
  <2>2. P \in Paths
    BY DEF P, below
  <2>3. SubSeq(P, 1, Len(Q)) \in Paths
    BY <1>8, <2>2, PathsAssumption
  <2> QED BY <1>9, <2>1, <2>3 DEF IsPrefix
<1> QED BY <1>9, <1>10 DEF Above, IsStrictPrefix, P, Q, below

-----------------------------------------------------------------------------
(* What the file system makes of a tree (FileSystemService): a tree again,  *)
(* which differs from the one before only where the job may disturb it.     *)

(* A move takes all that is below its source along (movePath).              *)
LEMMA MoveIsATree ==
    ASSUME NEW t \in Trees, NEW from \in Paths, NEW to \in Paths, NEW o \in MovePath(t, from, to)
    PROVE  o.tree \in Trees /\ Disturbs(t, o.tree, {from, to}) /\ o.ok \in BOOLEAN /\ o.text = {}
<1> DEFINE source(p) == from \o SubSeq(p, Len(to) + 1, Len(p))
           moved == {to} \cup Below(to)
           left == {from} \cup Below(from)
           new == [p \in Paths |->
                     IF p \in moved THEN (IF source(p) \in Paths THEN t[source(p)] ELSE Absent)
                     ELSE IF p \in left THEN Absent ELSE t[p]]
<1>1. CASE \/ ~Exists(t, from) \/ from = to \/ ~NewEntry(t, to)
           \/ t[from].kind = "directory" /\ IsStrictPrefix(from, to)
  <2>1. o = Outcome(t, FALSE, {})
    BY <1>1 DEF MovePath, Refused
  <2>2. o.tree = t /\ o.ok = FALSE /\ o.text = {}
    BY <2>1 DEF Outcome
  <2> QED BY <2>2 DEF Disturbs
<1>2. CASE ~(\/ ~Exists(t, from) \/ from = to \/ ~NewEntry(t, to)
             \/ t[from].kind = "directory" /\ IsStrictPrefix(from, to))
  <2>1. o \in MayBe(t, new, {})
    BY <1>2 DEF MovePath
  <2>2. o.tree \in {t, new} /\ o.ok \in BOOLEAN /\ o.text = {}
    <3> HIDE DEF new
    <3>1. o = Outcome(new, TRUE, {}) \/ o = Outcome(t, FALSE, {})
      BY <2>1 DEF MayBe, Refused
    <3>2. CASE o = Outcome(new, TRUE, {})
      BY <3>2 DEF Outcome
    <3>3. CASE o = Outcome(t, FALSE, {})
      BY <3>3 DEF Outcome
    <3> QED BY <3>1, <3>2, <3>3
  <2>3. \A p \in Paths : (p \in moved <=> IsPrefix(to, p)) /\ (p \in left <=> IsPrefix(from, p))
    BY PathIs, PrefixOfItself DEF Below, IsStrictPrefix
  <2>4. new \in [Paths -> Entry]
    BY DEF Trees, Entry
  <2>5. /\ \A p \in Paths : p \in moved /\ source(p) \in Paths => new[p] = t[source(p)]
        /\ \A p \in Paths : p \in moved /\ source(p) \notin Paths => new[p] = Absent
        /\ \A p \in Paths : p \notin moved /\ p \in left => new[p] = Absent
        /\ \A p \in Paths : p \notin moved /\ p \notin left => new[p] = t[p]
    <3>1. PICK mv : mv = moved
      OBVIOUS
    <3>2. PICK lf : lf = left
      OBVIOUS
    <3>3. \A p \in Paths : new[p] = IF p \in mv THEN (IF source(p) \in Paths THEN t[source(p)] ELSE Absent)
                                    ELSE IF p \in lf THEN Absent ELSE t[p]
      BY <3>1, <3>2
    <3> HIDE DEF moved, left, source, new
    <3> QED BY <3>1, <3>2, <3>3
  <2> HIDE DEF new
  <2>6. Disturbs(t, new, {from, to})
    <3> HIDE DEF moved, left, source
    <3> SUFFICES ASSUME NEW q \in Paths, new[q] # t[q] PROVE \E s \in {from, to} : IsPrefix(s, q)
      BY DEF Disturbs
    <3>1. q \in moved \/ q \in left
      BY <2>5
    <3> QED BY <2>3, <3>1
  <2>7. to # <<>> /\ Front(to) \in Paths /\ t[Front(to)].kind = "directory" /\ Exists(t, from) /\ from # to
        /\ ~(t[from].kind = "directory" /\ IsStrictPrefix(from, to))
    BY <1>2, Front1 DEF NewEntry
  <2>8. \A q \in Above(to) : t[q].kind = "directory"
    <3> SUFFICES ASSUME NEW q \in Above(to) PROVE t[q].kind = "directory"
      OBVIOUS
    <3>1. IsPrefix(q, Front(to)) /\ q \in Paths
      BY <2>7, Front1 DEF Above
    <3>2. CASE q = Front(to)
      BY <2>7, <3>2
    <3>3. CASE q # Front(to)
      <4>1. q \in Above(Front(to))
        BY <3>1, <3>3 DEF Above, IsStrictPrefix
      <4>2. Exists(t, Front(to))
        BY <2>7 DEF Exists
      <4> QED BY <2>7, <4>1, <4>2 DEF Trees, IsTree
    <3> QED BY <3>2, <3>3
  <2>9. ~IsPrefix(from, to)
    <3> SUFFICES ASSUME IsPrefix(from, to) PROVE FALSE
      OBVIOUS
    <3>1. from \in Above(to)
      BY <2>7 DEF Above, IsStrictPrefix
    <3> QED BY <2>7, <2>8, <3>1 DEF IsStrictPrefix
  <2>10. ASSUME NEW p \in Paths, Exists(new, p), NEW q \in Above(p) PROVE new[q].kind = "directory"
    <3>1. q \in Paths /\ IsPrefix(q, p) /\ q # p
      BY <2>10 DEF Above, IsStrictPrefix
    <3>2. CASE p \in moved
      <4>1. source(p) \in Paths /\ new[p] = t[source(p)] /\ IsPrefix(to, p)
        <5> HIDE DEF moved, left, source
        <5> QED BY <2>3, <2>5, <2>10, <3>2, EntryIs DEF Exists
      <4>2. CASE IsPrefix(to, q)
        <5>1. source(q) \in Above(source(p))
          BY <3>1, <4>1, <4>2, SourceOf DEF IsStrictPrefix
        <5> HIDE DEF moved, left, source
        <5>2. source(q) \in Paths /\ q \in moved
          BY <2>3, <3>1, <4>2, <5>1 DEF Above
        <5>3. t[source(q)].kind = "directory"
          BY <2>10, <4>1, <5>1 DEF Exists, Trees, IsTree
        <5> QED BY <2>5, <3>1, <5>2, <5>3
      <4>3. CASE ~IsPrefix(to, q)
        <5>1. IsPrefix(q, to) /\ q # to
          BY <3>1, <4>1, <4>3, PathIs, PrefixesOfOne, PrefixOfItself
        <5>2. q \in Above(to)
          BY <3>1, <5>1 DEF Above, IsStrictPrefix
        <5>3. ~IsPrefix(from, q)
          BY <2>9, <3>1, <5>1, PathIs, PrefixOfPrefix
        <5>4. q \notin moved /\ q \notin left
          BY <2>3, <3>1, <4>3, <5>3
        <5> HIDE DEF moved, left, source
        <5> QED BY <2>5, <2>8, <3>1, <5>2, <5>4
      <4> QED BY <4>2, <4>3
    <3>3. CASE p \notin moved
      <4> HIDE DEF moved, left, source
      <4>1. p \notin left /\ new[p] = t[p]
        BY <2>5, <2>10, <3>3, EntryIs DEF Exists
      <4>2. ~IsPrefix(to, p) /\ ~IsPrefix(from, p)
        BY <2>3, <3>3, <4>1
      <4>3. ~IsPrefix(to, q) /\ ~IsPrefix(from, q)
        BY <3>1, <4>2, PathIs, PrefixOfPrefix
      <4>4. q \notin moved /\ q \notin left
        BY <2>3, <3>1, <4>3
      <4>5. t[q].kind = "directory"
        BY <2>10, <4>1 DEF Trees, IsTree, Exists
      <4> QED BY <2>5, <3>1, <4>4, <4>5
    <3> QED BY <3>2, <3>3
  <2>11. new \in Trees
    BY <2>4, <2>10 DEF Trees, IsTree
  <2>12. Disturbs(t, t, {from, to})
    BY DEF Disturbs
  <2> QED BY <2>2, <2>6, <2>11, <2>12
<1> QED BY <1>1, <1>2

(* An outcome of a job is a tree that differs where the job may disturb it. *)
Made(t, places) ==
    {o \in [tree : Trees, ok : BOOLEAN, text : SUBSET STRING] : Disturbs(t, o.tree, places)}

(* A job that is refused disturbs nothing.                                  *)
LEMMA RefusedIsMade ==
    ASSUME NEW t \in Trees, NEW places
    PROVE  Refused(t) \subseteq Made(t, places)
<1>1. Disturbs(t, t, places)
  BY DEF Disturbs
<1> QED BY <1>1 DEF Refused, Outcome, Made

LEMMA OutcomeIsMade ==
    ASSUME NEW t \in Trees, NEW new \in Trees, NEW places, NEW ok \in BOOLEAN, NEW text \in SUBSET STRING,
           Disturbs(t, new, places)
    PROVE  Outcome(new, ok, text) \in Made(t, places)
BY DEF Outcome, Made

LEMMA MayBeIsMade ==
    ASSUME NEW t \in Trees, NEW new \in Trees, NEW places, NEW text \in SUBSET STRING, Disturbs(t, new, places)
    PROVE  MayBe(t, new, text) \subseteq Made(t, places)
<1>1. Refused(t) \subseteq Made(t, places) /\ Outcome(new, TRUE, text) \in Made(t, places)
  BY RefusedIsMade, OutcomeIsMade
<1> QED BY <1>1 DEF MayBe

(* To read and to list disturbs nothing.                                    *)
LEMMA LooksAreMade ==
    ASSUME NEW t \in Trees, NEW p \in Paths, NEW places
    PROVE  /\ ReadFile(t, p) \subseteq Made(t, places) /\ ListDirectory(t, p) \subseteq Made(t, places)
           /\ \A o \in ReadFile(t, p) \cup ListDirectory(t, p) : o.tree = t
           /\ \A o \in ReadFile(t, p) : o.ok => t[p] = File(o.text)
<1>1. Disturbs(t, t, places) /\ {} \in SUBSET STRING /\ (t[p].kind = "file" => t[p].text \in SUBSET STRING)
  BY EntryIs DEF Disturbs, Trees
<1>2. ReadFile(t, p) \subseteq Made(t, places)
  BY <1>1, MayBeIsMade, RefusedIsMade DEF ReadFile
<1>3. ListDirectory(t, p) \subseteq Made(t, places)
  BY <1>1, MayBeIsMade, RefusedIsMade DEF ListDirectory
<1>4. ASSUME NEW o \in ReadFile(t, p) PROVE o.tree = t /\ (o.ok => t[p] = File(o.text))
  <2>1. o = Outcome(t, FALSE, {}) \/ (t[p].kind = "file" /\ o = Outcome(t, TRUE, t[p].text))
    BY DEF ReadFile, MayBe, Refused
  <2>2. CASE o = Outcome(t, FALSE, {})
    BY <2>2 DEF Outcome
  <2>3. CASE t[p].kind = "file" /\ o = Outcome(t, TRUE, t[p].text)
    <3>1. o.tree = t /\ o.text = t[p].text
      BY <2>3 DEF Outcome
    <3>2. t[p] = File(t[p].text)
      BY <2>3, EntryIs DEF Trees
    <3> QED BY <3>1, <3>2
  <2> QED BY <2>1, <2>2, <2>3
<1>5. ASSUME NEW o \in ListDirectory(t, p) PROVE o.tree = t
  <2>1. o = Outcome(t, FALSE, {}) \/ o = Outcome(t, TRUE, {})
    BY DEF ListDirectory, MayBe, Refused
  <2> QED BY <2>1 DEF Outcome
<1> QED BY <1>2, <1>3, <1>4, <1>5

(* What the levels above a place may be made of, and what is put there.     *)
LEMMA LevelsAreMade ==
    ASSUME NEW t \in Trees, NEW p \in Paths, ~Blocked(t, p), t[p].kind # "directory", NEW text \in SUBSET STRING
    PROVE  LET levels == WithLevels(t, Above(p)) IN
           /\ levels \in Trees /\ Disturbs(t, levels, {p})
           /\ [levels EXCEPT ![p] = File(text)] \in Trees /\ Disturbs(t, [levels EXCEPT ![p] = File(text)], {p})
<1> DEFINE levels == WithLevels(t, Above(p))
           new == [levels EXCEPT ![p] = File(text)]
<1>1. \A q \in Above(p) : Above(q) \subseteq Above(p) /\ t[q].kind # "file"
  BY AboveAbove DEF Blocked
<1>2. Above(p) \subseteq Paths /\ p \notin Above(p)
  BY DEF Above, IsStrictPrefix
<1>3. /\ levels \in Trees /\ \A q \in Above(p) : levels[q] = Directory
      /\ \A q \in Paths : levels[q] # t[q] => q \in Above(p) /\ t[q] = Absent
  BY <1>1, <1>2, LevelsAreATree
<1> HIDE DEF levels
<1>4. levels[p].kind # "directory" /\ \A q \in Above(p) : levels[q].kind = "directory"
  BY <1>2, <1>3, EntryIs
<1>5. new \in Trees
  BY <1>3, <1>4, FileInATree
<1>6. \A q \in Above(p) : IsStrictPrefix(q, p)
  BY DEF Above
<1>7. Disturbs(t, levels, {p})
  BY <1>3, <1>6 DEF Disturbs
<1>8. \A q \in Paths : q # p => new[q] = levels[q]
  BY <1>3 DEF Trees
<1> HIDE DEF new
<1>9. Disturbs(t, new, {p})
  <2> SUFFICES ASSUME NEW q \in Paths, new[q] # t[q]
               PROVE  \E s \in {p} : IsPrefix(s, q) \/ (IsStrictPrefix(q, s) /\ t[q] = Absent)
    BY DEF Disturbs
  <2>1. CASE q = p
    BY <2>1, PathIs, PrefixOfItself
  <2>2. CASE q # p
    BY <1>3, <1>6, <1>8, <2>2
  <2> QED BY <2>1, <2>2
<1> QED BY <1>3, <1>5, <1>7, <1>9 DEF levels, new

(* A file is written, with its directories (writeFile).                     *)
LEMMA WriteIsMade ==
    ASSUME NEW t \in Trees, NEW p \in Paths, NEW text \in SUBSET STRING
    PROVE  WriteFile(t, p, text) \subseteq Made(t, {p})
<1>1. CASE t[p].kind = "directory" \/ Blocked(t, p)
  BY <1>1, RefusedIsMade DEF WriteFile
<1>2. CASE ~(t[p].kind = "directory" \/ Blocked(t, p))
  <2> DEFINE levels == WithLevels(t, Above(p))
             new == [levels EXCEPT ![p] = File(text)]
  <2>1. levels \in Trees /\ Disturbs(t, levels, {p}) /\ new \in Trees /\ Disturbs(t, new, {p})
    BY <1>2, LevelsAreMade
  <2>2. WriteFile(t, p, text) = MayBe(levels, new, {}) \cup Refused(t)
    BY <1>2 DEF WriteFile
  <2> HIDE DEF levels, new
  <2>3. Outcome(new, TRUE, {}) \in Made(t, {p}) /\ Outcome(levels, FALSE, {}) \in Made(t, {p})
    BY <2>1, OutcomeIsMade
  <2> QED BY <2>2, <2>3, RefusedIsMade DEF MayBe, Refused
<1> QED BY <1>1, <1>2

LEMMA CreateDirectoryIsMade ==
    ASSUME NEW t \in Trees, NEW p \in Paths
    PROVE  CreateDirectory(t, p) \subseteq Made(t, {p})
<1>1. CASE Exists(t, p) \/ Blocked(t, p)
  BY <1>1, RefusedIsMade DEF CreateDirectory
<1>2. CASE ~(Exists(t, p) \/ Blocked(t, p))
  <2> DEFINE S == Above(p) \cup {p}
             new == WithLevels(t, S)
  <2>1. S \in SUBSET Paths /\ \A q \in S : IsPrefix(q, p) /\ (q = p \/ IsStrictPrefix(q, p))
    BY PathIs, PrefixOfItself DEF Above, IsStrictPrefix
  <2>2. \A q \in S : Above(q) \subseteq S
    BY AboveAbove
  <2>3. \A q \in S : t[q].kind # "file"
    BY <1>2 DEF Exists, Blocked
  <2> HIDE DEF S
  <2>4. new \in Trees /\ \A q \in Paths : new[q] # t[q] => q \in S /\ t[q] = Absent
    BY <2>1, <2>2, <2>3, LevelsAreATree
  <2>5. CreateDirectory(t, p) = MayBe(t, new, {})
    BY <1>2 DEF CreateDirectory, S
  <2> HIDE DEF new
  <2>6. Disturbs(t, new, {p})
    <3> SUFFICES ASSUME NEW q \in Paths, new[q] # t[q]
                 PROVE  \E s \in {p} : IsPrefix(s, q) \/ (IsStrictPrefix(q, s) /\ t[q] = Absent)
      BY DEF Disturbs
    <3> QED BY <2>1, <2>4, PathIs, PrefixOfItself
  <2> QED BY <2>4, <2>5, <2>6, MayBeIsMade
<1> QED BY <1>1, <1>2

(* A new entry has a directory to stand in, all the way up.                 *)
LEMMA NewEntryHasRoom ==
    ASSUME NEW t \in Trees, NEW p \in Paths, NewEntry(t, p)
    PROVE  t[p].kind # "directory" /\ \A q \in Above(p) : t[q].kind = "directory"
<1>1. p # <<>> /\ Front(p) \in Paths /\ t[Front(p)].kind = "directory" /\ ~Exists(t, p)
  BY Front1 DEF NewEntry
<1>2. ASSUME NEW q \in Above(p) PROVE t[q].kind = "directory"
  <2>1. IsPrefix(q, Front(p)) /\ q \in Paths
    BY <1>1, Front1 DEF Above
  <2>2. CASE q = Front(p)
    BY <1>1, <2>2
  <2>3. CASE q # Front(p)
    <3>1. q \in Above(Front(p))
      BY <2>1, <2>3 DEF Above, IsStrictPrefix
    <3>2. Exists(t, Front(p))
      BY <1>1 DEF Exists
    <3> QED BY <1>1, <3>1, <3>2 DEF Trees, IsTree
  <2> QED BY <2>2, <2>3
<1> QED BY <1>1, <1>2 DEF Exists

LEMMA PutIsMade ==
    ASSUME NEW t \in Trees, NEW p \in Paths, NewEntry(t, p), NEW text \in SUBSET STRING, NEW places, p \in places
    PROVE  MayBe(t, [t EXCEPT ![p] = File(text)], {}) \subseteq Made(t, places)
<1> DEFINE new == [t EXCEPT ![p] = File(text)]
<1>1. new \in Trees
  BY NewEntryHasRoom, FileInATree
<1>2. \A q \in Paths : q # p => new[q] = t[q]
  BY DEF Trees
<1> HIDE DEF new
<1>3. Disturbs(t, new, places)
  <2> SUFFICES ASSUME NEW q \in Paths, new[q] # t[q]
               PROVE  \E s \in places : IsPrefix(s, q) \/ (IsStrictPrefix(q, s) /\ t[q] = Absent)
    BY DEF Disturbs
  <2>1. q = p
    BY <1>2
  <2> QED BY <2>1, PathIs, PrefixOfItself
<1> QED BY <1>1, <1>3, MayBeIsMade DEF new

LEMMA CopyIsMade ==
    ASSUME NEW t \in Trees, NEW from \in Paths, NEW to \in Paths
    PROVE  CopyFile(t, from, to) \subseteq Made(t, {from, to})
<1>1. CASE t[from].kind = "file" /\ NewEntry(t, to)
  <2>1. t[from] = File(t[from].text) /\ t[from].text \in SUBSET STRING
    BY <1>1, EntryIs DEF Trees
  <2>2. CopyFile(t, from, to) = MayBe(t, [t EXCEPT ![to] = File(t[from].text)], {})
    BY <1>1, <2>1 DEF CopyFile
  <2> QED BY <1>1, <2>1, <2>2, PutIsMade
<1>2. CASE ~(t[from].kind = "file" /\ NewEntry(t, to))
  BY <1>2, RefusedIsMade DEF CopyFile
<1> QED BY <1>1, <1>2

LEMMA CreateIsMade ==
    ASSUME NEW t \in Trees, NEW p \in Paths
    PROVE  CreateFile(t, p) \subseteq Made(t, {p})
BY PutIsMade, RefusedIsMade DEF CreateFile

LEMMA WithoutIsMade ==
    ASSUME NEW t \in Trees, NEW p \in Paths, NEW S \in SUBSET Paths, NEW ok \in BOOLEAN,
           \A q \in S : IsPrefix(p, q), \A q \in S : \A r \in Below(q) : r \in S \/ t[r] = Absent
    PROVE  Outcome(Without(t, S), ok, {}) \in Made(t, {p})
<1>1. Without(t, S) \in Trees /\ \A q \in Paths : Without(t, S)[q] = IF q \in S THEN Absent ELSE t[q]
  BY WithoutIsATree
<1>2. Disturbs(t, Without(t, S), {p})
  BY <1>1 DEF Disturbs
<1> QED BY <1>1, <1>2, OutcomeIsMade

(* To remove disturbs what is removed alone.                                *)
LEMMA RemovalsAreMade ==
    ASSUME NEW t \in Trees, NEW p \in Paths
    PROVE  RemoveFile(t, p) \subseteq Made(t, {p}) /\ RemoveDirectory(t, p) \subseteq Made(t, {p})
<1>1. IsPrefix(p, p) /\ Below(p) \subseteq Paths /\ \A q \in Below(p) : IsPrefix(p, q)
  BY PathIs, PrefixOfItself DEF Below, IsStrictPrefix
<1>2. \A q \in Below(p) : \A r \in Below(q) : r \in Below(p)
  <2> SUFFICES ASSUME NEW q \in Below(p), NEW r \in Below(q) PROVE r \in Below(p)
    OBVIOUS
  <2>1. q \in Paths /\ r \in Paths /\ q \in Above(r) /\ p \in Above(q)
    BY DEF Above, Below
  <2> QED BY <2>1, AboveAbove DEF Above, Below
<1>3. RemoveFile(t, p) \subseteq Made(t, {p})
  <2>1. CASE t[p].kind = "file"
    <3>1. \A r \in Below(p) : t[r] = Absent
      BY <2>1, NothingBelow
    <3>2. Outcome(Without(t, {p}), TRUE, {}) \in Made(t, {p})
      BY <1>1, <3>1, WithoutIsMade
    <3> QED BY <2>1, <3>2, RefusedIsMade DEF RemoveFile, MayBe
  <2>2. CASE t[p].kind # "file"
    BY <2>2, RefusedIsMade DEF RemoveFile
  <2> QED BY <2>1, <2>2
<1>4. RemoveDirectory(t, p) \subseteq Made(t, {p})
  <2>1. Outcome(Without(t, Below(p) \cup {p}), TRUE, {}) \in Made(t, {p})
    <3>1. \A q \in Below(p) \cup {p} : IsPrefix(p, q) /\ \A r \in Below(q) : r \in Below(p) \cup {p}
      BY <1>1, <1>2
    <3>2. Below(p) \cup {p} \in SUBSET Paths
      BY <1>1
    <3> QED BY <3>1, <3>2, WithoutIsMade
  <2>2. ASSUME NEW S \in SUBSET Below(p), \A q \in S : Below(q) \subseteq S
        PROVE  Outcome(Without(t, S), FALSE, {}) \in Made(t, {p})
    BY <1>1, <2>2, WithoutIsMade
  <2> QED BY <2>1, <2>2, RefusedIsMade DEF RemoveDirectory
<1> QED BY <1>3, <1>4

LEMMA MoveIsMade ==
    ASSUME NEW t \in Trees, NEW from \in Paths, NEW to \in Paths
    PROVE  MovePath(t, from, to) \subseteq Made(t, {from, to})
<1> SUFFICES ASSUME NEW o \in MovePath(t, from, to) PROVE o \in Made(t, {from, to})
  OBVIOUS
<1>1. o.tree \in Trees /\ Disturbs(t, o.tree, {from, to}) /\ o.ok \in BOOLEAN /\ o.text = {}
  BY MoveIsATree
<1>2. o = Outcome(o.tree, o.ok, o.text)
  BY DEF MovePath, MayBe, Refused, Outcome
<1> QED BY <1>1, <1>2, OutcomeIsMade

-----------------------------------------------------------------------------
(* The same of the jobs as AgentTools, in whose instance they are, gives    *)
(* them.                                                                    *)

(* What the file system can be asked for.                                   *)
Ops == {"read", "list", "write", "create", "directory", "move", "copy", "remove", "empty"}

(* What is done to a tree, by the tools as by the service they use.         *)
LEMMA SameFiles ==
    /\ ToolWork!Absent = Absent /\ ToolWork!Directory = Directory
    /\ \A text : ToolWork!File(text) = File(text)
    /\ \A p : ToolWork!Above(p) = Above(p) /\ ToolWork!Below(p) = Below(p)
    /\ \A t, p : ToolWork!Exists(t, p) = Exists(t, p) /\ ToolWork!Blocked(t, p) = Blocked(t, p)
    /\ \A t, S : ToolWork!WithLevels(t, S) = WithLevels(t, S) /\ ToolWork!Without(t, S) = Without(t, S)
    /\ \A t, ok, text : ToolWork!Outcome(t, ok, text) = Outcome(t, ok, text)
    /\ \A t : ToolWork!Refused(t) = Refused(t) /\ (ToolWork!IsTree(t) <=> IsTree(t))
    /\ \A t, new, text : ToolWork!MayBe(t, new, text) = MayBe(t, new, text)
    /\ \A p, q : ToolWork!IsPrefix(p, q) = IsPrefix(p, q) /\ ToolWork!IsStrictPrefix(p, q) = IsStrictPrefix(p, q)
    /\ \A p : ToolWork!Front(p) = Front(p)
<1>12. \A p, q : ToolWork!IsPrefix(p, q) = IsPrefix(p, q)
  BY DEF ToolWork!IsPrefix, IsPrefix
<1>13. \A p, q : ToolWork!IsStrictPrefix(p, q) = IsStrictPrefix(p, q)
  BY <1>12 DEF ToolWork!IsStrictPrefix, IsStrictPrefix
<1>14. \A p : ToolWork!Front(p) = Front(p)
  BY DEF ToolWork!Front, Front
<1>1. ToolWork!Absent = Absent /\ ToolWork!Directory = Directory
  BY DEF ToolWork!Absent, ToolWork!Directory, Absent, Directory
<1>2. \A text : ToolWork!File(text) = File(text)
  BY DEF ToolWork!File, File
<1>3. \A p : ToolWork!Above(p) = Above(p) /\ ToolWork!Below(p) = Below(p)
  BY <1>13 DEF ToolWork!Above, ToolWork!Below, Above, Below
<1>4. \A t, p : ToolWork!Exists(t, p) = Exists(t, p)
  BY DEF ToolWork!Exists, Exists
<1>5. \A t, p : ToolWork!Blocked(t, p) = Blocked(t, p)
  BY <1>3 DEF ToolWork!Blocked, Blocked
<1>6. \A t, S : ToolWork!WithLevels(t, S) = WithLevels(t, S)
  <2> SUFFICES ASSUME NEW t, NEW S PROVE ToolWork!WithLevels(t, S) = WithLevels(t, S)
    OBVIOUS
  <2>1. \A p \in Paths : (IF p \in S /\ ~ToolWork!Exists(t, p) THEN ToolWork!Directory ELSE t[p])
                      = (IF p \in S /\ ~Exists(t, p) THEN Directory ELSE t[p])
    BY <1>1, <1>4
  <2> QED BY <2>1, Zenon DEF ToolWork!WithLevels, WithLevels
<1>7. \A t, S : ToolWork!Without(t, S) = Without(t, S)
  BY <1>1 DEF ToolWork!Without, Without
<1>8. \A t, ok, text : ToolWork!Outcome(t, ok, text) = Outcome(t, ok, text)
  BY DEF ToolWork!Outcome, Outcome
<1>9. \A t : ToolWork!Refused(t) = Refused(t)
  BY <1>8 DEF ToolWork!Refused, Refused
<1>10. \A t : ToolWork!IsTree(t) <=> IsTree(t)
  BY <1>3, <1>4 DEF ToolWork!IsTree, IsTree
<1>11. \A t, new, text : ToolWork!MayBe(t, new, text) = MayBe(t, new, text)
  BY <1>8, <1>9 DEF ToolWork!MayBe, MayBe
<1> QED BY <1>1, <1>2, <1>3, <1>4, <1>5, <1>6, <1>7, <1>8, <1>9, <1>10, <1>11, <1>12, <1>13, <1>14

LEMMA SameOutcomes == \A t, job : ToolWork!Outcomes(t, job) = Outcomes(t, job)
<1> SUFFICES ASSUME NEW t, NEW job PROVE ToolWork!Outcomes(t, job) = Outcomes(t, job)
  OBVIOUS
<1> USE SameFiles
<1>1. \A p : ToolWork!ReadFile(t, p) = ReadFile(t, p)
  BY DEF ToolWork!ReadFile, ReadFile
<1>2. \A p : ToolWork!ListDirectory(t, p) = ListDirectory(t, p)
  BY DEF ToolWork!ListDirectory, ListDirectory
<1>3. \A p, text : ToolWork!WriteFile(t, p, text) = WriteFile(t, p, text)
  <2> SUFFICES ASSUME NEW p, NEW text PROVE ToolWork!WriteFile(t, p, text) = WriteFile(t, p, text)
    OBVIOUS
  <2>1. /\ ToolWork!WithLevels(t, ToolWork!Above(p)) = WithLevels(t, Above(p))
        /\ ToolWork!Blocked(t, p) = Blocked(t, p) /\ ToolWork!File(text) = File(text)
        /\ ToolWork!Refused(t) = Refused(t)
    OBVIOUS
  <2>2. \A levels, new : ToolWork!MayBe(levels, new, {}) = MayBe(levels, new, {})
    OBVIOUS
  <2> QED BY ONLY <2>1, <2>2 DEF ToolWork!WriteFile, WriteFile
<1>4. \A p : ToolWork!NewEntry(t, p) <=> NewEntry(t, p)
  BY DEF ToolWork!NewEntry, NewEntry
<1>5. \A p : ToolWork!CreateFile(t, p) = CreateFile(t, p)
  BY <1>4 DEF ToolWork!CreateFile, CreateFile
<1>6. \A p : ToolWork!CreateDirectory(t, p) = CreateDirectory(t, p)
  BY DEF ToolWork!CreateDirectory, CreateDirectory
<1>7. \A p, q : ToolWork!MovePath(t, p, q) = MovePath(t, p, q)
  <2> SUFFICES ASSUME NEW p, NEW q PROVE ToolWork!MovePath(t, p, q) = MovePath(t, p, q)
    OBVIOUS
  <2>1. /\ ToolWork!Exists(t, p) = Exists(t, p) /\ (ToolWork!NewEntry(t, q) <=> NewEntry(t, q))
        /\ ToolWork!Below(p) = Below(p) /\ ToolWork!Below(q) = Below(q)
        /\ ToolWork!Absent = Absent /\ ToolWork!Refused(t) = Refused(t)
        /\ ToolWork!IsStrictPrefix(p, q) = IsStrictPrefix(p, q)
    BY <1>4
  <2>2. \A new : ToolWork!MayBe(t, new, {}) = MayBe(t, new, {})
    OBVIOUS
  <2> QED BY ONLY <2>1, <2>2 DEF ToolWork!MovePath, MovePath
<1>8. \A p, q : ToolWork!CopyFile(t, p, q) = CopyFile(t, p, q)
  BY <1>4 DEF ToolWork!CopyFile, CopyFile
<1>9. \A p : ToolWork!RemoveFile(t, p) = RemoveFile(t, p)
  BY DEF ToolWork!RemoveFile, RemoveFile
<1>10. \A p : ToolWork!RemoveDirectory(t, p) = RemoveDirectory(t, p)
  BY DEF ToolWork!RemoveDirectory, RemoveDirectory
<1> QED BY <1>1, <1>2, <1>3, <1>5, <1>6, <1>7, <1>8, <1>9, <1>10 DEF ToolWork!Outcomes, Outcomes

(* What may disturb some places may disturb these and more.                 *)
LEMMA MadeAtMore ==
    ASSUME NEW t, NEW p, NEW q
    PROVE  Made(t, {p}) \subseteq Made(t, {p, q})
<1> SUFFICES ASSUME NEW o \in Made(t, {p}) PROVE o \in Made(t, {p, q})
  OBVIOUS
<1>1. Disturbs(t, o.tree, {p, q})
  BY DEF Made, Disturbs
<1> QED BY <1>1 DEF Made

(* A job makes of a tree what may differ at its places alone.               *)
LEMMA OutcomesAre ==
    ASSUME NEW t \in Trees, NEW job, job.op \in Ops, job.path \in Paths, job.to \in Paths, job.text \in SUBSET STRING
    PROVE  /\ ToolWork!Outcomes(t, job) \subseteq Made(t, {job.path, job.to})
           /\ job.op \in {"read", "list"} => \A o \in ToolWork!Outcomes(t, job) : o.tree = t
           /\ job.op = "read" => \A o \in ToolWork!Outcomes(t, job) : o.ok => t[job.path] = File(o.text)
<1>1. PICK p \in Paths, q \in Paths : p = job.path /\ q = job.to
  OBVIOUS
<1>2. ToolWork!Outcomes(t, job) = Outcomes(t, job)
  BY SameOutcomes
<1>3. Made(t, {p}) \subseteq Made(t, {p, q})
  BY MadeAtMore
<1>4. CASE job.op = "read"
  BY <1>1, <1>2, <1>4, LooksAreMade DEF Outcomes
<1>5. CASE job.op = "list"
  BY <1>1, <1>2, <1>5, LooksAreMade DEF Outcomes
<1>6. CASE job.op = "write"
  BY <1>1, <1>2, <1>3, <1>6, WriteIsMade DEF Outcomes
<1>7. CASE job.op = "create"
  BY <1>1, <1>2, <1>3, <1>7, CreateIsMade DEF Outcomes
<1>8. CASE job.op = "directory"
  BY <1>1, <1>2, <1>3, <1>8, CreateDirectoryIsMade DEF Outcomes
<1>9. CASE job.op = "move"
  BY <1>1, <1>2, <1>9, MoveIsMade DEF Outcomes
<1>10. CASE job.op = "copy"
  BY <1>1, <1>2, <1>10, CopyIsMade DEF Outcomes
<1>11. CASE job.op = "remove"
  BY <1>1, <1>2, <1>3, <1>11, RemovalsAreMade DEF Outcomes
<1>12. CASE job.op = "empty"
  BY <1>1, <1>2, <1>3, <1>12, RemovalsAreMade DEF Outcomes
<1> QED BY <1>4, <1>5, <1>6, <1>7, <1>8, <1>9, <1>10, <1>11, <1>12 DEF Ops

(* A generated file.                                                       *)
LEMMA GeneratedIsMade ==
    ASSUME tree \in Trees, NEW p \in Paths, NEW text \in SUBSET STRING
    PROVE  ToolWork!Generated(p, text) \subseteq Made(tree, {p})
<1>1. CASE tree[p].kind = "directory" \/ Blocked(tree, p)
  BY <1>1, RefusedIsMade, SameFiles DEF ToolWork!Generated
<1>2. CASE ~(tree[p].kind = "directory" \/ Blocked(tree, p))
  <2> DEFINE levels == WithLevels(tree, Above(p))
             full == [levels EXCEPT ![p] = File(text)]
             bare == [levels EXCEPT ![p] = File({})]
  <2>1. levels \in Trees /\ Disturbs(tree, levels, {p}) /\ full \in Trees /\ Disturbs(tree, full, {p})
    BY <1>2, LevelsAreMade
  <2>2. bare \in Trees /\ Disturbs(tree, bare, {p})
    BY <1>2, LevelsAreMade
  <2>3. ToolWork!Generated(p, text) =
            Refused(tree) \cup {Outcome(levels, FALSE, {}), Outcome(full, TRUE, {}), Outcome(bare, TRUE, {})}
    BY <1>2, SameFiles DEF ToolWork!Generated
  <2> HIDE DEF levels, full, bare
  <2> QED BY <2>1, <2>2, <2>3, OutcomeIsMade, RefusedIsMade
<1> QED BY <1>1, <1>2

-----------------------------------------------------------------------------
(* The invariant.  A call that waits is at work exactly once: with the file *)
(* system, in an answer of it not yet heard, with another service or as a   *)
(* command.  What it was shown of a file stays true because whoever may     *)
(* disturb the file conflicts with it, and of the calls at work for one     *)
(* task no two conflict; the rooms of the tasks are apart.  A task whose    *)
(* deadline passed, or whose run ended amid a turn, has overrun: what is    *)
(* still at work for it is nobody's concern.                                *)

(* Who works, and what a task of theirs reaches, with its directory there.   *)
Workers == {w, v}
Whos == [task : Workers, run : Nat, turn : Nat, index : Nat]
Bare == [p \in Paths |-> Directory]
Reach(t, c) == ToolWork!Touches(Bare, t, c)
InRoom(t, p) == IsPrefix(Rooms[t], p)
RoomsThere(now) == \A t \in Workers : now[Rooms[t]] = Directory
CallOf(c) == [c EXCEPT !.seen = {}]

(* The turns: the control of the runs, what is at work for calls (E) and the  *)
(* commands that run (R).                                                  *)
Busy(c, t) == ToolWork!Unfinished(c.turn[t])
Waits(c, x) == x.task \in c.live /\ x.run = c.run[x.task] /\ x.turn = c.asked[x.task] /\ x.index \in Busy(c, x.task)
Name(c, t, i) == [task |-> t, run |-> c.run[t], turn |-> c.asked[t], index |-> i]
Items(t) == [call : CallsFor(t), started : BOOLEAN, finished : BOOLEAN]

(* A turn is of a run that lives, and of its calls that were started and    *)
(* are not finished no two conflict.                                        *)
TurnsAre(c) ==
    /\ c.run \in [Workers -> Nat] /\ c.asked \in [Workers -> Nat]
    /\ c.live \in SUBSET Workers /\ c.overrun \in SUBSET Workers /\ DOMAIN c.turn = Workers
    /\ \A t \in Workers : c.turn[t] \in Seq(Items(t))
    /\ \A t \in Workers : \A i \in DOMAIN c.turn[t] : c.turn[t][i].finished => c.turn[t][i].started
    /\ \A t \in Workers : t \notin c.live => c.turn[t] = <<>>
    /\ \A t \in Workers : \A i, j \in Busy(c, t) :
          i # j => ~ToolWork!Conflict(Reach(t, c.turn[t][i].call), Reach(t, c.turn[t][j].call))

(* Who is at work was started, and if its task did not overrun it waits;    *)
(* who waits is at work.                                                    *)
Askers(E) == {e.who : e \in E}
Begins(c, x) ==
    /\ x.turn <= c.asked[x.task]
    /\ x.turn = c.asked[x.task] /\ x.index \in DOMAIN c.turn[x.task] => c.turn[x.task][x.index].started
AtWorkIs(c, E, R) ==
    /\ \A e \in E : e.who \in Whos /\ e.call \in CallsFor(e.who.task) /\ e.call.tool # "run_command"
    /\ R \subseteq Whos
    /\ \A x \in Askers(E) \cup R : Begins(c, x) /\ (x.task \notin c.overrun => Waits(c, x))
    /\ \A e \in E : Waits(c, e.who) => c.turn[e.who.task][e.who.index].call = e.call
    /\ \A x \in R : Waits(c, x) /\ c.turn[x.task][x.index].call.tool = "run_command"
    /\ \A t \in Workers : \A i \in Busy(c, t) : Name(c, t, i) \in Askers(E) \cup R

(* What the file system is asked (J), what it answered (A), and what is at    *)
(* work elsewhere (W); nobody is at work twice.                             *)
Errand(j) == [who |-> j.who, call |-> CallOf(j.why)]
Elsewhere(e) == [who |-> e.who, call |-> e.call]
Errands(J, A, W) == {Errand(j) : j \in J} \cup {Errand(a.job) : a \in A} \cup {Elsewhere(e) : e \in W}
Unique(J, A, W) ==
    /\ \A j, k \in J : j.who = k.who => j = k
    /\ \A a, b \in A : a.job.who = b.job.who => a = b
    /\ \A e, f \in W : e.who = f.who => e = f
    /\ \A j \in J, a \in A : j.who # a.job.who
    /\ \A j \in J, e \in W : j.who # e.who
    /\ \A a \in A, e \in W : a.job.who # e.who

(* A job is asked for a call, at its places, and where it writes in the     *)
(* room of its task.                                                        *)
Jobs ==
    {j \in [who : Whos, why : CallSet, op : Ops, path : Paths, to : Paths, text : SUBSET STRING] :
        /\ CallOf(j.why) \in CallsFor(j.who.task) /\ j.path = j.why.path /\ j.to \in {j.why.path, j.why.to}
        /\ j.op \notin {"read", "list"} =>
              j.why.tool \in ToolWork!Writing \cup ToolWork!Pairs /\ InRoom(j.who.task, j.path) /\ InRoom(j.who.task, j.to)
        /\ j.op = "empty" => j.why.tool = "remove_path"
        /\ j.why.tool = "edit_file" => InRoom(j.who.task, j.path)}
JobAnswers == [job : Jobs, ok : BOOLEAN, text : SUBSET STRING]
WorkStages == {"answered", "worker", "network", "catalog", "server", "decoding"}
Works ==
    {e \in [who : Whos, stage : WorkStages, call : CallSet] :
        e.call.tool \in {"generate_image", "generate_speech"} /\ e.stage \in {"network", "decoding"} =>
            InRoom(e.who.task, e.call.path)}

(* What was shown to an edit is there when it writes, and what a removal    *)
(* found empty is empty.                                                    *)
JobHolds(now, job) ==
    /\ job.op = "write" /\ job.why.tool = "edit_file" => now[job.path] = File(job.why.seen)
    /\ job.op = "empty" /\ ~job.why.all => \A q \in Below(job.path) : ~Exists(now, q)
AnswerHolds(now, answer) ==
    answer.ok /\ answer.job.op = "read" /\ answer.job.why.tool = "edit_file" => now[answer.job.path] = File(answer.text)

(* The files hold what the jobs and answers rely on, of every task that did *)
(* not overrun.                                                             *)
FilesAre(now, J, A, W, ov) ==
    /\ now \in Trees /\ RoomsThere(now)
    /\ J \subseteq Jobs /\ A \subseteq JobAnswers /\ W \subseteq Works
    /\ \A j \in J : j.who.task \notin ov => JobHolds(now, j)
    /\ \A a \in A : a.job.who.task \notin ov => AnswerHolds(now, a)

(* All of it, and with the queues as they are.                              *)
Together(c, now, J, A, W, R) ==
    /\ TurnsAre(c) /\ AtWorkIs(c, Errands(J, A, W), R) /\ Unique(J, A, W) /\ FilesAre(now, J, A, W, c.overrun)
Whole(c, now, js, as, W, cs, R) ==
    /\ js \in Seq(Jobs) /\ IsInjective(js) /\ as \in Seq(JobAnswers) /\ IsInjective(as)
    /\ Together(c, now, Range(js), Range(as), W, R)
    /\ DOMAIN cs = R /\ \A x \in R : cs[x] = x

Now == [run |-> toolRun, live |-> live, asked |-> asked, turn |-> toolTurn, overrun |-> overrun]
ToolInv == Whole(Now, tree, jobs, answers, work, commands, running)

-----------------------------------------------------------------------------

(* The rooms of the two tasks are apart.                                    *)
LEMMA RoomIs ==
    /\ Rooms[w] = <<"w">> /\ Rooms[v] = <<"v">> /\ w # v
    /\ \A t \in Workers : Rooms[t] \in Paths
    /\ \A t, u \in Workers : IsPrefix(Rooms[t], Rooms[u]) => t = u
<1>1. w # v /\ <<"w">> \in Paths /\ <<"v">> \in Paths
  BY ToolsAssumption DEF Files
<1>2. Rooms[w] = <<"w">> /\ Rooms[v] = <<"v">>
  BY <1>1 DEF Rooms
<1>3. /\ <<"w">> \in Seq(STRING) /\ <<"v">> \in Seq(STRING)
  BY <1>1, PathIs
<1>5. Len(<<"w">>) = 1 /\ Len(<<"v">>) = 1
  OBVIOUS
<1>6. <<"w">>[1] = "w" /\ <<"v">>[1] = "v" /\ "w" # "v"
  OBVIOUS
<1>4. ~IsPrefix(<<"w">>, <<"v">>) /\ ~IsPrefix(<<"v">>, <<"w">>)
  <2>1. 1 \in 1..1
    OBVIOUS
  <2> QED BY <1>3, <1>5, <1>6, <2>1, PrefixIs
<1> QED BY <1>1, <1>2, <1>4 DEF Workers

(* What a call touches does not depend on the files, as long as the rooms   *)
(* are there.                                                               *)
LEMMA ReachIs ==
    ASSUME NEW now \in Trees, RoomsThere(now), NEW t \in Workers, NEW c
    PROVE  /\ ToolWork!Touches(now, t, c) = Reach(t, c)
           /\ \A p : ToolWork!Resolves(now, t, p) <=> InRoom(t, p)
<1>1. \A p : ToolWork!Resolves(now, t, p) <=> InRoom(t, p)
  BY SameFiles, EntryIs DEF ToolWork!Resolves, InRoom, RoomsThere
<1>2. \A p : ToolWork!Resolves(Bare, t, p) <=> InRoom(t, p)
  BY SameFiles, RoomIs, EntryIs DEF ToolWork!Resolves, InRoom, Bare
<1>3. {p \in {c.path, c.to} : ToolWork!Resolves(now, t, p)} = {p \in {c.path, c.to} : ToolWork!Resolves(Bare, t, p)}
  BY <1>1, <1>2
<1> QED BY <1>1, <1>3, Zenon DEF ToolWork!Touches, Reach

(* A model asks for the calls of a turn, when its last turn is over.        *)
LEMMA TurnIsAsked ==
    ASSUME NEW c, NEW d, NEW E, NEW R, TurnsAre(c), AtWorkIs(c, E, R),
           NEW t \in Workers, t \in c.live, c.turn[t] = <<>>, NEW q \in Seq(CallsFor(t)),
           d.run = c.run, d.live = c.live, d.overrun = c.overrun, d.asked = [c.asked EXCEPT ![t] = @ + 1],
           d.turn = [c.turn EXCEPT ![t] = [i \in DOMAIN q |-> [call |-> q[i], started |-> FALSE, finished |-> FALSE]]]
    PROVE  TurnsAre(d) /\ AtWorkIs(d, E, R)
<1> DEFINE fresh == [i \in DOMAIN q |-> [call |-> q[i], started |-> FALSE, finished |-> FALSE]]
<1>1. /\ d.turn[t] = fresh /\ \A u \in Workers : u # t => d.turn[u] = c.turn[u] /\ d.asked[u] = c.asked[u]
      /\ d.asked[t] = c.asked[t] + 1 /\ c.asked[t] \in Nat /\ d.asked \in [Workers -> Nat] /\ DOMAIN d.turn = Workers
  BY DEF TurnsAre
<1>2. /\ fresh \in Seq(Items(t))
      /\ \A i \in DOMAIN fresh : fresh[i].started = FALSE /\ fresh[i].finished = FALSE
  <2>1. Len(q) \in Nat /\ DOMAIN q = 1..Len(q) /\ \A i \in DOMAIN q : q[i] \in CallsFor(t)
    OBVIOUS
  <2>2. \A i \in DOMAIN q : [call |-> q[i], started |-> FALSE, finished |-> FALSE] \in Items(t)
    BY <2>1 DEF Items
  <2>3. fresh \in [1..Len(q) -> Items(t)]
    BY <2>1, <2>2
  <2> QED BY <2>1, <2>3, SeqDef
<1> HIDE DEF fresh
<1>3. Busy(d, t) = {} /\ Busy(c, t) = {} /\ \A u \in Workers : u # t => Busy(d, u) = Busy(c, u)
  BY <1>1, <1>2 DEF Busy, ToolWork!Unfinished
<1>4. TurnsAre(d)
  <2>1. \A u \in Workers : d.turn[u] \in Seq(Items(u))
    BY <1>1, <1>2 DEF TurnsAre
  <2>2. \A u \in Workers : \A i \in DOMAIN d.turn[u] : d.turn[u][i].finished => d.turn[u][i].started
    BY <1>1, <1>2 DEF TurnsAre
  <2>3. \A u \in Workers : u \notin d.live => d.turn[u] = <<>>
    BY <1>1 DEF TurnsAre
  <2>4. \A u \in Workers : \A i, j \in Busy(d, u) :
           i # j => ~ToolWork!Conflict(Reach(u, d.turn[u][i].call), Reach(u, d.turn[u][j].call))
    BY <1>1, <1>3 DEF TurnsAre
  <2> QED BY <1>1, <2>1, <2>2, <2>3, <2>4 DEF TurnsAre
<1>5. \A x \in Whos : x.task # t => (Waits(d, x) <=> Waits(c, x)) /\ (Begins(d, x) <=> Begins(c, x))
  BY <1>1, <1>3 DEF Waits, Begins, Whos
<1>6. \A x \in Whos : x.task = t /\ Begins(c, x) => Begins(d, x) /\ ~Waits(c, x) /\ ~Waits(d, x)
  BY <1>1, <1>3 DEF Waits, Begins, Whos
<1>7. Askers(E) \cup R \subseteq Whos
  BY DEF AtWorkIs, Askers
<1>8. \A x \in Askers(E) \cup R : Begins(d, x) /\ (x.task \notin d.overrun => Waits(d, x))
  BY <1>5, <1>6, <1>7 DEF AtWorkIs
<1>9. \A e \in E : Waits(d, e.who) => d.turn[e.who.task][e.who.index].call = e.call
  <2> SUFFICES ASSUME NEW e \in E, Waits(d, e.who) PROVE d.turn[e.who.task][e.who.index].call = e.call
    OBVIOUS
  <2>1. e.who \in Whos /\ Begins(c, e.who)
    BY DEF AtWorkIs, Askers
  <2>2. e.who.task # t /\ Waits(c, e.who) /\ e.who.task \in Workers
    BY <1>5, <1>6, <2>1 DEF Whos
  <2> QED BY <1>1, <2>2 DEF AtWorkIs
<1>10. \A x \in R : Waits(d, x) /\ d.turn[x.task][x.index].call.tool = "run_command"
  <2> SUFFICES ASSUME NEW x \in R PROVE Waits(d, x) /\ d.turn[x.task][x.index].call.tool = "run_command"
    OBVIOUS
  <2>1. x \in Whos /\ Waits(c, x) /\ c.turn[x.task][x.index].call.tool = "run_command" /\ Begins(c, x)
    BY DEF AtWorkIs
  <2>2. x.task # t /\ x.task \in Workers
    BY <1>6, <2>1 DEF Whos
  <2> QED BY <1>1, <1>5, <2>1, <2>2
<1>11. \A u \in Workers : \A i \in Busy(d, u) : Name(d, u, i) \in Askers(E) \cup R
  <2> SUFFICES ASSUME NEW u \in Workers, NEW i \in Busy(d, u) PROVE Name(d, u, i) \in Askers(E) \cup R
    OBVIOUS
  <2>1. u # t /\ i \in Busy(c, u)
    BY <1>3
  <2>2. Name(d, u, i) = Name(c, u, i)
    BY <1>1, <2>1 DEF Name
  <2> QED BY <2>1, <2>2 DEF AtWorkIs
<1> QED BY <1>4, <1>8, <1>9, <1>10, <1>11 DEF AtWorkIs

-----------------------------------------------------------------------------
(* What the control of the turns keeps when a call is answered, when a turn *)
(* is over and when a run begins or ends.                                   *)

(* What is done for x, who may have waited, is at work no more.             *)
LEMMA AnswerIsGone ==
    ASSUME NEW c, NEW d, NEW E, NEW R, TurnsAre(c), AtWorkIs(c, E, R), NEW x \in Whos, NEW E1 \in SUBSET E, NEW R1 \in SUBSET R,
           ~Waits(c, x), Askers(E) \cup R \subseteq Askers(E1) \cup R1 \cup {x},
           d.run = c.run, d.live = c.live, d.asked = c.asked, d.turn = c.turn, d.overrun = c.overrun
    PROVE  TurnsAre(d) /\ AtWorkIs(d, E1, R1)
<1>1. \A u : Busy(d, u) = Busy(c, u)
  BY DEF Busy
<1>2. TurnsAre(d)
  BY <1>1 DEF TurnsAre
<1>3. \A y : (Waits(d, y) <=> Waits(c, y)) /\ (Begins(d, y) <=> Begins(c, y))
  BY <1>1 DEF Waits, Begins
<1>4. Askers(E1) \subseteq Askers(E)
  BY DEF Askers
<1>5. \A y \in Askers(E1) \cup R1 : Begins(d, y) /\ (y.task \notin d.overrun => Waits(d, y))
  BY <1>3, <1>4 DEF AtWorkIs
<1>6. \A e \in E1 : Waits(d, e.who) => d.turn[e.who.task][e.who.index].call = e.call
  BY <1>3 DEF AtWorkIs
<1>7. \A y \in R1 : Waits(d, y) /\ d.turn[y.task][y.index].call.tool = "run_command"
  BY <1>3 DEF AtWorkIs
<1>8. ASSUME NEW u \in Workers, NEW i \in Busy(d, u) PROVE Name(d, u, i) \in Askers(E1) \cup R1
  <2>1. Name(c, u, i) \in Askers(E) \cup R /\ Name(d, u, i) = Name(c, u, i)
    BY <1>1 DEF AtWorkIs, Name
  <2>2. CASE Name(c, u, i) = x
    <3>1. i \in Busy(c, u) /\ u \in c.live
      <4>1. i \in Busy(c, u)
        BY <1>1
      <4>2. i \in DOMAIN c.turn[u]
        BY <4>1 DEF Busy, ToolWork!Unfinished
      <4> QED BY <4>1, <4>2 DEF TurnsAre
    <3>2. Waits(c, x)
      BY <2>2, <3>1 DEF Waits, Name
    <3> QED BY <3>2
  <2> QED BY <2>1, <2>2
<1> QED BY <1>2, <1>5, <1>6, <1>7, <1>8 DEF AtWorkIs

(* A turn one of whose calls is finished.                                  *)
OneLess(c, d, t, k) ==
    /\ DOMAIN d.turn = Workers /\ k \in DOMAIN c.turn[t]
    /\ \A u \in Workers : d.turn[u] \in Seq(Items(u)) /\ DOMAIN d.turn[u] = DOMAIN c.turn[u]
    /\ \A u \in Workers : u # t => d.turn[u] = c.turn[u]
    /\ \A i \in DOMAIN c.turn[t] :
          /\ d.turn[t][i].call = c.turn[t][i].call /\ d.turn[t][i].started = c.turn[t][i].started
          /\ (i = k => d.turn[t][i].finished = TRUE) /\ (i # k => d.turn[t][i] = c.turn[t][i])

LEMMA OneIsLess ==
    ASSUME NEW c, NEW d, TurnsAre(c), NEW t \in Workers, NEW k \in Busy(c, t),
           d.turn = [c.turn EXCEPT ![t] = [c.turn[t] EXCEPT ![k].finished = TRUE]]
    PROVE  OneLess(c, d, t, k)
<1>1. k \in DOMAIN c.turn[t] /\ \A u \in Workers : c.turn[u] \in Seq(Items(u))
  BY DEF Busy, ToolWork!Unfinished, TurnsAre
<1>2. /\ d.turn[t] = [c.turn[t] EXCEPT ![k].finished = TRUE] /\ DOMAIN d.turn = Workers
      /\ \A u \in Workers : u # t => d.turn[u] = c.turn[u]
  BY DEF TurnsAre
<1>3. PICK old \in Seq(Items(t)) : old = c.turn[t]
  BY <1>1
<1>4. PICK new : new = d.turn[t]
  OBVIOUS
<1>5. new = [old EXCEPT ![k].finished = TRUE] /\ k \in DOMAIN old
  BY <1>1, <1>2, <1>3, <1>4
<1>6. /\ new \in Seq(Items(t)) /\ DOMAIN new = DOMAIN old
      /\ \A i \in DOMAIN old :
            /\ new[i].call = old[i].call /\ new[i].started = old[i].started
            /\ (i = k => new[i].finished = TRUE) /\ (i # k => new[i] = old[i])
  <2>1. Len(old) \in Nat /\ DOMAIN old = 1..Len(old) /\ \A i \in DOMAIN old : old[i] \in Items(t)
    BY <1>3
  <2>2. DOMAIN new = DOMAIN old /\ new[k] = [old[k] EXCEPT !.finished = TRUE] /\ \A i \in DOMAIN old : i # k => new[i] = old[i]
    BY <1>5
  <2>3. new = [i \in 1..Len(old) |-> new[i]]
    BY <1>5, <2>1
  <2>4. PICK it \in Items(t) : it = old[k]
    BY <1>5, <2>1
  <2>5. new[k] \in Items(t) /\ new[k].call = it.call /\ new[k].started = it.started /\ new[k].finished = TRUE
    BY <2>2, <2>4 DEF Items
  <2>6. \A i \in 1..Len(old) : new[i] \in Items(t)
    BY <2>1, <2>2, <2>5
  <2>7. new \in Seq(Items(t))
    <3>1. new \in [1..Len(old) -> Items(t)]
      BY <2>3, <2>6
    <3> QED BY <2>1, <3>1, SeqDef
  <2>8. \A i \in DOMAIN old : /\ new[i].call = old[i].call /\ new[i].started = old[i].started
                              /\ (i = k => new[i].finished = TRUE) /\ (i # k => new[i] = old[i])
    BY <2>2, <2>4, <2>5
  <2> QED BY <2>2, <2>7, <2>8
<1>7. \A u \in Workers : d.turn[u] \in Seq(Items(u)) /\ DOMAIN d.turn[u] = DOMAIN c.turn[u]
  BY <1>1, <1>2, <1>3, <1>4, <1>6
<1> QED BY <1>1, <1>2, <1>3, <1>4, <1>6, <1>7 DEF OneLess

(* What a turn is after one of its calls was answered.                      *)
LEMMA OneLessIsWell ==
    ASSUME NEW c, NEW d, NEW E, NEW R, TurnsAre(c), AtWorkIs(c, E, R), NEW x \in Whos, NEW E1 \in SUBSET E, NEW R1 \in SUBSET R,
           Waits(c, x), Askers(E) \cup R \subseteq Askers(E1) \cup R1 \cup {x}, x \notin R1,
           d.run = c.run, d.live = c.live, d.asked = c.asked, c.overrun \subseteq d.overrun, d.overrun \in SUBSET Workers,
           x \in Askers(E1) => x.task \in d.overrun, OneLess(c, d, x.task, x.index)
    PROVE  TurnsAre(d) /\ AtWorkIs(d, E1, R1)
<1>20. PICK t \in Workers : t = x.task
  BY DEF Whos
<1>21. PICK k \in DOMAIN c.turn[t] : k = x.index
  BY <1>20 DEF OneLess
<1>1. t = x.task /\ k = x.index
  BY <1>20, <1>21
<1>2. /\ k \in DOMAIN c.turn[t] /\ c.turn[t][k].started /\ k \in Busy(c, t) /\ t \in c.live
      /\ OneLess(c, d, t, k)
  BY <1>1 DEF Waits, Busy, ToolWork!Unfinished
<1>3. DOMAIN d.turn = Workers /\ \A u \in Workers : u # t => d.turn[u] = c.turn[u]
  BY <1>2 DEF OneLess
<1>8. ASSUME NEW u \in Workers, NEW i \in DOMAIN d.turn[u]
      PROVE  /\ i \in DOMAIN c.turn[u] /\ d.turn[u][i].call = c.turn[u][i].call
             /\ d.turn[u][i].started = c.turn[u][i].started
             /\ (u = t /\ i = k => d.turn[u][i].finished = TRUE)
             /\ (~(u = t /\ i = k) => d.turn[u][i] = c.turn[u][i])
  <2>1. CASE u # t
    BY <1>3, <2>1
  <2>2. CASE u = t
    BY <1>2, <2>2 DEF OneLess
  <2> QED BY <2>1, <2>2
<1>9. \A u \in Workers : d.turn[u] \in Seq(Items(u)) /\ DOMAIN d.turn[u] = DOMAIN c.turn[u]
  BY <1>2 DEF OneLess
<1>10. \A u \in Workers : \A i : i \in Busy(d, u) <=> i \in Busy(c, u) /\ ~(u = t /\ i = k)
  <2> SUFFICES ASSUME NEW u \in Workers, NEW i PROVE i \in Busy(d, u) <=> i \in Busy(c, u) /\ ~(u = t /\ i = k)
    OBVIOUS
  <2>1. CASE i \notin DOMAIN c.turn[u]
    BY <1>9, <2>1 DEF Busy, ToolWork!Unfinished
  <2>2. CASE i \in DOMAIN c.turn[u] /\ u = t /\ i = k
    <3>1. i \in DOMAIN d.turn[u] /\ d.turn[u][i].finished = TRUE
      BY <1>8, <1>9, <2>2
    <3> QED BY <2>2, <3>1 DEF Busy, ToolWork!Unfinished
  <2>3. CASE i \in DOMAIN c.turn[u] /\ ~(u = t /\ i = k)
    <3>1. i \in DOMAIN d.turn[u] /\ d.turn[u][i] = c.turn[u][i]
      BY <1>8, <1>9, <2>3
    <3> QED BY <2>3, <3>1 DEF Busy, ToolWork!Unfinished
  <2> QED BY <2>1, <2>2, <2>3
<1>11. TurnsAre(d)
  <2>1. \A u \in Workers : d.turn[u] \in Seq(Items(u))
    BY <1>9
  <2>2. \A u \in Workers : \A i \in DOMAIN d.turn[u] : d.turn[u][i].finished => d.turn[u][i].started
    <3> SUFFICES ASSUME NEW u \in Workers, NEW i \in DOMAIN d.turn[u], d.turn[u][i].finished PROVE d.turn[u][i].started
      OBVIOUS
    <3>1. CASE u = t /\ i = k
      BY <1>2, <1>8, <3>1
    <3>2. CASE ~(u = t /\ i = k)
      <4>1. d.turn[u][i] = c.turn[u][i] /\ i \in DOMAIN c.turn[u]
        BY <1>8, <3>2
      <4> QED BY <4>1 DEF TurnsAre
    <3> QED BY <3>1, <3>2
  <2>3. \A u \in Workers : u \notin d.live => d.turn[u] = <<>>
    BY <1>2, <1>3 DEF TurnsAre
  <2>4. ASSUME NEW u \in Workers, NEW i \in Busy(d, u), NEW j \in Busy(d, u), i # j
        PROVE  ~ToolWork!Conflict(Reach(u, d.turn[u][i].call), Reach(u, d.turn[u][j].call))
    <3>1. i \in Busy(c, u) /\ j \in Busy(c, u) /\ i \in DOMAIN d.turn[u] /\ j \in DOMAIN d.turn[u]
      BY <1>10 DEF Busy, ToolWork!Unfinished
    <3>2. d.turn[u][i].call = c.turn[u][i].call /\ d.turn[u][j].call = c.turn[u][j].call
      BY <1>8, <3>1
    <3> QED BY <2>4, <3>1, <3>2 DEF TurnsAre
  <2> QED BY <1>3, <2>1, <2>2, <2>3, <2>4 DEF TurnsAre
<1>12. \A y \in Whos : Begins(c, y) => Begins(d, y)
  <2> SUFFICES ASSUME NEW y \in Whos, Begins(c, y) PROVE Begins(d, y)
    OBVIOUS
  <2>1. y.task \in Workers
    BY DEF Whos
  <2>2. ASSUME y.turn = d.asked[y.task], y.index \in DOMAIN d.turn[y.task] PROVE d.turn[y.task][y.index].started
    <3>1. d.turn[y.task][y.index].started = c.turn[y.task][y.index].started /\ y.index \in DOMAIN c.turn[y.task]
      BY <1>8, <2>1, <2>2
    <3> QED BY <2>2, <3>1 DEF Begins
  <2> QED BY <2>2 DEF Begins
<1>13. \A y \in Whos : Waits(d, y) <=> Waits(c, y) /\ y # x
  <2> SUFFICES ASSUME NEW y \in Whos PROVE Waits(d, y) <=> Waits(c, y) /\ y # x
    OBVIOUS
  <2>1. y.task \in Workers
    BY DEF Whos
  <2>2. y = x <=> y.task = x.task /\ y.run = x.run /\ y.turn = x.turn /\ y.index = x.index
    BY DEF Whos
  <2>3. y.index \in Busy(d, y.task) <=> y.index \in Busy(c, y.task) /\ ~(y.task = t /\ y.index = k)
    BY <1>10, <2>1
  <2> QED BY <1>1, <2>2, <2>3 DEF Waits
<1>14. Askers(E) \cup R \subseteq Whos /\ Askers(E1) \subseteq Askers(E)
  BY DEF AtWorkIs, Askers
<1>15. \A y \in Askers(E1) \cup R1 : Begins(d, y) /\ (y.task \notin d.overrun => Waits(d, y))
  <2> SUFFICES ASSUME NEW y \in Askers(E1) \cup R1 PROVE Begins(d, y) /\ (y.task \notin d.overrun => Waits(d, y))
    OBVIOUS
  <2>1. y \in Whos /\ Begins(c, y) /\ (y.task \notin c.overrun => Waits(c, y))
    BY <1>14 DEF AtWorkIs
  <2> QED BY <1>12, <1>13, <2>1
<1>16. \A e \in E1 : Waits(d, e.who) => d.turn[e.who.task][e.who.index].call = e.call
  <2> SUFFICES ASSUME NEW e \in E1, Waits(d, e.who) PROVE d.turn[e.who.task][e.who.index].call = e.call
    OBVIOUS
  <2>1. e.who \in Whos /\ e.who.task \in Workers
    BY DEF AtWorkIs, Whos
  <2>2. c.turn[e.who.task][e.who.index].call = e.call
    BY <1>13, <2>1 DEF AtWorkIs
  <2>3. e.who.index \in DOMAIN d.turn[e.who.task]
    BY DEF Waits, Busy, ToolWork!Unfinished
  <2> QED BY <1>8, <2>1, <2>2, <2>3
<1>17. \A y \in R1 : Waits(d, y) /\ d.turn[y.task][y.index].call.tool = "run_command"
  <2> SUFFICES ASSUME NEW y \in R1 PROVE Waits(d, y) /\ d.turn[y.task][y.index].call.tool = "run_command"
    OBVIOUS
  <2>1. y \in Whos /\ y.task \in Workers /\ Waits(c, y) /\ c.turn[y.task][y.index].call.tool = "run_command"
    BY DEF AtWorkIs, Whos
  <2>2. Waits(d, y)
    BY <1>13, <2>1
  <2>3. y.index \in DOMAIN d.turn[y.task]
    BY <2>2 DEF Waits, Busy, ToolWork!Unfinished
  <2> QED BY <1>8, <2>1, <2>2, <2>3
<1>18. ASSUME NEW u \in Workers, NEW i \in Busy(d, u) PROVE Name(d, u, i) \in Askers(E1) \cup R1
  <2>1. i \in Busy(c, u) /\ ~(u = t /\ i = k)
    BY <1>10
  <2>2. Name(d, u, i) = Name(c, u, i) /\ Name(c, u, i) \in Askers(E) \cup R
    BY <2>1 DEF Name, AtWorkIs
  <2>3. Name(c, u, i).task = u /\ Name(c, u, i).index = i
    BY DEF Name
  <2> QED BY <1>1, <2>1, <2>2, <2>3
<1> QED BY <1>11, <1>14, <1>15, <1>16, <1>17, <1>18 DEF AtWorkIs

(* A call is answered, or given up: it is waited for no more.               *)
LEMMA CallIsAnswered ==
    ASSUME NEW c, NEW d, NEW E, NEW R, TurnsAre(c), AtWorkIs(c, E, R), NEW x \in Whos, NEW E1 \in SUBSET E, NEW R1 \in SUBSET R,
           Waits(c, x), Askers(E) \cup R \subseteq Askers(E1) \cup R1 \cup {x}, x \notin R1,
           d.run = c.run, d.live = c.live, d.asked = c.asked, c.overrun \subseteq d.overrun, d.overrun \in SUBSET Workers,
           x \in Askers(E1) => x.task \in d.overrun,
           d.turn = [c.turn EXCEPT ![x.task] = [c.turn[x.task] EXCEPT ![x.index].finished = TRUE]]
    PROVE  TurnsAre(d) /\ AtWorkIs(d, E1, R1)
<1>1. x.task \in Workers /\ x.index \in Busy(c, x.task)
  BY DEF Whos, Waits
<1>2. OneLess(c, d, x.task, x.index)
  BY <1>1, OneIsLess
<1> QED BY <1>2, OneLessIsWell

(* A turn in which nothing is unfinished is over, and the next may be asked *)
(* for.                                                                     *)
LEMMA TurnIsOver ==
    ASSUME NEW c, NEW d, NEW E, NEW R, TurnsAre(c), AtWorkIs(c, E, R), NEW t \in Workers,
           \A i \in DOMAIN c.turn[t] : c.turn[t][i].finished,
           d.run = c.run, d.live = c.live, d.asked = c.asked, d.overrun = c.overrun, d.turn = [c.turn EXCEPT ![t] = <<>>]
    PROVE  TurnsAre(d) /\ AtWorkIs(d, E, R)
<1>1. d.turn[t] = <<>> /\ DOMAIN d.turn = Workers /\ \A u \in Workers : u # t => d.turn[u] = c.turn[u]
  BY DEF TurnsAre
<1>2. Busy(d, t) = {} /\ Busy(c, t) = {} /\ \A u \in Workers : u # t => Busy(d, u) = Busy(c, u)
  BY <1>1 DEF Busy, ToolWork!Unfinished
<1>3. TurnsAre(d)
  <2>1. \A u \in Workers : d.turn[u] \in Seq(Items(u))
    BY <1>1 DEF TurnsAre
  <2>2. \A u \in Workers : \A i \in DOMAIN d.turn[u] : d.turn[u][i].finished => d.turn[u][i].started
    BY <1>1 DEF TurnsAre
  <2>3. \A u \in Workers : u \notin d.live => d.turn[u] = <<>>
    BY <1>1 DEF TurnsAre
  <2>4. \A u \in Workers : \A i, j \in Busy(d, u) :
           i # j => ~ToolWork!Conflict(Reach(u, d.turn[u][i].call), Reach(u, d.turn[u][j].call))
    BY <1>1, <1>2 DEF TurnsAre
  <2> QED BY <1>1, <2>1, <2>2, <2>3, <2>4 DEF TurnsAre
<1>4. \A x \in Whos : (Waits(d, x) <=> Waits(c, x)) /\ (Waits(c, x) => x.task # t)
  BY <1>1, <1>2 DEF Waits, Whos
<1>5. \A x \in Whos : Begins(c, x) => Begins(d, x)
  <2> SUFFICES ASSUME NEW x \in Whos, Begins(c, x) PROVE Begins(d, x)
    OBVIOUS
  <2>1. CASE x.task = t
    BY <1>1, <2>1 DEF Begins
  <2>2. CASE x.task # t
    BY <1>1, <2>2 DEF Begins, Whos
  <2> QED BY <2>1, <2>2
<1>6. Askers(E) \cup R \subseteq Whos
  BY DEF AtWorkIs, Askers
<1>7. \A x \in Askers(E) \cup R : Begins(d, x) /\ (x.task \notin d.overrun => Waits(d, x))
  BY <1>4, <1>5, <1>6 DEF AtWorkIs
<1>8. ASSUME NEW e \in E, Waits(d, e.who) PROVE d.turn[e.who.task][e.who.index].call = e.call
  <2>1. e.who \in Whos /\ e.who.task \in Workers
    BY DEF AtWorkIs, Whos
  <2>2. Waits(c, e.who) /\ e.who.task # t
    BY <1>4, <1>8, <2>1
  <2> QED BY <1>1, <2>1, <2>2 DEF AtWorkIs
<1>9. ASSUME NEW x \in R PROVE Waits(d, x) /\ d.turn[x.task][x.index].call.tool = "run_command"
  <2>1. x \in Whos /\ x.task \in Workers /\ Waits(c, x) /\ c.turn[x.task][x.index].call.tool = "run_command"
    BY DEF AtWorkIs, Whos
  <2> QED BY <1>1, <1>4, <2>1
<1>10. ASSUME NEW u \in Workers, NEW i \in Busy(d, u) PROVE Name(d, u, i) \in Askers(E) \cup R
  <2>1. i \in Busy(c, u) /\ Name(d, u, i) = Name(c, u, i)
    BY <1>2 DEF Name
  <2> QED BY <2>1 DEF AtWorkIs
<1> QED BY <1>3, <1>7, <1>8, <1>9, <1>10 DEF AtWorkIs

(* A run begins with no turn.                                               *)
LEMMA RunBegins ==
    ASSUME NEW c, NEW d, NEW E, NEW R, TurnsAre(c), AtWorkIs(c, E, R), NEW t \in Workers, t \notin c.live,
           d.run = [c.run EXCEPT ![t] = @ + 1], d.live = c.live \cup {t}, d.asked = c.asked, d.overrun = c.overrun, d.turn = c.turn
    PROVE  TurnsAre(d) /\ AtWorkIs(d, E, R)
<1>1. /\ \A u \in Workers : u # t => d.run[u] = c.run[u] /\ (u \in d.live <=> u \in c.live)
      /\ d.run \in [Workers -> Nat] /\ d.live \in SUBSET Workers /\ c.turn[t] = <<>>
  BY DEF TurnsAre
<1>2. Busy(c, t) = {} /\ \A u : Busy(d, u) = Busy(c, u)
  BY <1>1 DEF Busy, ToolWork!Unfinished
<1>3. TurnsAre(d)
  <2>1. \A u \in Workers : u \notin d.live => d.turn[u] = <<>>
    BY DEF TurnsAre
  <2>2. \A u \in Workers : \A i, j \in Busy(d, u) :
           i # j => ~ToolWork!Conflict(Reach(u, d.turn[u][i].call), Reach(u, d.turn[u][j].call))
    BY <1>2 DEF TurnsAre
  <2> QED BY <1>1, <2>1, <2>2 DEF TurnsAre
<1>4. \A x \in Whos : (Waits(d, x) <=> Waits(c, x))
  BY <1>1, <1>2 DEF Waits, Whos
<1>5. \A x : Begins(d, x) <=> Begins(c, x)
  BY DEF Begins
<1>6. Askers(E) \cup R \subseteq Whos
  BY DEF AtWorkIs, Askers
<1>7. \A x \in Askers(E) \cup R : Begins(d, x) /\ (x.task \notin d.overrun => Waits(d, x))
  BY <1>4, <1>5, <1>6 DEF AtWorkIs
<1>8. \A e \in E : Waits(d, e.who) => d.turn[e.who.task][e.who.index].call = e.call
  BY <1>4 DEF AtWorkIs
<1>9. \A x \in R : Waits(d, x) /\ d.turn[x.task][x.index].call.tool = "run_command"
  BY <1>4 DEF AtWorkIs
<1>10. ASSUME NEW u \in Workers, NEW i \in Busy(d, u) PROVE Name(d, u, i) \in Askers(E) \cup R
  <2>1. i \in Busy(c, u) /\ Name(d, u, i) = Name(c, u, i)
    BY <1>1, <1>2 DEF Name
  <2> QED BY <2>1 DEF AtWorkIs
<1> QED BY <1>3, <1>7, <1>8, <1>9, <1>10 DEF AtWorkIs

OfOthers(R, t) == {x \in R : x.task # t}

(* A run ends: its commands with it, while what else is at work for it goes *)
(* on unheard (terminate).                                                  *)
LEMMA RunIsOver ==
    ASSUME NEW c, NEW d, NEW E, NEW R, TurnsAre(c), AtWorkIs(c, E, R), NEW t \in Workers,
           d.run = c.run, d.live = c.live \ {t}, d.asked = c.asked, d.turn = [c.turn EXCEPT ![t] = <<>>],
           d.overrun = IF c.turn[t] = <<>> THEN c.overrun ELSE c.overrun \cup {t}
    PROVE  TurnsAre(d) /\ AtWorkIs(d, E, OfOthers(R, t))
<1> DEFINE R1 == {x \in R : x.task # t}
<1>1. d.turn[t] = <<>> /\ DOMAIN d.turn = Workers /\ \A u \in Workers : u # t => d.turn[u] = c.turn[u]
  BY DEF TurnsAre
<1>2. Busy(d, t) = {} /\ (c.turn[t] = <<>> => Busy(c, t) = {}) /\ \A u \in Workers : u # t => Busy(d, u) = Busy(c, u)
  BY <1>1 DEF Busy, ToolWork!Unfinished
<1>3. c.overrun \subseteq d.overrun /\ d.overrun \in SUBSET Workers /\ (t \notin d.overrun => c.turn[t] = <<>>)
  BY DEF TurnsAre
<1>4. TurnsAre(d)
  <2>1. \A u \in Workers : d.turn[u] \in Seq(Items(u))
    BY <1>1 DEF TurnsAre
  <2>2. \A u \in Workers : \A i \in DOMAIN d.turn[u] : d.turn[u][i].finished => d.turn[u][i].started
    BY <1>1 DEF TurnsAre
  <2>3. \A u \in Workers : u \notin d.live => d.turn[u] = <<>>
    BY <1>1 DEF TurnsAre
  <2>4. \A u \in Workers : \A i, j \in Busy(d, u) :
           i # j => ~ToolWork!Conflict(Reach(u, d.turn[u][i].call), Reach(u, d.turn[u][j].call))
    BY <1>1, <1>2 DEF TurnsAre
  <2> QED BY <1>1, <1>3, <2>1, <2>2, <2>3, <2>4 DEF TurnsAre
<1>5. \A x \in Whos : (Waits(d, x) <=> Waits(c, x) /\ x.task # t)
  BY <1>1, <1>2 DEF Waits, Whos
<1>6. \A x \in Whos : Begins(c, x) => Begins(d, x)
  <2> SUFFICES ASSUME NEW x \in Whos, Begins(c, x) PROVE Begins(d, x)
    OBVIOUS
  <2>1. CASE x.task = t
    BY <1>1, <2>1 DEF Begins
  <2>2. CASE x.task # t
    BY <1>1, <2>2 DEF Begins, Whos
  <2> QED BY <2>1, <2>2
<1>7. Askers(E) \cup R \subseteq Whos
  BY DEF AtWorkIs, Askers
<1>8. ASSUME NEW x \in Askers(E) \cup R1 PROVE Begins(d, x) /\ (x.task \notin d.overrun => Waits(d, x))
  <2>1. x \in Whos /\ Begins(c, x) /\ (x.task \notin c.overrun => Waits(c, x))
    BY <1>7 DEF AtWorkIs
  <2>2. ASSUME x.task \notin d.overrun PROVE Waits(d, x)
    <3>1. Waits(c, x)
      BY <1>3, <2>1, <2>2
    <3>2. CASE x.task = t
      BY <1>2, <1>3, <2>2, <3>1, <3>2 DEF Waits
    <3>3. CASE x.task # t
      BY <1>5, <2>1, <3>1, <3>3
    <3> QED BY <3>2, <3>3
  <2> QED BY <1>6, <2>1, <2>2
<1>9. ASSUME NEW e \in E, Waits(d, e.who) PROVE d.turn[e.who.task][e.who.index].call = e.call
  <2>1. e.who \in Whos /\ e.who.task \in Workers
    BY DEF AtWorkIs, Whos
  <2>2. Waits(c, e.who) /\ e.who.task # t
    BY <1>5, <1>9, <2>1
  <2> QED BY <1>1, <2>1, <2>2 DEF AtWorkIs
<1>10. ASSUME NEW x \in R1 PROVE Waits(d, x) /\ d.turn[x.task][x.index].call.tool = "run_command"
  <2>1. x \in Whos /\ x.task \in Workers /\ Waits(c, x) /\ c.turn[x.task][x.index].call.tool = "run_command" /\ x.task # t
    BY DEF AtWorkIs, Whos
  <2> QED BY <1>1, <1>5, <2>1
<1>11. ASSUME NEW u \in Workers, NEW i \in Busy(d, u) PROVE Name(d, u, i) \in Askers(E) \cup R1
  <2>1. i \in Busy(c, u) /\ Name(d, u, i) = Name(c, u, i) /\ u # t
    BY <1>2 DEF Name
  <2>2. Name(d, u, i) \in Askers(E) \cup R /\ Name(d, u, i).task = u
    BY <2>1 DEF AtWorkIs, Name
  <2> QED BY <2>1, <2>2
<1>12. R1 \subseteq Whos
  BY <1>7
<1> QED BY <1>4, <1>8, <1>9, <1>10, <1>11, <1>12 DEF AtWorkIs, OfOthers

LEMMA ConflictBothWays == \A a, b : ToolWork!Conflict(a, b) => ToolWork!Conflict(b, a)
<1> SUFFICES ASSUME NEW a, NEW b, ToolWork!Conflict(a, b) PROVE ToolWork!Conflict(b, a)
  OBVIOUS
<1>1. {a.kind, b.kind} = {b.kind, a.kind}
  OBVIOUS
<1>2. \A p, q : ToolWork!Overlap(p, q) => ToolWork!Overlap(q, p)
  BY DEF ToolWork!Overlap
<1> QED BY <1>1, <1>2 DEF ToolWork!Conflict

(* The calls that begin: none of them is at work yet, and they disturb       *)
(* neither each other nor what is.                                         *)
NoneInTheWay(c, t, starts) ==
    /\ starts \subseteq ToolWork!Waiting(c.turn[t])
    /\ \A k \in starts : \A j \in Busy(c, t) \cup {i \in starts : i < k} :
        ~ToolWork!Conflict(Reach(t, c.turn[t][j].call), Reach(t, c.turn[t][k].call))
Began(c, d, t, starts) ==
    /\ d.run = c.run /\ d.live = c.live /\ d.asked = c.asked /\ d.overrun = c.overrun
    /\ d.turn = [c.turn EXCEPT ![t] = [i \in DOMAIN c.turn[t] |-> [c.turn[t][i] EXCEPT !.started = @ \/ i \in starts]]]

(* Those that begin, of them the commands (shells) and the others.          *)
Names(c, t, S) == {Name(c, t, i) : i \in S}
Newly(c, t, S) == {[who |-> Name(c, t, i), call |-> c.turn[t][i].call] : i \in S}
AskedToo(E, c, t, starts, shells) == E \cup Newly(c, t, starts \ shells)
RunsToo(R, c, t, shells) == R \cup Names(c, t, shells)
Shells(c, t, starts, shells) == shells \subseteq starts /\ \A i \in starts : i \in shells <=> c.turn[t][i].call.tool = "run_command"
NamesAreNew(c, t, starts, E, R) == \A i \in starts : Name(c, t, i) \in Whos /\ Name(c, t, i) \notin Askers(E) \cup R

LEMMA CallsBegin ==
    ASSUME NEW c, NEW d, NEW E, NEW R, TurnsAre(c), AtWorkIs(c, E, R), NEW t \in Workers, t \in c.live,
           NEW starts, NoneInTheWay(c, t, starts), Began(c, d, t, starts),
           NEW shells, Shells(c, t, starts, shells),
           NEW E1, NEW R1, E1 = AskedToo(E, c, t, starts, shells), R1 = RunsToo(R, c, t, shells)
    PROVE  TurnsAre(d) /\ AtWorkIs(d, E1, R1) /\ NamesAreNew(c, t, starts, E, R)
<1>22. d.run = c.run /\ d.live = c.live /\ d.asked = c.asked /\ d.overrun = c.overrun
  BY DEF Began
<1>26. starts \in SUBSET ToolWork!Waiting(c.turn[t])
  BY DEF NoneInTheWay
<1>23. \A k \in starts : \A j \in Busy(c, t) \cup {i \in starts : i < k} :
           ~ToolWork!Conflict(Reach(t, c.turn[t][j].call), Reach(t, c.turn[t][k].call))
  BY DEF NoneInTheWay
<1>24. /\ E1 = E \cup {[who |-> Name(c, t, i), call |-> c.turn[t][i].call] : i \in starts \ shells}
       /\ R1 = R \cup {Name(c, t, i) : i \in shells}
  BY DEF AskedToo, RunsToo, Newly, Names
<1>25. shells \in SUBSET starts /\ \A i \in starts : i \in shells <=> c.turn[t][i].call.tool = "run_command"
  BY DEF Shells
<1> USE <1>22, <1>25, <1>26
<1> DEFINE old == c.turn[t]
           new == [i \in DOMAIN old |-> [old[i] EXCEPT !.started = @ \/ i \in starts]]
<1>1. d.turn[t] = new /\ DOMAIN d.turn = Workers /\ \A u \in Workers : u # t => d.turn[u] = c.turn[u]
  BY DEF TurnsAre, Began
<1>2. /\ old \in Seq(Items(t)) /\ Len(old) \in Nat /\ DOMAIN old = 1..Len(old) /\ \A i \in DOMAIN old : old[i] \in Items(t)
      /\ \A i \in DOMAIN old : old[i].finished => old[i].started
  <2>1. old \in Seq(Items(t))
    BY DEF TurnsAre
  <2> QED BY <2>1 DEF TurnsAre
<1>3. \A i \in starts : i \in DOMAIN old /\ i \in Nat /\ old[i].started = FALSE /\ old[i].finished = FALSE
  <2> SUFFICES ASSUME NEW i \in starts PROVE i \in DOMAIN old /\ i \in Nat /\ old[i].started = FALSE /\ old[i].finished = FALSE
    OBVIOUS
  <2>1. i \in DOMAIN old /\ ~old[i].started
    BY DEF ToolWork!Waiting
  <2>2. old[i].started \in BOOLEAN /\ old[i].finished \in BOOLEAN /\ ~old[i].finished
    BY <1>2, <2>1 DEF Items
  <2> QED BY <1>2, <2>1, <2>2
<1>4. /\ DOMAIN new = DOMAIN old
      /\ \A i \in DOMAIN old : /\ new[i] \in Items(t) /\ new[i].call = old[i].call /\ new[i].finished = old[i].finished
                               /\ (i \in starts => new[i].started = TRUE)
                               /\ (i \notin starts => new[i].started = old[i].started)
  <2>1. DOMAIN new = DOMAIN old
    OBVIOUS
  <2>2. ASSUME NEW i \in DOMAIN old
        PROVE  /\ new[i] \in Items(t) /\ new[i].call = old[i].call /\ new[i].finished = old[i].finished
               /\ (i \in starts => new[i].started = TRUE) /\ (i \notin starts => new[i].started = old[i].started)
    <3>1. new[i] = [old[i] EXCEPT !.started = @ \/ i \in starts]
      OBVIOUS
    <3>2. old[i] \in Items(t)
      BY <1>2
    <3> HIDE DEF new, old
    <3>3. PICK it : it = old[i]
      OBVIOUS
    <3>4. it \in [call : CallsFor(t), started : BOOLEAN, finished : BOOLEAN]
      BY <3>2, <3>3 DEF Items
    <3>5. CASE i \in starts
      <4>1. new[i] = [it EXCEPT !.started = TRUE]
        BY <3>1, <3>3, <3>4, <3>5
      <4> QED BY <3>3, <3>4, <3>5, <4>1 DEF Items
    <3>6. CASE i \notin starts
      <4>1. new[i] = [it EXCEPT !.started = it.started]
        BY <3>1, <3>3, <3>4, <3>6
      <4> QED BY <3>3, <3>4, <3>6, <4>1 DEF Items
    <3> QED BY <3>5, <3>6
  <2> QED BY <2>1, <2>2
<1> HIDE DEF new
<1>5. new \in Seq(Items(t))
  <2>1. new \in [1..Len(old) -> Items(t)]
    <3>1. new = [i \in 1..Len(old) |-> new[i]]
      BY <1>2 DEF new
    <3> QED BY <1>2, <1>4, <3>1
  <2> QED BY <1>2, <2>1, SeqDef
<1>6. Busy(d, t) = Busy(c, t) \cup starts /\ \A u \in Workers : u # t => Busy(d, u) = Busy(c, u)
  <2>1. \A i : i \in Busy(d, t) <=> i \in Busy(c, t) \/ i \in starts
    <3> SUFFICES ASSUME NEW i PROVE i \in Busy(d, t) <=> i \in Busy(c, t) \/ i \in starts
      OBVIOUS
    <3>1. CASE i \notin DOMAIN old
      BY <1>1, <1>3, <1>4, <3>1 DEF Busy, ToolWork!Unfinished
    <3>2. CASE i \in DOMAIN old /\ i \in starts
      BY <1>1, <1>3, <1>4, <3>2 DEF Busy, ToolWork!Unfinished
    <3>3. CASE i \in DOMAIN old /\ i \notin starts
      BY <1>1, <1>4, <3>3 DEF Busy, ToolWork!Unfinished
    <3> QED BY <3>1, <3>2, <3>3
  <2> QED BY <1>1, <2>1 DEF Busy
<1>7. \A i \in Busy(c, t) : i \in DOMAIN old /\ i \notin starts
  BY <1>3 DEF Busy, ToolWork!Unfinished
<1>8. \A u \in Workers : \A i \in DOMAIN d.turn[u] : i \in DOMAIN c.turn[u] /\ d.turn[u][i].call = c.turn[u][i].call
  BY <1>1, <1>4
<1>9. TurnsAre(d)
  <2>1. \A u \in Workers : d.turn[u] \in Seq(Items(u))
    BY <1>1, <1>5 DEF TurnsAre
  <2>2. ASSUME NEW u \in Workers, NEW i \in DOMAIN d.turn[u], d.turn[u][i].finished PROVE d.turn[u][i].started
    <3>1. CASE u = t
      BY <1>1, <1>2, <1>4, <2>2, <3>1
    <3>2. CASE u # t
      BY <1>1, <2>2, <3>2 DEF TurnsAre
    <3> QED BY <3>1, <3>2
  <2>3. \A u \in Workers : u \notin d.live => d.turn[u] = <<>>
    BY <1>1 DEF TurnsAre
  <2>4. ASSUME NEW u \in Workers, NEW i \in Busy(d, u), NEW j \in Busy(d, u), i # j
        PROVE  ~ToolWork!Conflict(Reach(u, d.turn[u][i].call), Reach(u, d.turn[u][j].call))
    <3>1. d.turn[u][i].call = c.turn[u][i].call /\ d.turn[u][j].call = c.turn[u][j].call
      <4>1. i \in DOMAIN d.turn[u] /\ j \in DOMAIN d.turn[u]
        BY DEF Busy, ToolWork!Unfinished
      <4> QED BY <1>8, <4>1
    <3>2. CASE u # t
      BY <1>6, <2>4, <3>1, <3>2 DEF TurnsAre
    <3>3. CASE u = t /\ i \in Busy(c, t) /\ j \in Busy(c, t)
      BY <2>4, <3>1, <3>3 DEF TurnsAre
    <3>4. CASE u = t /\ i \in Busy(c, t) /\ j \in starts
      BY <1>23, <3>1, <3>4
    <3>5. CASE u = t /\ i \in starts /\ j \in Busy(c, t)
      BY <1>23, <3>1, <3>5, ConflictBothWays
    <3>6. CASE u = t /\ i \in starts /\ j \in starts
      <4>1. i < j \/ j < i
        BY <1>3, <2>4, <3>6
      <4>2. CASE i < j
        BY <1>23, <3>1, <3>6, <4>2
      <4>3. CASE j < i
        BY <1>23, <3>1, <3>6, <4>3, ConflictBothWays
      <4> QED BY <4>1, <4>2, <4>3
    <3> QED BY <1>6, <3>2, <3>3, <3>4, <3>5, <3>6
  <2> QED BY <1>1, <2>1, <2>2, <2>3, <2>4 DEF TurnsAre
<1>10. \A x \in Whos : Waits(c, x) => Waits(d, x)
  BY <1>6 DEF Waits, Whos
<1>11. \A x \in Whos : Begins(c, x) => Begins(d, x)
  <2> SUFFICES ASSUME NEW x \in Whos, Begins(c, x) PROVE Begins(d, x)
    OBVIOUS
  <2>1. ASSUME x.turn = d.asked[x.task], x.index \in DOMAIN d.turn[x.task] PROVE d.turn[x.task][x.index].started
    <3>1. CASE x.task = t
      BY <1>1, <1>4, <2>1, <3>1 DEF Begins
    <3>2. CASE x.task # t
      BY <1>1, <2>1, <3>2 DEF Begins, Whos
    <3> QED BY <3>1, <3>2
  <2> QED BY <2>1 DEF Begins
<1>12. Askers(E) \cup R \subseteq Whos
  BY DEF AtWorkIs, Askers
<1>13. ASSUME NEW i \in starts
       PROVE  /\ Name(c, t, i) \in Whos /\ Name(c, t, i) \notin Askers(E) \cup R
              /\ Begins(d, Name(c, t, i)) /\ Waits(d, Name(c, t, i))
              /\ d.turn[Name(c, t, i).task][Name(c, t, i).index].call = old[i].call
              /\ Name(c, t, i).task = t
  <2>1. /\ Name(c, t, i).task = t /\ Name(c, t, i).run = c.run[t] /\ Name(c, t, i).turn = c.asked[t]
        /\ Name(c, t, i).index = i
    BY DEF Name
  <2>2. Name(c, t, i) \in Whos
    BY <1>3 DEF Name, Whos, TurnsAre
  <2>3. ~Begins(c, Name(c, t, i))
    BY <1>3, <2>1 DEF Begins
  <2>4. Name(c, t, i) \notin Askers(E) \cup R
    BY <2>3 DEF AtWorkIs
  <2>5. i \in DOMAIN new /\ new[i].started = TRUE /\ new[i].call = old[i].call
    BY <1>3, <1>4
  <2>6. Begins(d, Name(c, t, i))
    <3>1. c.asked[t] \in Nat /\ c.asked[t] <= c.asked[t]
      BY DEF TurnsAre
    <3> QED BY <1>1, <2>1, <2>5, <3>1 DEF Begins
  <2>7. Waits(d, Name(c, t, i))
    BY <1>6, <2>1 DEF Waits
  <2> QED BY <1>1, <2>1, <2>2, <2>4, <2>5, <2>6, <2>7
<1> USE <1>24
<1>14. ASSUME NEW e \in E1
       PROVE  \/ e \in E
              \/ \E i \in starts \ shells : e.who = Name(c, t, i) /\ e.call = old[i].call
  BY DEF old
<1>15. \A i \in starts : old[i].call \in CallsFor(t)
  BY <1>2, <1>3 DEF Items
<1>16. \A e \in E1 : e.who \in Whos /\ e.call \in CallsFor(e.who.task) /\ e.call.tool # "run_command"
  <2> SUFFICES ASSUME NEW e \in E1 PROVE e.who \in Whos /\ e.call \in CallsFor(e.who.task) /\ e.call.tool # "run_command"
    OBVIOUS
  <2>1. CASE e \in E
    BY <2>1 DEF AtWorkIs
  <2>2. CASE \E i \in starts \ shells : e.who = Name(c, t, i) /\ e.call = old[i].call
    <3>1. PICK i \in starts \ shells : e.who = Name(c, t, i) /\ e.call = old[i].call
      BY <2>2
    <3> QED BY <1>13, <1>15, <3>1 DEF old
  <2> QED BY <1>14, <2>1, <2>2
<1>17. ASSUME NEW x \in Askers(E1) \cup R1 PROVE Begins(d, x) /\ (x.task \notin d.overrun => Waits(d, x))
  <2>1. x \in Askers(E) \cup R \/ \E i \in starts : x = Name(c, t, i)
    <3>1. CASE x \in R1
      BY <3>1
    <3>2. CASE x \in Askers(E1)
      <4>1. PICK e \in E1 : x = e.who
        BY <3>2 DEF Askers
      <4> QED BY <1>14, <4>1 DEF Askers
    <3> QED BY <3>1, <3>2
  <2>2. CASE x \in Askers(E) \cup R
    <3>1. x \in Whos /\ Begins(c, x) /\ (x.task \notin c.overrun => Waits(c, x))
      BY <1>12, <2>2 DEF AtWorkIs
    <3> QED BY <1>10, <1>11, <3>1
  <2>3. CASE \E i \in starts : x = Name(c, t, i)
    BY <1>13, <2>3
  <2> QED BY <2>1, <2>2, <2>3
<1>18. ASSUME NEW e \in E1, Waits(d, e.who) PROVE d.turn[e.who.task][e.who.index].call = e.call
  <2>1. CASE e \in E
    <3>1. e.who \in Whos /\ e.who.task \in Workers /\ Begins(c, e.who)
      BY <2>1 DEF AtWorkIs, Whos, Askers
    <3>2. Waits(c, e.who)
      <4>1. e.who.index \in Busy(d, e.who.task)
        BY <1>18 DEF Waits
      <4>2. CASE e.who.task = t /\ e.who.index \in starts
        <5>1. e.who.turn = c.asked[t] /\ e.who.index \in DOMAIN old /\ ~old[e.who.index].started
          BY <1>3, <1>18, <4>2 DEF Waits
        <5> QED BY <3>1, <4>2, <5>1 DEF Begins
      <4>3. CASE ~(e.who.task = t /\ e.who.index \in starts)
        <5>1. e.who.index \in Busy(c, e.who.task)
          BY <1>6, <3>1, <4>1, <4>3
        <5> QED BY <1>18, <5>1 DEF Waits
      <4> QED BY <4>2, <4>3
    <3>3. c.turn[e.who.task][e.who.index].call = e.call
      BY <2>1, <3>2 DEF AtWorkIs
    <3>4. e.who.index \in DOMAIN d.turn[e.who.task]
      BY <1>18 DEF Waits, Busy, ToolWork!Unfinished
    <3> QED BY <1>8, <3>1, <3>3, <3>4
  <2>2. CASE \E i \in starts \ shells : e.who = Name(c, t, i) /\ e.call = old[i].call
    BY <1>13, <2>2
  <2> QED BY <1>14, <2>1, <2>2
<1>19. ASSUME NEW x \in R1 PROVE x \in Whos /\ Waits(d, x) /\ d.turn[x.task][x.index].call.tool = "run_command"
  <2>1. CASE x \in R
    <3>1. x \in Whos /\ x.task \in Workers /\ Waits(c, x) /\ c.turn[x.task][x.index].call.tool = "run_command"
      BY <2>1 DEF AtWorkIs, Whos
    <3>2. Waits(d, x)
      BY <1>10, <3>1
    <3>3. x.index \in DOMAIN d.turn[x.task]
      BY <3>2 DEF Waits, Busy, ToolWork!Unfinished
    <3> QED BY <1>8, <3>1, <3>2, <3>3
  <2>2. CASE \E i \in shells : x = Name(c, t, i)
    <3>1. PICK i \in shells : x = Name(c, t, i)
      BY <2>2
    <3> QED BY <1>13, <3>1 DEF old
  <2> QED BY <2>1, <2>2
<1>20. ASSUME NEW u \in Workers, NEW i \in Busy(d, u) PROVE Name(d, u, i) \in Askers(E1) \cup R1
  <2>1. Name(d, u, i) = Name(c, u, i) /\ Askers(E) \subseteq Askers(E1) /\ R \subseteq R1
    BY DEF Name, Askers
  <2>2. CASE i \in Busy(c, u)
    BY <2>1, <2>2 DEF AtWorkIs
  <2>3. CASE u = t /\ i \in shells
    BY <2>1, <2>3
  <2>4. CASE u = t /\ i \in starts \ shells
    <3>1. PICK e : e = [who |-> Name(c, t, i), call |-> c.turn[t][i].call]
      OBVIOUS
    <3>2. e \in E1 /\ e.who = Name(c, t, i)
      BY <2>4, <3>1
    <3> QED BY <2>1, <2>4, <3>2 DEF Askers
  <2> QED BY <1>6, <2>2, <2>3, <2>4
<1>21. R1 \subseteq Whos
  BY <1>19
<1>27. NamesAreNew(c, t, starts, E, R)
  BY <1>13 DEF NamesAreNew
<1> QED BY <1>9, <1>16, <1>17, <1>18, <1>19, <1>20, <1>21, <1>27 DEF AtWorkIs

-----------------------------------------------------------------------------
(* The files: what a call of one task does at its places leaves the rooms   *)
(* standing and what the others hold true.                                  *)

(* The call that a job is for, without what it was shown meanwhile.         *)
LEMMA CallOfIs ==
    ASSUME NEW c \in CallSet
    PROVE  /\ CallOf(c) \in CallSet /\ CallOf(c).tool = c.tool /\ CallOf(c).path = c.path /\ CallOf(c).to = c.to
           /\ (c.seen = {} => CallOf(c) = c)
BY DEF CallOf, CallSet

(* Where a step works, and what lies elsewhere.                             *)
LEMMA Undisturbed ==
    ASSUME NEW t, NEW new, NEW places \in SUBSET Paths, Disturbs(t, new, places), NEW p \in Paths,
           \A s \in places : ~ToolWork!Overlap(s, p), NEW q \in Paths, IsPrefix(p, q)
    PROVE  new[q] = t[q]
<1> SUFFICES ASSUME new[q] # t[q] PROVE FALSE
  OBVIOUS
<1>1. PICK s \in places : IsPrefix(s, q) \/ IsPrefix(q, s)
  BY DEF Disturbs, IsStrictPrefix
<1>2. s \in Seq(STRING) /\ p \in Seq(STRING) /\ q \in Seq(STRING)
  BY PathIs
<1>3. IsPrefix(s, p) \/ IsPrefix(p, s)
  BY <1>1, <1>2, PrefixesOfOne, PrefixOfPrefix
<1> QED BY <1>3, SameFiles DEF ToolWork!Overlap

(* The rooms stay whoever works.                                            *)
LEMMA RoomsStay ==
    ASSUME NEW now \in Trees, NEW new \in Trees, NEW places \in SUBSET Paths, Disturbs(now, new, places), RoomsThere(now),
           NEW u \in Workers, \A s \in places : InRoom(u, s) /\ s # Rooms[u]
    PROVE  RoomsThere(new)
<1> SUFFICES ASSUME NEW t \in Workers, new[Rooms[t]] # now[Rooms[t]] PROVE FALSE
  BY DEF RoomsThere
<1>1. now[Rooms[t]] = Directory /\ now[Rooms[t]] # Absent
  BY EntryIs DEF RoomsThere
<1>2. PICK s \in places : IsPrefix(s, Rooms[t])
  BY <1>1, RoomIs DEF Disturbs
<1>3. IsPrefix(Rooms[u], s) /\ s # Rooms[u]
  BY DEF InRoom
<1>4. s \in Seq(STRING) /\ Rooms[u] \in Seq(STRING) /\ Rooms[t] \in Seq(STRING)
  BY PathIs, RoomIs
<1>5. IsPrefix(Rooms[u], Rooms[t])
  BY <1>2, <1>3, <1>4, PrefixOfPrefix
<1>6. u = t
  BY <1>5, RoomIs
<1> QED BY <1>2, <1>3, <1>4, <1>6, PrefixBothWays

(* A call that writes touches the places it writes at.                      *)
LEMMA TouchesPlace ==
    ASSUME NEW t \in Workers, NEW c \in CallSet, c.tool \in ToolWork!Writing \cup ToolWork!Pairs, NEW p \in {c.path, c.to},
           InRoom(t, p)
    PROVE  Reach(t, c).kind = "write" /\ p \in Reach(t, c).paths
<1>1. Bare[Rooms[t]].kind = "directory"
  BY RoomIs, EntryIs DEF Bare
<1>2. ToolWork!Resolves(Bare, t, p)
  BY <1>1, SameFiles DEF ToolWork!Resolves, InRoom
<1>3. PICK paths : paths = {q \in {c.path, c.to} : ToolWork!Resolves(Bare, t, q)}
  OBVIOUS
<1>4. p \in paths /\ paths # {}
  BY <1>2, <1>3
<1>5. c.tool \notin ToolWork!Detached /\ c.tool \notin ToolWork!Reading
  BY DEF ToolWork!Writing, ToolWork!Pairs, ToolWork!Detached, ToolWork!Reading
<1>6. Reach(t, c).paths = paths
  BY <1>3 DEF Reach, ToolWork!Touches
<1>7. Reach(t, c).kind = "write"
  <2>1. Reach(t, c).kind = CASE c.tool \in ToolWork!Detached -> "none"
                 [] c.tool \in ToolWork!Reading \cup ToolWork!Writing \cup ToolWork!Pairs /\ paths = {} -> "none"
                 [] c.tool \in ToolWork!Reading -> "read"
                 [] c.tool \in ToolWork!Writing \cup ToolWork!Pairs -> "write"
                 [] OTHER -> "everything"
    BY <1>3 DEF Reach, ToolWork!Touches
  <2> QED BY <1>4, <1>5, <2>1
<1> QED BY <1>4, <1>6, <1>7

LEMMA RoomsApart ==
    ASSUME NEW t \in Workers, NEW u \in Workers, t # u, NEW p \in Paths, InRoom(t, p), NEW q \in Paths, InRoom(u, q)
    PROVE  ~ToolWork!Overlap(p, q)
<1>1. p \in Seq(STRING) /\ q \in Seq(STRING) /\ Rooms[t] \in Seq(STRING) /\ Rooms[u] \in Seq(STRING)
  BY PathIs, RoomIs
<1>2. ~IsPrefix(Rooms[t], Rooms[u]) /\ ~IsPrefix(Rooms[u], Rooms[t])
  BY RoomIs
<1>3. ~IsPrefix(p, q)
  <2> SUFFICES ASSUME IsPrefix(p, q) PROVE FALSE
    OBVIOUS
  <2>1. IsPrefix(Rooms[t], q) /\ IsPrefix(Rooms[u], q)
    BY <1>1, PrefixOfPrefix DEF InRoom
  <2> QED BY <1>1, <1>2, <2>1, PrefixesOfOne
<1>4. ~IsPrefix(q, p)
  <2> SUFFICES ASSUME IsPrefix(q, p) PROVE FALSE
    OBVIOUS
  <2>1. IsPrefix(Rooms[t], p) /\ IsPrefix(Rooms[u], p)
    BY <1>1, PrefixOfPrefix DEF InRoom
  <2> QED BY <1>1, <1>2, <2>1, PrefixesOfOne
<1> QED BY <1>3, <1>4, SameFiles DEF ToolWork!Overlap

(* Two of one task that nobody gave up do not conflict.                     *)
LEMMA ErrandsApart ==
    ASSUME NEW c, NEW E, NEW R, TurnsAre(c), AtWorkIs(c, E, R), NEW e \in E, NEW f \in E, e.who # f.who,
           e.who.task = f.who.task, f.who.task \notin c.overrun
    PROVE  ~ToolWork!Conflict(Reach(e.who.task, e.call), Reach(e.who.task, f.call))
<1>1. PICK t \in Workers : t = e.who.task
  BY DEF AtWorkIs, Whos
<1>2. e.who \in Whos /\ f.who \in Whos /\ Waits(c, e.who) /\ Waits(c, f.who)
  BY DEF AtWorkIs, Askers
<1>3. e.who.index # f.who.index /\ e.who.index \in Busy(c, t) /\ f.who.index \in Busy(c, t)
  BY <1>1, <1>2 DEF Waits, Whos
<1>4. c.turn[t][e.who.index].call = e.call /\ c.turn[t][f.who.index].call = f.call
  BY <1>1, <1>2 DEF AtWorkIs
<1> QED BY <1>1, <1>3, <1>4 DEF TurnsAre

(* What a writer changes is nobody else's.                                  *)
LEMMA OthersHold ==
    ASSUME NEW c, NEW E, NEW R, TurnsAre(c), AtWorkIs(c, E, R), NEW e \in E, e.call.tool \in ToolWork!Writing \cup ToolWork!Pairs,
           NEW places \in SUBSET {e.call.path, e.call.to}, \A s \in places : InRoom(e.who.task, s),
           NEW now \in Trees, NEW new \in Trees, RoomsThere(now), Disturbs(now, new, places)
    PROVE  /\ RoomsThere(new)
           /\ \A f \in E : f.who # e.who /\ f.who.task \notin c.overrun /\ f.call.tool \in {"edit_file", "remove_path"}
                              /\ InRoom(f.who.task, f.call.path) =>
                  \A q \in Paths : IsPrefix(f.call.path, q) => new[q] = now[q]
<1>1. PICK t \in Workers : t = e.who.task
  BY DEF AtWorkIs, Whos
<1>2. e.call \in CallsFor(t) /\ e.call \in CallSet /\ e.call.path \in Paths /\ e.call.to \in Paths
  BY <1>1 DEF AtWorkIs, CallsFor, CallSet
<1>3. places \in SUBSET Paths /\ \A s \in places : InRoom(t, s) /\ s # Rooms[t]
  BY <1>1, <1>2 DEF CallsFor
<1>4. RoomsThere(new)
  BY <1>3, RoomsStay
<1>5. ASSUME NEW f \in E, f.who # e.who, f.who.task \notin c.overrun, f.call.tool \in {"edit_file", "remove_path"},
             InRoom(f.who.task, f.call.path), NEW q \in Paths, IsPrefix(f.call.path, q)
      PROVE  new[q] = now[q]
  <2>1. PICK u \in Workers : u = f.who.task
    BY DEF AtWorkIs, Whos
  <2>2. f.call \in CallSet /\ f.call.path \in Paths /\ f.call.tool \in ToolWork!Writing
    BY <1>5 DEF AtWorkIs, CallsFor, CallSet, ToolWork!Writing
  <2>3. ASSUME NEW s \in places PROVE ~ToolWork!Overlap(s, f.call.path)
    <3>1. CASE u # t
      BY <1>3, <1>5, <2>1, <2>2, <3>1, RoomsApart
    <3>2. CASE u = t
      <4>1. Reach(t, e.call).kind = "write" /\ s \in Reach(t, e.call).paths
        BY <1>2, <1>3, TouchesPlace
      <4>2. Reach(t, f.call).kind = "write" /\ f.call.path \in Reach(t, f.call).paths
        BY <1>5, <2>1, <2>2, <3>2, TouchesPlace
      <4>3. ~ToolWork!Conflict(Reach(t, e.call), Reach(t, f.call))
        BY <1>1, <1>5, <2>1, <3>2, ErrandsApart
      <4> QED BY <4>1, <4>2, <4>3 DEF ToolWork!Conflict
    <3> QED BY <3>1, <3>2
  <2> QED BY <1>3, <1>5, <2>2, <2>3, Undisturbed
<1> QED BY <1>4, <1>5

(* How a call begins: a job of its own that holds, or something else to wait  *)
(* for.                                                                    *)
Starting(now, x, c, b) ==
    \/ b.stage = "files" /\ b.job \in Jobs /\ b.job.who = x /\ b.job.why = c /\ JobHolds(now, b.job) /\ c.tool # "run_command"
    \/ b.stage \in WorkStages /\ [who |-> x, stage |-> b.stage, call |-> c] \in Works /\ c.tool # "run_command"
    \/ b.stage = "command" /\ c.tool = "run_command"

(* What a call begins with, by what it is.                                  *)
LEMMA AwaitsIs ==
    ASSUME NEW now, NEW x \in Whos, NEW c \in CallsFor(x.task), c.tool # "run_command", NEW how \in WorkStages,
           c.tool \in {"generate_image", "generate_speech"} /\ how \in {"network", "decoding"} => InRoom(x.task, c.path)
    PROVE  Starting(now, x, c, ToolWork!Awaits(how))
<1>1. PICK b : b = ToolWork!Awaits(how)
  OBVIOUS
<1>2. b.stage = how /\ c \in CallSet
  BY <1>1 DEF ToolWork!Awaits, CallsFor
<1>3. PICK e : e = [who |-> x, stage |-> how, call |-> c]
  OBVIOUS
<1>4. e \in [who : Whos, stage : WorkStages, call : CallSet] /\ e.who = x /\ e.call = c /\ e.stage = how
  BY <1>2, <1>3
<1>5. e \in Works
  BY <1>4 DEF Works
<1> QED BY <1>1, <1>2, <1>3, <1>5 DEF Starting

LEMMA AsksIs ==
    ASSUME NEW now, NEW x \in Whos, NEW c \in CallsFor(x.task), c.tool # "run_command", NEW op \in Ops, NEW to \in {c.path, c.to},
           NEW text \in SUBSET STRING, InRoom(x.task, c.path), InRoom(x.task, to),
           op \notin {"read", "list"} => c.tool \in (ToolWork!Writing \cup ToolWork!Pairs) \ {"edit_file"},
           op = "empty" => c.tool = "remove_path" /\ (c.all \/ \A q \in Below(c.path) : ~Exists(now, q))
    PROVE  Starting(now, x, c, ToolWork!Asks(ToolWork!Job(x, c, op, c.path, to, text)))
<1>1. PICK j : j = ToolWork!Job(x, c, op, c.path, to, text)
  OBVIOUS
<1>2. c \in CallSet /\ CallOf(c) = c /\ c.path \in Paths /\ to \in Paths
  BY CallOfIs DEF CallsFor, CallSet
<1>3. /\ j \in [who : Whos, why : CallSet, op : Ops, path : Paths, to : Paths, text : SUBSET STRING]
      /\ j.who = x /\ j.why = c /\ j.op = op /\ j.path = c.path /\ j.to = to
  BY <1>1, <1>2 DEF ToolWork!Job
<1>4. j \in Jobs
  BY <1>2, <1>3 DEF Jobs
<1>5. JobHolds(now, j)
  BY <1>3 DEF JobHolds
<1>6. ToolWork!Asks(j).stage = "files" /\ ToolWork!Asks(j).job = j
  BY DEF ToolWork!Asks
<1> QED BY <1>1, <1>3, <1>4, <1>5, <1>6 DEF Starting

LEMMA WithinIs ==
    ASSUME NEW now \in Trees, RoomsThere(now), NEW x \in Whos, NEW c \in CallsFor(x.task), c.tool # "run_command", NEW begun,
           InRoom(x.task, c.path) => Starting(now, x, c, begun)
    PROVE  Starting(now, x, c, ToolWork!Within(now, x, c, begun))
<1>1. x.task \in Workers
  BY DEF Whos
<1>2. ToolWork!Resolves(now, x.task, c.path) <=> InRoom(x.task, c.path)
  BY <1>1, ReachIs
<1>3. Starting(now, x, c, ToolWork!Answered)
  BY AwaitsIs DEF ToolWork!Answered, WorkStages
<1> QED BY <1>2, <1>3 DEF ToolWork!Within

LEMMA WithinBothIs ==
    ASSUME NEW now \in Trees, RoomsThere(now), NEW x \in Whos, NEW c \in CallsFor(x.task), c.tool # "run_command", NEW begun,
           InRoom(x.task, c.path) /\ InRoom(x.task, c.to) => Starting(now, x, c, begun)
    PROVE  Starting(now, x, c, ToolWork!WithinBoth(now, x, c, begun))
<1>1. x.task \in Workers
  BY DEF Whos
<1>2. \A p : ToolWork!Resolves(now, x.task, p) <=> InRoom(x.task, p)
  BY <1>1, ReachIs
<1>3. Starting(now, x, c, ToolWork!Answered)
  BY AwaitsIs DEF ToolWork!Answered, WorkStages
<1> QED BY <1>2, <1>3 DEF ToolWork!WithinBoth

(* However a call begins, it begins so.                                     *)
LEMMA BegunIs ==
    ASSUME NEW now \in Trees, RoomsThere(now), NEW x \in Whos, NEW c \in CallsFor(x.task)
    PROVE  Starting(now, x, c, ToolWork!Begun(now, x, c))
<1>1. PICK b : b = ToolWork!Begun(now, x, c)
  OBVIOUS
<1>2. c.path \in {c.path, c.to} /\ c.to \in {c.path, c.to} /\ {} \in SUBSET STRING /\ {c.new} \in SUBSET STRING /\ c \in CallSet
  BY DEF CallsFor, CallSet
<1>3. Starting(now, x, c, ToolWork!Answered) \/ c.tool = "run_command"
  BY AwaitsIs DEF ToolWork!Answered, WorkStages
<1>4. CASE c.tool \in {"read_file", "read_image", "edit_file"}
  <2>1. InRoom(x.task, c.path) => Starting(now, x, c, ToolWork!Asks(ToolWork!Job(x, c, "read", c.path, c.path, {})))
    BY <1>2, <1>4, AsksIs DEF Ops
  <2>2. Starting(now, x, c, ToolWork!ReadingFile(now, x, c))
    BY <1>4, <2>1, WithinIs DEF ToolWork!ReadingFile
  <2>3. b = ToolWork!ReadingFile(now, x, c)
    BY <1>1, <1>4 DEF ToolWork!Begun, ToolWork!ReadingImage, ToolWork!Edits
  <2> QED BY <1>1, <2>2, <2>3
<1>5. CASE c.tool = "list_directory"
  <2>1. InRoom(x.task, c.path) => Starting(now, x, c, ToolWork!Asks(ToolWork!Job(x, c, "list", c.path, c.path, {})))
    BY <1>2, <1>5, AsksIs DEF Ops
  <2>2. b = ToolWork!Listing(now, x, c)
    BY <1>1, <1>5 DEF ToolWork!Begun
  <2> QED BY <1>1, <1>5, <2>1, <2>2, WithinIs DEF ToolWork!Listing
<1>6. CASE c.tool = "describe_path"
  <2>1. b = ToolWork!Describes(now, x, c)
    BY <1>1, <1>6 DEF ToolWork!Begun
  <2> QED BY <1>1, <1>3, <1>6, <2>1, WithinIs DEF ToolWork!Describes
<1>7. CASE c.tool = "write_file"
  <2>1. InRoom(x.task, c.path) => Starting(now, x, c, ToolWork!Asks(ToolWork!Job(x, c, "write", c.path, c.path, {c.new})))
    BY <1>2, <1>7, AsksIs DEF Ops, ToolWork!Writing
  <2>2. b = ToolWork!Writes(now, x, c)
    BY <1>1, <1>7 DEF ToolWork!Begun
  <2> QED BY <1>1, <1>7, <2>1, <2>2, WithinIs DEF ToolWork!Writes
<1>8. CASE c.tool = "create_directory"
  <2>1. InRoom(x.task, c.path) => Starting(now, x, c, ToolWork!Asks(ToolWork!Job(x, c, "directory", c.path, c.path, {})))
    BY <1>2, <1>8, AsksIs DEF Ops, ToolWork!Writing
  <2>2. b = ToolWork!MakesDirectory(now, x, c)
    BY <1>1, <1>8 DEF ToolWork!Begun
  <2> QED BY <1>1, <1>8, <2>1, <2>2, WithinIs DEF ToolWork!MakesDirectory
<1>9. CASE c.tool = "move_path"
  <2>1. InRoom(x.task, c.path) /\ InRoom(x.task, c.to) =>
            Starting(now, x, c, ToolWork!Asks(ToolWork!Job(x, c, "move", c.path, c.to, {})))
    BY <1>2, <1>9, AsksIs DEF Ops, ToolWork!Pairs
  <2>2. b = ToolWork!Moves(now, x, c)
    BY <1>1, <1>9 DEF ToolWork!Begun
  <2> QED BY <1>1, <1>9, <2>1, <2>2, WithinBothIs DEF ToolWork!Moves
<1>10. CASE c.tool = "copy_file"
  <2>1. InRoom(x.task, c.path) /\ InRoom(x.task, c.to) =>
            Starting(now, x, c, ToolWork!Asks(ToolWork!Job(x, c, "copy", c.path, c.to, {})))
    BY <1>2, <1>10, AsksIs DEF Ops, ToolWork!Pairs
  <2>2. b = ToolWork!Copies(now, x, c)
    BY <1>1, <1>10 DEF ToolWork!Begun
  <2> QED BY <1>1, <1>10, <2>1, <2>2, WithinBothIs DEF ToolWork!Copies
<1>11. CASE c.tool = "remove_path"
  <2>1. InRoom(x.task, c.path) => Starting(now, x, c, ToolWork!Asks(ToolWork!Job(x, c, "remove", c.path, c.path, {})))
    BY <1>2, <1>11, AsksIs DEF Ops, ToolWork!Writing
  <2>2. (c.all \/ \A q \in Below(c.path) : ~Exists(now, q)) /\ InRoom(x.task, c.path) =>
            Starting(now, x, c, ToolWork!Asks(ToolWork!Job(x, c, "empty", c.path, c.path, {})))
    BY <1>2, <1>11, AsksIs DEF Ops, ToolWork!Writing
  <2>3. PICK gone : gone = ToolWork!Asks(ToolWork!Job(x, c, "remove", c.path, c.path, {}))
    OBVIOUS
  <2>4. PICK emptied : emptied = ToolWork!Asks(ToolWork!Job(x, c, "empty", c.path, c.path, {}))
    OBVIOUS
  <2>5. PICK begun : begun = CASE ~Exists(now, c.path) -> ToolWork!Answered
                               [] now[c.path].kind = "file" -> gone
                               [] ~c.all /\ (\E q \in Below(c.path) : Exists(now, q)) -> ToolWork!Answered
                               [] OTHER -> emptied
    OBVIOUS
  <2>6. ToolWork!Removes(now, x, c) = ToolWork!Within(now, x, c, begun)
    BY <2>3, <2>4, <2>5, SameFiles DEF ToolWork!Removes
  <2>7. InRoom(x.task, c.path) => Starting(now, x, c, begun)
    BY <1>3, <1>11, <2>1, <2>2, <2>3, <2>4, <2>5
  <2>8. b = ToolWork!Removes(now, x, c)
    BY <1>1, <1>11 DEF ToolWork!Begun
  <2> QED BY <1>1, <1>11, <2>6, <2>7, <2>8, WithinIs
<1>12. CASE c.tool = "search_files"
  <2>1. Starting(now, x, c, ToolWork!Awaits("worker"))
    BY <1>12, AwaitsIs DEF WorkStages
  <2>2. b = ToolWork!Searches(now, x, c)
    BY <1>1, <1>12 DEF ToolWork!Begun
  <2> QED BY <1>1, <1>12, <2>1, <2>2, WithinIs DEF ToolWork!Searches
<1>13. CASE c.tool \in {"generate_image", "generate_speech"}
  <2>1. InRoom(x.task, c.path) => Starting(now, x, c, ToolWork!Awaits("network"))
    BY <1>13, AwaitsIs DEF WorkStages
  <2>2. b = ToolWork!Within(now, x, c, ToolWork!Awaits("network"))
    BY <1>1, <1>13 DEF ToolWork!Begun, ToolWork!GenerateImage, ToolWork!GenerateSpeech
  <2> QED BY <1>1, <1>13, <2>1, <2>2, WithinIs
<1>14. CASE c.tool \in {"fetch_url", "web_search", "list_voices"}
  <2>1. b = ToolWork!Awaits("network")
    BY <1>1, <1>14 DEF ToolWork!Begun, ToolWork!FetchUrl, ToolWork!SearchWeb, ToolWork!ListVoices
  <2> QED BY <1>1, <1>14, <2>1, AwaitsIs DEF WorkStages
<1>15. CASE c.tool \in {"list_skills", "search_skills", "read_skill", "read_skill_file"}
  <2>1. b = ToolWork!Awaits("catalog")
    BY <1>1, <1>15 DEF ToolWork!Begun, ToolWork!ListSkills, ToolWork!SearchSkills, ToolWork!ReadSkill, ToolWork!ReadSkillFile
  <2> QED BY <1>1, <1>15, <2>1, AwaitsIs DEF WorkStages
<1>16. CASE c.tool \in {"list_mcp_resources", "list_mcp_prompts", "read_mcp_resource", "read_mcp_prompt", "mcp_tool"}
  <2>1. b = ToolWork!Awaits("server")
    BY <1>1, <1>16 DEF ToolWork!Begun, ToolWork!ListServerCatalog, ToolWork!ReadServerResource, ToolWork!ReadServerPrompt,
                       ToolWork!CallMcpTool
  <2> QED BY <1>1, <1>16, <2>1, AwaitsIs DEF WorkStages
<1>17. CASE c.tool = "run_command"
  <2>1. b = ToolWork!Commands(now, x)
    BY <1>1, <1>17 DEF ToolWork!Begun
  <2>2. now[Rooms[x.task]].kind = "directory"
    BY EntryIs DEF RoomsThere, Whos
  <2>3. b = ToolWork!Awaits("command")
    BY <2>1, <2>2 DEF ToolWork!Commands
  <2>4. b.stage = "command"
    BY <2>3 DEF ToolWork!Awaits
  <2> QED BY <1>1, <1>17, <2>4 DEF Starting
<1>18. CASE c.tool = "describe_task"
  <2>1. b = ToolWork!Answered
    BY <1>1, <1>18 DEF ToolWork!Begun, ToolWork!DescribeTask
  <2> QED BY <1>1, <1>3, <1>18, <2>1
<1>19. CASE c.tool \notin {"read_file", "read_image", "edit_file", "list_directory", "describe_path", "write_file",
                           "create_directory", "move_path", "copy_file", "remove_path", "search_files", "generate_image",
                           "generate_speech", "fetch_url", "web_search", "list_voices", "list_skills", "search_skills",
                           "read_skill", "read_skill_file", "list_mcp_resources", "list_mcp_prompts", "read_mcp_resource",
                           "read_mcp_prompt", "mcp_tool", "run_command", "describe_task"}
  <2>1. b = ToolWork!Answered
    BY <1>1, <1>19 DEF ToolWork!Begun
  <2> QED BY <1>1, <1>3, <1>19, <2>1
<1> QED BY <1>4, <1>5, <1>6, <1>7, <1>8, <1>9, <1>10, <1>11, <1>12, <1>13, <1>14, <1>15, <1>16, <1>17, <1>18, <1>19

-----------------------------------------------------------------------------
(* The queues of jobs and answers are without repetition.                   *)

(* The first of a queue is taken.                                           *)
LEMMA HeadIsGone ==
    ASSUME NEW S, NEW s \in Seq(S), s # <<>>, IsInjective(s)
    PROVE  /\ Head(s) = s[1] /\ Head(s) \in Range(s) /\ Tail(s) \in Seq(S) /\ IsInjective(Tail(s))
           /\ Range(Tail(s)) = Range(s) \ {Head(s)}
<1>1. Len(s) \in Nat \ {0} /\ DOMAIN s = 1..Len(s) /\ Head(s) = s[1] /\ \A i \in DOMAIN s : s[i] \in S
  OBVIOUS
<1>2. Tail(s) \in Seq(S) /\ Len(Tail(s)) = Len(s) - 1 /\ \A i \in 1..Len(s) - 1 : Tail(s)[i] = s[i + 1]
  OBVIOUS
<1>3. DOMAIN Tail(s) = 1..Len(s) - 1
  BY <1>2
<1>4. PICK r : r = Tail(s)
  OBVIOUS
<1>5. \A i \in DOMAIN r : i + 1 \in DOMAIN s /\ i + 1 # 1 /\ r[i] = s[i + 1] /\ i \in Nat
  BY <1>1, <1>2, <1>3, <1>4
<1>6. ASSUME NEW i \in DOMAIN s, i # 1 PROVE i - 1 \in DOMAIN r /\ r[i - 1] = s[i]
  <2>1. i - 1 \in 1..Len(s) - 1 /\ (i - 1) + 1 = i
    BY <1>1, <1>6
  <2> QED BY <1>2, <1>3, <1>4, <2>1
<1>7. \A i, j \in DOMAIN s : s[i] = s[j] => i = j
  BY DEF IsInjective
<1>8. ASSUME NEW i \in DOMAIN r, NEW j \in DOMAIN r, r[i] = r[j] PROVE i = j
  <2>1. i + 1 = j + 1 /\ i \in Nat /\ j \in Nat
    BY <1>5, <1>7, <1>8
  <2> QED BY <2>1
<1>9. Range(r) = Range(s) \ {s[1]}
  <2>1. ASSUME NEW e \in Range(r) PROVE e \in Range(s) \ {s[1]}
    <3>1. PICK i \in DOMAIN r : e = r[i]
      BY DEF Range
    <3>2. i + 1 \in DOMAIN s /\ i + 1 # 1 /\ e = s[i + 1] /\ 1 \in DOMAIN s
      BY <1>1, <1>5, <3>1
    <3> QED BY <1>7, <3>2 DEF Range
  <2>2. ASSUME NEW e \in Range(s), e # s[1] PROVE e \in Range(r)
    <3>1. PICK i \in DOMAIN s : e = s[i]
      BY DEF Range
    <3>2. i - 1 \in DOMAIN r /\ r[i - 1] = e
      BY <1>6, <2>2, <3>1
    <3> QED BY <3>2 DEF Range
  <2> QED BY <2>1, <2>2
<1>10. s[1] \in Range(s)
  BY <1>1 DEF Range
<1> QED BY <1>1, <1>2, <1>4, <1>8, <1>9, <1>10 DEF IsInjective

(* One is added at the end, or several are.                                 *)
LEMMA OneAdded ==
    ASSUME NEW S, NEW s \in Seq(S), IsInjective(s), NEW e \in S, e \notin Range(s)
    PROVE  Append(s, e) \in Seq(S) /\ IsInjective(Append(s, e)) /\ Range(Append(s, e)) = Range(s) \cup {e}
<1>1. PICK r : r = Append(s, e)
  OBVIOUS
<1>2. PICK n : n = Len(s) + 1
  OBVIOUS
<1>3. r \in Seq(S) /\ DOMAIN r = DOMAIN s \cup {n} /\ n \notin DOMAIN s /\ r[n] = e /\ \A i \in DOMAIN s : r[i] = s[i]
  BY <1>1, <1>2
<1>4. \A i \in DOMAIN s : s[i] # e
  BY DEF Range
<1>5. IsInjective(r)
  BY <1>3, <1>4 DEF IsInjective
<1>6. Range(r) = Range(s) \cup {e}
  BY <1>3 DEF Range
<1> QED BY <1>1, <1>3, <1>5, <1>6

LEMMA MoreAdded ==
    ASSUME NEW S, NEW s \in Seq(S), IsInjective(s), NEW m \in Seq(S), IsInjective(m), Range(s) \cap Range(m) = {}
    PROVE  s \o m \in Seq(S) /\ IsInjective(s \o m) /\ Range(s \o m) = Range(s) \cup Range(m)
<1>1. PICK r : r = s \o m
  OBVIOUS
<1>2. PICK n \in Nat : n = Len(s)
  OBVIOUS
<1>3. /\ r \in Seq(S) /\ \A i \in DOMAIN s : i \in DOMAIN r /\ r[i] = s[i] /\ i \in 1..n
      /\ \A i \in DOMAIN m : n + i \in DOMAIN r /\ r[n + i] = m[i] /\ i \in Nat /\ i > 0
  BY <1>1, <1>2
<1>4. \A i \in DOMAIN r : i \in DOMAIN s \/ (i - n \in DOMAIN m /\ i \in Nat /\ i = n + (i - n))
  BY <1>1, <1>2
<1>5. \A i \in DOMAIN s : \A j \in DOMAIN m : s[i] # m[j]
  BY DEF Range
<1>6. ASSUME NEW i \in DOMAIN r, NEW j \in DOMAIN r, r[i] = r[j] PROVE i = j
  <2>1. CASE i \in DOMAIN s /\ j \in DOMAIN s
    BY <1>3, <1>6, <2>1 DEF IsInjective
  <2>2. CASE i \in DOMAIN s /\ j \notin DOMAIN s
    BY <1>3, <1>4, <1>5, <1>6, <2>2
  <2>3. CASE i \notin DOMAIN s /\ j \in DOMAIN s
    BY <1>3, <1>4, <1>5, <1>6, <2>3
  <2>4. CASE i \notin DOMAIN s /\ j \notin DOMAIN s
    <3>1. r[i] = m[i - n] /\ r[j] = m[j - n] /\ i - n \in DOMAIN m /\ j - n \in DOMAIN m /\ i \in Nat /\ j \in Nat
      BY <1>3, <1>4, <2>4
    <3>2. i - n = j - n
      BY <1>6, <3>1 DEF IsInjective
    <3> QED BY <3>1, <3>2
  <2> QED BY <2>1, <2>2, <2>3, <2>4
<1>7. Range(r) = Range(s) \cup Range(m)
  BY <1>3, <1>4 DEF Range
<1> QED BY <1>1, <1>3, <1>6, <1>7 DEF IsInjective

-----------------------------------------------------------------------------
(* Who is at work leaves, or is replaced by what it asks for next.          *)

(* A set without one, and with one more.                                    *)
But(S, e) == S \ {e}
And(S, e) == S \cup {e}

(* What a job is for.                                                       *)
LEMMA JobErrand ==
    ASSUME NEW j \in Jobs
    PROVE  /\ j.who \in Whos /\ j.who.task \in Workers /\ j.why \in CallSet /\ j.op \in Ops /\ j.path \in Paths /\ j.to \in Paths
           /\ j.text \in SUBSET STRING
           /\ Errand(j).who = j.who /\ Errand(j).call = CallOf(j.why)
           /\ CallOf(j.why) \in CallsFor(j.who.task) /\ CallOf(j.why).tool = j.why.tool
           /\ CallOf(j.why).path = j.path /\ j.to \in {CallOf(j.why).path, CallOf(j.why).to}
<1>1. j.who \in Whos /\ j.why \in CallSet /\ j.op \in Ops /\ j.path \in Paths /\ j.to \in Paths /\ j.text \in SUBSET STRING
  BY DEF Jobs
<1>2. CallOf(j.why) \in CallsFor(j.who.task) /\ j.path = j.why.path /\ j.to \in {j.why.path, j.why.to}
  BY DEF Jobs
<1> QED BY <1>1, <1>2, CallOfIs DEF Whos, Errand

(* What nobody disturbed of what a job saw is still so.                      *)
LEMMA HoldsStill ==
    ASSUME NEW now, NEW new, NEW j \in Jobs,
           j.why.tool \in {"edit_file", "remove_path"} /\ InRoom(j.who.task, j.path) =>
               \A q \in Paths : IsPrefix(j.path, q) => new[q] = now[q]
    PROVE  /\ JobHolds(now, j) => JobHolds(new, j)
           /\ \A a : a.job = j /\ AnswerHolds(now, a) => AnswerHolds(new, a)
<1>1. j.path \in Paths /\ IsPrefix(j.path, j.path)
  BY JobErrand, PathIs, PrefixOfItself
<1>2. j.why.tool = "edit_file" => InRoom(j.who.task, j.path)
  BY DEF Jobs
<1>3. j.op = "empty" => j.why.tool = "remove_path" /\ InRoom(j.who.task, j.path)
  BY DEF Jobs
<1>4. j.why.tool = "edit_file" => new[j.path] = now[j.path]
  BY <1>1, <1>2
<1>5. j.op = "empty" => \A q \in Below(j.path) : Exists(new, q) <=> Exists(now, q)
  BY <1>3 DEF Below, IsStrictPrefix, Exists
<1> QED BY <1>4, <1>5 DEF JobHolds, AnswerHolds

(* Who writes at places of its room.                                        *)
WritesAt(e, places) ==
    /\ e.call.tool \in ToolWork!Writing \cup ToolWork!Pairs /\ places \in SUBSET {e.call.path, e.call.to}
    /\ \A s \in places : InRoom(e.who.task, s)

(* What is written for one that is at work disturbs nobody else.            *)
LEMMA WriterLeaves ==
    ASSUME NEW c, NEW R, NEW now, NEW J, NEW A, NEW W, Together(c, now, J, A, W, R),
           NEW e \in Errands(J, A, W), NEW places, WritesAt(e, places),
           NEW new \in Trees, Disturbs(now, new, places)
    PROVE  /\ RoomsThere(new)
           /\ \A j \in J : j.who # e.who /\ j.who.task \notin c.overrun => JobHolds(new, j)
           /\ \A a \in A : a.job.who # e.who /\ a.job.who.task \notin c.overrun => AnswerHolds(new, a)
<1>1. PICK E : E = Errands(J, A, W)
  OBVIOUS
<1>2. RoomsThere(new)
      /\ \A f \in E : f.who # e.who /\ f.who.task \notin c.overrun /\ f.call.tool \in {"edit_file", "remove_path"}
                         /\ InRoom(f.who.task, f.call.path) =>
             \A q \in Paths : IsPrefix(f.call.path, q) => new[q] = now[q]
  <2>1. now \in Trees /\ RoomsThere(now) /\ TurnsAre(c) /\ AtWorkIs(c, E, R) /\ e \in E
    BY <1>1 DEF FilesAre, Together
  <2>2. PICK at \in SUBSET {e.call.path, e.call.to} : at = places
    BY DEF WritesAt
  <2>3. e.call.tool \in ToolWork!Writing \cup ToolWork!Pairs /\ \A s \in at : InRoom(e.who.task, s)
    BY <2>2 DEF WritesAt
  <2> QED BY <2>1, <2>2, <2>3, OthersHold
<1>3. ASSUME NEW j \in Jobs, Errand(j) \in E, j.who # e.who, j.who.task \notin c.overrun
      PROVE  /\ JobHolds(now, j) => JobHolds(new, j)
             /\ \A a : a.job = j /\ AnswerHolds(now, a) => AnswerHolds(new, a)
  <2>1. PICK f \in E : f.who = j.who /\ f.call = CallOf(j.why)
    BY <1>3, JobErrand
  <2>2. f.call.tool = j.why.tool /\ f.call.path = j.path
    BY <2>1, JobErrand
  <2> QED BY <1>2, <1>3, <2>1, <2>2, HoldsStill
<1>4. FilesAre(now, J, A, W, c.overrun)
  BY DEF Together
<1>5. ASSUME NEW j \in J, j.who # e.who, j.who.task \notin c.overrun PROVE JobHolds(new, j)
  <2>1. j \in Jobs /\ JobHolds(now, j) /\ Errand(j) \in E
    BY <1>1, <1>4, <1>5 DEF FilesAre, Errands
  <2> QED BY <1>3, <1>5, <2>1
<1>6. ASSUME NEW a \in A, a.job.who # e.who, a.job.who.task \notin c.overrun PROVE AnswerHolds(new, a)
  <2>1. a.job \in Jobs /\ AnswerHolds(now, a) /\ Errand(a.job) \in E
    BY <1>1, <1>4, <1>6 DEF FilesAre, Errands, JobAnswers
  <2> QED BY <1>3, <1>6, <2>1
<1> QED BY <1>2, <1>5, <1>6

(* The thread does a job.                                                  *)
LEMMA JobIsDone ==
    ASSUME NEW c, NEW now, NEW J, NEW A, NEW W, NEW R, Together(c, now, J, A, W, R), NEW job \in J,
           NEW o \in ToolWork!Outcomes(now, job), NEW answer, answer = [job |-> job, ok |-> o.ok, text |-> o.text]
    PROVE  Together(c, o.tree, But(J, job), And(A, answer), W, R) /\ answer \in JobAnswers /\ answer \notin A
<1>1. FilesAre(now, J, A, W, c.overrun) /\ Unique(J, A, W) /\ TurnsAre(c) /\ AtWorkIs(c, Errands(J, A, W), R)
  BY DEF Together
<1>2. J \subseteq Jobs /\ A \subseteq JobAnswers /\ W \subseteq Works /\ now \in Trees /\ RoomsThere(now) /\ job \in Jobs
  BY <1>1 DEF FilesAre
<1>3. PICK new \in Trees : new = o.tree /\ o \in Made(now, {job.path, job.to})
                           /\ (job.op \in {"read", "list"} => new = now)
                           /\ (job.op = "read" /\ o.ok => now[job.path] = File(o.text))
  <2>1. job.op \in Ops /\ job.path \in Paths /\ job.to \in Paths /\ job.text \in SUBSET STRING
    BY <1>2, JobErrand
  <2>2. /\ o \in Made(now, {job.path, job.to}) /\ (job.op \in {"read", "list"} => o.tree = now)
        /\ (job.op = "read" /\ o.ok => now[job.path] = File(o.text))
    BY <1>2, <2>1, OutcomesAre
  <2> QED BY <2>2 DEF Made
<1>4. answer \in JobAnswers /\ answer.job = job /\ answer.ok = o.ok /\ answer.text = o.text
  BY <1>2, <1>3 DEF JobAnswers, Made
<1>5. answer \notin A
  BY <1>1, <1>4 DEF Unique
<1>6. Errands(J \ {job}, A \cup {answer}, W) = Errands(J, A, W)
  BY <1>4 DEF Errands
<1>7. Unique(J \ {job}, A \cup {answer}, W)
  <2> USE <1>1, <1>4
  <2>1. \A j, k \in J \ {job} : j.who = k.who => j = k
    BY DEF Unique
  <2>2. \A a, b \in A \cup {answer} : a.job.who = b.job.who => a = b
    BY DEF Unique
  <2>3. \A j \in J \ {job}, a \in A \cup {answer} : j.who # a.job.who
    BY DEF Unique
  <2>4. \A a \in A \cup {answer}, e \in W : a.job.who # e.who
    BY DEF Unique
  <2> QED BY <2>1, <2>2, <2>3, <2>4 DEF Unique
<1>8. /\ RoomsThere(new)
      /\ \A j \in J : j.who # job.who /\ j.who.task \notin c.overrun => JobHolds(new, j)
      /\ \A a \in A : a.job.who # job.who /\ a.job.who.task \notin c.overrun => AnswerHolds(new, a)
  <2>1. CASE job.op \in {"read", "list"}
    BY <1>1, <1>3, <2>1 DEF FilesAre
  <2>2. CASE job.op \notin {"read", "list"}
    <3>1. PICK e \in Errands(J, A, W) : e.who = job.who /\ e.call = CallOf(job.why)
      BY <1>2, JobErrand DEF Errands
    <3>2. /\ job.why.tool \in ToolWork!Writing \cup ToolWork!Pairs
          /\ InRoom(job.who.task, job.path) /\ InRoom(job.who.task, job.to)
      BY <1>2, <2>2 DEF Jobs
    <3>3. e.call.tool \in ToolWork!Writing \cup ToolWork!Pairs /\ {job.path, job.to} \subseteq {e.call.path, e.call.to}
      BY <1>2, <3>1, <3>2, JobErrand
    <3>4. PICK places : places = {job.path, job.to}
      OBVIOUS
    <3>5. Disturbs(now, new, places) /\ WritesAt(e, places)
      BY <1>3, <3>1, <3>2, <3>3, <3>4 DEF Made, WritesAt
    <3>6. /\ RoomsThere(new)
          /\ \A j \in J : j.who # e.who /\ j.who.task \notin c.overrun => JobHolds(new, j)
          /\ \A a \in A : a.job.who # e.who /\ a.job.who.task \notin c.overrun => AnswerHolds(new, a)
      BY <1>3, <3>1, <3>5, WriterLeaves
    <3> QED BY <3>1, <3>6
  <2> QED BY <2>1, <2>2
<1>9. FilesAre(new, J \ {job}, A \cup {answer}, W, c.overrun)
  <2>1. ASSUME NEW j \in J \ {job}, j.who.task \notin c.overrun PROVE JobHolds(new, j)
    <3>1. j.who # job.who
      BY <1>1 DEF Unique
    <3> QED BY <1>8, <2>1, <3>1
  <2>2. ASSUME NEW a \in A, a.job.who.task \notin c.overrun PROVE AnswerHolds(new, a)
    <3>1. a.job.who # job.who
      BY <1>1 DEF Unique
    <3> QED BY <1>8, <2>2, <3>1
  <2>3. AnswerHolds(new, answer)
    BY <1>3, <1>4 DEF AnswerHolds
  <2> QED BY <1>2, <1>4, <1>8, <2>1, <2>2, <2>3 DEF FilesAre
<1> QED BY <1>1, <1>3, <1>4, <1>5, <1>6, <1>7, <1>9 DEF Together, But, And

(* What was read is edited, and is to be written.                           *)
EditOf(a, text) ==
    ToolWork!Job(a.job.who, [a.job.why EXCEPT !.seen = a.text], "write", a.job.why.path, a.job.why.to, text)

(* An edit whose file was read asks for its file to be written, with what   *)
(* it was shown.                                                            *)
LEMMA EditIsWritten ==
    ASSUME NEW c, NEW now, NEW J, NEW A, NEW W, NEW R, Together(c, now, J, A, W, R), NEW a \in A,
           a.ok, a.job.op = "read", a.job.why.tool = "edit_file", NEW text \in SUBSET STRING, NEW job,
           job = EditOf(a, text)
    PROVE  Together(c, now, And(J, job), But(A, a), W, R) /\ job \in Jobs /\ job \notin J
<1>1. FilesAre(now, J, A, W, c.overrun) /\ Unique(J, A, W) /\ TurnsAre(c) /\ AtWorkIs(c, Errands(J, A, W), R)
  BY DEF Together
<1>2. J \subseteq Jobs /\ A \subseteq JobAnswers /\ W \subseteq Works /\ now \in Trees /\ RoomsThere(now)
      /\ a.job \in Jobs /\ a.text \in SUBSET STRING
  BY <1>1 DEF FilesAre, JobAnswers
<1>3. PICK was : was = a.job.why
  OBVIOUS
<1>4. was \in CallSet /\ was.path = a.job.path /\ InRoom(a.job.who.task, was.path) /\ CallOf(was) \in CallsFor(a.job.who.task)
  BY <1>2, <1>3 DEF Jobs
<1>5. was.to = was.path
  BY <1>3, <1>4, CallOfIs DEF CallsFor, ToolWork!Pairs
<1>6. PICK why : why = [was EXCEPT !.seen = a.text]
  OBVIOUS
<1>7. /\ why \in CallSet /\ why.seen = a.text /\ why.tool = was.tool /\ why.path = was.path /\ why.to = was.to
      /\ CallOf(why) = CallOf(was)
  BY <1>2, <1>4, <1>6 DEF CallSet, CallOf
<1>8. /\ job.who = a.job.who /\ job.why = why /\ job.op = "write" /\ job.path = was.path /\ job.to = was.path
      /\ job \in [who : Whos, why : CallSet, op : Ops, path : Paths, to : Paths, text : SUBSET STRING]
  <2>1. a.job.who \in Whos /\ a.job.path \in Paths
    BY <1>2, JobErrand
  <2> QED BY <1>3, <1>4, <1>5, <1>6, <1>7, <2>1 DEF EditOf, ToolWork!Job, Ops
<1>9. job \in Jobs
  BY <1>3, <1>4, <1>5, <1>7, <1>8 DEF Jobs, ToolWork!Writing
<1>10. Errand(job) = Errand(a.job)
  BY <1>3, <1>7, <1>8 DEF Errand
<1>11. Errands(J \cup {job}, A \ {a}, W) = Errands(J, A, W)
  BY <1>10 DEF Errands
<1>12. job \notin J
  BY <1>1, <1>8 DEF Unique
<1>13. Unique(J \cup {job}, A \ {a}, W)
  <2> USE <1>1, <1>8
  <2>1. \A j, k \in J \cup {job} : j.who = k.who => j = k
    BY DEF Unique
  <2>2. \A b, f \in A \ {a} : b.job.who = f.job.who => b = f
    BY DEF Unique
  <2>3. \A j \in J \cup {job}, b \in A \ {a} : j.who # b.job.who
    BY DEF Unique
  <2>4. \A j \in J \cup {job}, e \in W : j.who # e.who
    BY DEF Unique
  <2> QED BY <2>1, <2>2, <2>3, <2>4 DEF Unique
<1>14. job.who.task \notin c.overrun => JobHolds(now, job)
  <2> SUFFICES ASSUME a.job.who.task \notin c.overrun PROVE JobHolds(now, job)
    BY <1>8
  <2>1. AnswerHolds(now, a)
    BY <1>1 DEF FilesAre
  <2> QED BY <1>4, <1>7, <1>8, <2>1 DEF AnswerHolds, JobHolds
<1>15. FilesAre(now, J \cup {job}, A \ {a}, W, c.overrun)
  BY <1>1, <1>9, <1>14 DEF FilesAre
<1> QED BY <1>1, <1>9, <1>11, <1>12, <1>13, <1>15 DEF Together, But, And

(* The calls that begin join what is at work.                               *)
AllBegin(now, c, t, starts, begun) == \A i \in starts : Starting(now, Name(c, t, i), c.turn[t][i].call, begun[i])
JobsOf(starts, begun) == {begun[i].job : i \in {k \in starts : begun[k].stage = "files"}}
WorksOf(c, t, starts, begun) ==
    {[who |-> Name(c, t, i), stage |-> begun[i].stage, call |-> c.turn[t][i].call] :
         i \in {k \in starts : begun[k].stage \in WorkStages}}
ShellsOf(c, t, starts, begun) == {Name(c, t, i) : i \in {k \in starts : begun[k].stage = "command"}}
Joined(d, now, J, A, W, R, NJ, NW, NR) ==
    /\ Together(d, now, J \cup NJ, A, W \cup NW, R \cup NR)
    /\ NJ \subseteq Jobs /\ NJ \cap J = {} /\ NR \cap R = {} /\ NR \subseteq Whos

LEMMA CallsJoin ==
    ASSUME NEW c, NEW d, NEW now, NEW J, NEW A, NEW W, NEW R, Together(c, now, J, A, W, R), NEW t \in Workers, t \in c.live,
           NEW starts, NoneInTheWay(c, t, starts), Began(c, d, t, starts),
           NEW begun, AllBegin(now, c, t, starts, begun),
           NEW NJ, NEW NW, NEW NR,
           NJ = JobsOf(starts, begun), NW = WorksOf(c, t, starts, begun), NR = ShellsOf(c, t, starts, begun)
    PROVE  Joined(d, now, J, A, W, R, NJ, NW, NR)
<1>22. \A i \in starts : Starting(now, Name(c, t, i), c.turn[t][i].call, begun[i])
  BY DEF AllBegin
<1>23. NJ = {begun[i].job : i \in {k \in starts : begun[k].stage = "files"}}
  BY DEF JobsOf
<1>24. NW = {[who |-> Name(c, t, i), stage |-> begun[i].stage, call |-> c.turn[t][i].call] :
                 i \in {k \in starts : begun[k].stage \in WorkStages}}
  BY DEF WorksOf
<1>25. NR = {Name(c, t, i) : i \in {k \in starts : begun[k].stage = "command"}}
  BY DEF ShellsOf
<1>26. PICK R1 : R1 = R \cup NR
  OBVIOUS
<1> USE <1>22, <1>23, <1>24
<1>1. FilesAre(now, J, A, W, c.overrun) /\ Unique(J, A, W) /\ TurnsAre(c) /\ AtWorkIs(c, Errands(J, A, W), R)
  BY DEF Together
<1>2. PICK E : E = Errands(J, A, W)
  OBVIOUS
<1>3. PICK shells \in SUBSET starts : shells = {k \in starts : begun[k].stage = "command"}
  OBVIOUS
<1>4. PICK files \in SUBSET starts : files = {k \in starts : begun[k].stage = "files"}
  OBVIOUS
<1>5. PICK others \in SUBSET starts : others = {k \in starts : begun[k].stage \in WorkStages}
  OBVIOUS
<1>6. \A i \in starts : i \in shells <=> c.turn[t][i].call.tool = "run_command"
  BY <1>3 DEF Starting, WorkStages
<1>7. \A i \in starts : (i \in files \cup others <=> i \notin shells) /\ (i \in files => i \notin others)
  BY <1>3, <1>4, <1>5 DEF Starting, WorkStages
<1>8. \A i \in files : /\ begun[i].job \in Jobs /\ begun[i].job.who = Name(c, t, i) /\ begun[i].job.why = c.turn[t][i].call
                       /\ JobHolds(now, begun[i].job)
  BY <1>4 DEF Starting, WorkStages
<1>9. \A i \in others : [who |-> Name(c, t, i), stage |-> begun[i].stage, call |-> c.turn[t][i].call] \in Works
  BY <1>5 DEF Starting, WorkStages
<1>10. \A i \in starts : c.turn[t][i].call \in CallsFor(t) /\ CallOf(c.turn[t][i].call) = c.turn[t][i].call
  <2> SUFFICES ASSUME NEW i \in starts
               PROVE  c.turn[t][i].call \in CallsFor(t) /\ CallOf(c.turn[t][i].call) = c.turn[t][i].call
    OBVIOUS
  <2>1. c.turn[t] \in Seq(Items(t)) /\ i \in DOMAIN c.turn[t]
    BY <1>1 DEF TurnsAre, NoneInTheWay, ToolWork!Waiting
  <2>2. c.turn[t][i] \in Items(t)
    BY <2>1
  <2> QED BY <2>2, CallOfIs DEF Items, CallsFor
<1>11. PICK NE : NE = {[who |-> Name(c, t, i), call |-> c.turn[t][i].call] : i \in starts \ shells}
  OBVIOUS
<1>12. Errands(J \cup NJ, A, W \cup NW) = E \cup NE
  <2> DEFINE asked1(i) == [who |-> Name(c, t, i), call |-> c.turn[t][i].call]
  <2>1. {Errand(j) : j \in NJ} = {asked1(i) : i \in files}
    <3>1. \A i \in files : Errand(begun[i].job) = asked1(i)
      BY <1>8, <1>10 DEF Errand
    <3>2. NJ = {begun[i].job : i \in files}
      BY <1>4
    <3> HIDE DEF asked1
    <3>3. ASSUME NEW j \in NJ PROVE \E i \in files : Errand(j) = asked1(i)
      <4>1. PICK i \in files : j = begun[i].job
        BY <3>2
      <4> QED BY <3>1, <4>1
    <3>4. \A i \in files : \E j \in NJ : Errand(j) = asked1(i)
      BY <3>1, <3>2
    <3> QED BY <3>3, <3>4
  <2>2. {Elsewhere(e) : e \in NW} = {asked1(i) : i \in others}
    <3>1. ASSUME NEW e \in NW PROVE \E i \in others : Elsewhere(e) = asked1(i)
      <4>1. PICK i \in others : e = [who |-> Name(c, t, i), stage |-> begun[i].stage, call |-> c.turn[t][i].call]
        BY <1>5
      <4>2. Elsewhere(e) = asked1(i)
        BY <4>1 DEF Elsewhere
      <4> QED BY <4>2
    <3>2. \A i \in others : \E e \in NW : Elsewhere(e) = asked1(i)
      <4> SUFFICES ASSUME NEW i \in others PROVE \E e \in NW : Elsewhere(e) = asked1(i)
        OBVIOUS
      <4>1. PICK e : e = [who |-> Name(c, t, i), stage |-> begun[i].stage, call |-> c.turn[t][i].call]
        OBVIOUS
      <4>2. e \in NW /\ Elsewhere(e) = asked1(i)
        BY <1>5, <4>1 DEF Elsewhere
      <4> QED BY <4>2
    <3> HIDE DEF asked1
    <3> QED BY <3>1, <3>2
  <2>3. NE = {[who |-> Name(c, t, i), call |-> c.turn[t][i].call] : i \in files}
                 \cup {[who |-> Name(c, t, i), call |-> c.turn[t][i].call] : i \in others}
    <3>1. starts \ shells = files \cup others
      BY <1>7
    <3> QED BY <1>11, <3>1
  <2>4. Errands(J \cup NJ, A, W \cup NW) = Errands(J, A, W) \cup ({Errand(j) : j \in NJ} \cup {Elsewhere(e) : e \in NW})
    BY DEF Errands
  <2> QED BY <1>2, <2>1, <2>2, <2>3, <2>4
<1>13. /\ TurnsAre(d) /\ AtWorkIs(d, E \cup NE, R1)
       /\ \A i \in starts : Name(c, t, i) \in Whos /\ Name(c, t, i) \notin Askers(E) \cup R
  <2>1. PICK E1 : E1 = AskedToo(E, c, t, starts, shells)
    OBVIOUS
  <2>2. R1 = RunsToo(R, c, t, shells)
    BY <1>3, <1>25, <1>26 DEF RunsToo, Names
  <2>3. TurnsAre(c) /\ AtWorkIs(c, E, R)
    BY <1>1, <1>2
  <2>4. TurnsAre(d) /\ AtWorkIs(d, E1, R1) /\ NamesAreNew(c, t, starts, E, R)
    <3>1. Shells(c, t, starts, shells)
      BY <1>6 DEF Shells
    <3> QED BY <2>1, <2>2, <2>3, <3>1, CallsBegin
  <2> QED BY <1>11, <2>1, <2>4 DEF AskedToo, Newly, NamesAreNew
<1>14. \A j \in J \cup {a.job : a \in A} \cup W : j.who \in Askers(E)
  <2>1. \A j : Errand(j).who = j.who /\ Elsewhere(j).who = j.who
    BY DEF Errand, Elsewhere
  <2>2. /\ \A j \in J : Errand(j) \in E
        /\ \A a \in A : Errand(a.job) \in E
        /\ \A e \in W : Elsewhere(e) \in E
    BY <1>2 DEF Errands
  <2> QED BY <2>1, <2>2 DEF Askers
<1>15. \A i : Name(c, t, i).index = i
  BY DEF Name
<1>16. \A j \in NJ : \E i \in files : j = begun[i].job /\ j.who = Name(c, t, i) /\ j.who.index = i /\ j.who \notin Askers(E)
  BY <1>4, <1>8, <1>13, <1>15
<1>17. \A e \in NW : \E i \in others : e = [who |-> Name(c, t, i), stage |-> begun[i].stage, call |-> c.turn[t][i].call]
                                       /\ e.who.index = i /\ e.who \notin Askers(E)
  BY <1>5, <1>13, <1>15
<1>18. Unique(J \cup NJ, A, W \cup NW)
  <2>1. \A j, k \in J \cup NJ : j.who = k.who => j = k
    BY <1>1, <1>14, <1>16 DEF Unique
  <2>2. \A e, f \in W \cup NW : e.who = f.who => e = f
    BY <1>1, <1>14, <1>17 DEF Unique
  <2>3. \A j \in J \cup NJ, a \in A : j.who # a.job.who
    BY <1>1, <1>14, <1>16 DEF Unique
  <2>4. \A a \in A, e \in W \cup NW : a.job.who # e.who
    BY <1>1, <1>14, <1>17 DEF Unique
  <2>5. ASSUME NEW j \in J \cup NJ, NEW e \in W \cup NW PROVE j.who # e.who
    <3>1. CASE j \in J /\ e \in W
      BY <1>1, <3>1 DEF Unique
    <3>2. CASE j \in J /\ e \in NW
      BY <1>14, <1>17, <3>2
    <3>3. CASE j \in NJ /\ e \in W
      BY <1>14, <1>16, <3>3
    <3>4. CASE j \in NJ /\ e \in NW
      BY <1>7, <1>16, <1>17, <3>4
    <3> QED BY <3>1, <3>2, <3>3, <3>4
  <2> QED BY <1>1, <2>1, <2>2, <2>3, <2>4, <2>5 DEF Unique
<1>19. NJ \subseteq Jobs /\ NW \subseteq Works /\ \A j \in NJ : JobHolds(now, j)
  BY <1>4, <1>5, <1>8, <1>9
<1>20. FilesAre(now, J \cup NJ, A, W \cup NW, d.overrun)
  BY <1>1, <1>19 DEF FilesAre, Began
<1>21. NJ \cap J = {}
  BY <1>14, <1>16
<1>27. NR \cap R = {} /\ NR \subseteq Whos
  BY <1>13, <1>25
<1>28. Together(d, now, J \cup NJ, A, W \cup NW, R1)
  BY <1>12, <1>13, <1>18, <1>20 DEF Together
<1> QED BY <1>19, <1>21, <1>26, <1>27, <1>28 DEF Joined

(* The jobs of a dispatch, in the order of their calls.                     *)
LEMMA SameCount == \A S : ToolWork!Cardinality(S) = Cardinality(S)
BY Zenon DEF ToolWork!Cardinality, Cardinality

LEMMA InOrderIs ==
    ASSUME NEW n \in Nat, NEW S \in SUBSET (1..n), NEW order \in ToolWork!InOrder(S)
    PROVE  order \in Seq(S) /\ IsInjective(order) /\ Range(order) = S
<1>1. IsFiniteSet(S)
  <2>1. IsFiniteSet(1..n)
    BY FS_Interval
  <2>2. S \subseteq 1..n
    OBVIOUS
  <2> QED BY <2>1, <2>2, FS_Subset
<1>2. PICK m \in Nat : m = Cardinality(S)
  BY <1>1, FS_CardinalityType
<1>3. /\ order \in [1..m -> S] /\ ToolWork!Range(order) = S
      /\ \A i, j \in DOMAIN order : i < j => order[i] < order[j]
  BY <1>2, SameCount DEF ToolWork!InOrder
<1>4. order \in Seq(S) /\ DOMAIN order = 1..m
  BY <1>3, SeqDef
<1>5. ASSUME NEW i \in DOMAIN order, NEW j \in DOMAIN order, order[i] = order[j] PROVE i = j
  <2>1. i \in Nat /\ j \in Nat /\ order[i] \in 1..n /\ order[j] \in 1..n
    <3>1. order[i] \in S /\ order[j] \in S /\ S \subseteq 1..n
      BY <1>3
    <3>2. i \in 1..m /\ j \in 1..m /\ m \in Nat
      BY <1>2, <1>4
    <3>3. order[i] \in 1..n /\ order[j] \in 1..n
      BY <3>1
    <3>4. i \in Nat /\ j \in Nat
      BY <3>2
    <3> QED BY <3>3, <3>4
  <2>2. ~(i < j) /\ ~(j < i)
    <3>1. order[i] \in Int /\ ~(order[i] < order[j]) /\ ~(order[j] < order[i])
      BY <1>5, <2>1
    <3> QED BY <1>3, <3>1
  <2> QED BY <2>1, <2>2
<1>6. Range(order) = S
  BY <1>3 DEF Range, ToolWork!Range
<1> QED BY <1>4, <1>5, <1>6 DEF IsInjective

TheirJobs(c, t, S, starts, begun, order) ==
    /\ order \in Seq(S) /\ IsInjective(order) /\ Range(order) = S
    /\ S = {i \in starts : begun[i].stage = "files"} /\ JobsOf(starts, begun) \subseteq Jobs
    /\ \A i \in S : begun[i].job.who = Name(c, t, i)
JobsInTurn(begun, order) == [i \in DOMAIN order |-> begun[order[i]].job]

LEMMA JobsInOrder ==
    ASSUME NEW c, NEW t, NEW starts, NEW begun, NEW S, NEW order, TheirJobs(c, t, S, starts, begun, order), NEW m,
           m = JobsInTurn(begun, order)
    PROVE  m \in Seq(Jobs) /\ IsInjective(m) /\ Range(m) = JobsOf(starts, begun)
<1>8. PICK NJ : NJ = JobsOf(starts, begun)
  OBVIOUS
<1>9. /\ order \in Seq(S) /\ IsInjective(order) /\ Range(order) = S
      /\ S = {i \in starts : begun[i].stage = "files"} /\ NJ \subseteq Jobs
      /\ \A i \in S : begun[i].job.who = Name(c, t, i)
  BY <1>8 DEF TheirJobs
<1>10. m = [i \in DOMAIN order |-> begun[order[i]].job]
  BY DEF JobsInTurn
<1> USE <1>8, <1>9, <1>10
<1>1. NJ = {begun[i].job : i \in S}
  BY DEF JobsOf
<1>2. \A i \in DOMAIN order : order[i] \in S
  OBVIOUS
<1>3. Len(order) \in Nat /\ DOMAIN order = 1..Len(order) /\ DOMAIN m = DOMAIN order
  OBVIOUS
<1>4. \A i \in DOMAIN m : m[i] = begun[order[i]].job /\ m[i] \in NJ
  BY <1>1, <1>2
<1>5. m \in Seq(Jobs)
  <2>1. m \in [1..Len(order) -> Jobs]
    BY <1>3, <1>4
  <2> QED BY <1>3, <2>1, SeqDef
<1>6. ASSUME NEW i \in DOMAIN m, NEW j \in DOMAIN m, m[i] = m[j] PROVE i = j
  <2>1. Name(c, t, order[i]) = Name(c, t, order[j])
    BY <1>2, <1>3, <1>4, <1>6
  <2>2. order[i] = order[j]
    BY <2>1 DEF Name
  <2> QED BY <1>3, <2>2 DEF IsInjective
<1>7. Range(m) = NJ
  <2>1. \A i \in S : \E k \in DOMAIN order : order[k] = i
    BY DEF Range
  <2>2. \A x \in NJ : \E k \in DOMAIN m : m[k] = x
    BY <1>1, <1>3, <1>4, <2>1
  <2> QED BY <1>4, <2>2 DEF Range
<1> QED BY <1>5, <1>6, <1>7 DEF IsInjective

(* What the step has besides the control: the files, what the file system is *)
(* asked and has answered, what is at work, and the commands.               *)
Dispatching(c, d, t, beside, as1) ==
    /\ t \in Workers /\ t \in c.live
    /\ Whole(c, beside.tree, jobs, as1, beside.work, beside.commands, beside.running)
    /\ c.run = toolRun /\ ToolWork!Dispatch(t, c.turn[t], c.asked[t], beside)
    /\ DOMAIN toolTurn = Workers /\ c.turn = [toolTurn EXCEPT ![t] = c.turn[t]]
    /\ d.run = c.run /\ d.live = c.live /\ d.asked = c.asked /\ d.overrun = c.overrun /\ d.turn = toolTurn'

(* A dispatch keeps all of it (dispatchTools).                              *)
LEMMA DispatchKeeps ==
    ASSUME NEW c, NEW d, NEW t, NEW beside, NEW as1, Dispatching(c, d, t, beside, as1)
    PROVE  Whole(d, tree', jobs', as1, work', commands', running')
<1>1. /\ t \in Workers /\ t \in c.live
      /\ Whole(c, beside.tree, jobs, as1, beside.work, beside.commands, beside.running)
      /\ c.run = toolRun /\ ToolWork!Dispatch(t, c.turn[t], c.asked[t], beside)
      /\ DOMAIN toolTurn = Workers /\ c.turn = [toolTurn EXCEPT ![t] = c.turn[t]]
      /\ d.run = c.run /\ d.live = c.live /\ d.asked = c.asked /\ d.overrun = c.overrun /\ d.turn = toolTurn'
  BY DEF Dispatching
<1>2. PICK todo : todo = c.turn[t]
  OBVIOUS
<1>3. PICK now, J, A, W, R, cs : /\ now = beside.tree /\ J = Range(jobs) /\ A = Range(as1) /\ W = beside.work
                                /\ R = beside.running /\ cs = beside.commands
  OBVIOUS
<1>4. /\ jobs \in Seq(Jobs) /\ IsInjective(jobs) /\ as1 \in Seq(JobAnswers) /\ IsInjective(as1)
      /\ Together(c, now, J, A, W, R) /\ DOMAIN cs = R /\ \A x \in R : cs[x] = x
  BY <1>1, <1>3 DEF Whole
<1>5. TurnsAre(c) /\ now \in Trees /\ RoomsThere(now) /\ R \subseteq Whos
  BY <1>4 DEF Together, FilesAre, AtWorkIs
<1>6. /\ todo \in Seq(Items(t)) /\ Len(todo) \in Nat /\ DOMAIN todo = 1..Len(todo)
      /\ \A i \in DOMAIN todo : todo[i].call \in CallsFor(t)
  <2>1. todo \in Seq(Items(t))
    BY <1>1, <1>2, <1>5 DEF TurnsAre
  <2>2. Len(todo) \in Nat /\ DOMAIN todo = 1..Len(todo) /\ \A i \in DOMAIN todo : todo[i] \in Items(t)
    BY <2>1
  <2> QED BY <2>1, <2>2 DEF Items
<1>7. \A i : [ToolWork!Who(t, i) EXCEPT !.turn = c.asked[t]] = Name(c, t, i)
  BY <1>1 DEF ToolWork!Who, Name
<1>8. PICK begun : begun = [i \in DOMAIN todo |-> ToolWork!Begun(now, Name(c, t, i), todo[i].call)]
  OBVIOUS
<1>9. \A i \in DOMAIN todo : begun[i] = ToolWork!Begun(now, Name(c, t, i), todo[i].call)
  BY <1>8
<1> DEFINE who(i) == [ToolWork!Who(t, i) EXCEPT !.turn = c.asked[t]]
           began(i) == ToolWork!Begun(beside.tree, who(i), c.turn[t][i].call)
<1>10. PICK starts \in SUBSET ToolWork!Waiting(c.turn[t]) :
         LET at(stage1) == {i \in starts : began(i).stage = stage1}
             shells == {who(i) : i \in at("command")}
         IN  /\ ToolWork!Starts(beside.tree, t, c.turn[t], starts)
             /\ toolTurn' = [toolTurn EXCEPT ![t] = [i \in DOMAIN c.turn[t] |->
                                                        [c.turn[t][i] EXCEPT !.started = @ \/ i \in starts]]]
             /\ \E order \in ToolWork!InOrder(at("files")) : jobs' = jobs \o [i \in DOMAIN order |-> began(order[i]).job]
             /\ ToolWork!Leaves([tree |-> beside.tree,
                        work |-> beside.work \cup {[who |-> who(i), stage |-> began(i).stage, call |-> c.turn[t][i].call] :
                                                       i \in starts \ (at("files") \cup at("command"))},
                        commands |-> ToolWork!Remembers(beside.commands, shells),
                        running |-> beside.running \cup shells])
  BY <1>1, Zenon DEF ToolWork!Dispatch
<1>11. \A i \in DOMAIN todo : began(i) = begun[i]
  BY <1>2, <1>3, <1>7, <1>9
<1> HIDE DEF who, began
<1>12. \A i \in starts : began(i) = begun[i] /\ i \in DOMAIN todo /\ who(i) = Name(c, t, i)
  BY <1>2, <1>7, <1>10, <1>11 DEF ToolWork!Waiting, who
<1>13. PICK files, shells : files = {i \in starts : began(i).stage = "files"} /\ shells = {i \in starts : began(i).stage = "command"}
  OBVIOUS
<1>14. /\ ToolWork!Starts(now, t, todo, starts)
       /\ toolTurn' = [toolTurn EXCEPT ![t] = [i \in DOMAIN todo |-> [todo[i] EXCEPT !.started = @ \/ i \in starts]]]
       /\ \E order \in ToolWork!InOrder(files) : jobs' = jobs \o [i \in DOMAIN order |-> began(order[i]).job]
       /\ tree' = now /\ commands' = ToolWork!Remembers(cs, {who(i) : i \in shells}) /\ running' = R \cup {who(i) : i \in shells}
       /\ work' = W \cup {[who |-> who(i), stage |-> began(i).stage, call |-> todo[i].call] : i \in starts \ (files \cup shells)}
  BY <1>2, <1>3, <1>10, <1>13 DEF ToolWork!Leaves
<1>15. AllBegin(now, c, t, starts, begun)
  <2> SUFFICES ASSUME NEW i \in starts PROVE Starting(now, Name(c, t, i), c.turn[t][i].call, begun[i])
    BY DEF AllBegin
  <2>1. i \in DOMAIN todo /\ i \in Nat /\ begun[i] = ToolWork!Begun(now, Name(c, t, i), todo[i].call) /\ todo[i].call \in CallsFor(t)
    BY <1>6, <1>9, <1>12
  <2>2. Name(c, t, i) \in Whos /\ Name(c, t, i).task = t
    BY <1>1, <1>5, <2>1 DEF Name, Whos, TurnsAre
  <2> QED BY <1>2, <1>5, <2>1, <2>2, BegunIs
<1>16. NoneInTheWay(c, t, starts)
  <2>1. starts \subseteq ToolWork!Waiting(c.turn[t]) /\ Busy(c, t) = ToolWork!Unfinished(todo)
    BY <1>2, <1>10 DEF Busy
  <2>2. ASSUME NEW k \in starts, NEW j \in ToolWork!Unfinished(todo) \cup {i \in starts : i < k}
        PROVE  ~ToolWork!Conflict(Reach(t, todo[j].call), Reach(t, todo[k].call))
    <3>1. k \in ToolWork!Waiting(todo)
      BY <1>2, <2>1
    <3>2. ~ToolWork!Conflict(ToolWork!Touches(now, t, todo[j].call), ToolWork!Touches(now, t, todo[k].call))
      BY <1>14, <3>1, <2>2 DEF ToolWork!Starts
    <3> QED BY <1>1, <1>5, <3>2, ReachIs
  <2> QED BY <1>2, <2>1, <2>2 DEF NoneInTheWay
<1>17. Began(c, d, t, starts)
  <2>1. c.turn = [toolTurn EXCEPT ![t] = todo]
    BY <1>1, <1>2
  <2>2. PICK new : new = [i \in DOMAIN todo |-> [todo[i] EXCEPT !.started = @ \/ i \in starts]]
    OBVIOUS
  <2>3. [toolTurn EXCEPT ![t] = new] = [c.turn EXCEPT ![t] = new]
    BY <1>1, <2>1
  <2>4. d.turn = [c.turn EXCEPT ![t] = new]
    BY <1>1, <1>14, <2>2, <2>3
  <2> QED BY <1>1, <1>2, <2>2, <2>4 DEF Began
<1>18. PICK NJ, NW, NR : NJ = JobsOf(starts, begun) /\ NW = WorksOf(c, t, starts, begun) /\ NR = ShellsOf(c, t, starts, begun)
  OBVIOUS
<1>28. Joined(d, now, J, A, W, R, NJ, NW, NR)
  BY <1>1, <1>4, <1>15, <1>16, <1>17, <1>18, CallsJoin
<1>19. /\ Together(d, now, J \cup NJ, A, W \cup NW, R \cup NR) /\ NJ \subseteq Jobs /\ NJ \cap J = {} /\ NR \cap R = {}
       /\ NR \subseteq Whos
  BY <1>28 DEF Joined
<1>20. files = {i \in starts : begun[i].stage = "files"} /\ shells = {i \in starts : begun[i].stage = "command"}
  BY <1>12, <1>13
<1>21. jobs' \in Seq(Jobs) /\ IsInjective(jobs') /\ Range(jobs') = J \cup NJ
  <2>1. PICK order \in ToolWork!InOrder(files) : jobs' = jobs \o [i \in DOMAIN order |-> began(order[i]).job]
    BY <1>14
  <2>2. files \in SUBSET (1..Len(todo))
    BY <1>6, <1>12, <1>20
  <2>3. order \in Seq(files) /\ IsInjective(order) /\ Range(order) = files
    BY <1>6, <2>2, <2>1, InOrderIs
  <2>4. PICK m : m = JobsInTurn(begun, order)
    OBVIOUS
  <2>5. \A i \in DOMAIN order : order[i] \in files /\ began(order[i]) = begun[order[i]]
    BY <1>12, <1>20, <2>3
  <2>6. jobs' = jobs \o m
    BY <2>1, <2>4, <2>5 DEF JobsInTurn
  <2>7. \A i \in files : begun[i].job.who = Name(c, t, i)
    BY <1>15, <1>20 DEF AllBegin, Starting, WorkStages
  <2>8. m \in Seq(Jobs) /\ IsInjective(m) /\ Range(m) = NJ
    <3>1. TheirJobs(c, t, files, starts, begun, order)
      BY <1>18, <1>19, <1>20, <2>3, <2>7 DEF TheirJobs
    <3> QED BY <1>18, <2>4, <3>1, JobsInOrder
  <2>9. Range(jobs) \cap Range(m) = {}
    BY <1>3, <1>19, <2>8
  <2> QED BY <1>3, <1>4, <2>6, <2>8, <2>9, MoreAdded
<1>22. {who(i) : i \in shells} = NR
  BY <1>12, <1>18, <1>20 DEF ShellsOf
<1>23. {[who |-> who(i), stage |-> began(i).stage, call |-> todo[i].call] : i \in starts \ (files \cup shells)} = NW
  <2>1. \A i \in starts : i \in starts \ (files \cup shells) <=> begun[i].stage \in WorkStages
    BY <1>15, <1>20 DEF AllBegin, Starting, WorkStages
  <2>2. PICK others : others = starts \ (files \cup shells)
    OBVIOUS
  <2>3. others = {k \in starts : begun[k].stage \in WorkStages}
    BY <2>1, <2>2
  <2>4. NW = {[who |-> Name(c, t, i), stage |-> begun[i].stage, call |-> todo[i].call] : i \in others}
    BY <1>2, <1>18, <2>3 DEF WorksOf
  <2>5. \A i \in others : [who |-> who(i), stage |-> began(i).stage, call |-> todo[i].call]
                           = [who |-> Name(c, t, i), stage |-> begun[i].stage, call |-> todo[i].call]
    BY <1>12, <2>3
  <2> HIDE DEF who, began
  <2> QED BY <2>2, <2>4, <2>5
<1>24. PICK cs1 : cs1 = ToolWork!Remembers(cs, NR)
  OBVIOUS
<1>25. DOMAIN cs1 = R \cup NR /\ \A x \in R \cup NR : cs1[x] = x
  <2>1. \A x : ToolWork!IdOf(x) = x
    BY DEF ToolWork!IdOf
  <2>2. {ToolWork!IdOf(x) : x \in NR} = NR
    BY <2>1
  <2>3. cs1 = [id \in NR \cup DOMAIN cs |-> IF id \in NR THEN CHOOSE x \in NR : ToolWork!IdOf(x) = id ELSE cs[id]]
    BY <1>24, <2>2 DEF ToolWork!Remembers
  <2>4. \A id \in NR : (CHOOSE x \in NR : ToolWork!IdOf(x) = id) = id
    BY <2>1
  <2> QED BY <1>4, <2>3, <2>4
<1>26. tree' = now /\ commands' = cs1 /\ running' = R \cup NR /\ work' = W \cup NW
  BY <1>14, <1>22, <1>23, <1>24
<1>27. Together(d, tree', Range(jobs'), Range(as1), work', running')
  BY <1>3, <1>19, <1>21, <1>26
<1> QED BY <1>4, <1>21, <1>25, <1>26, <1>27 DEF Whole

(* What is done for x is at work no more (or was given up), and the files    *)
(* may have changed by it.                                                 *)
Leaving(c, now, J, A, W, R, x, new, A1, W1, R1, ov) ==
    /\ Together(c, now, J, A, W, R) /\ x \in Whos
    /\ A1 \subseteq A /\ W1 \subseteq W /\ R1 \subseteq R
    /\ Askers(Errands(J, A, W)) \cup R \subseteq Askers(Errands(J, A1, W1)) \cup R1 \cup {x}
    /\ x \notin R1 /\ (x \in Askers(Errands(J, A1, W1)) => x.task \in ov)
    /\ c.overrun \subseteq ov /\ ov \in SUBSET Workers /\ (~Waits(c, x) => ov = c.overrun)
    /\ FilesAre(new, J, A1, W1, ov)

(* The control when x is answered.                                         *)
AnsweredOf(c, x, ov) ==
    [c EXCEPT !.overrun = ov,
              !.turn = IF Waits(c, x) THEN [c.turn EXCEPT ![x.task] = [c.turn[x.task] EXCEPT ![x.index].finished = TRUE]] ELSE c.turn]
IsControl(c) == c = [run |-> c.run, live |-> c.live, asked |-> c.asked, turn |-> c.turn, overrun |-> c.overrun]

LEMMA AnsweredAre ==
    ASSUME NEW c, IsControl(c), NEW x, NEW ov, NEW d, d = AnsweredOf(c, x, ov)
    PROVE  /\ d.run = c.run /\ d.live = c.live /\ d.asked = c.asked /\ d.overrun = ov
           /\ (Waits(c, x) => d.turn = [c.turn EXCEPT ![x.task] = [c.turn[x.task] EXCEPT ![x.index].finished = TRUE]])
           /\ (~Waits(c, x) => d.turn = c.turn) /\ IsControl(d)
<1>1. PICK new : new = IF Waits(c, x) THEN [c.turn EXCEPT ![x.task] = [c.turn[x.task] EXCEPT ![x.index].finished = TRUE]] ELSE c.turn
  OBVIOUS
<1>2. d = [c EXCEPT !.overrun = ov, !.turn = new]
  BY <1>1 DEF AnsweredOf
<1>3. d.run = c.run /\ d.live = c.live /\ d.asked = c.asked /\ d.overrun = ov /\ d.turn = new
  BY <1>2 DEF IsControl
<1>4. d = [run |-> c.run, live |-> c.live, asked |-> c.asked, turn |-> new, overrun |-> ov]
  BY <1>2 DEF IsControl
<1>5. IsControl(d)
  BY <1>4 DEF IsControl
<1> QED BY <1>1, <1>3, <1>5

(* Who leaves and is waited for is answered, who is not is forgotten.       *)
LEMMA ItsAnswer ==
    ASSUME NEW c, IsControl(c), NEW now, NEW J, NEW A, NEW W, NEW R, NEW x, NEW new, NEW A1, NEW W1, NEW R1, NEW ov,
           Leaving(c, now, J, A, W, R, x, new, A1, W1, R1, ov), NEW d, d = AnsweredOf(c, x, ov)
    PROVE  Together(d, new, J, A1, W1, R1)
<1>1. /\ TurnsAre(c) /\ AtWorkIs(c, Errands(J, A, W), R) /\ Unique(J, A, W)
      /\ x \in Whos /\ A1 \subseteq A /\ W1 \subseteq W /\ R1 \subseteq R
      /\ Askers(Errands(J, A, W)) \cup R \subseteq Askers(Errands(J, A1, W1)) \cup R1 \cup {x}
      /\ x \notin R1 /\ (x \in Askers(Errands(J, A1, W1)) => x.task \in ov)
      /\ c.overrun \subseteq ov /\ ov \in SUBSET Workers /\ (~Waits(c, x) => ov = c.overrun)
      /\ FilesAre(new, J, A1, W1, ov)
  BY DEF Leaving, Together
<1>2. PICK E, E1 : E = Errands(J, A, W) /\ E1 = Errands(J, A1, W1)
  OBVIOUS
<1>3. E1 \in SUBSET E
  BY <1>1, <1>2 DEF Errands
<1>4. /\ d.run = c.run /\ d.live = c.live /\ d.asked = c.asked /\ d.overrun = ov
      /\ (Waits(c, x) => d.turn = [c.turn EXCEPT ![x.task] = [c.turn[x.task] EXCEPT ![x.index].finished = TRUE]])
      /\ (~Waits(c, x) => d.turn = c.turn)
  BY AnsweredAre
<1>5. Unique(J, A1, W1)
  BY <1>1 DEF Unique
<1>6. TurnsAre(d) /\ AtWorkIs(d, E1, R1)
  <2>1. CASE Waits(c, x)
    BY <1>1, <1>2, <1>3, <1>4, <2>1, CallIsAnswered
  <2>2. CASE ~Waits(c, x)
    BY <1>1, <1>2, <1>3, <1>4, <2>2, AnswerIsGone
  <2> QED BY <2>1, <2>2
<1> QED BY <1>1, <1>2, <1>4, <1>5, <1>6 DEF Together

(* The code looks the call up by its identifier: what it finds is the one   *)
(* that waits for x, or none.                                               *)
LEMMA PendingIs ==
    ASSUME NEW x \in Whos
    PROVE  ToolWork!Pending(x) = (IF Waits(Now, x) THEN {x.index} ELSE {})
<1>1. PICK t \in Workers : t = x.task
  BY DEF Whos
<1>2. /\ Waits(Now, x) <=> t \in live /\ x.run = toolRun[t] /\ x.turn = asked[t] /\ x.index \in ToolWork!Unfinished(toolTurn[t])
  BY <1>1 DEF Waits, Busy, Now
<1>3. \A i : ToolWork!IdOf(ToolWork!Who(t, i)) = ToolWork!IdOf(x) <=> x.run = toolRun[t] /\ x.turn = asked[t] /\ x.index = i
  BY <1>1 DEF ToolWork!IdOf, ToolWork!Who, Whos
<1>4. ToolWork!Pending(x) = IF t \in live /\ x.run = toolRun[t]
                            THEN {i \in DOMAIN toolTurn[t] : toolTurn[t][i].started /\ ~toolTurn[t][i].finished
                                      /\ ToolWork!IdOf(ToolWork!Who(t, i)) = ToolWork!IdOf(x)}
                            ELSE {}
  BY <1>1 DEF ToolWork!Pending
<1>5. \A i : i \in ToolWork!Pending(x) <=> Waits(Now, x) /\ i = x.index
  BY <1>2, <1>3, <1>4 DEF ToolWork!Unfinished
<1> QED BY <1>5

(* Whole, with what the step answers x by already gone.                     *)
Completing(d, x, beside, as1, ov) ==
    /\ ToolWork!Complete(x, beside)
    /\ Leaving(Now, tree, Range(jobs), Range(answers), work, running, x, beside.tree, Range(as1), beside.work, beside.running, ov)
    /\ jobs \in Seq(Jobs) /\ IsInjective(jobs) /\ as1 \in Seq(JobAnswers) /\ IsInjective(as1)
    /\ DOMAIN beside.commands = beside.running /\ \A y \in beside.running : beside.commands[y] = y
    /\ IsControl(d) /\ d.run = toolRun /\ d.live = live /\ d.asked = asked /\ d.overrun = ov /\ d.turn = toolTurn'

LEMMA MinOfOne == \A i \in Nat : ToolWork!Min({i}) = i
BY DEF ToolWork!Min

(* An answer keeps all of it, with the dispatch it is followed by           *)
(* (completeToolCall).                                                      *)
LEMMA CompleteKeeps ==
    ASSUME NEW d, NEW x, NEW beside, NEW as1, NEW ov, Completing(d, x, beside, as1, ov)
    PROVE  Whole(d, tree', jobs', as1, work', commands', running')
<1>1. /\ ToolWork!Complete(x, beside)
      /\ Leaving(Now, tree, Range(jobs), Range(answers), work, running, x, beside.tree, Range(as1), beside.work, beside.running, ov)
      /\ jobs \in Seq(Jobs) /\ IsInjective(jobs) /\ as1 \in Seq(JobAnswers) /\ IsInjective(as1)
      /\ DOMAIN beside.commands = beside.running /\ \A y \in beside.running : beside.commands[y] = y
      /\ IsControl(d) /\ d.run = toolRun /\ d.live = live /\ d.asked = asked /\ d.overrun = ov /\ d.turn = toolTurn'
  BY DEF Completing
<1>2. IsControl(Now) /\ Now.run = toolRun /\ Now.live = live /\ Now.asked = asked /\ Now.turn = toolTurn /\ Now.overrun = overrun
  BY DEF IsControl, Now
<1>3. PICK c0 : c0 = AnsweredOf(Now, x, ov)
  OBVIOUS
<1>4. Together(c0, beside.tree, Range(jobs), Range(as1), beside.work, beside.running)
  BY <1>1, <1>2, <1>3, ItsAnswer
<1>5. /\ c0.run = toolRun /\ c0.live = live /\ c0.asked = asked /\ c0.overrun = ov
      /\ (Waits(Now, x) => c0.turn = [toolTurn EXCEPT ![x.task] = [toolTurn[x.task] EXCEPT ![x.index].finished = TRUE]])
      /\ (~Waits(Now, x) => c0.turn = toolTurn) /\ IsControl(c0)
  BY <1>2, <1>3, AnsweredAre
<1>6. x \in Whos /\ DOMAIN toolTurn = Workers
  BY <1>1, <1>2 DEF Leaving, Together, TurnsAre
<1>7. PICK t \in Workers, k \in Nat : t = x.task /\ k = x.index
  BY <1>6 DEF Whos
<1>8. CASE ~Waits(Now, x)
  <2>1. ToolWork!Pending(x) = {}
    BY <1>6, <1>8, PendingIs
  <2>2. toolTurn' = toolTurn /\ jobs' = jobs /\ ToolWork!Leaves(beside)
    BY <1>1, <2>1 DEF ToolWork!Complete
  <2>3. d = c0
    BY <1>1, <1>5, <1>8, <2>2 DEF IsControl
  <2> QED BY <1>1, <1>4, <2>2, <2>3 DEF Whole, ToolWork!Leaves
<1>9. CASE Waits(Now, x)
  <2>1. ToolWork!Pending(x) = {k} /\ {k} # {} /\ ToolWork!Min({k}) = k
    BY <1>6, <1>7, <1>9, PendingIs, MinOfOne
  <2>2. PICK calls1 : calls1 = [toolTurn[t] EXCEPT ![k].finished = TRUE]
    OBVIOUS
  <2>3. t \in live /\ c0.turn = [toolTurn EXCEPT ![t] = calls1] /\ c0.turn[t] = calls1
    BY <1>2, <1>5, <1>6, <1>7, <1>9, <2>2 DEF Waits
  <2>4. IF \A i \in DOMAIN calls1 : calls1[i].finished
        THEN toolTurn' = [toolTurn EXCEPT ![t] = <<>>] /\ ToolWork!Leaves(beside) /\ jobs' = jobs
        ELSE ToolWork!Dispatch(t, calls1, asked[t], beside)
    BY <1>1, <1>7, <2>1, <2>2 DEF ToolWork!Complete
  <2>5. CASE \A i \in DOMAIN calls1 : calls1[i].finished
    <3>1. toolTurn' = [toolTurn EXCEPT ![t] = <<>>] /\ ToolWork!Leaves(beside) /\ jobs' = jobs
      BY <2>4, <2>5
    <3>2. d.turn = [c0.turn EXCEPT ![t] = <<>>]
      BY <1>1, <1>6, <2>3, <3>1
    <3>3. PICK E : E = Errands(Range(jobs), Range(as1), beside.work)
      OBVIOUS
    <3>4. TurnsAre(c0) /\ AtWorkIs(c0, E, beside.running)
      BY <1>4, <3>3 DEF Together
    <3>5. TurnsAre(d) /\ AtWorkIs(d, E, beside.running)
      <4>1. \A i \in DOMAIN c0.turn[t] : c0.turn[t][i].finished
        BY <2>3, <2>5
      <4>2. d.run = c0.run /\ d.live = c0.live /\ d.asked = c0.asked /\ d.overrun = c0.overrun
        BY <1>1, <1>5
      <4>3. PICK R1 : R1 = beside.running
        OBVIOUS
      <4>4. AtWorkIs(c0, E, R1)
        BY <3>4, <4>3
      <4>5. TurnsAre(d) /\ AtWorkIs(d, E, R1)
        BY <3>2, <3>4, <4>1, <4>2, <4>4, TurnIsOver
      <4> QED BY <4>3, <4>5
    <3>6. Together(d, beside.tree, Range(jobs), Range(as1), beside.work, beside.running)
      BY <1>1, <1>4, <1>5, <3>3, <3>5 DEF Together
    <3> QED BY <1>1, <3>1, <3>6 DEF Whole, ToolWork!Leaves
  <2>6. CASE ~\A i \in DOMAIN calls1 : calls1[i].finished
    <3>1. ToolWork!Dispatch(t, c0.turn[t], c0.asked[t], beside)
      BY <1>5, <2>3, <2>4, <2>6
    <3>2. Whole(c0, beside.tree, jobs, as1, beside.work, beside.commands, beside.running)
      BY <1>1, <1>4 DEF Whole
    <3>3. Dispatching(c0, d, t, beside, as1)
      BY <1>1, <1>5, <1>6, <2>3, <3>1, <3>2 DEF Dispatching
    <3> QED BY <3>3, DispatchKeeps
  <2> QED BY <2>5, <2>6
<1> QED BY <1>8, <1>9

(* What leaves when an answer is heard, something else or a command ends, or  *)
(* a call is given up.                                                     *)
LEMMA NotBoth ==
    ASSUME NEW c, NEW E, NEW R, AtWorkIs(c, E, R)
    PROVE  Askers(E) \cap R = {}
BY DEF AtWorkIs, Askers

LEMMA ErrandsOf ==
    ASSUME NEW J, NEW A, NEW W
    PROVE  /\ \A x : x \in Askers(Errands(J, A, W)) <=>
                        (\E j \in J : j.who = x) \/ (\E a \in A : a.job.who = x) \/ (\E e \in W : e.who = x)
<1>1. PICK E : E = Errands(J, A, W)
  OBVIOUS
<1>2. \A j : Errand(j).who = j.who /\ Elsewhere(j).who = j.who
  BY DEF Errand, Elsewhere
<1>3. ASSUME NEW x \in Askers(E)
      PROVE  (\E j \in J : j.who = x) \/ (\E a \in A : a.job.who = x) \/ (\E e \in W : e.who = x)
  <2>1. PICK e \in E : e.who = x
    BY DEF Askers
  <2>2. (\E j \in J : e = Errand(j)) \/ (\E a \in A : e = Errand(a.job)) \/ (\E f \in W : e = Elsewhere(f))
    BY <1>1 DEF Errands
  <2> QED BY <1>2, <2>1, <2>2
<1>4. /\ \A j \in J : Errand(j) \in E
      /\ \A a \in A : Errand(a.job) \in E
      /\ \A e \in W : Elsewhere(e) \in E
  BY <1>1 DEF Errands
<1>5. ASSUME NEW x, (\E j \in J : j.who = x) \/ (\E a \in A : a.job.who = x) \/ (\E e \in W : e.who = x)
      PROVE  x \in Askers(E)
  BY <1>2, <1>4, <1>5 DEF Askers
<1> QED BY <1>1, <1>3, <1>5

(* An answer is heard.                                                      *)
LEMMA AnswerLeaves ==
    ASSUME NEW c, NEW now, NEW J, NEW A, NEW W, NEW R, Together(c, now, J, A, W, R), NEW a \in A, NEW x, x = a.job.who,
           NEW A1, A1 = But(A, a)
    PROVE  Leaving(c, now, J, A, W, R, x, now, A1, W, R, c.overrun)
<1>7. A1 = A \ {a}
  BY DEF But
<1> USE <1>7
<1>1. FilesAre(now, J, A, W, c.overrun) /\ Unique(J, A, W) /\ TurnsAre(c) /\ AtWorkIs(c, Errands(J, A, W), R)
  BY DEF Together
<1>2. a.job \in Jobs /\ x \in Whos
  BY <1>1, JobErrand DEF FilesAre, JobAnswers
<1>3. x \in Askers(Errands(J, A, W)) /\ x \notin R
  BY <1>1, ErrandsOf, NotBoth
<1>4. Askers(Errands(J, A, W)) \subseteq Askers(Errands(J, A1, W)) \cup {x}
  BY ErrandsOf
<1>5. x \notin Askers(Errands(J, A1, W))
  BY <1>1, ErrandsOf DEF Unique
<1>6. FilesAre(now, J, A1, W, c.overrun) /\ c.overrun \in SUBSET Workers /\ A1 \subseteq A
  BY <1>1 DEF FilesAre, TurnsAre
<1> QED BY <1>2, <1>3, <1>4, <1>5, <1>6 DEF Leaving

LEMMA WorkLeaves ==
    ASSUME NEW c, NEW now, NEW J, NEW A, NEW W, NEW R, Together(c, now, J, A, W, R), NEW e \in W, NEW x, x = e.who,
           NEW W1, W1 = But(W, e), NEW new, new = now \/ (new \in Trees /\ \E places : WritesAt(e, places) /\ Disturbs(now, new, places))
    PROVE  Leaving(c, now, J, A, W, R, x, new, A, W1, R, c.overrun)
<1>7. W1 = W \ {e}
  BY DEF But
<1> USE <1>7
<1>1. FilesAre(now, J, A, W, c.overrun) /\ Unique(J, A, W) /\ TurnsAre(c) /\ AtWorkIs(c, Errands(J, A, W), R)
  BY DEF Together
<1>2. e \in Works /\ x \in Whos
  BY <1>1 DEF FilesAre, Works
<1>3. x \in Askers(Errands(J, A, W)) /\ x \notin R
  BY <1>1, ErrandsOf, NotBoth
<1>4. Askers(Errands(J, A, W)) \subseteq Askers(Errands(J, A, W1)) \cup {x}
  BY ErrandsOf
<1>5. x \notin Askers(Errands(J, A, W1))
  BY <1>1, ErrandsOf DEF Unique
<1>6. FilesAre(new, J, A, W1, c.overrun)
  <2>1. CASE new = now
    BY <1>1, <2>1 DEF FilesAre
  <2>2. CASE new \in Trees /\ \E places : WritesAt(e, places) /\ Disturbs(now, new, places)
    <3>1. PICK places : WritesAt(e, places) /\ Disturbs(now, new, places)
      BY <2>2
    <3>2. PICK f : f = Elsewhere(e)
      OBVIOUS
    <3>3. f \in Errands(J, A, W) /\ f.who = x /\ WritesAt(f, places)
      BY <3>1, <3>2 DEF Errands, Elsewhere, WritesAt
    <3>4. /\ RoomsThere(new)
          /\ \A j \in J : j.who # x /\ j.who.task \notin c.overrun => JobHolds(new, j)
          /\ \A a \in A : a.job.who # x /\ a.job.who.task \notin c.overrun => AnswerHolds(new, a)
      BY <2>2, <3>1, <3>3, WriterLeaves
    <3>5. /\ \A j \in J : j.who # x
          /\ \A a \in A : a.job.who # x
      BY <1>1 DEF Unique
    <3> QED BY <1>1, <2>2, <3>4, <3>5 DEF FilesAre
  <2> QED BY <2>1, <2>2
<1> QED BY <1>1, <1>2, <1>3, <1>4, <1>5, <1>6 DEF Leaving, TurnsAre

(* A command has ended.                                                     *)
LEMMA CommandLeaves ==
    ASSUME NEW c, NEW now, NEW J, NEW A, NEW W, NEW R, Together(c, now, J, A, W, R), NEW x \in R, NEW R1, R1 = But(R, x)
    PROVE  Leaving(c, now, J, A, W, R, x, now, A, W, R1, c.overrun)
<1>1. FilesAre(now, J, A, W, c.overrun) /\ TurnsAre(c) /\ AtWorkIs(c, Errands(J, A, W), R)
  BY DEF Together
<1>2. x \in Whos /\ x \notin Askers(Errands(J, A, W)) /\ c.overrun \in SUBSET Workers
  BY <1>1, NotBoth DEF AtWorkIs, TurnsAre
<1> QED BY <1>1, <1>2 DEF Leaving, But

(* A deadline passed: the call is answered, what is at work for it goes on. *)
LEMMA CallIsGivenUp ==
    ASSUME NEW c, NEW now, NEW J, NEW A, NEW W, NEW R, Together(c, now, J, A, W, R), NEW x \in Whos, Waits(c, x),
           c.turn[x.task][x.index].call.tool # "run_command", NEW ov, ov = c.overrun \cup {x.task}
    PROVE  Leaving(c, now, J, A, W, R, x, now, A, W, R, ov)
<1>1. FilesAre(now, J, A, W, c.overrun) /\ TurnsAre(c) /\ AtWorkIs(c, Errands(J, A, W), R)
  BY DEF Together
<1>2. x \notin R /\ ov \in SUBSET Workers /\ c.overrun \subseteq ov
  BY <1>1 DEF AtWorkIs, TurnsAre, Whos
<1>3. FilesAre(now, J, A, W, ov)
  BY <1>1, <1>2 DEF FilesAre
<1> QED BY <1>2, <1>3 DEF Leaving

(* What the skills said where to look is read next.                         *)
LEMMA WorkIsFile ==
    ASSUME NEW c, NEW now, NEW J, NEW A, NEW W, NEW R, Together(c, now, J, A, W, R), NEW e \in W,
           e.call.tool \in {"read_skill", "read_skill_file"},
           NEW job, job = ToolWork!Job(e.who, e.call, "read", e.call.path, e.call.path, {}), NEW W1, W1 = But(W, e)
    PROVE  Together(c, now, And(J, job), A, W1, R) /\ job \in Jobs /\ job \notin J
<1>12. W1 = W \ {e}
  BY DEF But
<1> USE <1>12
<1>1. FilesAre(now, J, A, W, c.overrun) /\ Unique(J, A, W) /\ TurnsAre(c) /\ AtWorkIs(c, Errands(J, A, W), R)
  BY DEF Together
<1>2. PICK f : f = Elsewhere(e)
  OBVIOUS
<1>3. f \in Errands(J, A, W) /\ f.who = e.who /\ f.call = e.call
  BY <1>2 DEF Errands, Elsewhere
<1>4. e.who \in Whos /\ e.call \in CallsFor(e.who.task) /\ e.call \in CallSet /\ CallOf(e.call) = e.call /\ e.call.path \in Paths
  <2>1. e.who \in Whos /\ e.call \in CallsFor(e.who.task)
    BY <1>1, <1>3 DEF AtWorkIs
  <2>2. e.call \in CallSet /\ e.call.seen = {}
    BY <2>1 DEF CallsFor
  <2> QED BY <2>1, <2>2, CallOfIs DEF CallSet
<1>5. /\ job.who = e.who /\ job.why = e.call /\ job.op = "read" /\ job.path = e.call.path /\ job.to = e.call.path
      /\ job \in [who : Whos, why : CallSet, op : Ops, path : Paths, to : Paths, text : SUBSET STRING]
  BY <1>4 DEF ToolWork!Job, Ops
<1>6. job \in Jobs /\ JobHolds(now, job)
  BY <1>4, <1>5 DEF Jobs, JobHolds
<1>7. Errand(job) = Elsewhere(e)
  BY <1>4, <1>5 DEF Errand, Elsewhere
<1>8. Errands(J \cup {job}, A, W1) = Errands(J, A, W)
  BY <1>7 DEF Errands
<1>9. job \notin J
  BY <1>1, <1>5 DEF Unique
<1>10. Unique(J \cup {job}, A, W1)
  <2> USE <1>1, <1>5
  <2>1. \A j, k \in J \cup {job} : j.who = k.who => j = k
    BY DEF Unique
  <2>2. \A g, h \in W1 : g.who = h.who => g = h
    BY DEF Unique
  <2>3. \A j \in J \cup {job}, a \in A : j.who # a.job.who
    BY DEF Unique
  <2>4. \A j \in J \cup {job}, g \in W1 : j.who # g.who
    BY DEF Unique
  <2>5. \A a \in A, g \in W1 : a.job.who # g.who
    BY DEF Unique
  <2> QED BY <2>1, <2>2, <2>3, <2>4, <2>5 DEF Unique
<1>11. FilesAre(now, J \cup {job}, A, W1, c.overrun)
  BY <1>1, <1>6 DEF FilesAre
<1> QED BY <1>1, <1>6, <1>8, <1>9, <1>10, <1>11 DEF Together, And

(* What came over the network is decoded.                                   *)
LEMMA WorkIsDecoded ==
    ASSUME NEW c, NEW now, NEW J, NEW A, NEW W, NEW R, Together(c, now, J, A, W, R), NEW e \in W,
           e.stage = "network", NEW f, f = [e EXCEPT !.stage = "decoding"], NEW W1, W1 = And(But(W, e), f)
    PROVE  Together(c, now, J, A, W1, R)
<1>9. W1 = (W \ {e}) \cup {f}
  BY DEF But, And
<1> USE <1>9
<1>1. FilesAre(now, J, A, W, c.overrun) /\ Unique(J, A, W) /\ TurnsAre(c) /\ AtWorkIs(c, Errands(J, A, W), R)
  BY DEF Together
<1>2. e \in Works /\ e \in [who : Whos, stage : WorkStages, call : CallSet]
  BY <1>1 DEF FilesAre, Works
<1>3. f \in [who : Whos, stage : WorkStages, call : CallSet] /\ f.who = e.who /\ f.call = e.call /\ f.stage = "decoding"
  BY <1>2 DEF WorkStages
<1>4. f \in Works
  BY <1>2, <1>3 DEF Works
<1>5. Elsewhere(f) = Elsewhere(e)
  BY <1>3 DEF Elsewhere
<1>6. Errands(J, A, W1) = Errands(J, A, W)
  BY <1>5 DEF Errands
<1>7. Unique(J, A, W1)
  <2> USE <1>1, <1>3
  <2>2. \A g, h \in W1 : g.who = h.who => g = h
    BY DEF Unique
  <2>4. \A j \in J, g \in W1 : j.who # g.who
    BY DEF Unique
  <2>5. \A a \in A, g \in W1 : a.job.who # g.who
    BY DEF Unique
  <2> QED BY <2>2, <2>4, <2>5 DEF Unique
<1>8. FilesAre(now, J, A, W1, c.overrun)
  BY <1>1, <1>4 DEF FilesAre
<1> QED BY <1>1, <1>6, <1>7, <1>8 DEF Together

-----------------------------------------------------------------------------
(* Every step keeps the invariant, action by action.                        *)

(* What a step leaves is the invariant of what it leaves.                   *)
ToolRest(d) == IsControl(d) /\ d.run = toolRun' /\ d.live = live' /\ d.asked = asked' /\ d.turn = toolTurn' /\ d.overrun = overrun'

LEMMA ThenIs ==
    ASSUME NEW d, d = Now'
    PROVE  /\ ToolRest(d)
           /\ Whole(d, tree', jobs', answers', work', commands', running') => ToolInv'
<1>1. ToolRest(d)
  BY DEF ToolRest, IsControl, Now
<1>2. ToolInv' = Whole(d, tree', jobs', answers', work', commands', running')
  BY DEF ToolInv
<1> QED BY <1>1, <1>2

LEMMA NowIs ==
    /\ IsControl(Now) /\ Now.run = toolRun /\ Now.live = live /\ Now.asked = asked /\ Now.turn = toolTurn /\ Now.overrun = overrun
    /\ ToolInv => /\ jobs \in Seq(Jobs) /\ IsInjective(jobs) /\ answers \in Seq(JobAnswers) /\ IsInjective(answers)
                  /\ Together(Now, tree, Range(jobs), Range(answers), work, running) /\ DOMAIN toolTurn = Workers
                  /\ DOMAIN commands = running /\ (\A x \in running : commands[x] = x)
                  /\ running \subseteq Whos
<1>1. IsControl(Now) /\ Now.run = toolRun /\ Now.live = live /\ Now.asked = asked /\ Now.turn = toolTurn /\ Now.overrun = overrun
  BY DEF IsControl, Now
<1>2. ASSUME ToolInv
      PROVE  /\ jobs \in Seq(Jobs) /\ IsInjective(jobs) /\ answers \in Seq(JobAnswers) /\ IsInjective(answers)
             /\ Together(Now, tree, Range(jobs), Range(answers), work, running)
             /\ DOMAIN commands = running /\ (\A x \in running : commands[x] = x)
  BY <1>2 DEF ToolInv, Whole
<1>3. ASSUME ToolInv PROVE DOMAIN toolTurn = Workers /\ running \subseteq Whos
  BY <1>1, <1>2, <1>3 DEF Together, TurnsAre, AtWorkIs
<1> QED BY <1>1, <1>2, <1>3

(* The file system does the first job of its queue.                         *)
LEMMA RunJobKeeps == ToolInv /\ ToolWork!RunJob /\ UNCHANGED ToolWork!toolVars => ToolInv'
<1> SUFFICES ASSUME ToolInv, ToolWork!RunJob, UNCHANGED ToolWork!toolVars PROVE ToolInv'
  OBVIOUS
<1>1. PICK d : d = Now'
  OBVIOUS
<1>2. PICK J, A : J = Range(jobs) /\ A = Range(answers)
  OBVIOUS
<1>3. /\ jobs \in Seq(Jobs) /\ IsInjective(jobs) /\ answers \in Seq(JobAnswers) /\ IsInjective(answers)
      /\ Together(Now, tree, J, A, work, running) /\ DOMAIN commands = running /\ (\A x \in running : commands[x] = x)
  BY <1>2, NowIs
<1>4. /\ work' = work /\ commands' = commands /\ running' = running /\ toolRun' = toolRun /\ live' = live /\ asked' = asked
      /\ toolTurn' = toolTurn /\ overrun' = overrun
  BY DEF ToolWork!toolVars
<1>5. jobs # <<>> /\ jobs' = Tail(jobs)
  BY DEF ToolWork!RunJob
<1>6. PICK o \in ToolWork!Outcomes(tree, Head(jobs)) :
          tree' = o.tree /\ answers' = Append(answers, [job |-> Head(jobs), ok |-> o.ok, text |-> o.text])
  BY DEF ToolWork!RunJob
<1>7. PICK answer : answer = [job |-> Head(jobs), ok |-> o.ok, text |-> o.text]
  OBVIOUS
<1>8. Head(jobs) \in J /\ jobs' \in Seq(Jobs) /\ IsInjective(jobs') /\ Range(jobs') = J \ {Head(jobs)}
  BY <1>2, <1>3, <1>5, HeadIsGone
<1>9. Together(Now, o.tree, J \ {Head(jobs)}, A \cup {answer}, work, running) /\ answer \in JobAnswers /\ answer \notin A
  <2>1. PICK job : job = Head(jobs)
    OBVIOUS
  <2>2. PICK now, W, R : now = tree /\ W = work /\ R = running
    OBVIOUS
  <2>3. job \in J /\ o \in ToolWork!Outcomes(now, job) /\ answer = [job |-> job, ok |-> o.ok, text |-> o.text]
    BY <1>6, <1>7, <1>8, <2>1, <2>2
  <2>4. Together(Now, now, J, A, W, R)
    BY <1>3, <2>2
  <2>5. Together(Now, o.tree, But(J, job), And(A, answer), W, R)
    BY <2>3, <2>4, JobIsDone
  <2>6. answer \in JobAnswers
    BY <2>3, <2>4, JobIsDone
  <2>7. answer \notin A
    BY <2>3, <2>4, JobIsDone
  <2> QED BY <2>1, <2>2, <2>5, <2>6, <2>7 DEF But, And
<1>10. answers' \in Seq(JobAnswers) /\ IsInjective(answers') /\ Range(answers') = A \cup {answer}
  BY <1>2, <1>3, <1>6, <1>7, <1>9, OneAdded
<1>11. d = Now
  BY <1>1, <1>4 DEF Now
<1>12. Whole(d, tree', jobs', answers', work', commands', running')
  BY <1>3, <1>4, <1>6, <1>8, <1>9, <1>10, <1>11 DEF Whole
<1> QED BY <1>1, <1>12, ThenIs

(* A run begins.                                                            *)
LEMMA StartRunKeeps == \A t \in Workers : ToolInv /\ ToolWork!StartRun(t) => ToolInv'
<1> SUFFICES ASSUME NEW t \in Workers, ToolInv, ToolWork!StartRun(t) PROVE ToolInv'
  OBVIOUS
<1>1. PICK d : d = Now'
  OBVIOUS
<1>2. PICK E : E = Errands(Range(jobs), Range(answers), work)
  OBVIOUS
<1>3. TurnsAre(Now) /\ AtWorkIs(Now, E, running)
  BY <1>2, NowIs DEF Together
<1>4. /\ t \notin live /\ toolRun' = [toolRun EXCEPT ![t] = @ + 1] /\ live' = live \cup {t}
      /\ tree' = tree /\ jobs' = jobs /\ answers' = answers /\ asked' = asked /\ toolTurn' = toolTurn /\ work' = work
      /\ commands' = commands /\ running' = running /\ overrun' = overrun
  BY DEF ToolWork!StartRun
<1>5. TurnsAre(d) /\ AtWorkIs(d, E, running)
  <2>1. /\ d.run = [Now.run EXCEPT ![t] = @ + 1] /\ d.live = Now.live \cup {t} /\ d.asked = Now.asked
        /\ d.overrun = Now.overrun /\ d.turn = Now.turn /\ t \notin Now.live
    BY <1>1, <1>4, NowIs, ThenIs DEF ToolRest
  <2>2. PICK R : R = running
    OBVIOUS
  <2>3. TurnsAre(d) /\ AtWorkIs(d, E, R)
    BY <1>3, <2>1, <2>2, RunBegins
  <2> QED BY <2>2, <2>3
<1>6. Together(d, tree, Range(jobs), Range(answers), work, running)
  BY <1>1, <1>2, <1>4, <1>5, NowIs, ThenIs DEF Together, ToolRest
<1>7. Whole(d, tree', jobs', answers', work', commands', running')
  BY <1>4, <1>6, NowIs DEF Whole
<1> QED BY <1>1, <1>7, ThenIs

(* A model asks for the tools of a turn.                                    *)
LEMMA AskForToolsKeeps == \A t \in Workers : \A q \in ToolTurns[t] : ToolInv /\ ToolWork!AskForTools(t, q) => ToolInv'
<1> SUFFICES ASSUME NEW t \in Workers, NEW q \in ToolTurns[t], ToolInv, ToolWork!AskForTools(t, q) PROVE ToolInv'
  OBVIOUS
<1>1. PICK d : d = Now'
  OBVIOUS
<1>2. PICK E : E = Errands(Range(jobs), Range(answers), work)
  OBVIOUS
<1>3. TurnsAre(Now) /\ AtWorkIs(Now, E, running)
  BY <1>2, NowIs DEF Together
<1>4. PICK fresh : fresh = [i \in DOMAIN q |-> [call |-> q[i], started |-> FALSE, finished |-> FALSE]]
  OBVIOUS
<1>5. /\ t \in live /\ toolTurn[t] = <<>> /\ asked' = [asked EXCEPT ![t] = @ + 1]
      /\ ToolWork!Dispatch(t, fresh, asked[t] + 1, ToolWork!Beside)
      /\ answers' = answers /\ toolRun' = toolRun /\ live' = live /\ overrun' = overrun
  BY <1>4 DEF ToolWork!AskForTools
<1>6. PICK c : c = [run |-> toolRun, live |-> live, asked |-> asked', turn |-> [toolTurn EXCEPT ![t] = fresh], overrun |-> overrun]
  OBVIOUS
<1>7. /\ c.run = toolRun /\ c.live = live /\ c.asked = asked' /\ c.turn = [toolTurn EXCEPT ![t] = fresh] /\ c.overrun = overrun
      /\ DOMAIN toolTurn = Workers /\ c.turn[t] = fresh /\ c.asked[t] = asked[t] + 1
  BY <1>3, <1>5, <1>6, NowIs DEF TurnsAre
<1>8. PICK R : R = running
  OBVIOUS
<1>9. q \in Seq(CallsFor(t))
  BY ToolsAssumption DEF Workers
<1>10. TurnsAre(c) /\ AtWorkIs(c, E, R)
  <2>1. /\ c.run = Now.run /\ c.live = Now.live /\ c.overrun = Now.overrun /\ c.asked = [Now.asked EXCEPT ![t] = @ + 1]
        /\ c.turn = [Now.turn EXCEPT ![t] = [i \in DOMAIN q |-> [call |-> q[i], started |-> FALSE, finished |-> FALSE]]]
        /\ t \in Now.live /\ Now.turn[t] = <<>> /\ AtWorkIs(Now, E, R)
    BY <1>3, <1>4, <1>5, <1>7, <1>8, NowIs
  <2> QED BY <1>3, <1>9, <2>1, TurnIsAsked
<1>11. PICK b : b = ToolWork!Beside
  OBVIOUS
<1>12. b.tree = tree /\ b.work = work /\ b.commands = commands /\ b.running = running
  BY <1>11 DEF ToolWork!Beside
<1>13. Whole(c, b.tree, jobs, answers, b.work, b.commands, b.running)
  <2>1. Together(c, tree, Range(jobs), Range(answers), work, running)
    BY <1>2, <1>7, <1>8, <1>10, NowIs DEF Together
  <2> QED BY <1>12, <2>1, NowIs DEF Whole
<1>14. Dispatching(c, d, t, b, answers)
  BY <1>1, <1>5, <1>7, <1>11, <1>13, ThenIs DEF Dispatching, ToolRest
<1>15. PICK as1 : as1 = answers
  OBVIOUS
<1>16. Dispatching(c, d, t, b, as1)
  BY <1>14, <1>15
<1>17. Whole(d, tree', jobs', as1, work', commands', running')
  BY <1>16, DispatchKeeps
<1> QED BY <1>1, <1>5, <1>15, <1>17, ThenIs

(* The answer of the file system is heard: an edit goes on, others are      *)
(* answered.                                                                *)
LEMMA HearKeeps == ToolInv /\ ToolWork!Hear => ToolInv'
<1> SUFFICES ASSUME ToolInv, ToolWork!Hear PROVE ToolInv'
  OBVIOUS
<1>1. PICK d : d = Now'
  OBVIOUS
<1>2. PICK J, A : J = Range(jobs) /\ A = Range(answers)
  OBVIOUS
<1>3. /\ jobs \in Seq(Jobs) /\ IsInjective(jobs) /\ answers \in Seq(JobAnswers) /\ IsInjective(answers)
      /\ Together(Now, tree, J, A, work, running) /\ DOMAIN commands = running /\ (\A x \in running : commands[x] = x)
  BY <1>2, NowIs
<1>4. /\ answers # <<>> /\ answers' = Tail(answers) /\ toolRun' = toolRun /\ live' = live /\ asked' = asked /\ overrun' = overrun
      /\ ToolWork!ApplyEdit(Head(answers)) \/ ToolWork!Complete(Head(answers).job.who, ToolWork!Beside)
  BY DEF ToolWork!Hear
<1>5. PICK a, as1 : a = Head(answers) /\ as1 = Tail(answers)
  OBVIOUS
<1>6. a \in A /\ as1 \in Seq(JobAnswers) /\ IsInjective(as1) /\ Range(as1) = But(A, a)
  BY <1>2, <1>3, <1>4, <1>5, HeadIsGone DEF But
<1>7. a.job \in Jobs /\ a.text \in SUBSET STRING
  BY <1>3, <1>6 DEF Together, FilesAre, JobAnswers
<1>8. ToolRest(d)
  BY <1>1, ThenIs
<1>9. CASE ToolWork!ApplyEdit(a)
  <2>1. PICK text : text = (a.text \ {a.job.why.old}) \cup {a.job.why.new}
    OBVIOUS
  <2>2. PICK job : job = EditOf(a, text)
    OBVIOUS
  <2>3. /\ a.ok /\ a.job.op = "read" /\ a.job.why.tool = "edit_file" /\ jobs' = Append(jobs, job)
        /\ tree' = tree /\ toolTurn' = toolTurn /\ work' = work /\ commands' = commands /\ running' = running
    BY <1>9, <2>1, <2>2 DEF EditOf, ToolWork!ApplyEdit
  <2>4. text \in SUBSET STRING
    BY <1>7, <2>1 DEF Jobs, CallSet
  <2>5. PICK now, W, R : now = tree /\ W = work /\ R = running
    OBVIOUS
  <2>6. Together(Now, now, J, A, W, R)
    BY <1>3, <2>5
  <2>7. Together(Now, now, And(J, job), But(A, a), W, R) /\ job \in Jobs /\ job \notin J
    BY <1>6, <2>2, <2>3, <2>4, <2>6, EditIsWritten
  <2>8. jobs' \in Seq(Jobs) /\ IsInjective(jobs') /\ Range(jobs') = And(J, job)
    BY <1>2, <1>3, <2>3, <2>7, OneAdded DEF And
  <2>9. d = Now
    <3>1. d = [run |-> toolRun', live |-> live', asked |-> asked', turn |-> toolTurn', overrun |-> overrun']
      BY <1>1 DEF Now
    <3> QED BY <1>4, <2>3, <3>1 DEF Now
  <2>10. Whole(d, tree', jobs', answers', work', commands', running')
    BY <1>3, <1>4, <1>5, <1>6, <2>3, <2>5, <2>7, <2>8, <2>9 DEF Whole
  <2> QED BY <1>1, <2>10, ThenIs
<1>10. CASE ToolWork!Complete(a.job.who, ToolWork!Beside)
  <2>1. PICK x, b : x = a.job.who /\ b = ToolWork!Beside
    OBVIOUS
  <2>2. b.tree = tree /\ b.work = work /\ b.commands = commands /\ b.running = running
    BY <2>1 DEF ToolWork!Beside
  <2>3. PICK now, W, R, A1 : now = tree /\ W = work /\ R = running /\ A1 = But(A, a)
    OBVIOUS
  <2>4. Leaving(Now, now, J, A, W, R, x, now, A1, W, R, Now.overrun)
    BY <1>3, <1>6, <2>1, <2>3, AnswerLeaves
  <2>5. Leaving(Now, tree, Range(jobs), Range(answers), work, running, x, b.tree, Range(as1), b.work, b.running, overrun)
    BY <1>2, <1>6, <2>2, <2>3, <2>4, NowIs
  <2>6. Completing(d, x, b, as1, overrun)
    BY <1>3, <1>4, <1>6, <1>8, <1>10, <2>1, <2>2, <2>5 DEF Completing, ToolRest
  <2>7. Whole(d, tree', jobs', as1, work', commands', running')
    BY <2>6, CompleteKeeps
  <2> QED BY <1>1, <1>4, <1>5, <2>7, ThenIs
<1> QED BY <1>4, <1>5, <1>9, <1>10

(* A command ends.                                                          *)
LEMMA CommandEndsKeeps == \A x \in running : ToolInv /\ ToolWork!CommandEnds(x) => ToolInv'
<1> SUFFICES ASSUME NEW x \in running, ToolInv, ToolWork!CommandEnds(x) PROVE ToolInv'
  OBVIOUS
<1>1. PICK d : d = Now'
  OBVIOUS
<1>2. PICK J, A, now, W, R : J = Range(jobs) /\ A = Range(answers) /\ now = tree /\ W = work /\ R = running
  OBVIOUS
<1>3. PICK b : b = [ToolWork!Beside EXCEPT !.commands = ToolWork!Forgets(@, {ToolWork!IdOf(x)}), !.running = @ \ {x}]
  OBVIOUS
<1>4. /\ ToolWork!Complete(x, b) /\ answers' = answers /\ toolRun' = toolRun /\ live' = live /\ asked' = asked /\ overrun' = overrun
  BY <1>3 DEF ToolWork!CommandEnds
<1>5. /\ b.tree = tree /\ b.work = work /\ b.commands = ToolWork!Forgets(commands, {x}) /\ b.running = But(R, x)
  BY <1>2, <1>3 DEF ToolWork!Beside, ToolWork!IdOf, But
<1>6. DOMAIN b.commands = b.running /\ \A y \in b.running : b.commands[y] = y
  BY <1>2, <1>5, NowIs DEF ToolWork!Forgets, But
<1>7. PICK R1 : R1 = But(R, x)
  OBVIOUS
<1>8. Leaving(Now, now, J, A, W, R, x, now, A, W, R1, Now.overrun)
  BY <1>2, <1>7, NowIs, CommandLeaves
<1>9. Leaving(Now, tree, Range(jobs), Range(answers), work, running, x, b.tree, Range(answers), b.work, b.running, overrun)
  BY <1>2, <1>5, <1>7, <1>8, NowIs
<1>10. PICK as1 : as1 = answers
  OBVIOUS
<1>11. Completing(d, x, b, as1, overrun)
  BY <1>1, <1>4, <1>6, <1>9, <1>10, NowIs, ThenIs DEF Completing, ToolRest
<1>12. Whole(d, tree', jobs', as1, work', commands', running')
  BY <1>11, CompleteKeeps
<1> QED BY <1>1, <1>4, <1>10, <1>12, ThenIs

(* A deadline passes.                                                       *)
LEMMA DeadlineKeeps == \A t \in Workers : \A i \in DOMAIN toolTurn[t] : ToolInv /\ ToolWork!Deadline(t, i) => ToolInv'
<1> SUFFICES ASSUME NEW t \in Workers, NEW i \in DOMAIN toolTurn[t], ToolInv, ToolWork!Deadline(t, i) PROVE ToolInv'
  OBVIOUS
<1>1. PICK d : d = Now'
  OBVIOUS
<1>2. PICK J, A, now, W, R : J = Range(jobs) /\ A = Range(answers) /\ now = tree /\ W = work /\ R = running
  OBVIOUS
<1>3. PICK x, b, ov : x = ToolWork!Who(t, i) /\ b = ToolWork!Beside /\ ov = overrun \cup {t}
  OBVIOUS
<1>4. /\ t \in live /\ toolTurn[t][i].started /\ ~toolTurn[t][i].finished /\ toolTurn[t][i].call.tool # "run_command"
      /\ ToolWork!Complete(x, b) /\ answers' = answers /\ toolRun' = toolRun /\ live' = live /\ asked' = asked /\ overrun' = ov
  BY <1>3 DEF ToolWork!Deadline
<1>5. /\ b.tree = tree /\ b.work = work /\ b.commands = commands /\ b.running = running
  BY <1>3 DEF ToolWork!Beside
<1>6. /\ x.task = t /\ x.run = toolRun[t] /\ x.turn = asked[t] /\ x.index = i
  BY <1>3 DEF ToolWork!Who
<1>7. x \in Whos
  <2>1. TurnsAre(Now) /\ toolTurn[t] \in Seq(Items(t))
    BY NowIs DEF Together, TurnsAre
  <2>2. toolRun[t] \in Nat /\ asked[t] \in Nat /\ i \in Nat
    BY <2>1, NowIs DEF TurnsAre
  <2> QED BY <1>3, <2>2 DEF ToolWork!Who, Whos
<1>8. Waits(Now, x) /\ Now.turn[x.task][x.index].call.tool # "run_command"
  BY <1>4, <1>6, NowIs DEF Waits, Busy, ToolWork!Unfinished
<1>9. Leaving(Now, now, J, A, W, R, x, now, A, W, R, ov)
  BY <1>2, <1>3, <1>6, <1>7, <1>8, NowIs, CallIsGivenUp
<1>10. PICK as1 : as1 = answers
  OBVIOUS
<1>11. Completing(d, x, b, as1, ov)
  BY <1>1, <1>2, <1>4, <1>5, <1>9, <1>10, NowIs, ThenIs DEF Completing, ToolRest
<1>12. Whole(d, tree', jobs', as1, work', commands', running')
  BY <1>11, CompleteKeeps
<1> QED BY <1>1, <1>4, <1>10, <1>12, ThenIs

(* Something else than the file system answers, having perhaps written a    *)
(* file.                                                                    *)
LEMMA WorkAnswers ==
    ASSUME ToolInv, NEW e \in work, NEW b, ToolWork!Complete(e.who, b), NEW new, b.tree = new, b.work = But(work, e),
           b.commands = commands, b.running = running,
           new = tree \/ (new \in Trees /\ \E places : WritesAt(e, places) /\ Disturbs(tree, new, places)),
           answers' = answers, toolRun' = toolRun, live' = live, asked' = asked, overrun' = overrun
    PROVE  ToolInv'
<1>1. PICK d : d = Now'
  OBVIOUS
<1>2. PICK J, A, now, W, R : J = Range(jobs) /\ A = Range(answers) /\ now = tree /\ W = work /\ R = running
  OBVIOUS
<1>3. PICK x, W1 : x = e.who /\ W1 = But(W, e)
  OBVIOUS
<1>4. Leaving(Now, now, J, A, W, R, x, new, A, W1, R, Now.overrun)
  <2>1. Together(Now, now, J, A, W, R) /\ e \in W
    BY <1>2, NowIs
  <2>2. new = now \/ (new \in Trees /\ \E places : WritesAt(e, places) /\ Disturbs(now, new, places))
    BY <1>2
  <2> QED BY <1>3, <2>1, <2>2, WorkLeaves
<1>5. Leaving(Now, tree, Range(jobs), Range(answers), work, running, x, b.tree, Range(answers), b.work, b.running, overrun)
  BY <1>2, <1>3, <1>4, NowIs
<1>6. PICK as1 : as1 = answers
  OBVIOUS
<1>7. Completing(d, x, b, as1, overrun)
  BY <1>1, <1>3, <1>5, <1>6, NowIs, ThenIs DEF Completing, ToolRest
<1>8. Whole(d, tree', jobs', as1, work', commands', running')
  BY <1>7, CompleteKeeps
<1> QED BY <1>1, <1>6, <1>8, ThenIs

LEMMA GeneratedLeaves ==
    ASSUME tree \in Trees, NEW e \in Works, e.stage \in {"network", "decoding"}, e.call.tool \in {"generate_image", "generate_speech"},
           NEW o \in ToolWork!Generated(e.call.path, {e.call.new})
    PROVE  o.tree \in Trees /\ \E places : WritesAt(e, places) /\ Disturbs(tree, o.tree, places)
<1>1. e.call.path \in Paths /\ {e.call.new} \in SUBSET STRING /\ InRoom(e.who.task, e.call.path)
  BY DEF Works, CallSet
<1>2. PICK p \in Paths, text \in SUBSET STRING : p = e.call.path /\ text = {e.call.new}
  BY <1>1
<1>3. o \in Made(tree, {p})
  BY <1>2, GeneratedIsMade
<1>4. o.tree \in Trees /\ Disturbs(tree, o.tree, {p})
  BY <1>3 DEF Made
<1>5. PICK places : places = {p}
  OBVIOUS
<1>6. WritesAt(e, places)
  BY <1>1, <1>2, <1>5 DEF WritesAt, ToolWork!Writing
<1> QED BY <1>4, <1>5, <1>6

(* Whatever else was at work for a call ends, or goes on to its next stage. *)
LEMMA WorkEndsKeeps == \A e \in work : ToolInv /\ ToolWork!WorkEnds(e) => ToolInv'
<1> SUFFICES ASSUME NEW e \in work, ToolInv, ToolWork!WorkEnds(e) PROVE ToolInv'
  OBVIOUS
<1>1. PICK d : d = Now'
  OBVIOUS
<1>2. PICK J, A, now, W, R : J = Range(jobs) /\ A = Range(answers) /\ now = tree /\ W = work /\ R = running
  OBVIOUS
<1>3. PICK rest : rest = [ToolWork!Beside EXCEPT !.work = @ \ {e}]
  OBVIOUS
<1>4. rest.tree = tree /\ rest.work = But(work, e) /\ rest.commands = commands /\ rest.running = running
  BY <1>3 DEF ToolWork!Beside, But
<1>5. /\ answers' = answers /\ toolRun' = toolRun /\ live' = live /\ asked' = asked /\ overrun' = overrun
  BY DEF ToolWork!WorkEnds
<1>6. \/ ToolWork!Complete(e.who, rest)
      \/ /\ e.call.tool \in {"read_skill", "read_skill_file"}
         /\ ToolWork!Leaves(rest)
         /\ jobs' = Append(jobs, ToolWork!Job(e.who, e.call, "read", e.call.path, e.call.path, {}))
         /\ toolTurn' = toolTurn
      \/ /\ e.stage = "network"
         /\ ToolWork!Leaves([rest EXCEPT !.work = @ \cup {[e EXCEPT !.stage = "decoding"]}])
         /\ toolTurn' = toolTurn /\ jobs' = jobs
      \/ /\ e.stage \in {"network", "decoding"} /\ e.call.tool \in {"generate_image", "generate_speech"}
         /\ \E o \in ToolWork!Generated(e.call.path, {e.call.new}) : ToolWork!Complete(e.who, [rest EXCEPT !.tree = o.tree])
  BY <1>3 DEF ToolWork!WorkEnds
<1>7. Together(Now, now, J, A, W, R) /\ e \in W
  BY <1>2, NowIs
<1>8. ToolRest(d)
  BY <1>1, ThenIs
<1>9. e \in Works /\ tree \in Trees
  BY <1>2, <1>7 DEF Together, FilesAre
<1>10. CASE ToolWork!Complete(e.who, rest)
  <2>1. PICK new : new = tree
    OBVIOUS
  <2> QED BY <1>4, <1>5, <1>10, <2>1, WorkAnswers
<1>11. CASE /\ e.call.tool \in {"read_skill", "read_skill_file"}
            /\ ToolWork!Leaves(rest)
            /\ jobs' = Append(jobs, ToolWork!Job(e.who, e.call, "read", e.call.path, e.call.path, {}))
            /\ toolTurn' = toolTurn
  <2>1. PICK job, W1 : job = ToolWork!Job(e.who, e.call, "read", e.call.path, e.call.path, {}) /\ W1 = But(W, e)
    OBVIOUS
  <2>2. Together(Now, now, And(J, job), A, W1, R) /\ job \in Jobs /\ job \notin J
    BY <1>7, <1>11, <2>1, WorkIsFile
  <2>3. jobs' \in Seq(Jobs) /\ IsInjective(jobs') /\ Range(jobs') = And(J, job)
    BY <1>2, <1>11, <2>1, <2>2, NowIs, OneAdded DEF And
  <2>4. tree' = now /\ work' = W1 /\ commands' = commands /\ running' = R
    BY <1>2, <1>4, <1>11, <2>1 DEF ToolWork!Leaves
  <2>5. d = Now
    <3>1. d = [run |-> toolRun', live |-> live', asked |-> asked', turn |-> toolTurn', overrun |-> overrun']
      BY <1>1 DEF Now
    <3> QED BY <1>5, <1>11, <3>1 DEF Now
  <2>6. Whole(d, tree', jobs', answers', work', commands', running')
    BY <1>2, <1>5, <2>2, <2>3, <2>4, <2>5, NowIs DEF Whole
  <2> QED BY <1>1, <2>6, ThenIs
<1>12. CASE /\ e.stage = "network"
            /\ ToolWork!Leaves([rest EXCEPT !.work = @ \cup {[e EXCEPT !.stage = "decoding"]}])
            /\ toolTurn' = toolTurn /\ jobs' = jobs
  <2>1. PICK f, W1 : f = [e EXCEPT !.stage = "decoding"] /\ W1 = And(But(W, e), f)
    OBVIOUS
  <2>2. Together(Now, now, J, A, W1, R)
    BY <1>7, <1>12, <2>1, WorkIsDecoded
  <2>3. PICK b : b = [rest EXCEPT !.work = @ \cup {f}]
    OBVIOUS
  <2>4. b.tree = now /\ b.work = W1 /\ b.commands = commands /\ b.running = R
    BY <1>2, <1>3, <1>4, <2>1, <2>3 DEF ToolWork!Beside, And
  <2>5. tree' = now /\ work' = W1 /\ commands' = commands /\ running' = R
    BY <1>12, <2>1, <2>3, <2>4 DEF ToolWork!Leaves
  <2>6. d = Now
    <3>1. d = [run |-> toolRun', live |-> live', asked |-> asked', turn |-> toolTurn', overrun |-> overrun']
      BY <1>1 DEF Now
    <3> QED BY <1>5, <1>12, <3>1 DEF Now
  <2>7. Whole(d, tree', jobs', answers', work', commands', running')
    BY <1>2, <1>5, <1>12, <2>2, <2>5, <2>6, NowIs DEF Whole
  <2> QED BY <1>1, <2>7, ThenIs
<1>13. CASE /\ e.stage \in {"network", "decoding"} /\ e.call.tool \in {"generate_image", "generate_speech"}
            /\ \E o \in ToolWork!Generated(e.call.path, {e.call.new}) : ToolWork!Complete(e.who, [rest EXCEPT !.tree = o.tree])
  <2>1. PICK o \in ToolWork!Generated(e.call.path, {e.call.new}) : ToolWork!Complete(e.who, [rest EXCEPT !.tree = o.tree])
    BY <1>13
  <2>2. PICK b, new : b = [rest EXCEPT !.tree = o.tree] /\ new = o.tree
    OBVIOUS
  <2>3. new \in Trees /\ \E places : WritesAt(e, places) /\ Disturbs(tree, new, places)
    BY <1>9, <1>13, <2>1, <2>2, GeneratedLeaves
  <2>4. b.tree = new /\ b.work = But(work, e) /\ b.commands = commands /\ b.running = running
    BY <1>3, <1>4, <2>2 DEF ToolWork!Beside
  <2> QED BY <1>5, <2>1, <2>2, <2>3, <2>4, WorkAnswers
<1> QED BY <1>6, <1>10, <1>11, <1>12, <1>13

(* A run ends.                                                              *)
LEMMA EndRunKeeps == \A t \in Workers : ToolInv /\ ToolWork!EndRun(t) => ToolInv'
<1> SUFFICES ASSUME NEW t \in Workers, ToolInv, ToolWork!EndRun(t) PROVE ToolInv'
  OBVIOUS
<1>1. PICK d : d = Now'
  OBVIOUS
<1>2. PICK E, R, R1 : E = Errands(Range(jobs), Range(answers), work) /\ R = running /\ R1 = {x \in R : x.task # t}
  OBVIOUS
<1>3. TurnsAre(Now) /\ AtWorkIs(Now, E, R)
  BY <1>2, NowIs DEF Together
<1>4. PICK ids : ids = {ToolWork!IdOf(ToolWork!Who(t, i)) : i \in {j \in DOMAIN toolTurn[t] : toolTurn[t][j].started /\ ~toolTurn[t][j].finished}}
  OBVIOUS
<1>5. PICK stopped : stopped = ToolWork!Stopped(ids)
  OBVIOUS
<1>6. PICK more : more = {[who |-> x, stage |-> "answered", call |-> ToolWork!Call("run_command", Rooms[x.task])] :
                              x \in {y \in stopped : y.task # t}}
  OBVIOUS
<1>7. PICK b : b = [ToolWork!Beside EXCEPT !.work = @ \cup more, !.commands = ToolWork!Forgets(@, ids), !.running = @ \ stopped]
  OBVIOUS
<1>8. /\ live' = live \ {t} /\ toolTurn' = [toolTurn EXCEPT ![t] = <<>>] /\ ToolWork!Leaves(b)
      /\ overrun' = IF toolTurn[t] = <<>> THEN overrun ELSE overrun \cup {t}
      /\ jobs' = jobs /\ answers' = answers /\ toolRun' = toolRun /\ asked' = asked
  BY <1>4, <1>5, <1>6, <1>7 DEF ToolWork!EndRun
<1>9. \A x : x \in ids <=> \E i \in Busy(Now, t) : x = Name(Now, t, i)
  <2>1. \A i : ToolWork!IdOf(ToolWork!Who(t, i)) = Name(Now, t, i)
    BY NowIs DEF ToolWork!IdOf, ToolWork!Who, Name
  <2>2. Busy(Now, t) = {j \in DOMAIN toolTurn[t] : toolTurn[t][j].started /\ ~toolTurn[t][j].finished}
    BY NowIs DEF Busy, ToolWork!Unfinished
  <2> QED BY <1>4, <2>1, <2>2
<1>10. \A x \in R : x \in ids <=> x.task = t
  <2> SUFFICES ASSUME NEW x \in R PROVE x \in ids <=> x.task = t
    OBVIOUS
  <2>1. x \in Whos /\ Waits(Now, x)
    BY <1>3 DEF AtWorkIs
  <2>2. x \in ids => x.task = t
    BY <1>9 DEF Name
  <2>3. ASSUME x.task = t PROVE x \in ids
    <3>1. x = Name(Now, t, x.index) /\ x.index \in Busy(Now, t)
      BY <2>1, <2>3 DEF Waits, Name, Whos
    <3> QED BY <1>9, <3>1
  <2> QED BY <2>2, <2>3
<1>11. DOMAIN commands = R /\ \A x \in R : commands[x] = x
  BY <1>2, NowIs
<1>12. \A x : x \in stopped <=> x \in ids /\ x \in R
  BY <1>5, <1>11 DEF ToolWork!Stopped
<1>13. stopped = R \ R1 /\ \A x \in stopped : x.task = t
  BY <1>2, <1>10, <1>12
<1>14. more = {}
  BY <1>6, <1>13
<1>15. tree' = tree /\ work' = work /\ running' = R1 /\ commands' = ToolWork!Forgets(commands, ids)
  <2>1. ToolWork!Beside.tree = tree /\ ToolWork!Beside.work = work /\ ToolWork!Beside.running = running /\ ToolWork!Beside.commands = commands
    BY DEF ToolWork!Beside
  <2>2. b.tree = tree /\ b.work = work \cup more /\ b.running = running \ stopped /\ b.commands = ToolWork!Forgets(commands, ids)
    BY <1>7, <2>1 DEF ToolWork!Beside
  <2>3. running \ stopped = R1
    BY <1>2, <1>13
  <2> QED BY <1>8, <1>14, <2>2, <2>3 DEF ToolWork!Leaves
<1>16. DOMAIN commands' = R1 /\ \A x \in R1 : commands'[x] = x
  BY <1>2, <1>10, <1>11, <1>15 DEF ToolWork!Forgets
<1>17. TurnsAre(d) /\ AtWorkIs(d, E, R1)
  <2>1. /\ d.run = Now.run /\ d.live = Now.live \ {t} /\ d.asked = Now.asked /\ d.turn = [Now.turn EXCEPT ![t] = <<>>]
        /\ d.overrun = IF Now.turn[t] = <<>> THEN Now.overrun ELSE Now.overrun \cup {t}
    BY <1>1, <1>8, NowIs, ThenIs DEF ToolRest
  <2>2. TurnsAre(d) /\ AtWorkIs(d, E, OfOthers(R, t))
    BY <1>3, <2>1, RunIsOver
  <2>3. R1 = OfOthers(R, t)
    BY <1>2 DEF OfOthers
  <2> QED BY <2>2, <2>3
<1>18. FilesAre(tree, Range(jobs), Range(answers), work, d.overrun)
  <2>1. FilesAre(tree, Range(jobs), Range(answers), work, overrun)
    BY NowIs DEF Together
  <2>2. overrun \subseteq d.overrun
    BY <1>1, <1>8, ThenIs DEF ToolRest
  <2> QED BY <2>1, <2>2 DEF FilesAre
<1>19. Together(d, tree, Range(jobs), Range(answers), work, R1)
  BY <1>2, <1>17, <1>18, NowIs DEF Together
<1>20. Whole(d, tree', jobs', answers', work', commands', running')
  BY <1>8, <1>15, <1>16, <1>19, NowIs DEF Whole
<1> QED BY <1>1, <1>20, ThenIs

(* At first there are the rooms and a file.                                 *)
LEMMA FirstFiles ==
    ASSUME ToolWork!ToolsInit
    PROVE  tree \in Trees /\ RoomsThere(tree)
<1>1. tree = [p \in Paths |-> IF \E t \in Workers : ToolWork!IsPrefix(p, Rooms[t]) THEN ToolWork!Directory
                              ELSE IF p = <<"w", "f">> THEN ToolWork!File({"x"}) ELSE ToolWork!Absent]
  BY DEF ToolWork!ToolsInit, Workers
<1>2. tree = [p \in Paths |-> IF \E t \in Workers : IsPrefix(p, Rooms[t]) THEN Directory
                              ELSE IF p = <<"w", "f">> THEN File({"x"}) ELSE Absent]
  BY <1>1, SameFiles
<1>3. \A p \in Paths : tree[p] = IF \E t \in Workers : IsPrefix(p, Rooms[t]) THEN Directory
                              ELSE IF p = <<"w", "f">> THEN File({"x"}) ELSE Absent
  BY <1>2
<1>4. RoomsThere(tree)
  BY <1>3, RoomIs, PathIs, PrefixOfItself DEF RoomsThere
<1>5. tree \in [Paths -> Entry]
  <2>7. "x" \in STRING
    BY ToolsAssumption
  <2>4. {"x"} \in SUBSET STRING
    <3>1. \A e \in {"x"} : e = "x"
      OBVIOUS
    <3> QED BY <2>7, <3>1
  <2>5. \A text \in SUBSET STRING : File(text) \in Entry
    BY DEF Entry
  <2>6. Directory \in Entry /\ Absent \in Entry
    BY DEF Entry
  <2>1. Directory \in Entry /\ File({"x"}) \in Entry /\ Absent \in Entry
    BY <2>4, <2>5, <2>6
  <2>2. ASSUME NEW p \in Paths PROVE tree[p] \in {Directory, File({"x"}), Absent}
    <3>1. CASE \E t \in Workers : IsPrefix(p, Rooms[t])
      BY <1>3, <3>1
    <3>2. CASE ~(\E t \in Workers : IsPrefix(p, Rooms[t])) /\ p = <<"w", "f">>
      <4>1. tree[p] = File({"x"})
        BY <1>3, <3>2
      <4> QED BY <4>1
    <3>3. CASE ~(\E t \in Workers : IsPrefix(p, Rooms[t])) /\ p # <<"w", "f">>
      <4>1. tree[p] = Absent
        BY <1>3, <3>3
      <4> QED BY <4>1
    <3> QED BY <3>1, <3>2, <3>3
  <2>3. \A p \in Paths : tree[p] \in Entry
    BY <2>1, <2>2
  <2> QED BY <1>2, <2>3
<1>6. ASSUME NEW p \in Paths, Exists(tree, p), NEW q \in Above(p) PROVE tree[q].kind = "directory"
  <2>1. q \in Paths /\ IsPrefix(q, p) /\ q \in Seq(STRING) /\ p \in Seq(STRING)
    BY PathIs DEF Above, IsStrictPrefix
  <2>2. \E t \in Workers : IsPrefix(q, Rooms[t])
    <3>1. CASE \E t \in Workers : IsPrefix(p, Rooms[t])
      BY <2>1, <3>1, RoomIs, PathIs, PrefixOfPrefix
    <3>2. CASE p = <<"w", "f">>
      <4>1. q # <<"w", "f">> /\ q \in Seq(STRING) /\ IsPrefix(q, <<"w", "f">>)
        BY <2>1, <3>2 DEF Above, IsStrictPrefix
      <4>7. <<"w", "f">> \in Seq(STRING)
        BY <2>1, <3>2
      <4>8. Len(<<"w", "f">>) = 2 /\ Len(<<"w">>) = 1
        OBVIOUS
      <4>9. <<"w", "f">>[1] = "w" /\ <<"w">>[1] = "w"
        OBVIOUS
      <4>10. <<"w">> \in Seq(STRING)
        BY RoomIs, PathIs DEF Workers
      <4>2. <<"w", "f">> \in Seq(STRING) /\ Len(<<"w", "f">>) = 2 /\ <<"w">> \in Seq(STRING) /\ Len(<<"w">>) = 1
            /\ <<"w", "f">>[1] = "w" /\ <<"w">>[1] = "w"
        BY <4>7, <4>8, <4>9, <4>10
      <4>3. Len(q) <= 2 /\ \A i \in 1..Len(q) : q[i] = <<"w", "f">>[i]
        BY <4>1, <4>2, PrefixIs
      <4>4. Len(q) # 2
        BY <4>1, <4>2, <4>3, SeqEqual
      <4>5. Len(q) <= 1 /\ \A i \in 1..Len(q) : q[i] = <<"w">>[i]
        BY <4>1, <4>2, <4>3, <4>4
      <4>6. IsPrefix(q, <<"w">>)
        BY <4>1, <4>2, <4>5, PrefixIs
      <4> QED BY <4>6, RoomIs DEF Workers
    <3> QED BY <1>3, <1>6, <3>1, <3>2, EntryIs DEF Exists
  <2> QED BY <1>3, <2>1, <2>2, EntryIs
<1>7. tree \in Trees
  BY <1>5, <1>6 DEF Trees, IsTree
<1> QED BY <1>4, <1>7

LEMMA FirstTools == ToolWork!ToolsInit => ToolInv
<1> SUFFICES ASSUME ToolWork!ToolsInit PROVE ToolInv
  OBVIOUS
<1>1. tree \in Trees /\ RoomsThere(tree)
  BY FirstFiles
<1>2. /\ jobs = <<>> /\ answers = <<>> /\ work = {} /\ commands = <<>> /\ running = {}
      /\ toolRun = [t \in Workers |-> 0] /\ live = {} /\ asked = [t \in Workers |-> 0]
      /\ toolTurn = [t \in Workers |-> <<>>] /\ overrun = {}
  BY DEF ToolWork!ToolsInit, Workers
<1>3. Range(jobs) = {} /\ Range(answers) = {} /\ IsInjective(jobs) /\ IsInjective(answers)
      /\ jobs \in Seq(Jobs) /\ answers \in Seq(JobAnswers) /\ DOMAIN commands = {}
  BY <1>2 DEF Range, IsInjective
<1>4. Errands({}, {}, {}) = {} /\ Askers({}) = {}
  BY DEF Errands, Askers
<1>5. \A t \in Workers : toolTurn[t] = <<>> /\ toolTurn[t] \in Seq(Items(t)) /\ DOMAIN toolTurn[t] = {} /\ Busy(Now, t) = {}
  BY <1>2, NowIs DEF Busy, ToolWork!Unfinished
<1>6. TurnsAre(Now)
  <2>1. toolRun \in [Workers -> Nat] /\ asked \in [Workers -> Nat] /\ DOMAIN toolTurn = Workers
    BY <1>2
  <2> QED BY <1>2, <1>5, <2>1, NowIs DEF TurnsAre
<1>7. AtWorkIs(Now, {}, {})
  BY <1>4, <1>5 DEF AtWorkIs
<1>8. Unique({}, {}, {})
  BY DEF Unique
<1>9. FilesAre(tree, {}, {}, {}, Now.overrun)
  BY <1>1 DEF FilesAre
<1>10. Together(Now, tree, {}, {}, {}, {})
  BY <1>4, <1>6, <1>7, <1>8, <1>9 DEF Together
<1> QED BY <1>2, <1>3, <1>10 DEF ToolInv, Whole

LEMMA ToolsKeep == ToolInv /\ (ToolWork!ToolsNext \/ UNCHANGED toolVars) => ToolInv'
<1>1. ToolInv /\ ToolWork!ToolsNext => ToolInv'
  BY RunJobKeeps, StartRunKeeps, AskForToolsKeeps, HearKeeps, CommandEndsKeeps, DeadlineKeeps, WorkEndsKeeps, EndRunKeeps
  DEF ToolWork!ToolsNext, Workers
<1>2. ToolInv /\ UNCHANGED toolVars => ToolInv'
  <2> SUFFICES ASSUME ToolInv, UNCHANGED toolVars PROVE ToolInv'
    OBVIOUS
  <2>1. /\ tree' = tree /\ jobs' = jobs /\ answers' = answers /\ toolRun' = toolRun /\ live' = live /\ asked' = asked
        /\ toolTurn' = toolTurn /\ work' = work /\ commands' = commands /\ running' = running /\ overrun' = overrun
    BY DEF toolVars, fileVars
  <2>2. PICK d : d = Now'
    OBVIOUS
  <2>3. d = [run |-> toolRun', live |-> live', asked |-> asked', turn |-> toolTurn', overrun |-> overrun']
    BY <2>2 DEF Now
  <2>4. d = Now
    BY <2>1, <2>3 DEF Now
  <2>5. Whole(d, tree', jobs', answers', work', commands', running')
    BY <2>1, <2>4 DEF ToolInv
  <2> QED BY <2>2, <2>5, ThenIs
<1> QED BY <1>1, <1>2

-----------------------------------------------------------------------------
(* What the invariant promises.                                             *)

(* Commands end with their run (CommandsEndWithTheirRun).                   *)
LEMMA CommandsAreTheirs == ToolInv => ToolWork!CommandsEndWithTheirRun
BY NowIs DEF ToolWork!CommandsEndWithTheirRun, Together, AtWorkIs, Waits

(* What a tool was shown holds when it writes (WhatWasSeenStillHolds).      *)
LEMMA SeenIsThere == ToolInv => ToolWork!WhatWasSeenStillHolds
<1> SUFFICES ASSUME ToolInv, jobs # <<>>, Head(jobs).who.task \notin overrun
             PROVE  /\ Head(jobs).op = "write" /\ Head(jobs).why.tool = "edit_file" =>
                           tree[Head(jobs).path] = ToolWork!File(Head(jobs).why.seen)
                    /\ Head(jobs).op = "empty" /\ ~Head(jobs).why.all =>
                           \A q \in ToolWork!Below(Head(jobs).path) : ~ToolWork!Exists(tree, q)
  BY DEF ToolWork!WhatWasSeenStillHolds
<1>1. PICK j : j = Head(jobs)
  OBVIOUS
<1>2. j \in Range(jobs)
  BY <1>1, NowIs, HeadIsGone
<1>3. JobHolds(tree, j)
  BY <1>1, <1>2, NowIs DEF Together, FilesAre
<1>4. j.op = "write" /\ j.why.tool = "edit_file" => tree[j.path] = ToolWork!File(j.why.seen)
  BY <1>3, SameFiles DEF JobHolds
<1>5. j.op = "empty" /\ ~j.why.all => \A q \in ToolWork!Below(j.path) : ~ToolWork!Exists(tree, q)
  BY <1>3, SameFiles DEF JobHolds
<1> QED BY <1>1, <1>4, <1>5

LEMMA AskersAtWork ==
    \A x \in Askers(Errands(Range(jobs), Range(answers), work)) \cup running : x \in ToolWork!AtWork
<1> SUFFICES ASSUME NEW x \in Askers(Errands(Range(jobs), Range(answers), work)) \cup running PROVE x \in ToolWork!AtWork
  OBVIOUS
<1>1. CASE x \in running
  BY <1>1 DEF ToolWork!AtWork
<1>2. CASE x \in Askers(Errands(Range(jobs), Range(answers), work))
  <2>1. PICK e \in Errands(Range(jobs), Range(answers), work) : x = e.who
    BY <1>2 DEF Askers
  <2>2. CASE \E j \in Range(jobs) : e = Errand(j)
    <3>1. PICK i \in DOMAIN jobs : e = Errand(jobs[i])
      BY <2>2 DEF Range
    <3>2. x = jobs[i].who
      BY <2>1, <3>1 DEF Errand
    <3> QED BY <3>2 DEF ToolWork!AtWork
  <2>3. CASE \E a \in Range(answers) : e = Errand(a.job)
    <3>1. PICK i \in DOMAIN answers : e = Errand(answers[i].job)
      BY <2>3 DEF Range
    <3>2. x = answers[i].job.who
      BY <2>1, <3>1 DEF Errand
    <3> QED BY <3>2 DEF ToolWork!AtWork
  <2>4. CASE \E o \in work : e = Elsewhere(o)
    <3>1. PICK o \in work : e = Elsewhere(o)
      BY <2>4
    <3>2. x = o.who
      BY <2>1, <3>1 DEF Elsewhere
    <3> QED BY <3>2 DEF ToolWork!AtWork
  <2> QED BY <2>2, <2>3, <2>4 DEF Errands
<1> QED BY <1>1, <1>2

(* The files are a tree, and every call that is waited for is at work       *)
(* (ToolsTypeOK).                                                           *)
LEMMA ToolsAreTyped == ToolInv => ToolWork!ToolsTypeOK
<1> SUFFICES ASSUME ToolInv PROVE ToolWork!ToolsTypeOK
  OBVIOUS
<1>1. TurnsAre(Now) /\ AtWorkIs(Now, Errands(Range(jobs), Range(answers), work), running) /\ tree \in Trees
  BY NowIs DEF Together, FilesAre
<1>2. ToolWork!IsTree(tree)
  BY <1>1, SameFiles DEF Trees
<1>3. live \subseteq Workers
  BY <1>1, NowIs DEF TurnsAre
<1>4. ASSUME NEW t \in Workers, NEW i \in DOMAIN toolTurn[t], toolTurn[t][i].started, ~toolTurn[t][i].finished
      PROVE  ToolWork!Who(t, i) \in ToolWork!AtWork
  <2>1. i \in Busy(Now, t)
    BY <1>4, NowIs DEF Busy, ToolWork!Unfinished
  <2>2. Name(Now, t, i) \in ToolWork!AtWork
    BY <1>1, <2>1, AskersAtWork DEF AtWorkIs
  <2>3. ToolWork!Who(t, i) = Name(Now, t, i)
    BY NowIs DEF ToolWork!Who, Name
  <2> QED BY <2>2, <2>3
<1> QED BY <1>2, <1>3, <1>4 DEF ToolWork!ToolsTypeOK, Workers

=============================================================================
