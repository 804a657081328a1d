--------------------------- MODULE FileSystemService ---------------------------
(***************************************************************************)
(* The one thread that reads and writes files (FileSystemService.cpp): what *)
(* it is asked is done in the order asked, and answered to whoever asked.   *)
(*                                                                         *)
(* A path is the sequence of names below one directory, <<>> being that     *)
(* directory; a file holds a set of passages.  The disk may refuse anything *)
(* at any time.  There are no links.                                       *)
(***************************************************************************)
EXTENDS Naturals, FiniteSets, SequencesExt

CONSTANT
    Paths       \* the paths there may be something at, with those above them

VARIABLES
    tree,       \* what is at each path
    jobs,       \* what the pool has not done yet
    answers     \* what it has, on its way to who asked

ASSUME PathsAssumption ==
    /\ Paths \subseteq Seq(STRING) /\ <<>> \in Paths
    /\ \A p \in Paths : \A n \in 0..Len(p) : SubSeq(p, 1, n) \in Paths

Absent == [kind |-> "absent", text |-> {}]
Directory == [kind |-> "directory", text |-> {}]
File(text) == [kind |-> "file", text |-> text]

Above(p) == {q \in Paths : IsStrictPrefix(q, p)}
Below(p) == {q \in Paths : IsStrictPrefix(p, q)}
Exists(t, p) == t[p].kind # "absent"

Without(t, S) == [p \in Paths |-> IF p \in S THEN Absent ELSE t[p]]

-----------------------------------------------------------------------------
(* What a job makes of a tree t: the outcomes it may have.                  *)
Outcome(t, ok, text) == [tree |-> t, ok |-> ok, text |-> text]
Refused(t) == {Outcome(t, FALSE, {})}
MayBe(t, new, text) == {Outcome(new, TRUE, text)} \cup Refused(t)

ReadFile(t, p) == IF t[p].kind = "file" THEN MayBe(t, t, t[p].text) ELSE Refused(t)

ListDirectory(t, p) == IF t[p].kind = "directory" THEN MayBe(t, t, {}) ELSE Refused(t)

(* mkpath: every level that is missing is made, unless a file stands in the *)
(* way.                                                                    *)
Blocked(t, p) == \E q \in Above(p) : t[q].kind = "file"
WithLevels(t, S) == [p \in Paths |-> IF p \in S /\ ~Exists(t, p) THEN Directory ELSE t[p]]

\* Mutant of WriteFile: the directory of a new file is not made.
WriteFileBare(t, p, text) ==
    IF t[p].kind = "directory" \/ Blocked(t, p) THEN Refused(t) ELSE MayBe(t, [t EXCEPT ![p] = File(text)], {})

(* writeFileNow: all of the file, or nothing of it; the directories it made *)
(* stay.                                                                   *)
WriteFile(t, p, text) ==
    LET levels == WithLevels(t, Above(p)) IN
    IF t[p].kind = "directory" \/ Blocked(t, p) THEN Refused(t)
    ELSE MayBe(levels, [levels EXCEPT ![p] = File(text)], {}) \cup Refused(t)

CreateDirectory(t, p) ==
    IF Exists(t, p) \/ Blocked(t, p) THEN Refused(t) ELSE MayBe(t, WithLevels(t, Above(p) \cup {p}), {})

(* validateNewEntry: nothing is there, and a directory to put it in.        *)
NewEntry(t, p) == p # <<>> /\ ~Exists(t, p) /\ t[Front(p)].kind = "directory"

CreateFile(t, p) == IF NewEntry(t, p) THEN MayBe(t, [t EXCEPT ![p] = File({})], {}) ELSE Refused(t)

(* Paths that have no counterpart below the destination do not fit in the   *)
(* bound, and are lost to the model.                                       *)
MovePath(t, from, to) ==
    IF \/ ~Exists(t, from) \/ from = to \/ ~NewEntry(t, to)
       \/ t[from].kind = "directory" /\ IsStrictPrefix(from, to)
    THEN Refused(t)
    ELSE LET source(p) == from \o SubSeq(p, Len(to) + 1, Len(p)) IN
         MayBe(t, [p \in Paths |->
             IF p \in {to} \cup Below(to) THEN (IF source(p) \in Paths THEN t[source(p)] ELSE Absent)
             ELSE IF p \in {from} \cup Below(from) THEN Absent ELSE t[p]], {})

CopyFile(t, from, to) ==
    IF t[from].kind = "file" /\ NewEntry(t, to) THEN MayBe(t, [t EXCEPT ![to] = t[from]], {}) ELSE Refused(t)

RemoveFile(t, p) == IF t[p].kind = "file" THEN MayBe(t, Without(t, {p}), {}) ELSE Refused(t)

(* removeRecursively goes on past what it cannot remove: when it fails, a   *)
(* part of what was below is gone, never a directory and not what is in it. *)
RemoveDirectory(t, p) ==
    LET parts == {S \in SUBSET Below(p) : \A q \in S : Below(q) \subseteq S} IN
    IF t[p].kind # "directory" THEN Refused(t)
    ELSE {Outcome(Without(t, Below(p) \cup {p}), TRUE, {})} \cup {Outcome(Without(t, S), FALSE, {}) : S \in parts}

-----------------------------------------------------------------------------
(* A job: who asked and what for, what is done, and the passages written.   *)
Job(who, why, op, path, to, text) ==
    [who |-> who, why |-> why, op |-> op, path |-> path, to |-> to, text |-> text]

Outcomes(t, job) ==
    CASE job.op = "read"      -> ReadFile(t, job.path)
      [] job.op = "list"      -> ListDirectory(t, job.path)
      [] job.op = "write"     -> WriteFile(t, job.path, job.text)
      [] job.op = "create"    -> CreateFile(t, job.path)
      [] job.op = "directory" -> CreateDirectory(t, job.path)
      [] job.op = "move"      -> MovePath(t, job.path, job.to)
      [] job.op = "copy"      -> CopyFile(t, job.path, job.to)
      [] job.op = "remove"    -> RemoveFile(t, job.path)
      [] job.op = "empty"     -> RemoveDirectory(t, job.path)

(* The pool has one thread: the jobs are done one at a time, in order.      *)
RunJob ==
    /\ jobs # <<>>
    /\ jobs' = Tail(jobs)
    /\ \E outcome \in Outcomes(tree, Head(jobs)) :
           /\ tree' = outcome.tree
           /\ answers' = Append(answers, [job |-> Head(jobs), ok |-> outcome.ok, text |-> outcome.text])

(* What is there stands in a directory, all the way up.                     *)
IsTree(t) == \A p \in Paths : Exists(t, p) => \A q \in Above(p) : t[q].kind = "directory"
=============================================================================
