----------------------------- MODULE SkillCatalog -----------------------------
(***************************************************************************)
(* The skills a working directory and the machine offer to an agent         *)
(* (ai/AiSkillCatalog.cpp, and the tools that read them): the places they   *)
(* may be in are read one after the other, each entry of a place in its     *)
(* turn, and what was found is kept.                                       *)
(*                                                                         *)
(* An entry is a file, the name it has and the name it declares.  It may    *)
(* change, or go, at any time.                                             *)
(***************************************************************************)
EXTENDS Naturals, SequencesExt

CONSTANTS
    Workdirs,       \* the working directories of tasks
    Places,         \* the directories that may hold skills
    RootsOf,        \* those of a working directory, in their order
    Entries,        \* what there may be in a place
    MaxAsks,        \* bound: times the skills are asked for
    MaxChanges      \* bound: changes of what the places hold

VARIABLES
    disk,           \* what each place holds
    changes,        \* history: changes so far
    cache,          \* m_cached, m_scannedWorkdir, m_cacheValid, and how old it is
    scans,          \* the scans under way, each for who asked
    asks,           \* history: who asked, and the changes there had been
    given           \* history: what each was answered

skillVars == <<disk, changes, cache, scans, asks, given>>

NoCache == [valid |-> FALSE, workdir |-> "", found |-> <<>>, since |-> 0]

SkillsInit ==
    /\ disk \in [Places -> {{}, Entries}]
    /\ changes = 0 /\ cache = NoCache /\ scans = <<>> /\ asks = <<>> /\ given = <<>>

Scanning == {n \in DOMAIN scans : scans[n] # <<>>}

Told(n, found, since) == [ask |-> n, found |-> found, since |-> since]

\* Mutant of Discover: what is kept is given for any directory.
DiscoverAny(w, starts) ==
    LET n == Len(asks) + 1 IN
    /\ n <= MaxAsks
    /\ asks' = Append(asks, [workdir |-> w, starts |-> starts, changes |-> changes])
    /\ IF cache.valid
       THEN scans' = Append(scans, <<>>) /\ given' = Append(given, Told(n, cache.found, cache.since))
       ELSE scans' = Append(scans, <<[root |-> 1, entries |-> {}, listed |-> FALSE, found |-> <<>>, since |-> changes]>>)
            /\ UNCHANGED given
    /\ UNCHANGED <<disk, changes, cache>>

(* discover, by a run that starts or by a tool (listSkills, searchSkills):  *)
(* what is kept, when it is of this directory.                             *)
Discover(w, starts) ==
    LET n == Len(asks) + 1 IN
    /\ n <= MaxAsks
    /\ asks' = Append(asks, [workdir |-> w, starts |-> starts, changes |-> changes])
    /\ IF cache.valid /\ cache.workdir = w
       THEN scans' = Append(scans, <<>>) /\ given' = Append(given, Told(n, cache.found, cache.since))
       ELSE scans' = Append(scans, <<[root |-> 1, entries |-> {}, listed |-> FALSE, found |-> <<>>, since |-> changes]>>)
            /\ UNCHANGED given
    /\ UNCHANGED <<disk, changes, cache>>

Scan(n) == scans[n][1]
Roots(n) == RootsOf[asks[n].workdir]

(* scanRoot: the place is listed; one that is not there has nothing.        *)
ListRoot(n) ==
    LET scan == Scan(n) IN
    /\ scan.root <= Len(Roots(n)) /\ ~scan.listed
    /\ scans' = [scans EXCEPT ![n] = <<[scan EXCEPT !.listed = TRUE, !.entries = disk[Roots(n)[scan.root]]]>>]
    /\ UNCHANGED <<disk, changes, cache, asks, given>>

Claimed(found, name) == \E i \in DOMAIN found : found[i].name = name

(* scanEntry: a file that is still there is read, unless a skill of its     *)
(* name was found before; it is a skill if the name it declares is free,    *)
(* and it describes itself.                                                *)
ScanEntry(n, entry) ==
    LET scan == Scan(n)
        rest == [scan EXCEPT !.entries = @ \ {entry}]
        place == Roots(n)[scan.root]
        skill == [name |-> entry.declares, file |-> entry, place |-> place]
    IN  /\ scan.listed /\ entry \in scan.entries
        /\ \/ scans' = [scans EXCEPT ![n] = <<rest>>]
           \/ /\ entry \in disk[place] /\ ~Claimed(scan.found, entry.file) /\ ~Claimed(scan.found, entry.declares)
              /\ scans' = [scans EXCEPT ![n] = <<[rest EXCEPT !.found = Append(@, skill)]>>]
        /\ UNCHANGED <<disk, changes, cache, asks, given>>

NextRoot(n) ==
    LET scan == Scan(n) IN
    /\ scan.listed /\ scan.entries = {}
    /\ scans' = [scans EXCEPT ![n] = <<[scan EXCEPT !.root = @ + 1, !.listed = FALSE]>>]
    /\ UNCHANGED <<disk, changes, cache, asks, given>>

(* finish: what was found is kept for its directory, and given.             *)
Finish(n) ==
    LET scan == Scan(n) IN
    /\ scan.root > Len(Roots(n))
    /\ cache' = [valid |-> TRUE, workdir |-> asks[n].workdir, found |-> scan.found, since |-> scan.since]
    /\ given' = Append(given, Told(n, scan.found, scan.since))
    /\ scans' = [scans EXCEPT ![n] = <<>>]
    /\ UNCHANGED <<disk, changes, asks>>

(* Somebody writes or removes a skill.                                     *)
Change(place) ==
    /\ changes < MaxChanges /\ changes' = changes + 1
    /\ disk' \in {[disk EXCEPT ![place] = S] : S \in {{}, Entries} \ {disk[place]}}
    /\ UNCHANGED <<cache, scans, asks, given>>

SkillsNext ==
    \/ \E w \in Workdirs, starts \in BOOLEAN : Discover(w, starts)
    \/ \E n \in Scanning : ListRoot(n) \/ NextRoot(n) \/ Finish(n) \/ \E entry \in Entries : ScanEntry(n, entry)
    \/ \E place \in Places : Change(place)

-----------------------------------------------------------------------------
(* Every agent is offered the skills of its own directory, no name twice,    *)
(* and those of the project before those of the machine, however scans of   *)
(* two directories interleave and files change under them (discover, roots,  *)
(* claimed).                                                               *)
SkillsAreOfTheDirectory ==
    \A k \in DOMAIN given :
        LET found == given[k].found
            roots == RootsOf[asks[given[k].ask].workdir]
        IN  /\ \A i \in DOMAIN found : \E r \in DOMAIN roots : roots[r] = found[i].place
            /\ \A i, j \in DOMAIN found : i < j =>
                   /\ found[i].name # found[j].name
                   /\ \A r, q \in DOMAIN roots : roots[r] = found[i].place /\ roots[q] = found[j].place => r <= q

(* "The catalog is read once per run" (AiSkillCatalog.cpp:101): what a run   *)
(* is told of its skills when it starts was read since.                     *)
CatalogIsReadPerRun ==
    \A k \in DOMAIN given : asks[given[k].ask].starts => given[k].since >= asks[given[k].ask].changes
=============================================================================
