----------------------------- MODULE EditorRules -----------------------------
(***************************************************************************)
(* The .editorconfig files of the code editor (code-editor/EditorConfig.cpp *)
(* and what CodeDocument.cpp and CodeWorkspaceView.cpp do with them): what   *)
(* they say of a document, and how an open document follows them while they *)
(* appear, change and disappear outside of the editor.                     *)
(*                                                                         *)
(* A folder is the sequence of its names below the workspace.  A file is a   *)
(* sequence of lines, and which documents the pattern of a section matches   *)
(* is given.  A rule file that is there can be read.                        *)
(***************************************************************************)
EXTENDS Integers, FiniteSets, SequencesExt

CONSTANTS
    Folders,      \* the folders of a workspace, <<>> among them
    Texts,        \* what a rule file may say
    MaxChanges    \* bound: changes of the rule files, moves, documents opened

Absent == [there |-> FALSE, text |-> <<>>]

VARIABLES
    rulefiles,    \* folder -> its .editorconfig
    place,        \* the folder of the open document
    directories,  \* the directories m_editorConfigWatcher watches
    watchedFiles, \* the folders whose .editorconfig it watches
    noticed,      \* a change it has yet to report
    collections,  \* the files that are being read, by load
    loadCount,    \* m_editorConfigGeneration
    rules,        \* m_editorConfig
    moved,        \* history: the document moved since its folders were watched
    changed       \* history: how many changes there were

rulesVars == <<rulefiles, place, directories, watchedFiles, noticed, collections, loadCount, rules, moved, changed>>

-----------------------------------------------------------------------------
(* What a line may set, and to what.                                        *)
Numbers == {"2", "3", "8"}
ParseBoolean(value) == {value} \cap {"true", "false"}
ParsePositiveInteger(value) == {value} \cap Numbers
Charsets == {"utf-8", "utf-8-bom", "utf-16le", "utf-16be", "latin1"}
Keys == {"indent_style", "indent_size", "tab_width", "end_of_line", "charset",
         "trim_trailing_whitespace", "insert_final_newline", "max_line_length"}

NoRules == [set |-> [k \in Keys |-> {}], follows |-> FALSE, unsupported |-> {}]
WithValue(r, key, values) == [r EXCEPT !.set[key] = values]

ApplyIndentStyle(r, value) == IF value \in {"tab", "space"} THEN WithValue(r, "indent_style", {value}) ELSE r
ApplyLineEnding(r, value) == IF value \in {"lf", "crlf", "cr"} THEN WithValue(r, "end_of_line", {value}) ELSE r
ApplyCharset(r, value) ==
    IF value \in Charsets THEN WithValue(r, "charset", {value})
    ELSE [WithValue(r, "charset", {}) EXCEPT !.unsupported = @ \cup {value}]

\* Mutant of ClearProperty: the width goes on following the tab.
ClearPropertyFollowing(r, key) == IF key \in Keys THEN WithValue(r, key, {}) ELSE r

ClearProperty(r, key) ==
    IF key \notin Keys THEN r
    ELSE [WithValue(r, key, {}) EXCEPT
              !.follows = IF key = "indent_size" THEN FALSE ELSE @,
              !.unsupported = IF key = "charset" THEN {} ELSE @]

ApplyProperty(r, key, value) ==
    IF value = "unset" THEN ClearProperty(r, key)
    ELSE CASE key = "indent_style" -> ApplyIndentStyle(r, value)
           [] key = "indent_size" -> [WithValue(r, key, ParsePositiveInteger(value)) EXCEPT !.follows = value = "tab"]
           [] key \in {"tab_width", "max_line_length"} -> WithValue(r, key, ParsePositiveInteger(value))
           [] key = "end_of_line" -> ApplyLineEnding(r, value)
           [] key = "charset" -> ApplyCharset(r, value)
           [] key \in {"trim_trailing_whitespace", "insert_final_newline"} -> WithValue(r, key, ParseBoolean(value))
           [] OTHER -> r

(* A file is read from its first line: root counts before any section, and   *)
(* the properties of a section where its pattern matches.                    *)
DeclaresRoot(text) ==
    \E i \in DOMAIN text :
       /\ text[i].key = "root" /\ text[i].value = "true"
       /\ \A j \in 1..i : ~text[j].section /\ (j < i => text[j].key # "root")

MergeLine(merged, line) ==
    IF line.section THEN [merged EXCEPT !.matches = line.documents]
    ELSE [merged EXCEPT !.rules = IF merged.document \in merged.matches
                                  THEN ApplyProperty(@, line.key, line.value) ELSE @]

MergeFile(r, text, document) ==
    FoldLeft(MergeLine, [rules |-> r, matches |-> {}, document |-> document], text).rules

(* From the folder of a document up to the workspace.                        *)
EditorConfigSearchPaths(folder) == [i \in 1..(Len(folder) + 1) |-> SubSeq(folder, 1, Len(folder) + 1 - i)]

\* Mutant of Boundary: the file that says root is left out with what is above it.
BoundaryBefore(texts) ==
    LET roots == {i \in DOMAIN texts : DeclaresRoot(texts[i])} IN
    IF roots = {} THEN Len(texts) ELSE (CHOOSE i \in roots : \A j \in roots : i <= j) - 1

Boundary(texts) ==
    LET roots == {i \in DOMAIN texts : DeclaresRoot(texts[i])} IN
    IF roots = {} THEN Len(texts) ELSE CHOOSE i \in roots : \A j \in roots : i <= j

(* The farthest file first, so that the nearest has the last word.            *)
ResolveEditorConfig(document, texts) ==
    LET MergeNext(r, text) == MergeFile(r, text, document)
        resolved == FoldLeft(MergeNext, NoRules, Reverse(SubSeq(texts, 1, Boundary(texts)))) IN
    IF resolved.follows THEN WithValue(resolved, "indent_size", resolved.set["tab_width"]) ELSE resolved

ResolvedIndentWidth(r) ==
    LET first == IF r.set["indent_style"] = {"tab"} THEN "tab_width" ELSE "indent_size"
        second == IF first = "tab_width" THEN "indent_size" ELSE "tab_width" IN
    IF r.set[first] # {} THEN r.set[first] ELSE IF r.set[second] # {} THEN r.set[second] ELSE {"4"}

-----------------------------------------------------------------------------
(* loadEditorConfig: a read of every file is asked for.  The documents of a   *)
(* workspace are in it, so there is a file to look for.                       *)
Collection(generation, paths) ==
    [generation |-> generation, paths |-> paths, texts |-> [k \in DOMAIN paths |-> <<>>],
     read |-> 0, pending |-> DOMAIN paths]

Load(folder) ==
    /\ loadCount' = loadCount + 1
    /\ collections' = Append(collections, Collection(loadCount + 1, EditorConfigSearchPaths(folder)))

WithRules(folder, set) == {f \in Folders : IsPrefix(f, folder) /\ rulefiles[f].there} \cap set

\* Mutant of RefreshEditorConfigWatch: only the directories are watched.
RefreshEditorConfigWatchOfDirectories(folder) ==
    directories' = {f \in Folders : IsPrefix(f, folder)} /\ watchedFiles' = {}

(* Every folder of the document, and the rule files that are there.           *)
RefreshEditorConfigWatch(folder) ==
    /\ directories' = {f \in Folders : IsPrefix(f, folder)}
    /\ watchedFiles' = WithRules(folder, Folders)

RulesInit ==
    /\ place \in Folders /\ rulefiles \in [Folders -> {Absent} \cup {[there |-> TRUE, text |-> t] : t \in Texts}]
    /\ directories = {f \in Folders : IsPrefix(f, place)} /\ watchedFiles = WithRules(place, Folders)
    /\ noticed = FALSE /\ rules = NoRules
    /\ loadCount = 1
    /\ collections = <<Collection(1, EditorConfigSearchPaths(place))>>
    /\ moved = FALSE /\ changed = 0

Changes == changed < MaxChanges /\ changed' = changed + 1

(* A rule file is written in place, which the watch of the file sees; or      *)
(* appears, goes, or is replaced by another, which the one of its folder sees. *)
Written(f, text) ==
    /\ Changes /\ rulefiles[f].there
    /\ rulefiles' = [rulefiles EXCEPT ![f].text = text]
    /\ noticed' = (noticed \/ f \in watchedFiles)
    /\ UNCHANGED <<place, directories, watchedFiles, collections, loadCount, rules, moved>>

Replaced(f, file) ==
    /\ Changes /\ (rulefiles[f].there \/ file.there)
    /\ rulefiles' = [rulefiles EXCEPT ![f] = file]
    /\ noticed' = (noticed \/ f \in directories \cup watchedFiles)
    /\ watchedFiles' = watchedFiles \ {f}
    /\ UNCHANGED <<place, directories, collections, loadCount, rules, moved>>

(* rearm and reloadEditorConfigs.                                          *)
ReloadEditorConfigs ==
    /\ noticed /\ noticed' = FALSE /\ moved' = FALSE
    /\ Load(place) /\ RefreshEditorConfigWatch(place)
    /\ UNCHANGED <<rulefiles, place, rules, changed>>

\* Mutant of Current: whatever was read last is what counts.
CurrentAnyhow(collection) == TRUE

Current(collection) == collection.generation = loadCount

(* The thread of FileSystemService reads in the order asked; a file that is   *)
(* not there says nothing.                                                  *)
ReadNext(i) ==
    /\ collections[i].read < Len(collections[i].paths)
    /\ \A j \in 1..(i - 1) : collections[j].read = Len(collections[j].paths)
    /\ LET next == collections[i].read + 1 IN
       collections' = [collections EXCEPT ![i].read = next, ![i].texts[next] = rulefiles[collections[i].paths[next]].text]
    /\ UNCHANGED <<rulefiles, place, directories, watchedFiles, noticed, loadCount, rules, moved, changed>>

(* What was read is looked at, and with the last of them what they all say.   *)
ReadFinished(i, k) ==
    /\ k \in collections[i].pending /\ k <= collections[i].read
    /\ IF collections[i].pending # {k}
       THEN collections' = [collections EXCEPT ![i].pending = @ \ {k}] /\ UNCHANGED rules
       ELSE /\ collections' = RemoveAt(collections, i)
            /\ rules' = IF Current(collections[i]) THEN ResolveEditorConfig(place, collections[i].texts) ELSE rules
    /\ UNCHANGED <<rulefiles, place, directories, watchedFiles, noticed, loadCount, moved, changed>>

(* updatePath, which leaves the watch to the next document that comes or goes. *)
UpdatePath(folder) ==
    /\ Changes /\ folder # place
    /\ place' = folder /\ Load(folder) /\ moved' = TRUE
    /\ UNCHANGED <<rulefiles, directories, watchedFiles, noticed, rules>>

DocumentsChange ==
    /\ Changes /\ RefreshEditorConfigWatch(place)
    /\ UNCHANGED <<rulefiles, place, noticed, collections, loadCount, rules, moved>>

RulesNext ==
    \/ \E f \in Folders, t \in Texts : Written(f, t)
    \/ \E f \in Folders, file \in {Absent} \cup {[there |-> TRUE, text |-> t] : t \in Texts} : Replaced(f, file)
    \/ \E i \in DOMAIN collections : ReadNext(i) \/ \E k \in collections[i].pending : ReadFinished(i, k)
    \/ \E f \in Folders : UpdatePath(f)
    \/ ReloadEditorConfigs \/ DocumentsChange

-----------------------------------------------------------------------------
(* CodeWorkspaceView.cpp:459, "A rule file that appears, changes or           *)
(* disappears decides how the open documents are indented from that moment on": *)
(* once the files are read, the document goes by what they say, in whatever    *)
(* order the reads of several loads came in.  Unless the document was moved:   *)
(* the folders it came to are not watched.                                  *)
RulesFollowTheFiles ==
    ~moved /\ ~noticed /\ collections = <<>> =>
        LET paths == EditorConfigSearchPaths(place) IN
        rules = ResolveEditorConfig(place, [i \in DOMAIN paths |-> rulefiles[paths[i]].text])

(* What the files say of a key, read off them: the last line about it in the   *)
(* nearest file that has one, no file being above one that says it is the root. *)
Speaks(line, key) ==
    /\ ~line.section /\ line.key = key
    /\ key = "indent_style" => line.value \in {"tab", "space", "unset"}
    /\ key = "end_of_line" => line.value \in {"lf", "crlf", "cr", "unset"}

LastWords(document, text, key) ==
    {i \in DOMAIN text :
        /\ Speaks(text[i], key)
        /\ \E j \in 1..i : /\ text[j].section /\ document \in text[j].documents
                           /\ \A k \in (j + 1)..i : ~text[k].section}

Says(document, texts, key) ==
    LET reached == {f \in DOMAIN texts : \A g \in 1..(f - 1) : ~DeclaresRoot(texts[g])}
        speaking == {f \in reached : LastWords(document, texts[f], key) # {}}
        near == CHOOSE f \in speaking : \A g \in speaking : f <= g
        words == LastWords(document, texts[near], key) IN
    IF speaking = {} THEN "unset" ELSE texts[near][CHOOSE i \in words : \A j \in words : j <= i].value

Meaning(key, value) ==
    CASE key = "charset" -> {value} \cap Charsets
      [] key \in {"trim_trailing_whitespace", "insert_final_newline"} -> ParseBoolean(value)
      [] key \in {"indent_style", "end_of_line"} -> {value} \ {"unset"}
      [] OTHER -> ParsePositiveInteger(value)

(* The nearest file has the last word on every property, "A value of unset     *)
(* undoes what a file above declared" (EditorConfig.cpp:268), and a width that  *)
(* follows the tab takes whatever the tab came to, "so the two can be written   *)
(* in either order" (EditorConfig.cpp:323).                                 *)
NearestHasTheLastWord(texts) ==
    \A document \in Folders : \A key \in Keys :
        LET said == Says(document, texts, key)
            meant == IF key = "indent_size" /\ said = "tab" THEN "tab_width" ELSE key IN
        ResolveEditorConfig(document, texts).set[key] = Meaning(meant, Says(document, texts, meant))

=============================================================================
