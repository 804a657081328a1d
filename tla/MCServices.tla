----------------------------- MODULE MCServices -----------------------------
(***************************************************************************)
(* Components that share no state in what is modelled of them, for TLC: the *)
(* saved settings of two plugins (SavedState), the requests between two plugins, one of *)
(* which needs the other, the clients of two runs at one provider that has  *)
(* one place, the tabs of the terminal in its three smallest layouts, and    *)
(* the code editor: its workspaces, a file, the rules it is indented by, a    *)
(* language server with a document, the servers of a workspace, and what      *)
(* they are asked.  One of them is chosen at the start and moves alone, so    *)
(* that their states are added up, not multiplied.                          *)
(***************************************************************************)
EXTENDS SavedState, PluginBus, CodeDocument, LanguageServerClient, TLC

CONSTANTS Providers, Clients, Asks, MaxRetries, c1, c2, r1, r2, r3, r4, p1, a, b, Panes, Shells, NoShell

VARIABLES
    part,
    callers, gate, admissions, inFlight, retrying, attempt, completed, departing, owed,
    editor, workspaces, agreed, filed, changeCount, persisted, timer, writes, tabs, documents, tree, listed, lost,
    edits, faults,
    enabled, found, discovering, available, current, clients, attached, diagnostics, panel, reported, changes,
    waiting, atServer, answersRead, lastAsked, stale, list, docs, popup, row, lastRequest,
    panes, selected, front, sessions, runtimes, terminal, layout, mishaps,
    rulefiles, place, directories, watchedFiles, noticed, collections, loadCount, rules, moved, changed

Interchangeable == Permutations({a, b}) \cup Permutations(Panes) \cup Permutations(Shells)

ClientOf == (r1 :> c1) @@ (r2 :> c1) @@ (r3 :> c2) @@ (r4 :> c2)

Chat == INSTANCE ChatClient WITH
    Contexts <- Clients, Requests <- Asks, Owner <- ClientOf,
    ProviderOf <- [c \in Clients |-> p1],
    Limits <- {[interval |-> 0, perMinute |-> 0, concurrent |-> 1]},
    RateWindow <- 1, MaxAge <- 1, MaxHistory <- 1,
    alive <- callers, posted <- admissions, leaving <- departing

Workspaces == INSTANCE EditorWorkspaces WITH
    Folders <- {"f", "g"}, Files <- {"a"}, Renames <- FALSE, MaxChanges <- 4, MaxFaults <- 1,
    running <- editor, committed <- agreed, stored <- filed, revision <- changeCount,
    disk <- tree, entries <- listed,
    changes <- edits

Servers == INSTANCE CodeServers WITH
    Programs <- {"p", "q"}, Paths <- {"a", "b"}, MaxClients <- 2, MaxChanges <- 4, server <- current,
    Kinds <- {"completion", "hover"}, Decoded <- {"completion"}, Offered <- {"completion", "hover", "documentation"},
    Rows <- {0, 1}, MaxRequests <- 4,
    pending <- waiting, answering <- atServer, decodes <- answersRead, lastId <- lastRequest

Presets == {"single", "columns", "left"}
SlotCount == [p \in Presets |-> CASE p = "single" -> 1 [] p = "columns" -> 2 [] p = "left" -> 3]

Layout == INSTANCE TerminalWorkspace WITH
    Tabs <- Panes, Sessions <- Shells, FirstPreset <- "single", None <- NoShell, MaxFaults <- 1,
    tabs <- panes, current <- front, running <- terminal, stored <- layout, faults <- mishaps

(* Rule files that say they are the root, that follow the tab, that take       *)
(* back, and that say what is not known.                                    *)
Section(of) == [section |-> TRUE, documents |-> of, key |-> "", value |-> ""]
Line(key, value) == [section |-> FALSE, documents |-> {}, key |-> key, value |-> value]
TheFolders == {<<>>, <<"d">>}
TheTexts ==
    {<<Line("root", "true"), Section(TheFolders), Line("indent_size", "2")>>,
     <<Section({<<"d">>}), Line("indent_size", "tab"), Line("tab_width", "8"), Section({<<>>}), Line("indent_size", "3")>>}
MoreTexts == TheTexts \cup
    {<<Section(TheFolders), Line("indent_size", "unset"), Line("root", "true"), Line("charset", "odd"),
       Line("end_of_line", "odd")>>,
     <<Line("root", "false"), Line("root", "true"), Section(TheFolders), Line("tab_width", "3"),
       Line("indent_size", "tab"), Line("indent_style", "tab"), Line("indent_style", "odd"), Line("end_of_line", "cr"),
       Line("charset", "latin1"), Line("trim_trailing_whitespace", "true")>>,
     <<Section(TheFolders), Line("indent_size", "8"), Line("indent_style", "unset"), Line("charset", "unset"),
       Line("trim_trailing_whitespace", "odd"), Line("max_line_length", "off"), Line("other", "2")>>}

Ruling == INSTANCE EditorRules WITH Folders <- TheFolders, Texts <- TheTexts, MaxChanges <- 2

RulesAreRight == \A texts \in UNION {[1..n -> MoreTexts] : n \in 1..3} : Ruling!NearestHasTheLastWord(texts)

AiNeedsBrowser == [p \in {"ai", "browser"} |-> IF p = "ai" THEN {"browser"} ELSE {}]

chatVars == <<callers, gate, admissions, inFlight, retrying, attempt, completed, departing, owed>>
codeVars == <<documentVars, serverVars>>
workspaceVars == <<editor, workspaces, agreed, filed, changeCount, persisted, timer, writes, tabs, documents, tree,
                   listed, lost, edits, faults>>
serversVars == <<enabled, found, discovering, available, current, clients, attached, diagnostics, panel, reported,
                 changes>>
assistVars == <<waiting, atServer, answersRead, lastAsked, stale, list, docs, popup, row, lastRequest>>
ruleVars == <<rulefiles, place, directories, watchedFiles, noticed, collections, loadCount, rules, moved, changed>>
editorVars == <<workspaceVars, serversVars, assistVars, ruleVars>>
layoutVars == <<panes, selected, front, sessions, runtimes, terminal, layout, mishaps>>

ServicesInit ==
    /\ part \in {"saves", "bus", "chat", "document", "server", "workspaces", "servers", "assistance",
                "rules", "layout"}
    /\ Init /\ BusInit /\ Chat!ChatInit /\ DocumentInit /\ ServerInit
    /\ Workspaces!EditorInit /\ Servers!CodeServersInit /\ Servers!AssistInit
    /\ Layout!Init
    /\ Ruling!RulesInit
    /\ part # "rules" => place = <<>> /\ \A f \in TheFolders : ~rulefiles[f].there

Saves == part = "saves" /\ Next /\ UNCHANGED <<part, busVars, chatVars, codeVars, editorVars, layoutVars>>
Bus == part = "bus" /\ BusNext /\ UNCHANGED <<part, vars, chatVars, codeVars, editorVars, layoutVars>>
Clientele ==
    part = "chat" /\ Chat!ChatNext /\ UNCHANGED <<part, vars, busVars, codeVars, editorVars, layoutVars>>
Editing ==
    /\ part = "document" /\ DocumentNext
    /\ UNCHANGED <<part, vars, busVars, chatVars, serverVars, editorVars, layoutVars>>
Serving ==
    /\ part = "server" /\ ServerNext
    /\ UNCHANGED <<part, vars, busVars, chatVars, documentVars, editorVars, layoutVars>>
Opening ==
    /\ part = "workspaces" /\ Workspaces!EditorNext
    /\ UNCHANGED <<part, vars, busVars, chatVars, codeVars, serversVars, assistVars, ruleVars, layoutVars>>
Providing ==
    /\ part = "servers" /\ Servers!CodeServersNext
    /\ UNCHANGED <<part, vars, busVars, chatVars, codeVars, workspaceVars, assistVars, ruleVars, layoutVars>>
Assisting ==
    /\ part = "assistance" /\ Servers!AssistNext
    /\ UNCHANGED <<part, vars, busVars, chatVars, codeVars, workspaceVars, serversVars, ruleVars, layoutVars>>
Indenting ==
    /\ part = "rules" /\ Ruling!RulesNext
    /\ UNCHANGED <<part, vars, busVars, chatVars, codeVars, workspaceVars, serversVars, assistVars, layoutVars>>
Arranging == part = "layout" /\ Layout!Next /\ UNCHANGED <<part, vars, busVars, chatVars, codeVars, editorVars>>

ServicesNext ==
    Saves \/ Bus \/ Clientele \/ Editing \/ Serving \/ Opening \/ Providing \/ Assisting \/ Indenting
    \/ Arranging

ServicesSpec == ServicesInit /\ [][ServicesNext]_<<part, vars, busVars, chatVars, codeVars, editorVars, layoutVars>>

-----------------------------------------------------------------------------
(* Every reachable value of each of them has its type, a place at a provider  *)
(* is held by a client that uses it (PlacesMatchUse), and a change of a        *)
(* setting that was taken back is told (LostChangesAreTold).                 *)
ServicesTypeOK ==
    /\ part = "saves" => TypeOK /\ LostChangesAreTold
    /\ part = "bus" => BusTypeOK
    /\ part = "chat" => Chat!ChatTypeOK /\ Chat!PlacesMatchUse
    /\ part = "document" => DocumentTypeOK
    /\ part = "server" => ServerTypeOK

(* The tabs are those of the workspaces, and the end of the editor stores them  *)
(* (EditorWorkspaces' TabsMatch and EndsSaved); a document belongs to the server *)
(* its workspace has for it, what is shown beside a completion is of the row    *)
(* that is chosen (CodeServers'                                             *)
(* DocumentsFollowTheServer and DocumentationFitsTheList), and a  *)
(* document is indented as its rule files say, of which the nearest has the     *)
(* last word (EditorRules' RulesFollowTheFiles and NearestHasTheLastWord).      *)
AnswersFitTheEditor ==
    /\ part = "workspaces" => Workspaces!TabsMatch /\ Workspaces!EndsSaved
    /\ part = "servers" => Servers!DocumentsFollowTheServer
    /\ part = "assistance" => Servers!DocumentationFitsTheList
    /\ part = "rules" => Ruling!RulesFollowTheFiles /\ RulesAreRight

(* Of two tabs and two sessions of the terminal: what is stored is accepted     *)
(* by the next start, what is shown is what there is, and a session stays in    *)
(* its tab (TerminalWorkspace's SavesAreAccepted, ShownIsWhatThereIs and        *)
(* SessionsStayInTheirTab).                                                *)
LayoutKeepsItsSessions ==
    [](Layout!SavesAreAccepted /\ Layout!ShownIsWhatThereIs) /\ Layout!SessionsStayInTheirTab
=============================================================================
