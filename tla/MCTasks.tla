-------------------------------- MODULE MCTasks --------------------------------
(***************************************************************************)
(* The tasks of the assistant, for TLC: their runs (TaskRuns), the times    *)
(* they run at (Schedules), what is stored of the board and of a            *)
(* conversation (TaskStore), what the assistant is set to (AiSettings), and  *)
(* what is seen of the tasks (TaskViews).  One of them is chosen at the      *)
(* start and moves alone.                                                  *)
(***************************************************************************)
EXTENDS TaskRuns

CONSTANTS Conversations, Edits, MostSaves, MostFaults

VARIABLES
    part,
    stored, workspaces, tasks, conversation, loaded, sequence, older, busy, operations, done, said, faults,
    release, up, settings, committed, revision, committedRevision, saves, document, told, clients, running,
    failed, overtaken, saved, wrong,
    region, clock, schedule, row, writes, occupied, crossed, mishaps,
    places, here, table, filed, slips, lined, going, over, posted, tabs, tab, cards, question, unheard, strayed,
    opened, live, current, late, rounds, reads, armed, missed, shown, pick, entries, top, spoken, saying, bubbles, turn,
    engaged, acts, mistakes

Store == INSTANCE TaskStore WITH
    Tasks <- Conversations, Workspaces <- <<"home", "side">>, PageSize <- 1, Patient <- TRUE,
    MaxOps <- 2, MaxMessages <- 3, MaxFaults <- 1, ops <- operations

Catalogs == INSTANCE ProviderCatalog

-----------------------------------------------------------------------------
(* Two releases of the catalog, one that does not load, and the settings of  *)
(* somebody who had another.                                                *)
Budget(trait) == [id |-> "budget", trait |-> trait, numeric |-> TRUE, least |-> 0, most |-> 4, options |-> {},
                  default |-> 3, budget |-> TRUE, whole |-> TRUE]
Effort == [id |-> "effort", trait |-> "reasoning", numeric |-> FALSE, least |-> 0, most |-> 0,
           options |-> {7, 8}, default |-> 7, budget |-> FALSE, whole |-> FALSE]
Wire(id, hosted, parameters) ==
    [id |-> id, wire |-> TRUE, paid |-> ~hosted, variable |-> ~hosted, hosted |-> hosted, address |-> TRUE,
     command |-> {}, traits |-> {"functions", "sampling"}, preferred |-> IF hosted THEN <<>> ELSE <<"b">>,
     parameters |-> parameters]
Program == [id |-> "cli", wire |-> FALSE, paid |-> FALSE, variable |-> FALSE, hosted |-> FALSE, address |-> FALSE,
            command |-> {[prompt |-> TRUE, model |-> TRUE]}, traits |-> {}, preferred |-> <<>>,
            parameters |-> <<>>]
AModel(id, window, answer, trait) ==
    [id |-> id, window |-> window, answer |-> answer, traits |-> {"functions", trait}]
Release(both, more) ==
    [providers |-> IF more THEN <<Wire("net", FALSE, both), Wire("own", TRUE, both), Program>>
                   ELSE <<Wire("net", FALSE, both)>>,
     models |-> [p \in {"net"} |-> <<AModel("a", 4, 2, "sampling"), AModel("b", 3, 3, "reasoning")>>]]

TheReleases == [full |-> Release(<<Budget("sampling"), Budget("reasoning"), Effort>>, TRUE),
                less |-> Release(<<Budget("sampling"), Budget("reasoning"), Effort>>, FALSE),
                broken |-> Release(<<Budget("sampling"), Budget("sampling"), Effort>>, FALSE)]

Connection(provider, model, values) ==
    [provider |-> provider, model |-> model, secret |-> provider = "net", address |-> provider = "own", values |-> values]
Tokens(n) == [p \in {"budget"} |-> n]
Net == Connection("net", "a", Tokens(0))
Thinks == Connection("net", "b", [p \in {"budget", "effort"} |-> IF p = "budget" THEN 0 ELSE 8])
Own == Connection("own", "x", Tokens(2))
Unknown == Connection("own", "y", Tokens(0))
TheSelections == {<<>>, <<Net>>, <<Net, Own>>, <<Net, Net>>, <<Thinks>>, <<Unknown>>}

Agent(id, key, tags) == [id |-> id, key |-> key, named |-> TRUE, tags |-> tags]
TheCrews == {<<>>, <<Agent("x", <<"net", "a">>, {"task"})>>, <<Agent("y", <<"own", "x">>, {})>>,
             <<Agent("x", <<"net", "a">>, {"later"})>>}
ThePaces == {<<[provider |-> "net", pace |-> 1]>>,
             <<[provider |-> "net", pace |-> 1], [provider |-> "net", pace |-> 2]>>}
TheSections == [search |-> {"second"}, speech |-> {"second"}, execution |-> {-1, 1},
                servers |-> {<<[address |-> TRUE, tokens |-> 0]>>}]

TheDocuments ==
    {[connections |-> <<>>, default |-> <<"", "">>, servers |-> <<>>, limits |-> <<>>, agents |-> <<>>,
      execution |-> 0, search |-> "first", speech |-> "first"],
     [connections |-> <<Net, Own, Net, Thinks>>, default |-> <<"own", "x">>,
      servers |-> <<[address |-> FALSE, tokens |-> 0]>>,
      limits |-> <<[provider |-> "own", pace |-> 1], [provider |-> "own", pace |-> 2], [provider |-> "gone", pace |-> 1]>>,
      agents |-> <<Agent("x", <<"own", "x">>, {"task"}), Agent("z", <<"net", "a">>, {"later"})>>,
      execution |-> -1, search |-> "third", speech |-> "third"]}

TheConnections == UNION {ToSet(cs) : cs \in TheSelections \cup {d.connections : d \in TheDocuments}}
TheUsable ==
    [r \in DOMAIN TheReleases |-> {c \in TheConnections : Catalogs!ValidateConnection(TheReleases[r], c)}]
TheProviders == [r \in DOMAIN TheReleases |-> {p.id : p \in Catalogs!Catalog(TheReleases[r])}]

Set == INSTANCE AiSettings WITH
    Releases <- DOMAIN TheReleases, Loading <- {r \in DOMAIN TheReleases : Catalogs!Loads(TheReleases[r])},
    Usable <- TheUsable, Providers <- TheProviders, Documents <- TheDocuments, Selections <- TheSelections, Crews <- TheCrews,
    Paces <- ThePaces, Sections <- TheSections, Runs <- [t \in {"t"} |-> "x"],
    MaxSaves <- MostSaves, MaxFaults <- MostFaults, stored <- document, faults <- wrong

-----------------------------------------------------------------------------
(* Days of three hours of two minutes, weeks of two days, years of three.    *)
Every == [wildcard |-> TRUE, ranges |-> {}]
Only(ranges) == [wildcard |-> FALSE, ranges |-> ranges]
Cron(minutes, hours, monthDays, months, weekDays) ==
    [minutes |-> minutes, hours |-> hours, monthDays |-> monthDays, months |-> months, weekDays |-> weekDays]
TheExpressions ==
    [each |-> Cron(Every, Every, Every, Every, Every),
     night |-> Cron(Only({<<0, 0>>}), Only({<<0, 0>>}), Every, Every, Every),
     sundays |-> Cron(Only({<<0, 1>>}), Only({<<1, 1>>}), Every, Every, Only({<<1, 2>>})),
     days |-> Cron(Only({<<0, 0>>}), Only({<<1, 2>>}), Only({<<2, 2>>}), Every, Only({<<2, 2>>})),
     never |-> Cron(Every, Every, Only({<<2, 2>>}), Only({<<2, 2>>}), Every),
     backwards |-> Cron(Every, Only({<<2, 1>>}), Every, Every, Every),
     outside |-> Cron(Only({<<0, 0>>, <<2, 2>>}), Every, Every, Every, Every)]
TheCalendar == <<[month |-> 1, day |-> 1], [month |-> 1, day |-> 2], [month |-> 2, day |-> 1]>>

(* A clock that never moves, is set forward at midnight and after it, and     *)
(* back, to the day it is and to the one before.                             *)
TheZones ==
    {[at |-> at, before |-> 0, after |-> 2] : at \in {12, 13}} \cup
    {[at |-> at, before |-> 2, after |-> 0] : at \in {10, 11}} \cup {[at |-> 0, before |-> 0, after |-> 0]}

At(kind, once, interval, cron) ==
    [kind |-> kind, enabled |-> FALSE, once |-> once, interval |-> interval, cron |-> cron, next |-> 0, last |-> 0]
TheSchedules ==
    {At("none", 0, 0, ""), At("once", 11, 0, ""), At("interval", 0, 2, ""), At("interval", 0, 0, ""),
     At("cron", 0, 0, "sundays"), At("cron", 0, 0, "never"), At("cron", 0, 0, "backwards")}

When == INSTANCE Schedules WITH
    MinutesInHour <- 2, HoursInDay <- 3, DaysInWeek <- 2, Calendar <- TheCalendar, SupportedDays <- 7,
    Zones <- TheZones, Later <- TRUE, Expressions <- TheExpressions, Plans <- TheSchedules,
    Start <- 9, End <- 13, MaxWrites <- 1, MaxFaults <- MostFaults

TimesAreExact == When!NoOccurrenceIsMissed

-----------------------------------------------------------------------------
(* Two workspaces and a third to be made, a task with a schedule and one to   *)
(* be made.                                                                *)
View == INSTANCE TaskViews WITH
    Items <- {"p", "q"}, FirstItems <- [p |-> [place |-> "home", column |-> "todo", timed |-> TRUE]],
    Places <- <<"home", "side", "new">>, Strays <- FALSE, MaxPosted <- 2, MaxActs <- 2, MaxTouches <- 1,
    MaxMistakes <- 1, MaxRounds <- 2, MaxLogs <- 2, MaxReads <- 2, MaxTalk <- 2

-----------------------------------------------------------------------------
storeVars == <<stored, workspaces, tasks, conversation, loaded, sequence, older, busy, operations, done, said, faults>>
setVars == <<release, up, settings, committed, revision, committedRevision, saves, document, told, clients, running,
             failed, overtaken, saved, wrong>>
whenVars == <<region, clock, schedule, row, writes, occupied, crossed, mishaps>>
boardVars == <<places, here, table, filed, slips, lined, going, over, posted, tabs, tab, cards, question, unheard,
               strayed>>
windowVars == <<opened, live, current, late, rounds, reads, armed, missed, shown, pick, entries, top, spoken,
                saying, bubbles, turn, engaged>>
seenVars == <<boardVars, windowVars, acts, mistakes>>

Parts == {"runs", "store"} \cup (IF MostSaves = 0 THEN {} ELSE {"settings", "schedules", "board", "window"})

TasksInit ==
    /\ part \in Parts
    /\ Init /\ Store!StoreInit /\ Set!SettingsInit /\ When!ScheduleInit /\ View!BoardInit /\ View!SurfaceInit
    /\ part # "board" => places = <<>>
    /\ part # "schedules" => schedule = When!NoSchedule /\ region = CHOOSE z \in TheZones : TRUE
    /\ part # "settings" => ~up
    /\ part # "settings" => document = CHOOSE d \in TheDocuments : TRUE

Running == part = "runs" /\ Next /\ UNCHANGED <<part, storeVars, setVars, whenVars, seenVars>>
Keeping == part = "store" /\ Store!StoreNext /\ UNCHANGED <<part, vars, setVars, whenVars, seenVars>>
Setting == part = "settings" /\ Set!SettingsNext /\ UNCHANGED <<part, vars, storeVars, whenVars, seenVars>>
Timing == part = "schedules" /\ When!ScheduleNext /\ UNCHANGED <<part, vars, storeVars, setVars, seenVars>>
Watching ==
    /\ UNCHANGED <<part, vars, storeVars, setVars, whenVars>>
    /\ \/ part = "board" /\ View!BoardNext /\ UNCHANGED windowVars
       \/ part = "window" /\ View!SurfaceNext /\ UNCHANGED boardVars

TasksNext == Running \/ Keeping \/ Setting \/ Timing \/ Watching

(* Nothing waits at the start: where the runs stand still, their fairness    *)
(* asks for nothing.                                                       *)
TasksSpec == TasksInit /\ [][TasksNext]_<<part, vars, storeVars, setVars, whenVars, seenVars>> /\ Fairness

-----------------------------------------------------------------------------
(* The board of two workspaces can be read at any start, and a conversation,    *)
(* read a page at a time, is in its order (TaskStore's BoardIsReadable and       *)
(* ConversationIsInOrder); the settings are stored, hold together, and are those *)
(* every user of them goes by, no task runs on without its agent, and every      *)
(* model of the catalog can be used (AiSettings' WhatIsSetIsStored,              *)
(* PaceIsTheSetOne, SettingsAreWhole, RunsHaveTheirAgent, ProviderCatalog's       *)
(* ModelsCanBeUsed); the schedule of a task is ahead of its last run, and no      *)
(* expression leaves out one of its times (Schedules' ScheduleIsKept and          *)
(* NoOccurrenceIsMissed); what is seen of the tasks is how they are, and no       *)
(* reader is moved (TaskViews' BoardFollowsTheTasks, AnswersFitTheQuestion,       *)
(* SurfaceFollowsTheTask and ReaderIsNotDisturbed).                             *)
TasksAreInOrder ==
    /\ [](/\ Store!BoardIsReadable /\ Store!ConversationIsInOrder
          /\ Set!WhatIsSetIsStored /\ Set!PaceIsTheSetOne /\ Set!SettingsAreWhole /\ Set!RunsHaveTheirAgent
          /\ Catalogs!ModelsCanBeUsed(TheReleases[release]) /\ When!ScheduleIsKept /\ TimesAreExact
          /\ View!BoardFollowsTheTasks /\ View!AnswersFitTheQuestion /\ View!SurfaceFollowsTheTask)
    /\ View!ReaderIsNotDisturbed

(* TaskStore's WhatIsShownIsStored, of the same conversation.               *)
WhatIsShownIsStored == Store!WhatIsShownIsStored
=============================================================================
