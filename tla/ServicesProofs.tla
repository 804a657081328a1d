---------------------------- MODULE ServicesProofs ----------------------------
(***************************************************************************)
(* Of the services around the window: what is committed is what is stored, *)
(* for any owners, saves and failures and every order of the results;      *)
(* requests between plugins are settled once, for any plugins and contexts; *)
(* a document of the editor is what it says it is, whatever is read,       *)
(* written and typed meanwhile; and a language server is spoken to in turn *)
(* and has the document its client believes it to have.                    *)
(***************************************************************************)
EXTENDS SavedState, PluginBus, CodeDocument, LanguageServerClient, SequenceTheorems, TLAPS

\* What is saved behind the window
(* The type invariant in two parts: the values, and what is on its way.     *)
Values ==
    /\ phase \in {"running", "stopping", "stopped"}
    /\ shown \in [Owners -> 0..MaxSaves] /\ revision \in [Owners -> 0..MaxSaves]
    /\ committed \in [Owners -> 0..MaxSaves] /\ stored \in [Owners -> 0..MaxSaves]
    /\ told \in [Owners -> SUBSET (1..MaxSaves)]
    /\ troubles \in 0..MaxTroubles /\ starts \in Nat

Ways ==
    /\ queue \in Seq(Save) /\ posted \in Seq(Result)
    /\ attaching \in [save : {<<>>} \cup {<<s>> : s \in Save},
                      result : {<<>>} \cup {<<r>> : r \in Result}]

(* What was submitted is newer than what is stored, and in its order.       *)
Ahead ==
    /\ \A o \in Owners : stored[o] <= revision[o]
    /\ \A i \in 1..Len(queue) :
          /\ stored[queue[i].owner] < queue[i].revision
          /\ queue[i].revision <= revision[queue[i].owner]
    /\ \A i, j \in 1..Len(queue) :
          i < j /\ queue[i].owner = queue[j].owner => queue[i].revision < queue[j].revision

(* What succeeded is no newer than what is stored.                          *)
NoNewer(r, held) == r.ok => r.revision <= held[r.owner]
Behind ==
    /\ \A o \in Counting : committed[o] <= stored[o]
    /\ \A i \in 1..Len(posted) : NoNewer(posted[i], stored)
    /\ attaching.result # <<>> => NoNewer(attaching.result[1], stored)

(* What is stored is committed, or the news of it is on its way.            *)
Carries(r, o, held) == r.ok /\ r.owner = o /\ r.revision = held[o]
OnItsWay(o) ==
    \/ committed[o] = stored[o]
    \/ \E i \in 1..Len(posted) : Carries(posted[i], o, stored)
    \/ attaching.result # <<>> /\ Carries(attaching.result[1], o, stored)
NewsArrives == phase = "running" => \A o \in Counting : OnItsWay(o)

(* Nothing is delivered once the stores are gone.                           *)
NobodyListens ==
    /\ phase # "running" => attaching = Nothing /\ posted = <<>>
    /\ phase = "stopped" => queue = <<>>

SavesInv == Values /\ Ways /\ Ahead /\ Behind /\ NewsArrives /\ NobodyListens

LEMMA Bounds ==
    /\ Counting \subseteq Owners /\ MaxSaves \in Nat /\ MaxTroubles \in Nat
BY SavesAssumption DEF SavesAssumption

LEMMA TypeParts == TypeOK <=> Values /\ Ways
BY DEF TypeOK, Values, Ways

LEMMA SavesInitially == Init => SavesInv
  <1> SUFFICES ASSUME Init PROVE SavesInv
    OBVIOUS
  <1> USE Bounds
  <1>1. Values
    BY DEF Init, Values, Fresh
  <1>2. Ways
    BY DEF Init, Ways, Nothing
  <1>3. Ahead /\ Behind /\ NewsArrives /\ NobodyListens
    BY DEF Init, Ahead, Behind, NewsArrives, OnItsWay, NobodyListens, Fresh, Nothing
  <1> QED BY <1>1, <1>2, <1>3 DEF SavesInv

(* A change is newer than everything of its owner.                          *)
LEMMA ChangeStep ==
    ASSUME SavesInv, NEW o \in Owners, Change(o)
    PROVE  SavesInv'
  <1> USE Bounds DEF SavesInv
  <1> DEFINE s == [owner |-> o, revision |-> revision[o] + 1]
  <1>1. s \in Save /\ s.owner = o /\ s.revision = revision[o] + 1
    BY DEF Change, Values, Save
  <1>2. /\ phase = "running" /\ attaching = Nothing
        /\ revision' = [revision EXCEPT ![o] = @ + 1]
        /\ shown' = [shown EXCEPT ![o] = revision[o] + 1]
        /\ queue' = Append(queue, s) /\ attaching' = [save |-> <<s>>, result |-> <<>>]
        /\ UNCHANGED <<phase, committed, told, stored, posted, troubles, starts>>
    BY DEF Change, bounds
  <1>3. Values'
    BY <1>2 DEF Values, Change
  <1>4. Ways'
    BY <1>1, <1>2 DEF Ways
  <1>5. /\ Len(queue') = Len(queue) + 1 /\ queue'[Len(queue) + 1] = s
        /\ \A i \in 1..Len(queue) : queue'[i] = queue[i] /\ queue[i] \in Save
        /\ Len(queue) \in Nat
    BY <1>1, <1>2 DEF Ways
  <1>6. Ahead'
    <2>1. /\ revision'[o] = revision[o] + 1
          /\ \A p \in Owners : revision[p] \in Nat /\ revision'[p] \in Nat
                               /\ revision[p] <= revision'[p]
          /\ \A p \in Owners : stored[p] \in Nat
      BY <1>2 DEF Values
    <2>2. \A i \in 1..Len(queue) : queue[i].owner \in Owners /\ queue[i].revision \in Nat
      BY <1>5 DEF Save
    <2>3. \A p \in Owners : stored'[p] <= revision'[p]
      BY <1>2, <2>1 DEF Ahead
    <2>4. \A i \in 1..Len(queue') :
             /\ stored'[queue'[i].owner] < queue'[i].revision
             /\ queue'[i].revision <= revision'[queue'[i].owner]
      <3> TAKE i \in 1..Len(queue')
      <3>1. CASE i = Len(queue) + 1
        BY <1>1, <1>2, <1>5, <2>1, <3>1 DEF Ahead
      <3>2. CASE i \in 1..Len(queue)
        BY <1>2, <1>5, <2>1, <2>2, <3>2 DEF Ahead
      <3> QED BY <1>5, <3>1, <3>2
    <2>5. \A i, j \in 1..Len(queue') :
             i < j /\ queue'[i].owner = queue'[j].owner => queue'[i].revision < queue'[j].revision
      <3> SUFFICES ASSUME NEW i \in 1..Len(queue'), NEW j \in 1..Len(queue'), i < j,
                          queue'[i].owner = queue'[j].owner
                   PROVE  queue'[i].revision < queue'[j].revision
        OBVIOUS
      <3>1. i \in 1..Len(queue)
        BY <1>5
      <3>2. CASE j = Len(queue) + 1
        BY <1>1, <1>5, <2>1, <2>2, <3>1, <3>2 DEF Ahead
      <3>3. CASE j \in 1..Len(queue)
        BY <1>5, <3>1, <3>3 DEF Ahead
      <3> QED BY <1>5, <3>2, <3>3
    <2> QED BY <2>3, <2>4, <2>5 DEF Ahead
  <1>7. Behind' /\ NewsArrives' /\ NobodyListens'
    BY <1>2 DEF Behind, NoNewer, NewsArrives, OnItsWay, Carries, NobodyListens, Nothing
  <1> QED BY <1>3, <1>4, <1>6, <1>7

(* The worker stores the oldest of what was submitted.                      *)
LEMMA ExecuteStep ==
    ASSUME SavesInv, NEW ok \in BOOLEAN, Execute(ok)
    PROVE  SavesInv'
  <1> USE Bounds DEF SavesInv
  <1> DEFINE s == Head(queue)
             r == [owner |-> s.owner, revision |-> s.revision, ok |-> ok]
  <1>1. /\ queue # <<>> /\ s \in Save /\ s = queue[1] /\ 1 \in 1..Len(queue)
        /\ Len(queue) \in Nat /\ Len(Tail(queue)) = Len(queue) - 1
        /\ \A i \in 1..Len(queue) - 1 : Tail(queue)[i] = queue[i + 1]
        /\ \A i \in 1..Len(queue) : queue[i] \in Save
    BY DEF Execute, Ways
  <1>2. s.owner \in Owners /\ s.revision \in 1..MaxSaves /\ r \in Result
        /\ r.owner = s.owner /\ r.revision = s.revision /\ r.ok = ok
    BY <1>1 DEF Save, Result
  <1>3. /\ queue' = Tail(queue)
        /\ stored' = IF ok THEN [stored EXCEPT ![s.owner] = s.revision] ELSE stored
        /\ UNCHANGED <<phase, shown, revision, committed, told, starts>>
    BY DEF Execute, stores
  <1>4. \/ /\ attaching = [save |-> <<s>>, result |-> <<>>] /\ posted' = posted
           /\ attaching' = [save |-> <<s>>, result |-> <<r>>]
        \/ /\ attaching' = attaching
           /\ posted' = IF phase = "running" THEN Append(posted, r) ELSE posted
    BY DEF Execute
  <1> HIDE DEF s, r
  <1>5. Values'
    <2>1. troubles' \in 0..MaxTroubles
      BY DEF Execute, Values
    <2>2. stored' \in [Owners -> 0..MaxSaves]
      BY <1>2, <1>3 DEF Values
    <2> QED BY <1>3, <2>1, <2>2 DEF Values
  <1>6. Ways'
    <2>1. queue' \in Seq(Save)
      BY <1>1, <1>3 DEF Ways
    <2>2. posted' \in Seq(Result)
      <3>1. Append(posted, r) \in Seq(Result)
        BY <1>2 DEF Ways
      <3>2. posted' = posted \/ posted' = Append(posted, r)
        BY <1>4
      <3> QED BY <3>1, <3>2 DEF Ways
    <2>3. attaching' \in [save : {<<>>} \cup {<<t>> : t \in Save},
                          result : {<<>>} \cup {<<t>> : t \in Result}]
      BY <1>1, <1>2, <1>4 DEF Ways
    <2> QED BY <2>1, <2>2, <2>3 DEF Ways
  <1>7. /\ stored' \in [Owners -> 0..MaxSaves]
        /\ ok => stored'[s.owner] = s.revision
        /\ ~ok => stored' = stored
        /\ \A o \in Owners : o # s.owner => stored'[o] = stored[o]
        /\ \A o \in Owners : stored[o] <= stored'[o] /\ stored[o] \in Nat /\ stored'[o] \in Nat
    <2>1. stored[s.owner] < s.revision
      BY <1>1 DEF Ahead
    <2> QED BY <1>2, <1>3, <1>5, <2>1 DEF Values
  <1>8. Ahead'
    <2>1. Len(queue') = Len(queue) - 1
          /\ \A i \in 1..Len(queue') : i + 1 \in 1..Len(queue) /\ queue'[i] = queue[i + 1]
      BY <1>1, <1>3
    <2>2. \A o \in Owners : stored'[o] <= revision'[o]
      <3>1. s.revision <= revision[s.owner]
        BY <1>1 DEF Ahead
      <3>2. \A o \in Owners : stored[o] <= revision[o]
        BY DEF Ahead
      <3> QED BY <1>2, <1>3, <1>7, <3>1, <3>2
    <2>3. \A i \in 1..Len(queue') :
             /\ stored'[queue'[i].owner] < queue'[i].revision
             /\ queue'[i].revision <= revision'[queue'[i].owner]
      <3> SUFFICES ASSUME NEW i \in 1..Len(queue')
                   PROVE  /\ stored'[queue[i + 1].owner] < queue[i + 1].revision
                          /\ queue[i + 1].revision <= revision[queue[i + 1].owner]
        BY <1>3, <2>1
      <3>1. i + 1 \in 1..Len(queue) /\ 1 < i + 1 /\ queue[i + 1].owner \in Owners
        BY <1>1, <2>1 DEF Save
      <3>2. /\ stored[queue[i + 1].owner] < queue[i + 1].revision
            /\ queue[i + 1].revision <= revision[queue[i + 1].owner]
        BY <3>1 DEF Ahead
      <3>3. queue[i + 1].owner = s.owner => s.revision < queue[i + 1].revision
        BY <1>1, <3>1 DEF Ahead
      <3>4. CASE queue[i + 1].owner = s.owner /\ ok
        <4>1. stored'[queue[i + 1].owner] < queue[i + 1].revision
          BY <1>7, <3>3, <3>4
        <4> QED BY <3>2, <4>1
      <3>5. CASE ~(queue[i + 1].owner = s.owner /\ ok)
        <4>1. stored'[queue[i + 1].owner] = stored[queue[i + 1].owner]
          <5>1. CASE ok
            BY <1>7, <3>1, <3>5, <5>1
          <5>2. CASE ~ok
            BY <1>7, <5>2
          <5> QED BY <5>1, <5>2
        <4> QED BY <3>2, <4>1
      <3> QED BY <3>4, <3>5
    <2>4. \A i, j \in 1..Len(queue') :
             i < j /\ queue'[i].owner = queue'[j].owner => queue'[i].revision < queue'[j].revision
      <3> TAKE i, j \in 1..Len(queue')
      <3>1. i + 1 \in 1..Len(queue) /\ j + 1 \in 1..Len(queue) /\ (i < j => i + 1 < j + 1)
        BY <2>1
      <3>2. i < j /\ queue[i + 1].owner = queue[j + 1].owner => queue[i + 1].revision < queue[j + 1].revision
        BY <3>1 DEF Ahead
      <3>3. queue'[i] = queue[i + 1] /\ queue'[j] = queue[j + 1]
        BY <2>1
      <3> QED BY <3>2, <3>3
    <2> QED BY <2>2, <2>3, <2>4 DEF Ahead
  <1>9. ok => r.revision = stored'[r.owner] /\ r.revision <= stored'[r.owner]
    BY <1>2, <1>7
  <1>10. \A q \in Result : NoNewer(q, stored) => NoNewer(q, stored')
    BY <1>7 DEF NoNewer, Result
  <1>11. NoNewer(r, stored')
    BY <1>2, <1>9, Zenon DEF NoNewer
  <1>12. /\ Len(posted) \in Nat /\ \A i \in 1..Len(posted) : posted[i] \in Result
         /\ \A i \in 1..Len(posted) : i \in 1..Len(posted') /\ posted'[i] = posted[i]
         /\ \A i \in 1..Len(posted') : i \in 1..Len(posted) \/ posted'[i] = r
    BY <1>2, <1>4 DEF Ways
  <1>13. Behind'
    <2>1. \A o \in Counting : committed'[o] <= stored'[o]
      BY <1>3, <1>7 DEF Behind, Values
    <2>2. \A i \in 1..Len(posted') : NoNewer(posted'[i], stored')
      BY <1>10, <1>11, <1>12 DEF Behind
    <2>3. attaching'.result # <<>> => NoNewer(attaching'.result[1], stored')
      <3>1. attaching.result # <<>> => attaching.result[1] \in Result
        BY DEF Ways
      <3> QED BY <1>4, <1>10, <1>11, <3>1 DEF Behind
    <2> QED BY <2>1, <2>2, <2>3 DEF Behind
  <1>14. NewsArrives'
    <2> SUFFICES ASSUME phase = "running", NEW o \in Counting PROVE OnItsWay(o)'
      BY <1>3 DEF NewsArrives
    <2>1. CASE ok /\ o = s.owner
      <3>1. Carries(r, o, stored')
        BY <1>2, <1>9, <2>1 DEF Carries
      <3>2. CASE attaching'.result = <<r>>
        BY <3>1, <3>2 DEF OnItsWay
      <3>3. CASE posted' = Append(posted, r)
        <4>1. Len(posted') = Len(posted) + 1 /\ posted'[Len(posted) + 1] = r
              /\ Len(posted) + 1 \in 1..Len(posted')
          BY <1>12, <3>3 DEF Ways
        <4> QED BY <3>1, <4>1 DEF OnItsWay
      <3> QED BY <1>4, <3>2, <3>3
    <2>2. CASE ~(ok /\ o = s.owner)
      <3>1. stored'[o] = stored[o] /\ committed'[o] = committed[o]
        BY <1>3, <1>7, <2>2
      <3>2. OnItsWay(o)
        BY DEF NewsArrives
      <3>3. \A i \in 1..Len(posted) : Carries(posted[i], o, stored) => Carries(posted'[i], o, stored')
        BY <1>12, <3>1 DEF Carries
      <3>4. attaching.result # <<>> => attaching'.result = attaching.result
        BY <1>4
      <3> QED BY <1>12, <3>1, <3>2, <3>3, <3>4 DEF OnItsWay, Carries
    <2> QED BY <2>1, <2>2
  <1>15. NobodyListens'
    BY <1>1, <1>3, <1>4 DEF NobodyListens, Nothing
  <1> QED BY <1>5, <1>6, <1>8, <1>13, <1>14, <1>15

(* The news of a save that is delivered keeps what is shown in its type,    *)
(* and never makes the committed value older.                               *)
LEMMA FinishedCommits ==
    ASSUME Values, Behind, NEW s \in Result, NoNewer(s, stored), Finished(s),
           UNCHANGED <<phase, stored, troubles, starts>>
    PROVE  /\ Values' /\ revision' = revision
           /\ \A o \in Counting : committed[o] <= committed'[o] /\ committed'[o] <= stored[o]
           /\ \A o \in Counting : Carries(s, o, stored) => committed'[o] = stored[o]
  <1> USE Bounds
  <1>1. s.owner \in Owners /\ s.revision \in 1..MaxSaves
    BY DEF Result
  <1>2. committed \in [Owners -> 0..MaxSaves] /\ stored \in [Owners -> 0..MaxSaves]
        /\ shown \in [Owners -> 0..MaxSaves] /\ told \in [Owners -> SUBSET (1..MaxSaves)]
    BY DEF Values
  <1>3. CASE s.ok
    <2>1. committed' = [committed EXCEPT ![s.owner] = Commits(s.owner, s.revision)]
          /\ UNCHANGED <<shown, revision, told>>
      BY <1>3 DEF Finished, Newest, Tells
    <2>2. Commits(s.owner, s.revision) \in 0..MaxSaves
      BY <1>1, <1>2 DEF Commits
    <2>3. Values'
      BY <1>1, <1>2, <2>1, <2>2 DEF Values
    <2>4. s.revision <= stored[s.owner]
      BY <1>3 DEF NoNewer
    <2>5. ASSUME NEW o \in Counting
          PROVE  /\ committed[o] <= committed'[o] /\ committed'[o] <= stored[o]
                 /\ Carries(s, o, stored) => committed'[o] = stored[o]
      <3>1. committed[o] <= stored[o]
        BY DEF Behind
      <3>2. CASE o # s.owner
        BY <1>2, <2>1, <3>1, <3>2 DEF Carries
      <3>3. CASE o = s.owner
        <4>1. committed'[o] = IF s.revision < committed[o] THEN committed[o] ELSE s.revision
          BY <1>1, <1>2, <2>1, <3>3 DEF Commits
        <4> QED BY <1>1, <1>2, <2>4, <3>1, <3>3, <4>1 DEF Carries
      <3> QED BY <3>2, <3>3
    <2> QED BY <2>1, <2>3, <2>5
  <1>4. CASE ~s.ok
    <2>1. UNCHANGED <<revision, committed>>
      BY <1>4 DEF Finished, Newest, Tells
    <2>2. shown' \in [Owners -> 0..MaxSaves]
      BY <1>1, <1>2, <1>4 DEF Finished, Newest, Tells
    <2>3. told' \in [Owners -> SUBSET (1..MaxSaves)]
      BY <1>1, <1>2, <1>4 DEF Finished, Newest, Tells
    <2>4. Values'
      BY <2>1, <2>2, <2>3 DEF Values
    <2>5. \A o \in Counting : committed[o] <= stored[o]
      BY DEF Behind
    <2> QED BY <1>2, <1>4, <2>1, <2>4, <2>5 DEF Carries
  <1> QED BY <1>3, <1>4

(* The first posted result is delivered.                                    *)
LEMMA DeliverStep ==
    ASSUME SavesInv, Deliver
    PROVE  SavesInv'
  <1> USE Bounds DEF SavesInv
  <1> DEFINE s == Head(posted)
  <1>1. /\ phase = "running" /\ attaching = Nothing /\ posted # <<>> /\ posted' = Tail(posted)
        /\ Finished(s) /\ UNCHANGED <<phase, stored, queue, attaching, troubles, starts>>
    BY DEF Deliver, bounds
  <1>2. /\ s \in Result /\ s = posted[1] /\ 1 \in 1..Len(posted)
        /\ Len(posted) \in Nat /\ Len(posted') = Len(posted) - 1 /\ posted' \in Seq(Result)
        /\ \A i \in 1..Len(posted') : i + 1 \in 1..Len(posted) /\ posted'[i] = posted[i + 1]
        /\ \A i \in 1..Len(posted) : i # 1 => i - 1 \in 1..Len(posted') /\ posted'[i - 1] = posted[i]
    BY <1>1 DEF Ways
  <1>3. NoNewer(s, stored)
    BY <1>2 DEF Behind
  <1>4. /\ Values' /\ revision' = revision
        /\ \A o \in Counting : committed[o] <= committed'[o] /\ committed'[o] <= stored[o]
        /\ \A o \in Counting : Carries(s, o, stored) => committed'[o] = stored[o]
    BY <1>1, <1>2, <1>3, FinishedCommits
  <1>5. Ways' /\ Ahead' /\ NobodyListens'
    <2>1. Ways'
      BY <1>1, <1>2 DEF Ways
    <2>2. Ahead'
      BY <1>1, <1>4 DEF Ahead
    <2> QED BY <1>1, <2>1, <2>2 DEF NobodyListens
  <1>6. Behind'
    BY <1>1, <1>2, <1>4 DEF Behind, Nothing
  <1>7. NewsArrives'
    <2> SUFFICES ASSUME NEW o \in Counting PROVE OnItsWay(o)'
      BY DEF NewsArrives
    <2>1. OnItsWay(o)
      BY <1>1 DEF NewsArrives
    <2>2. CASE committed[o] = stored[o]
      <3>1. committed'[o] = stored'[o]
        BY <1>1, <1>4, <2>2 DEF Values
      <3> QED BY <3>1 DEF OnItsWay
    <2>3. ASSUME NEW i \in 1..Len(posted), Carries(posted[i], o, stored) PROVE OnItsWay(o)'
      <3>1. CASE i = 1
        BY <1>1, <1>2, <1>4, <2>3, <3>1 DEF OnItsWay
      <3>2. CASE i # 1
        BY <1>1, <1>2, <2>3, <3>2 DEF OnItsWay
      <3> QED BY <3>1, <3>2
    <2> QED BY <1>1, <2>1, <2>2, <2>3 DEF OnItsWay, Nothing
  <1> QED BY <1>4, <1>5, <1>6, <1>7

(* The result that was there before then is delivered, or there was none.   *)
LEMMA AttachStep ==
    ASSUME SavesInv, Attach
    PROVE  SavesInv'
  <1> USE Bounds DEF SavesInv
  <1>1. /\ attaching # Nothing /\ attaching' = Nothing
        /\ UNCHANGED <<phase, stored, queue, posted, troubles, starts>>
    BY DEF Attach, bounds
  <1>2. Ways' /\ NobodyListens'
    <2>1. Nothing \in [save : {<<>>} \cup {<<t>> : t \in Save},
                       result : {<<>>} \cup {<<t>> : t \in Result}]
      BY DEF Nothing
    <2> QED BY <1>1, <2>1 DEF Ways, NobodyListens
  <1>3. CASE attaching.result = <<>>
    <2>1. UNCHANGED <<shown, revision, committed, told>>
      BY <1>3 DEF Attach, stores
    <2>2. Values' /\ Ahead'
      BY <1>1, <2>1 DEF Values, Ahead
    <2>3. Behind' /\ NewsArrives'
      BY <1>1, <1>3, <2>1 DEF Behind, NewsArrives, OnItsWay, Nothing
    <2> QED BY <1>2, <2>2, <2>3
  <1>4. CASE attaching.result # <<>>
    <2> DEFINE s == Head(attaching.result)
    <2>1. s \in Result /\ s = attaching.result[1] /\ Finished(s)
      BY <1>4 DEF Attach, Ways
    <2>2. /\ Values' /\ revision' = revision
          /\ \A o \in Counting : committed[o] <= committed'[o] /\ committed'[o] <= stored[o]
          /\ \A o \in Counting : Carries(s, o, stored) => committed'[o] = stored[o]
      <3>1. NoNewer(s, stored)
        BY <1>4, <2>1 DEF Behind
      <3> QED BY <1>1, <2>1, <3>1, FinishedCommits
    <2>3. Ahead'
      BY <1>1, <2>2 DEF Ahead
    <2>4. Behind'
      BY <1>1, <2>2 DEF Behind, Nothing
    <2>5. NewsArrives'
      <3> SUFFICES ASSUME phase = "running", NEW o \in Counting PROVE OnItsWay(o)'
        BY <1>1 DEF NewsArrives
      <3>1. OnItsWay(o)
        BY DEF NewsArrives
      <3>2. CASE committed[o] = stored[o]
        <4>1. committed[o] <= committed'[o] /\ committed'[o] <= stored[o]
              /\ committed[o] \in Int /\ committed'[o] \in Int
          BY <2>2 DEF Values
        <4>2. committed'[o] = stored'[o]
          BY <1>1, <3>2, <4>1
        <4> QED BY <4>2 DEF OnItsWay
      <3>3. CASE Carries(s, o, stored)
        BY <1>1, <2>2, <3>3 DEF OnItsWay
      <3>4. ASSUME NEW i \in 1..Len(posted), Carries(posted[i], o, stored) PROVE OnItsWay(o)'
        BY <1>1, <3>4 DEF OnItsWay
      <3> QED BY <2>1, <3>1, <3>2, <3>3, <3>4 DEF OnItsWay
    <2> QED BY <1>2, <2>2, <2>3, <2>4, <2>5
  <1> QED BY <1>3, <1>4

(* A start reads what is stored, whatever was lost before.                  *)
LEMMA StartStep ==
    ASSUME SavesInv, Start
    PROVE  SavesInv'
  <1> USE Bounds DEF SavesInv
  <1>1. /\ phase = "stopped" /\ phase' = "running"
        /\ shown' = Fresh /\ revision' = Fresh /\ committed' = Fresh /\ stored' = Fresh
        /\ told' = [o \in Owners |-> {}] /\ starts' = starts + 1
        /\ UNCHANGED <<queue, attaching, posted, troubles>>
    BY DEF Start, Begun
  <1>2. attaching = Nothing /\ posted = <<>> /\ queue = <<>>
    BY <1>1 DEF NobodyListens
  <1>3. Values'
    BY <1>1 DEF Values, Fresh
  <1>4. Ways' /\ NobodyListens'
    BY <1>1, <1>2 DEF Ways, NobodyListens
  <1>5. Ahead' /\ Behind' /\ NewsArrives'
    BY <1>1, <1>2 DEF Ahead, Behind, NewsArrives, OnItsWay, Fresh, Nothing
  <1> QED BY <1>3, <1>4, <1>5

LEMMA SavesStep == SavesInv /\ [Next]_vars => SavesInv'
  <1> SUFFICES ASSUME SavesInv, [Next]_vars PROVE SavesInv'
    OBVIOUS
  <1>1. ASSUME NEW o \in Owners, Change(o) PROVE SavesInv'
    BY <1>1, ChangeStep
  <1>2. ASSUME NEW ok \in BOOLEAN, Execute(ok) PROVE SavesInv'
    BY <1>2, ExecuteStep
  <1>3. CASE Attach
    BY <1>3, AttachStep
  <1>4. CASE Deliver
    BY <1>4, DeliverStep
  <1>5. CASE Start
    BY <1>5, StartStep
  <1>6. CASE Shutdown
    <2>1. /\ phase' = "stopping" /\ posted' = <<>> /\ attaching = Nothing
          /\ UNCHANGED <<shown, revision, committed, told, stored, queue, attaching, troubles, starts>>
      BY <1>6 DEF Shutdown, stores, bounds
    <2>2. Values' /\ Ahead'
      BY <2>1 DEF SavesInv, Values, Ahead
    <2>3. Ways'
      BY <2>1 DEF SavesInv, Ways
    <2> QED BY <2>1, <2>2, <2>3 DEF SavesInv, Behind, NewsArrives, NobodyListens, Nothing
  <1>7. CASE Stopped
    <2>1. /\ phase = "stopping" /\ phase' = "stopped" /\ queue = <<>>
          /\ UNCHANGED <<shown, revision, committed, told, stored, queue, attaching, posted, troubles, starts>>
      BY <1>7 DEF Stopped, stores, bounds
    <2>2. Values' /\ Ways' /\ Ahead'
      BY <2>1 DEF SavesInv, Values, Ways, Ahead
    <2> QED BY <2>1, <2>2 DEF SavesInv, Behind, NewsArrives, NobodyListens
  <1>8. CASE Crash
    <2>1. /\ phase' = "stopped" /\ queue' = <<>> /\ attaching' = Nothing /\ posted' = <<>>
          /\ UNCHANGED <<shown, revision, committed, told, stored, troubles, starts>>
      BY <1>8 DEF Crash, stores, bounds
    <2>2. Values' /\ Ways' /\ Ahead'
      BY <2>1 DEF SavesInv, Values, Ways, Ahead, Nothing
    <2> QED BY <2>1, <2>2 DEF SavesInv, Behind, NewsArrives, NobodyListens, Nothing
  <1>9. CASE UNCHANGED vars
    <2>1. UNCHANGED <<phase, shown, revision, committed, told, stored, queue, attaching, posted, troubles, starts>>
      BY <1>9 DEF vars, stores, bounds
    <2> QED BY <2>1 DEF SavesInv, Values, Ways, Ahead, Behind, NewsArrives, OnItsWay, NobodyListens
  <1> QED
    BY <1>1, <1>2, <1>3, <1>4, <1>5, <1>6, <1>7, <1>8, <1>9 DEF Next

(* Every variable keeps its type, for any owners and bounds.                *)
THEOREM SavesTypeCorrect == Spec => []TypeOK
  <1>1. SavesInv => TypeOK
    BY TypeParts DEF SavesInv
  <1> QED BY <1>1, SavesInitially, SavesStep, PTL DEF Spec

(* With nothing on its way, what a failed save would go back to is what the *)
(* database holds (ApplicationSettingsStore.cpp:136, the same in AiPlugin,  *)
(* CodeEditorPlugin, BrowserPlugin and WebServerPlugin).                    *)
THEOREM FailuresGoBackToWhatIsStored == Spec => []CommittedIsStored
  <1>1. SavesInv => CommittedIsStored
    <2> SUFFICES ASSUME SavesInv, NEW o \in Counting, Settled(o)
                 PROVE  committed[o] = stored[o]
      BY DEF CommittedIsStored
    <2>1. attaching = Nothing /\ phase = "running"
          /\ \A i \in 1..Len(posted) : posted[i].owner # o
      BY DEF Settled, SavesInv, Ways
    <2>2. OnItsWay(o)
      BY <2>1 DEF SavesInv, NewsArrives
    <2> QED BY <2>1, <2>2 DEF OnItsWay, Carries, Nothing
  <1> QED BY <1>1, SavesInitially, SavesStep, PTL DEF Spec

-----------------------------------------------------------------------------
\* Requests between plugins
(* The proofs, for any plugins, requests and contexts: no request is         *)
(* forgotten, and each is settled as RequestPromise says.                   *)

(* What happens to a request, from being made to being removed: it is timed  *)
(* or decided; decided, its call is posted and then its removal; and its    *)
(* reply is held until it is called.  Requests that were not made have none.*)
Course ==
    /\ arriving \cup results \cup handled \cup calls \cup leaving \cup pending \subseteq DOMAIN context
    /\ timing = pending \ decided
    /\ decided \subseteq calls \cup leaving
    /\ decided \subseteq pending
    /\ replies = pending \ leaving
    /\ calls \cap pending \cap leaving = {}
    /\ (calls \cup leaving) \cap pending \subseteq decided
    /\ \A r \in pending : context[r] \in alive

Telling ==
    /\ \A r \in Requests : called[r] \in {0, 1}
    /\ \A r \in replies : called[r] = 0
    /\ \A r \in Requests : r \notin DOMAIN context => called[r] = 0

Life ==
    /\ stage = "loaded" => alive = Contexts /\ DOMAIN context = {}
    /\ stage = "ended" => pending = {}

BusInv == BusTypeOK /\ Course /\ Telling /\ Life

LEMMA BusInitially == BusInit => BusInv
<1>1. BusInit => BusTypeOK /\ DOMAIN context = {}
    BY DEF BusInit, BusTypeOK
<1> QED BY <1>1 DEF BusInit, BusInv, Course, Telling, Life

LEMMA BusStep == BusInv /\ [BusNext]_busVars => BusInv'
<1> SUFFICES ASSUME BusInv, [BusNext]_busVars PROVE BusInv' OBVIOUS
<1> USE DEF BusInv
<1>1. CASE StartPlugins
    BY <1>1 DEF StartPlugins, askers, entries, BusTypeOK, Course, Telling, Life
<1>2. CASE PluginsReady
    BY <1>2 DEF PluginsReady, askers, entries, BusTypeOK, Course, Telling, Life
<1>3. CASE ShutdownPlugins
    BY <1>3 DEF ShutdownPlugins, Removed, askers, BusTypeOK, Course, Telling, Life
<1>4. ASSUME NEW p \in Plugins, InitializePlugin(p) PROVE BusInv'
    BY <1>4 DEF InitializePlugin, askers, entries, BusTypeOK, Course, Telling, Life
<1>5. ASSUME NEW r \in Requests, NEW c \in Contexts, NEW p \in Plugins, Request(r, c, p) PROVE BusInv'
  <2>1. /\ DOMAIN context' = DOMAIN context \cup {r} /\ context'[r] = c
        /\ \A z \in DOMAIN context : context'[z] = context[z]
    BY <1>5 DEF Request, Promise!With
  <2>2. /\ DOMAIN target' = DOMAIN context' /\ target'[r] = p
        /\ \A z \in DOMAIN context : target'[z] = target[z]
    BY <1>5, <2>1 DEF Request, BusTypeOK, Promise!With
  <2>3. context' \in [DOMAIN context' -> Contexts] /\ target' \in [DOMAIN context' -> Plugins]
    BY <1>5, <2>1, <2>2 DEF Request, Promise!With, BusTypeOK
  <2>4. BusTypeOK'
    BY <1>5, <2>1, <2>3 DEF Request, Respond, plugins, BusTypeOK
  <2>5. Course'
    BY <1>5, <2>1 DEF Request, Respond, plugins, BusTypeOK, Course
  <2>6. Telling' /\ Life'
    BY <1>5, <2>1 DEF Request, plugins, BusTypeOK, Course, Telling, Life
  <2> QED BY <2>4, <2>5, <2>6
<1>6. ASSUME NEW r \in Requests, HandleRequest(r) PROVE BusInv'
    BY <1>6 DEF HandleRequest, Respond, plugins, askers, entries, BusTypeOK, Course, Telling, Life
<1>7. ASSUME NEW r \in Requests, Answer(r) PROVE BusInv'
    BY <1>7 DEF Answer, Respond, plugins, askers, entries, BusTypeOK, Course, Telling, Life
<1>8. ASSUME NEW r \in Requests, DeliverResult(r) PROVE BusInv'
    BY <1>8 DEF DeliverResult, Complete, Removed, plugins, askers, entries, BusTypeOK, Course, Telling, Life
<1>9. ASSUME NEW r \in Requests, Timeout(r) PROVE BusInv'
    BY <1>9 DEF Timeout, Complete, Removed, plugins, askers, entries, BusTypeOK, Course, Telling, Life
<1>10. ASSUME NEW r \in Requests, Call(r) PROVE BusInv'
    BY <1>10 DEF Call, plugins, askers, BusTypeOK, Course, Telling, Life
<1>11. ASSUME NEW r \in Requests, Leave(r) PROVE BusInv'
    BY <1>11 DEF Leave, Removed, plugins, askers, BusTypeOK, Course, Telling, Life
<1>12. ASSUME NEW c \in Contexts, EndContext(c) PROVE BusInv'
    BY <1>12 DEF EndContext, Guarded, Of, Removed, plugins, BusTypeOK, Course, Telling, Life
<1>13. CASE UNCHANGED busVars
    BY <1>13 DEF busVars, plugins, askers, entries, BusTypeOK, Course, Telling, Life
<1> QED
    BY <1>1, <1>2, <1>3, <1>4, <1>5, <1>6, <1>7, <1>8, <1>9, <1>10, <1>11, <1>12, <1>13 DEF BusNext

LEMMA BusInvariant == BusSpec => []BusInv
BY BusInitially, BusStep, PTL DEF BusSpec

(* Every reachable value has its type.                                      *)
THEOREM BusTypeCorrect == BusSpec => []BusTypeOK
BY BusInvariant, PTL DEF BusInv

(* A pending request always has something on its way that ends it, and one   *)
(* that is not pending keeps nothing.                                       *)
THEOREM EachRequestEnds == BusSpec => []NoRequestIsForgotten
<1>1. BusInv => NoRequestIsForgotten
    BY DEF BusInv, BusTypeOK, Course, NoRequestIsForgotten
<1> QED BY <1>1, BusInvariant, PTL

(* Where RequestPromise sees a request.                                     *)
Seen == [r \in DOMAIN context |-> Status(r)]

(* It is dropped when the reply is let go, and only then.                    *)
LEMMA SeenDropped ==
    ASSUME BusInv, NEW r \in DOMAIN context, called' = called
    PROVE  /\ r \notin replies' => Status(r)' = IF Status(r) = "asked" THEN "dropped" ELSE Status(r)
           /\ (r \in replies <=> r \in replies') => Status(r)' = Status(r)
<1>1. called[r] = 0 \/ (called[r] = 1 /\ r \notin replies)
    BY DEF BusInv, BusTypeOK, Telling
<1>2. CASE called[r] = 0
    BY <1>2 DEF Status
<1>3. CASE called[r] = 1 /\ r \notin replies
    BY <1>3 DEF Status
<1> QED BY <1>1, <1>2, <1>3

(* It sees a request change only when its reply is called or let go.         *)
LEMMA SeenStays ==
    ASSUME called' = called, replies' = replies, context' = context
    PROVE  Seen' = Seen
BY DEF Seen, Status

(* The bus does what RequestPromise promises.                               *)
THEOREM BusKeepsItsPromise == BusSpec => RequestsAreSettledOnce
<1>1. BusInit => Promise!Init
    BY DEF BusInit, Promise!Init
<1>2. BusInv /\ [BusNext]_busVars => [Promise!Next]_(Promise!vars)
  <2> SUFFICES ASSUME BusInv, [BusNext]_busVars PROVE [Promise!Next]_(Promise!vars) OBVIOUS
  <2> USE DEF BusInv
  <2>1. CASE ShutdownPlugins
    <3>1. replies' = {} /\ called' = called /\ context' = context
      BY <2>1 DEF ShutdownPlugins, Removed, askers, Course
    <3>2. \A r \in DOMAIN context :
             Status(r)' = IF Status(r) = "asked" /\ context[r] \in Contexts THEN "dropped" ELSE Status(r)
      BY <3>1, SeenDropped DEF BusTypeOK
    <3>3. Seen' = [r \in DOMAIN context |->
             IF Seen[r] = "asked" /\ context[r] \in Contexts THEN "dropped" ELSE Seen[r]]
      BY <3>1, <3>2 DEF Seen
    <3>4. Promise!Close
      BY <2>1, <3>1, <3>3 DEF Promise!Close, Promise!Dropped, ShutdownPlugins, askers, Seen
    <3> QED BY <3>4 DEF Promise!Next
  <2>2. ASSUME NEW r \in Requests, NEW c \in Contexts, NEW p \in Plugins, Request(r, c, p)
        PROVE  Promise!Ask(r, c)
    <3>1. /\ DOMAIN context' = DOMAIN context \cup {r} /\ r \notin DOMAIN context
          /\ called' = called /\ replies' = replies \cup {r} /\ called[r] = 0
      BY <2>2 DEF Request, Promise!With, BusTypeOK, Telling
    <3>2. Status(r)' = "asked" /\ \A z \in DOMAIN context : Status(z)' = Status(z)
      BY <3>1 DEF BusTypeOK, Telling, Status
    <3>3. Seen' = [z \in DOMAIN Seen \cup {r} |-> IF z = r THEN "asked" ELSE Seen[z]]
      BY <3>1, <3>2 DEF Seen
    <3> QED BY <2>2, <3>1, <3>3 DEF Promise!Ask, Promise!With, Request, plugins, Seen
  <2>3. ASSUME NEW r \in Requests, Call(r) PROVE Promise!Answer(r) \/ UNCHANGED Promise!vars
    <3>1. context' = context /\ alive' = alive /\ stage' = stage /\ r \in DOMAIN context
      BY <2>3 DEF Call, askers, plugins, Course
    <3>2. CASE r \in replies
      <4>1. /\ called'[r] = 1 /\ replies' = replies \ {r} /\ called[r] = 0
            /\ \A z \in Requests : z # r => called'[z] = called[z]
        BY <2>3, <3>2 DEF Call, BusTypeOK, Telling
      <4>2. Status(r) = "asked" /\ Status(r)' = "answered"
        BY <3>2, <4>1 DEF Status
      <4>3. \A z \in DOMAIN context : z # r => Status(z)' = Status(z)
        BY <4>1 DEF Status, BusTypeOK
      <4>4. Seen' = [Seen EXCEPT ![r] = "answered"]
        BY <3>1, <4>2, <4>3 DEF Seen
      <4>5. stage # "ended" /\ context[r] \in alive /\ Seen[r] = "asked"
        BY <3>1, <3>2, <4>2 DEF Course, Life, Seen
      <4> QED BY <3>1, <4>4, <4>5 DEF Promise!Answer, Seen
    <3>3. CASE r \notin replies
      <4>1. called' = called /\ replies' = replies
        BY <2>3, <3>3 DEF Call, BusTypeOK
      <4> QED BY <3>1, <4>1, SeenStays DEF Promise!vars, Seen
    <3> QED BY <3>2, <3>3
  <2>4. ASSUME NEW c \in Contexts, EndContext(c) PROVE Promise!Leave(c)
    <3>1. /\ replies' = replies \ {r \in DOMAIN context : context[r] = c}
          /\ called' = called /\ context' = context
      BY <2>4 DEF EndContext, Guarded, Of, Removed, Course
    <3>2. \A r \in DOMAIN context :
             Status(r)' = IF Status(r) = "asked" /\ context[r] \in {c} THEN "dropped" ELSE Status(r)
      BY <3>1, SeenDropped
    <3>3. Seen' = [r \in DOMAIN context |->
             IF Seen[r] = "asked" /\ context[r] \in {c} THEN "dropped" ELSE Seen[r]]
      BY <3>1, <3>2 DEF Seen
    <3> QED BY <2>4, <3>1, <3>3 DEF Promise!Leave, Promise!Dropped, EndContext, plugins, Seen
  <2>5. ASSUME NEW r \in Requests, DeliverResult(r) \/ Timeout(r) PROVE UNCHANGED Promise!vars
    <3>1. /\ UNCHANGED <<stage, alive, context, called>>
          /\ replies' = replies
      BY <2>5 DEF DeliverResult, Timeout, Complete, Removed, plugins, askers, entries, Course
    <3> QED BY <3>1, SeenStays DEF Promise!vars, Seen
  <2>6. ASSUME NEW r \in Requests, Leave(r) PROVE UNCHANGED Promise!vars
    <3>1. /\ UNCHANGED <<stage, alive, context, called>>
          /\ replies' = replies
      BY <2>6 DEF Leave, Removed, plugins, askers, Course
    <3> QED BY <3>1, SeenStays DEF Promise!vars, Seen
  <2>7. ASSUME NEW r \in Requests, HandleRequest(r) \/ Answer(r) PROVE UNCHANGED Promise!vars
    <3>1. UNCHANGED <<stage, alive, context, called, replies>>
      BY <2>7 DEF HandleRequest, Answer, plugins, askers, entries
    <3> QED BY <3>1, SeenStays DEF Promise!vars, Seen
  <2>8. ASSUME StartPlugins \/ PluginsReady \/ (\E p \in Plugins : InitializePlugin(p)) \/ UNCHANGED busVars
        PROVE  UNCHANGED Promise!vars
    <3>1. UNCHANGED <<alive, context, called, replies>> /\ (stage' = "ended" <=> stage = "ended")
      BY <2>8 DEF StartPlugins, PluginsReady, InitializePlugin, busVars, plugins, askers, entries
    <3> QED BY <3>1, SeenStays DEF Promise!vars, Seen
  <2> QED
    BY <2>1, <2>2, <2>3, <2>4, <2>5, <2>6, <2>7, <2>8 DEF BusNext, Promise!Next
<1> QED BY <1>1, <1>2, BusInvariant, PTL DEF BusSpec, RequestsAreSettledOnce, Promise!Spec

-----------------------------------------------------------------------------
\* Documents of the editor
(* What is left when one is taken out of a sequence, and what there is when  *)
(* one is put to its end.                                                  *)
LEMMA OneTakenOut ==
    ASSUME NEW S, NEW s \in Seq(S), NEW i \in 1 .. Len(s)
    PROVE  /\ RemoveAt(s, i) \in Seq(S)
           /\ Len(RemoveAt(s, i)) = Len(s) - 1
           /\ \A k \in 1 .. Len(s) - 1 : RemoveAt(s, i)[k] = IF k < i THEN s[k] ELSE s[k + 1]
<1> DEFINE front == SubSeq(s, 1, i - 1)
<1> DEFINE rest == SubSeq(s, i + 1, Len(s))
<1>0. Len(s) \in Nat /\ i \in Nat /\ i >= 1 /\ i <= Len(s)
  OBVIOUS
<1>1. front \in Seq(S) /\ Len(front) = i - 1 /\ \A k \in 1 .. i - 1 : front[k] = s[k]
  <2>1. \A k \in 1 .. i - 1 : s[k] \in S
    BY <1>0, ElementOfSeq
  <2> QED
    BY <1>0, <2>1, SubSeqProperties
<1>2. rest \in Seq(S) /\ Len(rest) = Len(s) - i /\ \A k \in 1 .. Len(s) - i : rest[k] = s[i + k]
  <2>1. \A k \in i + 1 .. Len(s) : s[k] \in S
    BY <1>0, ElementOfSeq
  <2> QED
    BY <1>0, <2>1, SubSeqProperties
<1> HIDE DEF front, rest
<1>3. /\ front \o rest \in Seq(S) /\ Len(front \o rest) = Len(front) + Len(rest)
      /\ \A k \in 1 .. Len(front) + Len(rest) : (front \o rest)[k] = IF k <= Len(front) THEN front[k] ELSE rest[k - Len(front)]
  BY <1>1, <1>2, ConcatProperties
<1>4. \A k \in 1 .. Len(s) - 1 : (front \o rest)[k] = IF k < i THEN s[k] ELSE s[k + 1]
  <2> TAKE k \in 1 .. Len(s) - 1
  <2>1. CASE k < i
    BY <1>0, <1>1, <1>2, <1>3, <2>1
  <2>2. CASE k >= i
    <3> DEFINE n == k - (i - 1)
    <3>1. n \in 1 .. Len(s) - i /\ i + n = k + 1 /\ k \in 1 .. Len(front) + Len(rest) /\ ~(k <= Len(front)) /\ k - Len(front) = n
      BY <1>0, <1>1, <1>2, <2>2
    <3>2. rest[n] = s[i + n]
      BY <1>2, <3>1
    <3>3. (front \o rest)[k] = rest[n]
      BY <1>3, <3>1
    <3> QED
      BY <2>2, <3>1, <3>2, <3>3, <1>0
  <2>3. k < i \/ k >= i
    BY <1>0
  <2> QED
    BY <2>1, <2>2, <2>3
<1>5. Len(front \o rest) = Len(s) - 1
  BY <1>0, <1>1, <1>2, <1>3
<1>6. RemoveAt(s, i) = front \o rest
  BY DEF RemoveAt, front, rest
<1> QED
  BY <1>3, <1>4, <1>5, <1>6

LEMMA LeftOnes ==
    ASSUME NEW S, NEW s \in Seq(S), NEW i \in 1 .. Len(s)
    PROVE  /\ RemoveAt(s, i) \in Seq(S)
           /\ \A k \in 1 .. Len(RemoveAt(s, i)) : \E j \in 1 .. Len(s) : j # i /\ RemoveAt(s, i)[k] = s[j]
<1> DEFINE left == RemoveAt(s, i)
<1>1. left \in Seq(S) /\ Len(left) = Len(s) - 1 /\ \A k \in 1 .. Len(s) - 1 : left[k] = IF k < i THEN s[k] ELSE s[k + 1]
  BY OneTakenOut
<1> HIDE DEF left
<1>2. Len(s) \in Nat /\ i \in Nat
  OBVIOUS
<1>3. ASSUME NEW k \in 1 .. Len(s) - 1 PROVE \E j \in 1 .. Len(s) : j # i /\ left[k] = s[j]
  <2>1. CASE k < i
    <3>1. k \in 1 .. Len(s) /\ k # i /\ left[k] = s[k]
      BY <1>1, <1>2, <2>1
    <3> QED
      BY <3>1
  <2>2. CASE k >= i
    <3>1. k + 1 \in 1 .. Len(s) /\ k + 1 # i /\ left[k] = s[k + 1]
      BY <1>1, <1>2, <2>2
    <3> QED
      BY <3>1
  <2> QED
    BY <1>2, <2>1, <2>2
<1> QED
  BY <1>1, <1>3 DEF left

LEMMA TwoLeft ==
    ASSUME NEW S, NEW s \in Seq(S), NEW i \in 1 .. Len(s),
           NEW k \in 1 .. Len(RemoveAt(s, i)), NEW l \in 1 .. Len(RemoveAt(s, i))
    PROVE  \E m, n \in 1 .. Len(s) : RemoveAt(s, i)[k] = s[m] /\ RemoveAt(s, i)[l] = s[n] /\ (m = n => k = l)
<1> DEFINE left == RemoveAt(s, i)
<1>1. left \in Seq(S) /\ Len(left) = Len(s) - 1 /\ \A j \in 1 .. Len(s) - 1 : left[j] = IF j < i THEN s[j] ELSE s[j + 1]
  BY OneTakenOut
<1> HIDE DEF left
<1>2. Len(s) \in Nat /\ i \in Nat
  OBVIOUS
<1>3. ASSUME NEW j \in 1 .. Len(s) - 1
      PROVE  \E m \in 1 .. Len(s) : left[j] = s[m] /\ (j < i => m = j) /\ (j >= i => m = j + 1)
  <2>1. CASE j < i
    <3>1. j \in 1 .. Len(s) /\ left[j] = s[j] /\ ~(j >= i)
      BY <1>1, <1>2, <2>1
    <3> QED
      BY <2>1, <3>1
  <2>2. CASE j >= i
    <3>1. j + 1 \in 1 .. Len(s) /\ left[j] = s[j + 1] /\ ~(j < i)
      BY <1>1, <1>2, <2>2
    <3> QED
      BY <2>2, <3>1
  <2> QED
    BY <1>2, <2>1, <2>2
<1>4. k \in 1 .. Len(s) - 1 /\ l \in 1 .. Len(s) - 1
  BY <1>1 DEF left
<1>5. PICK m \in 1 .. Len(s) : left[k] = s[m] /\ (k < i => m = k) /\ (k >= i => m = k + 1)
  BY <1>3, <1>4
<1>6. PICK n \in 1 .. Len(s) : left[l] = s[n] /\ (l < i => n = l) /\ (l >= i => n = l + 1)
  BY <1>3, <1>4
<1>7. m = n => k = l
  BY <1>2, <1>4, <1>5, <1>6
<1> QED
  BY <1>5, <1>6, <1>7 DEF left

(* What is known of a job, where r is the revision of the text, t the edits  *)
(* in it that were noted, k those the file got, w those the reader wants in *)
(* it, and q those that the next save writes: what was read is the file's;  *)
(* a write whose revision is still that of the text writes all of it; and   *)
(* what is wanted and not in the file is in a write, or in the next one.    *)
Known(job, r, t, k, w, q) ==
    /\ job.op # "write" => job.content.typed \subseteq k /\ (job.ok => job.content \in Texts)
    /\ job.op = "write" =>
           /\ job.mark <= r
           /\ job.mark = r => t \subseteq job.content.typed \cup Blank
           /\ job.done /\ job.ok => job.content.typed \subseteq k
           /\ w \subseteq k \cup Blank \cup job.content.typed \cup q

(* What the save that follows the one under way will write.                *)
ToFollow == IF saveRequested THEN Typed ELSE {}

JobsAreKnown == \A i \in 1 .. Len(jobs) : Known(jobs[i], contentRevision, Typed, kept, wanted, ToFollow)

(* What is read, or is to be decoded, is what the file was.                  *)
FileIsKept ==
    /\ disk.typed \subseteq kept
    /\ \A k \in 1 .. Len(decodes) : decodes[k].content.typed \subseteq kept

(* One write is on its way, while the document is saving.                    *)
OneWrite ==
    open => /\ \A i, j \in 1 .. Len(jobs) : jobs[i].op = "write" /\ jobs[j].op = "write" => i = j
            /\ ~saving => \A i \in 1 .. Len(jobs) : jobs[i].op # "write"

DocInv == DocumentTypeOK /\ JobsAreKnown /\ FileIsKept /\ OneWrite /\ DocumentIsStored

(* Texts and jobs that the steps make are texts and jobs.                   *)
LEMMA TextsMade ==
    ASSUME DocumentTypeOK
    PROVE  /\ NoText \in MaybeTexts /\ NoText.typed = {}
           /\ Text("nothing") \in Texts /\ Text("nothing").typed = {}
           /\ \A c \in Contents : Text(c) \in Texts /\ Text(c).typed = {}
           /\ \A e \in Edits : LET longer == [buffer EXCEPT !.typed = @ \cup {e}]
                               IN  longer \in Texts /\ longer.typed = buffer.typed \cup {e}
           /\ Written(buffer) \in Texts /\ Written(buffer).typed = buffer.typed \ Blank
           /\ Texts \subseteq MaybeTexts
<1>1. buffer \in Texts /\ buffer.typed \subseteq Edits /\ buffer.of \in Contents \cup {"nothing"}
  BY DEF DocumentTypeOK, Texts
<1>2. Written(buffer) = [of |-> buffer.of, typed |-> buffer.typed \ Blank]
  BY <1>1 DEF Written, Texts
<1>3. \A e \in Edits : [buffer EXCEPT !.typed = @ \cup {e}] = [of |-> buffer.of, typed |-> buffer.typed \cup {e}]
  BY <1>1 DEF Texts
<1> QED
  BY <1>1, <1>2, <1>3 DEF Texts, MaybeTexts, NoText, Text

LEMMA JobsMade ==
    ASSUME NEW op \in {"reload", "watch", "write"}, NEW content \in MaybeTexts, NEW mark \in Nat
    PROVE  LET job == Job(op, content, mark)
           IN  job \in Jobs /\ job.op = op /\ job.content = content /\ job.mark = mark /\ ~job.done /\ ~job.ok
BY DEF Job, Jobs

LEMMA JobTypes ==
    ASSUME DocumentTypeOK, NEW i \in 1 .. Len(jobs)
    PROVE  /\ jobs[i] \in Jobs /\ jobs[i].op \in {"reload", "watch", "write"} /\ jobs[i].content \in MaybeTexts
           /\ jobs[i].mark \in Nat /\ jobs[i].done \in BOOLEAN /\ jobs[i].ok \in BOOLEAN
<1>1. jobs[i] \in Jobs
  BY ElementOfSeq DEF DocumentTypeOK
<1> QED
  BY <1>1 DEF Jobs

LEMMA OneMore ==
    ASSUME NEW S, NEW s \in Seq(S), NEW x \in S
    PROVE  /\ Append(s, x) \in Seq(S) /\ Len(Append(s, x)) = Len(s) + 1 /\ Append(s, x)[Len(s) + 1] = x
           /\ \A k \in 1 .. Len(s) : Append(s, x)[k] = s[k]
           /\ \A k \in 1 .. Len(Append(s, x)) : k \in 1 .. Len(s) \/ k = Len(s) + 1
<1>1. Append(s, x) \in Seq(S) /\ Len(Append(s, x)) = Len(s) + 1 /\ Append(s, x)[Len(s) + 1] = x
      /\ \A k \in 1 .. Len(s) : Append(s, x)[k] = s[k]
  BY AppendProperties
<1>2. Len(s) \in Nat
  OBVIOUS
<1> QED
  BY <1>1, <1>2

(* What is known of a job stays known while nothing that counts is taken back. *)
LEMMA KnownStays ==
    ASSUME NEW job, NEW r \in Nat, NEW t, NEW k, NEW w, NEW q, Known(job, r, t, k, w, q), job.mark \in Nat,
           NEW r2 \in Nat, NEW t2, NEW k2, NEW w2, NEW q2,
           r <= r2, r2 = r => t2 \subseteq t, k \subseteq k2,
           w2 \subseteq w \cup k2 \cup Blank, q \subseteq q2 \cup k2 \cup Blank
    PROVE  Known(job, r2, t2, k2, w2, q2)
<1>1. job.op # "write" => job.content.typed \subseteq k2 /\ (job.ok => job.content \in Texts)
  BY DEF Known
<1>2. ASSUME job.op = "write"
      PROVE  /\ job.mark <= r2
             /\ job.mark = r2 => t2 \subseteq job.content.typed \cup Blank
             /\ job.done /\ job.ok => job.content.typed \subseteq k2
             /\ w2 \subseteq k2 \cup Blank \cup job.content.typed \cup q2
  <2>1. job.mark <= r /\ (job.mark = r => t \subseteq job.content.typed \cup Blank)
        /\ (job.done /\ job.ok => job.content.typed \subseteq k) /\ w \subseteq k \cup Blank \cup job.content.typed \cup q
    BY <1>2 DEF Known
  <2>2. job.mark <= r2
    BY <2>1
  <2>3. job.mark = r2 => t2 \subseteq job.content.typed \cup Blank
    <3>1. job.mark = r2 => r2 = r
      BY <2>1
    <3> QED
      BY <2>1, <3>1
  <2>4. w2 \subseteq k2 \cup Blank \cup job.content.typed \cup q2
    BY <2>1
  <2> QED
    BY <2>1, <2>2, <2>3, <2>4
<1> QED
  BY <1>1, <1>2 DEF Known

LEMMA AllStayKnown ==
    ASSUME DocInv, contentRevision' \in Nat, contentRevision <= contentRevision',
           contentRevision' = contentRevision => Typed' \subseteq Typed, kept \subseteq kept',
           wanted' \subseteq wanted \cup kept' \cup Blank, ToFollow \subseteq ToFollow' \cup kept' \cup Blank,
           NEW i \in 1 .. Len(jobs)
    PROVE  Known(jobs[i], contentRevision', Typed', kept', wanted', ToFollow')
<1>1. jobs[i].mark \in Nat /\ contentRevision \in Nat
  BY JobTypes DEF DocInv, DocumentTypeOK
<1>2. Known(jobs[i], contentRevision, Typed, kept, wanted, ToFollow)
  BY DEF DocInv, JobsAreKnown
<1> QED
  BY <1>1, <1>2, KnownStays

LEMMA DocInitially == DocumentInit => DocInv
<1> SUFFICES ASSUME DocumentInit PROVE DocInv
  OBVIOUS
<1>1. jobs = <<>> /\ decodes = <<>> /\ Len(jobs) = 0 /\ Len(decodes) = 0
  BY EmptySeq DEF DocumentInit
<1>2. PICK c \in Contents : disk = Text(c)
  BY DEF DocumentInit
<1>3. disk \in MaybeTexts /\ disk.typed = {} /\ buffer \in Texts /\ buffer.typed = {} /\ NoText \in MaybeTexts
  BY <1>2 DEF DocumentInit, Text, Texts, MaybeTexts
<1>4. DocumentTypeOK
  <2>1. open \in BOOLEAN /\ dirty \in BOOLEAN /\ loading \in BOOLEAN /\ rereading \in BOOLEAN /\ saving \in BOOLEAN
        /\ saveRequested \in BOOLEAN
    BY DEF DocumentInit
  <2> QED
    BY <1>1, <1>3, <2>1, EmptySeq DEF DocumentTypeOK, DocumentInit
<1>5. JobsAreKnown /\ FileIsKept /\ OneWrite
  BY <1>1, <1>3 DEF JobsAreKnown, FileIsKept, OneWrite
<1>6. DocumentIsStored
  BY <1>3 DEF DocumentInit, DocumentIsStored, CleanMeansSaved, SavesReachTheFile, Typed
<1> QED
  BY <1>4, <1>5, <1>6 DEF DocInv

LEMMA JobsLeft ==
    ASSUME DocInv, contentRevision' \in Nat, contentRevision <= contentRevision',
           contentRevision' = contentRevision => Typed' \subseteq Typed, kept \subseteq kept',
           wanted' \subseteq wanted \cup kept' \cup Blank, ToFollow \subseteq ToFollow' \cup kept' \cup Blank,
           \A k \in 1 .. Len(jobs') : \E j \in 1 .. Len(jobs) : jobs'[k] = jobs[j]
    PROVE  JobsAreKnown'
<1> SUFFICES ASSUME NEW k \in 1 .. Len(jobs')
             PROVE  Known(jobs'[k], contentRevision', Typed', kept', wanted', ToFollow')
  BY DEF JobsAreKnown
<1>1. PICK j \in 1 .. Len(jobs) : jobs'[k] = jobs[j]
  OBVIOUS
<1> QED
  BY <1>1, AllStayKnown

(* documentChanged.                                                        *)
LEMMA TypeStep == ASSUME DocInv, NEW e \in Edits, Type(e) PROVE DocInv'
<1>0. /\ e \notin heard \cup kept \cup buffer.typed
      /\ buffer' \in Texts /\ buffer'.typed = buffer.typed \cup {e}
      /\ UNCHANGED <<open, disk, digests, loads, writing, jobs, decodes, kept, wanted, events>>
  BY TextsMade DEF Type, DocInv
<1>1. contentRevision \in Nat /\ heard \subseteq Edits /\ wanted \subseteq heard
  BY DEF DocInv, DocumentTypeOK
<1>2. CASE loading
  <2>1. UNCHANGED <<dirty, contentRevision, heard>>
    BY <1>2 DEF Type
  <2>2. Typed' = Typed
    BY <1>0, <2>1 DEF Typed
  <2>3. ToFollow' = ToFollow
    BY <1>0, <2>2 DEF ToFollow, writing
  <2>4. DocumentTypeOK'
    BY <1>0, <2>1 DEF DocInv, DocumentTypeOK, digests, loads, writing
  <2>5. JobsAreKnown'
    BY <1>0, <1>1, <2>1, <2>2, <2>3, JobsLeft
  <2> QED
    BY <1>0, <2>1, <2>2, <2>4, <2>5 DEF DocInv, FileIsKept, OneWrite, DocumentIsStored, CleanMeansSaved,
       SavesReachTheFile, writing
<1>3. CASE ~loading
  <2>1. dirty' = TRUE /\ contentRevision' = contentRevision + 1 /\ heard' = heard \cup {e}
    BY <1>3 DEF Type
  <2>2. Typed \subseteq Typed'
    BY <1>0, <2>1 DEF Typed
  <2>3. ToFollow \subseteq ToFollow'
    BY <1>0, <2>2 DEF ToFollow, writing
  <2>4. DocumentTypeOK'
    BY <1>0, <1>1, <2>1 DEF DocInv, DocumentTypeOK, digests, loads, writing
  <2>5. JobsAreKnown'
    <3>1. contentRevision' \in Nat /\ contentRevision <= contentRevision' /\ contentRevision' # contentRevision
      BY <1>1, <2>1
    <3> QED
      BY <1>0, <2>3, <3>1, JobsLeft
  <2> QED
    BY <1>0, <2>1, <2>4, <2>5 DEF DocInv, FileIsKept, OneWrite, DocumentIsStored, CleanMeansSaved, SavesReachTheFile, writing
<1> QED
  BY <1>2, <1>3

(* A job that reads is added: nothing but that.                              *)
LEMMA ReadAsked ==
    ASSUME DocInv, NEW op \in {"reload", "watch"}, NEW mark \in Nat, jobs' = Append(jobs, Job(op, NoText, mark)),
           UNCHANGED <<open, disk, buffer, dirty, saving, saveRequested, contentRevision, decodes, heard, kept, wanted>>,
           DocumentTypeOK'
    PROVE  DocInv'
<1> DEFINE new == Job(op, NoText, mark)
<1>1. new \in Jobs /\ new.op = op /\ new.content = NoText /\ NoText.typed = {} /\ op # "write" /\ ~new.ok
  BY JobsMade, TextsMade DEF DocInv
<1> HIDE DEF new
<1>2. jobs \in Seq(Jobs) /\ jobs' = Append(jobs, new)
  BY DEF DocInv, DocumentTypeOK, new
<1>3. /\ jobs'[Len(jobs) + 1] = new /\ \A k \in 1 .. Len(jobs) : jobs'[k] = jobs[k]
      /\ \A k \in 1 .. Len(jobs') : k \in 1 .. Len(jobs) \/ k = Len(jobs) + 1
  BY <1>1, <1>2, OneMore
<1>4. Typed' = Typed /\ ToFollow' = ToFollow /\ contentRevision \in Nat
  BY DEF Typed, ToFollow, DocInv, DocumentTypeOK
<1>5. JobsAreKnown'
  <2> SUFFICES ASSUME NEW k \in 1 .. Len(jobs')
               PROVE  Known(jobs'[k], contentRevision', Typed', kept', wanted', ToFollow')
    BY DEF JobsAreKnown
  <2>1. CASE k \in 1 .. Len(jobs)
    BY <1>3, <1>4, <2>1 DEF DocInv, JobsAreKnown
  <2>2. CASE k = Len(jobs) + 1
    BY <1>1, <1>3, <2>2 DEF Known
  <2> QED
    BY <1>3, <2>1, <2>2
<1>6. \A k \in 1 .. Len(jobs') : jobs'[k].op = "write" => k \in 1 .. Len(jobs) /\ jobs'[k] = jobs[k]
  BY <1>1, <1>3
<1>7. OneWrite'
  BY <1>6 DEF DocInv, OneWrite
<1> QED
  BY <1>4, <1>5, <1>7 DEF DocInv, FileIsKept, DocumentIsStored, CleanMeansSaved, SavesReachTheFile

LEMMA ReloadStep == ASSUME DocInv, NEW reread \in BOOLEAN, ReloadFile(reread) PROVE DocInv'
<1>1. generation' = generation + 1 /\ loading' = TRUE /\ jobs' = Append(jobs, Job("reload", NoText, generation'))
      /\ events' \in {events, events + 1}
      /\ UNCHANGED <<open, disk, buffer, digests, dirty, writing, contentRevision, decodes, heard, kept, wanted>>
  BY DEF ReloadFile, Event
<1>2. rereading' \in BOOLEAN
  BY Zenon DEF ReloadFile, DocInv, DocumentTypeOK
<1>3. generation' \in Nat /\ events' \in Nat /\ jobs \in Seq(Jobs)
  BY <1>1 DEF DocInv, DocumentTypeOK
<1>4. jobs' \in Seq(Jobs)
  <2>1. NoText \in MaybeTexts
    BY TextsMade DEF DocInv
  <2>2. Job("reload", NoText, generation') \in Jobs
    BY <1>3, <2>1, JobsMade
  <2> QED
    BY <1>1, <1>3, <2>2, OneMore
<1>5. DocumentTypeOK'
  BY <1>1, <1>2, <1>3, <1>4 DEF DocInv, DocumentTypeOK, digests, writing
<1> QED
  BY <1>1, <1>3, <1>5, ReadAsked DEF writing

LEMMA ClosedStep == ASSUME DocInv, Closed PROVE DocInv'
<1>1. /\ open' = FALSE /\ buffer' = Text("nothing") /\ storedDigest' = NoText /\ appliedDigest' = NoText
      /\ dirty' = FALSE /\ loading' = FALSE /\ rereading' = FALSE /\ saving' = FALSE /\ saveRequested' = FALSE
      /\ decodes' = <<>> /\ wanted' = {}
      /\ UNCHANGED <<disk, contentRevision, generation, jobs, heard, kept, events>>
  BY DEF Closed
<1>2. Typed' = {} /\ ToFollow' = {} /\ <<>> \in Seq([generation : Nat, content : Texts]) /\ Len(<<>>) = 0
  BY <1>1, TextsMade, EmptySeq DEF Typed, ToFollow, DocInv
<1>3. DocumentTypeOK'
  BY <1>1, <1>2, TextsMade DEF DocInv, DocumentTypeOK
<1>4. JobsAreKnown'
  <2> SUFFICES ASSUME NEW k \in 1 .. Len(jobs')
               PROVE  Known(jobs'[k], contentRevision', Typed', kept', wanted', ToFollow')
    BY DEF JobsAreKnown
  <2>1. Known(jobs[k], contentRevision, Typed, kept, wanted, ToFollow)
    BY <1>1 DEF DocInv, JobsAreKnown
  <2> QED
    BY <1>1, <1>2, <2>1 DEF Known
<1> QED
  BY <1>1, <1>2, <1>3, <1>4 DEF DocInv, FileIsKept, OneWrite, DocumentIsStored, CleanMeansSaved, SavesReachTheFile

LEMMA WatchedStep == ASSUME DocInv, WatchedFileChanged PROVE DocInv'
<1>1. CASE UNCHANGED documentVars
  BY <1>1 DEF documentVars, digests, loads, writing, history, DocInv, DocumentTypeOK, JobsAreKnown, FileIsKept, OneWrite,
     DocumentIsStored, CleanMeansSaved, SavesReachTheFile, Typed, ToFollow
<1>2. CASE /\ jobs' = Append(jobs, Job("watch", NoText, 0))
           /\ UNCHANGED <<open, disk, buffer, digests, dirty, loads, writing, contentRevision, decodes, history>>
  <2>1. jobs' \in Seq(Jobs)
    <3>1. NoText \in MaybeTexts /\ jobs \in Seq(Jobs)
      BY TextsMade DEF DocInv, DocumentTypeOK
    <3>2. Job("watch", NoText, 0) \in Jobs
      BY <3>1, JobsMade
    <3> QED
      BY <1>2, <3>1, <3>2, OneMore
  <2>2. DocumentTypeOK'
    BY <1>2, <2>1 DEF DocInv, DocumentTypeOK, digests, loads, writing, history
  <2> QED
    BY <1>2, <2>2, ReadAsked DEF writing, history
<1> QED
  BY <1>1, <1>2, ClosedStep DEF WatchedFileChanged

LEMMA ChangedStep == ASSUME DocInv, ChangeFile PROVE DocInv'
<1>1. /\ disk' \in MaybeTexts /\ disk'.typed = {} /\ events' = events + 1
      /\ UNCHANGED <<open, buffer, digests, dirty, loads, writing, contentRevision, jobs, decodes, heard, kept, wanted>>
  BY TextsMade DEF ChangeFile, Event, DocInv
<1>2. DocumentTypeOK'
  BY <1>1 DEF DocInv, DocumentTypeOK, digests, loads, writing
<1> QED
  BY <1>1, <1>2 DEF DocInv, JobsAreKnown, FileIsKept, OneWrite, DocumentIsStored, CleanMeansSaved, SavesReachTheFile,
     Typed, ToFollow, writing

(* What a save writes is what is typed now, under the revision of now.       *)
LEMMA SaveMade ==
    ASSUME DocumentTypeOK
    PROVE  /\ WriteJob \in Jobs /\ WriteJob.op = "write" /\ WriteJob.mark = contentRevision /\ ~WriteJob.done
           /\ Typed \subseteq WriteJob.content.typed \cup Blank
<1>1. Written(buffer) \in MaybeTexts /\ Written(buffer).typed = buffer.typed \ Blank /\ contentRevision \in Nat
  BY TextsMade DEF DocumentTypeOK
<1>2. LET job == Job("write", Written(buffer), contentRevision)
      IN  job \in Jobs /\ job.op = "write" /\ job.content = Written(buffer) /\ job.mark = contentRevision /\ ~job.done
  BY <1>1, JobsMade
<1> QED
  BY <1>1, <1>2 DEF WriteJob, Typed

LEMMA SaveStep == ASSUME DocInv, open, NEW always \in BOOLEAN, SaveDocument(always) PROVE DocInv'
<1>0. /\ events' = events + 1 /\ wanted \subseteq heard /\ contentRevision \in Nat
      /\ UNCHANGED <<open, disk, buffer, digests, dirty, loads, contentRevision, decodes, heard, kept>>
      /\ Typed' = Typed
  BY DEF SaveDocument, Event, Typed, DocInv, DocumentTypeOK
<1>1. CASE CannotSpell /\ UNCHANGED wanted
  <2>1. UNCHANGED <<saving, saveRequested, jobs>>
    BY <1>1 DEF CannotSpell, writing
  <2>2. DocumentTypeOK'
    BY <1>0, <1>1, <2>1 DEF DocInv, DocumentTypeOK, digests, loads
  <2> QED
    BY <1>0, <1>1, <2>1, <2>2 DEF DocInv, JobsAreKnown, FileIsKept, OneWrite, DocumentIsStored, CleanMeansSaved,
       SavesReachTheFile, ToFollow
<1>2. CASE saving /\ saveRequested' = TRUE /\ UNCHANGED <<saving, jobs>> /\ wanted' = wanted \cup Typed
  <2>1. wanted' \subseteq heard'
    BY <1>0, <1>2 DEF Typed
  <2>2. DocumentTypeOK'
    BY <1>0, <1>2, <2>1 DEF DocInv, DocumentTypeOK, digests, loads
  <2>3. ToFollow' = Typed
    BY <1>0, <1>2 DEF ToFollow
  <2>4. ToFollow \subseteq Typed
    BY DEF ToFollow
  <2>5. JobsAreKnown'
    <3> SUFFICES ASSUME NEW i \in 1 .. Len(jobs')
                 PROVE  Known(jobs'[i], contentRevision', Typed', kept', wanted', ToFollow')
      BY DEF JobsAreKnown
    <3>1. Known(jobs[i], contentRevision, Typed, kept, wanted, ToFollow)
      BY <1>2 DEF DocInv, JobsAreKnown
    <3> QED
      BY <1>0, <1>2, <2>3, <2>4, <3>1 DEF Known
  <2> QED
    BY <1>0, <1>2, <2>2, <2>5 DEF DocInv, FileIsKept, OneWrite, DocumentIsStored, CleanMeansSaved, SavesReachTheFile
<1>3. CASE /\ ~saving /\ saving' = TRUE /\ jobs' = Append(jobs, WriteJob) /\ UNCHANGED saveRequested
           /\ wanted' = wanted \cup Typed
  <2>1. /\ WriteJob \in Jobs /\ WriteJob.op = "write" /\ WriteJob.mark = contentRevision /\ ~WriteJob.done
        /\ Typed \subseteq WriteJob.content.typed \cup Blank /\ jobs \in Seq(Jobs)
    BY SaveMade DEF DocInv, DocumentTypeOK
  <2>2. /\ jobs' \in Seq(Jobs) /\ jobs'[Len(jobs) + 1] = WriteJob /\ \A k \in 1 .. Len(jobs) : jobs'[k] = jobs[k]
        /\ \A k \in 1 .. Len(jobs') : k \in 1 .. Len(jobs) \/ k = Len(jobs) + 1
    BY <1>3, <2>1, OneMore
  <2>3. wanted' \subseteq heard'
    BY <1>0, <1>3 DEF Typed
  <2>4. DocumentTypeOK'
    BY <1>0, <1>3, <2>2, <2>3 DEF DocInv, DocumentTypeOK, digests, loads
  <2>5. wanted \subseteq kept \cup Blank /\ \A i \in 1 .. Len(jobs) : jobs[i].op # "write"
    BY <1>3 DEF DocInv, DocumentIsStored, SavesReachTheFile, OneWrite
  <2>6. JobsAreKnown'
    <3> SUFFICES ASSUME NEW k \in 1 .. Len(jobs')
                 PROVE  Known(jobs'[k], contentRevision', Typed', kept', wanted', ToFollow')
      BY DEF JobsAreKnown
    <3>1. CASE k \in 1 .. Len(jobs)
      <4>1. Known(jobs[k], contentRevision, Typed, kept, wanted, ToFollow) /\ jobs[k].op # "write"
        BY <2>5, <3>1 DEF DocInv, JobsAreKnown
      <4> QED
        BY <1>0, <2>2, <3>1, <4>1 DEF Known
    <3>2. CASE k = Len(jobs) + 1
      BY <1>0, <1>3, <2>1, <2>2, <2>5, <3>2 DEF Known
    <3> QED
      BY <2>2, <3>1, <3>2
  <2>7. OneWrite'
    <3>1. \A k \in 1 .. Len(jobs') : jobs'[k].op = "write" => k = Len(jobs) + 1
      BY <2>2, <2>5
    <3> QED
      BY <1>3, <3>1 DEF OneWrite
  <2>8. FileIsKept' /\ DocumentIsStored'
    BY <1>0, <1>3 DEF DocInv, FileIsKept, DocumentIsStored, CleanMeansSaved, SavesReachTheFile
  <2> QED
    BY <2>4, <2>6, <2>7, <2>8 DEF DocInv
<1> QED
  BY <1>1, <1>2, <1>3 DEF SaveDocument, WriteContent

(* A job that read is over, and what it read may be decoded.                 *)
LEMMA ReadOver ==
    ASSUME DocInv, NEW i \in 1 .. Len(jobs), jobs[i].op # "write", jobs' = RemoveAt(jobs, i),
           decodes' \in {decodes, Decoding(jobs[i])}, loading' \in BOOLEAN,
           UNCHANGED <<open, disk, buffer, digests, dirty, rereading, generation, writing, contentRevision, history>>
    PROVE  DocInv'
<1>1. jobs \in Seq(Jobs) /\ contentRevision \in Nat /\ generation \in Nat /\ i \in 1 .. Len(jobs)
      /\ jobs[i].content \in MaybeTexts
  BY JobTypes DEF DocInv, DocumentTypeOK
<1>2. jobs' \in Seq(Jobs) /\ \A k \in 1 .. Len(jobs') : \E j \in 1 .. Len(jobs) : j # i /\ jobs'[k] = jobs[j]
  <2>1. /\ RemoveAt(jobs, i) \in Seq(Jobs)
        /\ \A k \in 1 .. Len(RemoveAt(jobs, i)) : \E j \in 1 .. Len(jobs) : j # i /\ RemoveAt(jobs, i)[k] = jobs[j]
    BY <1>1, LeftOnes
  <2> QED
    BY <2>1
<1>3. Typed' = Typed /\ ToFollow' = ToFollow
  BY DEF Typed, ToFollow, writing, history
<1>4. JobsAreKnown'
  BY <1>1, <1>2, <1>3, JobsLeft DEF history
<1> DEFINE Decode == [generation : Nat, content : Texts]
<1>5. decodes \in Seq(Decode) /\ \A k \in 1 .. Len(decodes) : decodes[k].content.typed \subseteq kept
  BY DEF DocInv, DocumentTypeOK, FileIsKept
<1>6. decodes' \in Seq(Decode) /\ \A k \in 1 .. Len(decodes') : decodes'[k].content.typed \subseteq kept
  <2>1. CASE decodes' = decodes
    BY <1>5, <2>1
  <2>2. CASE decodes' # decodes
    <3> DEFINE new == [generation |-> generation, content |-> jobs[i].content]
    <3>1. decodes' = Append(decodes, new) /\ jobs[i].ok
      BY <2>2 DEF Decoding
    <3>3. jobs[i].content.typed \subseteq kept /\ (jobs[i].ok => jobs[i].content \in Texts)
      BY DEF DocInv, JobsAreKnown, Known
    <3>2. new \in Decode /\ new.content = jobs[i].content
      BY <1>1, <3>1, <3>3
    <3> HIDE DEF new, Decode
    <3>4. /\ decodes' \in Seq(Decode) /\ decodes'[Len(decodes) + 1] = new
          /\ \A k \in 1 .. Len(decodes) : decodes'[k] = decodes[k]
          /\ \A k \in 1 .. Len(decodes') : k \in 1 .. Len(decodes) \/ k = Len(decodes) + 1
      BY <1>5, <3>1, <3>2, OneMore
    <3> QED
      BY <1>5, <3>2, <3>3, <3>4
  <2> QED
    BY <2>1, <2>2
<1>7. DocumentTypeOK'
  BY <1>2, <1>6 DEF DocInv, DocumentTypeOK, digests, writing, history
<1>8. OneWrite'
  <2>1. open => \A k, l \in 1 .. Len(jobs') : jobs'[k].op = "write" /\ jobs'[l].op = "write" => k = l
    <3> SUFFICES ASSUME open, NEW k \in 1 .. Len(jobs'), NEW l \in 1 .. Len(jobs'), jobs'[k].op = "write", jobs'[l].op = "write"
                 PROVE  k = l
      OBVIOUS
    <3>1. PICK m, n \in 1 .. Len(jobs) : jobs'[k] = jobs[m] /\ jobs'[l] = jobs[n] /\ (m = n => k = l)
      BY <1>1, TwoLeft
    <3> QED
      BY <3>1 DEF DocInv, OneWrite
  <2>2. open /\ ~saving => \A k \in 1 .. Len(jobs') : jobs'[k].op # "write"
    BY <1>2 DEF DocInv, OneWrite
  <2> QED
    BY <2>1, <2>2 DEF OneWrite, writing
<1>9. FileIsKept' /\ DocumentIsStored'
  BY <1>3, <1>6 DEF DocInv, FileIsKept, DocumentIsStored, CleanMeansSaved, SavesReachTheFile, writing, history
<1> QED
  BY <1>4, <1>7, <1>8, <1>9 DEF DocInv

LEMMA LoadedStep == ASSUME DocInv, NEW i \in 1 .. Len(jobs), OnLoaded(i) \/ OnWatched(i) PROVE DocInv'
<1>1. loading \in BOOLEAN
  BY DEF DocInv, DocumentTypeOK
<1>2. CASE OnLoaded(i)
  <2>1. loading' \in BOOLEAN /\ decodes' \in {decodes, Decoding(jobs[i])}
    BY <1>1, <1>2 DEF OnLoaded
  <2> QED
    BY <1>2, <2>1, ReadOver DEF OnLoaded, Done
<1>3. CASE OnWatched(i)
  BY <1>1, <1>3, ReadOver DEF OnWatched, Done, loads
<1> QED
  BY <1>2, <1>3

(* The continuation of writeContent.                                        *)
LEMMA SavedStep == ASSUME DocInv, open, NEW i \in 1 .. Len(jobs), OnSaved(i) PROVE DocInv'
<1> DEFINE job == jobs[i]
<1> DEFINE left == RemoveAt(jobs, i)
<1>0. /\ saveRequested' = FALSE /\ Typed' = Typed /\ ToFollow' = {}
      /\ UNCHANGED <<open, disk, buffer, appliedDigest, loads, contentRevision, decodes, heard, kept, events>>
  BY DEF OnSaved, Typed, ToFollow
<1>1. job.op = "write" /\ job.done /\ jobs \in Seq(Jobs) /\ contentRevision \in Nat /\ wanted \subseteq heard
  BY DEF OnSaved, Done, DocInv, DocumentTypeOK
<1>2. /\ job.mark = contentRevision => Typed \subseteq job.content.typed \cup Blank
      /\ job.ok => job.content.typed \subseteq kept
      /\ wanted \subseteq kept \cup Blank \cup job.content.typed \cup ToFollow
  BY <1>1 DEF DocInv, JobsAreKnown, Known
<1>3. left \in Seq(Jobs) /\ \A k \in 1 .. Len(left) : \E j \in 1 .. Len(jobs) : j # i /\ left[k] = jobs[j]
  BY <1>1, LeftOnes
<1>4. \A k \in 1 .. Len(left) :
          left[k].op # "write" /\ left[k].content.typed \subseteq kept /\ (left[k].ok => left[k].content \in Texts)
  <2> TAKE k \in 1 .. Len(left)
  <2>1. PICK j \in 1 .. Len(jobs) : j # i /\ left[k] = jobs[j]
    BY <1>3
  <2>2. jobs[j].op # "write"
    BY <1>1, <2>1 DEF DocInv, OneWrite
  <2>3. Known(jobs[j], contentRevision, Typed, kept, wanted, ToFollow)
    BY DEF DocInv, JobsAreKnown
  <2> QED
    BY <2>1, <2>2, <2>3 DEF Known
<1>5. storedDigest' \in MaybeTexts
  BY JobTypes DEF OnSaved, DocInv, DocumentTypeOK
<1>6. dirty' \in BOOLEAN /\ (~dirty' => ~dirty \/ (job.ok /\ job.mark = contentRevision))
  <2>1. CASE job.ok
    <3>1. dirty' = (dirty /\ contentRevision # job.mark)
      BY <2>1 DEF OnSaved, StillDirty
    <3> QED
      BY <2>1, <3>1, Zenon
  <2>2. CASE ~job.ok
    <3>1. dirty' = dirty
      BY <2>2 DEF OnSaved
    <3>2. dirty \in BOOLEAN
      BY DEF DocInv, DocumentTypeOK
    <3> QED
      BY <3>1, <3>2, Zenon
  <2> QED
    BY <2>1, <2>2
<1>7. CleanMeansSaved'
  <2>1. ~dirty => Typed \subseteq kept \cup Blank
    BY DEF DocInv, DocumentIsStored, CleanMeansSaved
  <2>2. ~dirty' => Typed \subseteq kept \cup Blank
    BY <1>2, <1>6, <2>1
  <2> QED
    BY <1>0, <2>2 DEF CleanMeansSaved
<1>8. FileIsKept'
  BY <1>0 DEF DocInv, FileIsKept
<1> HIDE DEF left
<1>9. CASE saving' = FALSE /\ jobs' = left /\ wanted' \subseteq wanted /\ wanted' \subseteq kept \cup Blank
  <2>1. DocumentTypeOK'
    BY <1>0, <1>1, <1>3, <1>5, <1>6, <1>9 DEF DocInv, DocumentTypeOK, loads
  <2>2. JobsAreKnown' /\ OneWrite'
    BY <1>0, <1>4, <1>9 DEF JobsAreKnown, Known, OneWrite
  <2>3. SavesReachTheFile'
    BY <1>0, <1>9 DEF SavesReachTheFile
  <2> QED
    BY <1>7, <1>8, <2>1, <2>2, <2>3 DEF DocInv, DocumentIsStored
<1>10. CASE Follows(job) /\ saving' = TRUE /\ jobs' = Append(left, WriteJob) /\ UNCHANGED wanted
  <2>1. /\ WriteJob \in Jobs /\ WriteJob.op = "write" /\ WriteJob.mark = contentRevision /\ ~WriteJob.done
        /\ Typed \subseteq WriteJob.content.typed \cup Blank
    BY SaveMade DEF DocInv
  <2>2. /\ jobs' \in Seq(Jobs) /\ jobs'[Len(left) + 1] = WriteJob /\ \A k \in 1 .. Len(left) : jobs'[k] = left[k]
        /\ \A k \in 1 .. Len(jobs') : k \in 1 .. Len(left) \/ k = Len(left) + 1
    BY <1>3, <1>10, <2>1, OneMore
  <2>3. DocumentTypeOK'
    BY <1>0, <1>1, <1>5, <1>6, <1>10, <2>2 DEF DocInv, DocumentTypeOK, loads
  <2>4. ToFollow \subseteq Typed
    BY DEF ToFollow
  <2>5. wanted' \subseteq kept' \cup Blank \cup WriteJob.content.typed
    BY <1>0, <1>2, <1>10, <2>1, <2>4 DEF Follows
  <2>6. JobsAreKnown'
    <3> SUFFICES ASSUME NEW k \in 1 .. Len(jobs')
                 PROVE  Known(jobs'[k], contentRevision', Typed', kept', wanted', ToFollow')
      BY DEF JobsAreKnown
    <3>1. CASE k \in 1 .. Len(left)
      BY <1>0, <1>4, <2>2, <3>1 DEF Known
    <3>2. CASE k = Len(left) + 1
      BY <1>0, <1>1, <2>1, <2>2, <2>5, <3>2 DEF Known
    <3> QED
      BY <2>2, <3>1, <3>2
  <2>7. OneWrite'
    <3>1. \A k \in 1 .. Len(jobs') : jobs'[k].op = "write" => k = Len(left) + 1
      BY <1>4, <2>2
    <3> QED
      BY <1>10, <3>1 DEF OneWrite
  <2>8. SavesReachTheFile'
    BY <1>10 DEF SavesReachTheFile
  <2> QED
    BY <1>7, <1>8, <2>3, <2>6, <2>7, <2>8 DEF DocInv, DocumentIsStored
<1>11. CASE ~Follows(job) /\ saving' = FALSE /\ jobs' = left /\ wanted' = IF job.ok THEN wanted ELSE {}
  <2>1. CASE job.ok
    <3>1. wanted' = wanted /\ ToFollow = {}
      BY <1>11, <2>1 DEF Follows, ToFollow
    <3> QED
      BY <1>2, <1>9, <1>11, <2>1, <3>1
  <2>2. CASE ~job.ok
    BY <1>9, <1>11, <2>2
  <2> QED
    BY <2>1, <2>2
<1>12. CASE saving' = FALSE /\ jobs' = left /\ wanted' = {}
  BY <1>9, <1>12
<1> QED
  BY <1>10, <1>11, <1>12 DEF OnSaved, left

LEMMA DecodedStep == ASSUME DocInv, NEW k \in 1 .. Len(decodes), ApplyDecoded(k) PROVE DocInv'
<1> DEFINE content == decodes[k].content
<1> DEFINE Decode == [generation : Nat, content : Texts]
<1>0. decodes' = RemoveAt(decodes, k) /\ UNCHANGED <<open, disk, generation, writing, jobs, heard, kept, events>>
  BY DEF ApplyDecoded
<1>1. decodes \in Seq(Decode) /\ contentRevision \in Nat /\ rereading \in BOOLEAN
  BY DEF DocInv, DocumentTypeOK
<1>2. content \in Texts /\ content.typed \subseteq kept /\ content.of \in Contents \cup {"nothing"}
  <2>1. decodes[k] \in Decode
    BY <1>1, ElementOfSeq
  <2> QED
    BY <2>1 DEF DocInv, FileIsKept, Texts
<1> HIDE DEF Decode
<1>3. decodes' \in Seq(Decode) /\ \A l \in 1 .. Len(decodes') : \E j \in 1 .. Len(decodes) : decodes'[l] = decodes[j]
  BY <1>0, <1>1, LeftOnes
<1>4. FileIsKept'
  BY <1>0, <1>3 DEF DocInv, FileIsKept
<1>5. OneWrite'
  BY <1>0 DEF DocInv, OneWrite, writing
<1>6. CASE rereading' \in BOOLEAN /\ UNCHANGED <<buffer, digests, dirty, loading, contentRevision, wanted>>
  <2>1. DocumentTypeOK'
    BY <1>0, <1>3, <1>6 DEF DocInv, DocumentTypeOK, digests, writing, Decode
  <2> QED
    BY <1>0, <1>4, <1>5, <1>6, <2>1 DEF DocInv, JobsAreKnown, DocumentIsStored, CleanMeansSaved, SavesReachTheFile, Typed,
       ToFollow, writing
<1>7. CASE ~Ignored(content) /\ rereading' = FALSE /\ Adopt(content)
  <2>1. /\ storedDigest' = content /\ appliedDigest' = content /\ dirty' = FALSE /\ contentRevision' = contentRevision + 1
        /\ wanted' \subseteq wanted /\ (rereading => wanted' = {})
    BY <1>7 DEF Adopt
  <2>2. \/ buffer' = content /\ loading' = FALSE
        \/ ~rereading /\ UNCHANGED <<buffer, loading>>
    BY <1>7 DEF Adopt, Replaces
  <2>3. ~rereading => ~dirty
    BY <1>7 DEF Ignored
  <2>4. ~rereading => Typed \subseteq kept \cup Blank
    BY <2>3 DEF DocInv, DocumentIsStored, CleanMeansSaved
  <2>5. Typed' \subseteq kept \cup Blank
    BY <1>0, <1>2, <2>2, <2>4 DEF Typed
  <2>6. DocumentTypeOK'
    <3>1. storedDigest' \in MaybeTexts /\ appliedDigest' \in MaybeTexts
      BY <1>2, <2>1 DEF MaybeTexts
    <3>2. buffer' \in Texts /\ loading' \in BOOLEAN
      BY <1>2, <2>2 DEF DocInv, DocumentTypeOK
    <3>3. decodes' \in Seq([generation : Nat, content : Texts])
      BY <1>3 DEF Decode
    <3>4. contentRevision' \in Nat /\ wanted' \subseteq heard
      BY <1>1, <2>1 DEF DocInv, DocumentTypeOK
    <3>5. dirty' = FALSE /\ rereading' = FALSE
      BY <1>7, <2>1
    <3> HIDE DEF content
    <3> QED
      BY <1>0, <3>1, <3>2, <3>3, <3>4, <3>5 DEF DocInv, DocumentTypeOK, writing
  <2>7. JobsAreKnown'
    <3> SUFFICES ASSUME NEW i \in 1 .. Len(jobs')
                 PROVE  Known(jobs'[i], contentRevision', Typed', kept', wanted', ToFollow')
      BY DEF JobsAreKnown
    <3>1. Known(jobs[i], contentRevision, Typed, kept, wanted, ToFollow) /\ jobs[i].mark \in Nat
      BY <1>0, JobTypes DEF DocInv, JobsAreKnown
    <3>2. contentRevision' # contentRevision /\ \A mark \in Nat : mark <= contentRevision => mark < contentRevision'
      BY <1>1, <2>1
    <3>3. wanted' \subseteq kept' \cup Blank \cup jobs[i].content.typed \cup ToFollow' \/ jobs[i].op # "write"
      <4>1. CASE rereading
        BY <2>1, <4>1
      <4>2. CASE ~rereading
        <5>1. ToFollow \subseteq kept \cup Blank
          BY <2>4, <4>2 DEF ToFollow
        <5> QED
          BY <1>0, <2>1, <3>1, <5>1 DEF Known
      <4> QED
        BY <4>1, <4>2
    <3>4. jobs[i].op = "write" => jobs[i].mark < contentRevision'
      BY <3>1, <3>2 DEF Known
    <3> QED
      BY <1>0, <1>1, <2>1, <3>1, <3>3, <3>4 DEF Known
  <2>8. DocumentIsStored'
    BY <1>0, <2>1, <2>5 DEF DocInv, DocumentIsStored, CleanMeansSaved, SavesReachTheFile, writing
  <2> QED
    BY <1>4, <1>5, <2>6, <2>7, <2>8 DEF DocInv
<1> QED
  BY <1>1, <1>6, <1>7 DEF ApplyDecoded

(* One job is done, and nothing else of the jobs changes.                    *)
LEMMA JobStep == ASSUME DocInv, DoJob PROVE DocInv'
<1>0. UNCHANGED <<open, buffer, digests, dirty, loads, writing, contentRevision, decodes, heard, wanted, events>>
  BY DEF DoJob
<1>1. PICK i \in 1 .. Len(jobs) : FirstLeft(i) /\ (ReadNow(i) \/ WriteNow(i))
  BY DEF DoJob, DocInv, DocumentTypeOK
<1> DEFINE job == jobs[i]
<1>2. /\ jobs \in Seq(Jobs) /\ job \in Jobs /\ job.op \in {"reload", "watch", "write"} /\ job.content \in MaybeTexts
      /\ job.mark \in Nat /\ contentRevision \in Nat /\ ~job.done
  BY <1>1, JobTypes DEF DocInv, DocumentTypeOK, FirstLeft
<1>3. Typed' = Typed /\ ToFollow' = ToFollow
  BY <1>0 DEF Typed, ToFollow, writing
<1>4. Known(job, contentRevision, Typed, kept, wanted, ToFollow)
  BY DEF DocInv, JobsAreKnown
<1>5. disk \in MaybeTexts /\ disk.typed \subseteq kept /\ kept \subseteq Edits
  BY DEF DocInv, DocumentTypeOK, FileIsKept
<1>6. PICK done \in Jobs :
        /\ jobs' = [jobs EXCEPT ![i] = done] /\ done.op = job.op /\ done.mark = job.mark
        /\ done.op # "write" => done.content = disk /\ (done.ok => disk # NoText) /\ UNCHANGED <<disk, kept>>
        /\ done.op = "write" => /\ done.content = job.content
                                /\ disk' = IF done.ok THEN job.content ELSE disk
                                /\ kept' = IF done.ok THEN kept \cup job.content.typed ELSE kept
  <2>1. CASE ReadNow(i)
    <3>1. PICK ok \in {FALSE, disk # NoText} :
            jobs' = [jobs EXCEPT ![i] = [@ EXCEPT !.done = TRUE, !.ok = ok, !.content = disk]]
      BY <2>1 DEF ReadNow
    <3> DEFINE done == [job EXCEPT !.done = TRUE, !.ok = ok, !.content = disk]
    <3>2. ok \in BOOLEAN /\ (ok => disk # NoText)
      BY <3>1, Zenon
    <3>3. jobs' = [jobs EXCEPT ![i] = done]
      BY <3>1
    <3>4. done \in Jobs /\ done.op = job.op /\ done.mark = job.mark /\ done.content = disk
      BY <1>2, <1>5, <3>2 DEF Jobs
    <3>5. done.ok = ok
      BY <1>2, <3>2 DEF Jobs
    <3>6. job.op # "write" /\ UNCHANGED <<disk, kept>>
      BY <2>1 DEF ReadNow
    <3> HIDE DEF done
    <3>7. done.ok => disk # NoText
      BY <3>2, <3>5, Zenon
    <3> QED
      BY <3>3, <3>4, <3>6, <3>7
  <2>2. CASE WriteNow(i)
    <3>1. PICK ok \in BOOLEAN :
            /\ jobs' = [jobs EXCEPT ![i] = [@ EXCEPT !.done = TRUE, !.ok = ok]]
            /\ disk' = IF ok THEN job.content ELSE disk
            /\ kept' = IF ok THEN kept \cup job.content.typed ELSE kept
      BY <2>2 DEF WriteNow
    <3> DEFINE done == [job EXCEPT !.done = TRUE, !.ok = ok]
    <3>2. done \in Jobs /\ done.op = job.op /\ done.mark = job.mark /\ done.content = job.content /\ done.ok = ok
      BY <1>2, <3>1 DEF Jobs
    <3>3. job.op = "write"
      BY <2>2 DEF WriteNow
    <3>4. jobs' = [jobs EXCEPT ![i] = done]
      BY <3>1
    <3> HIDE DEF done
    <3> QED
      BY <3>1, <3>2, <3>3, <3>4
  <2> QED
    BY <1>1, <2>1, <2>2
<1>7. /\ jobs' \in Seq(Jobs) /\ Len(jobs') = Len(jobs)
      /\ \A k \in 1 .. Len(jobs) : jobs'[k] = IF k = i THEN done ELSE jobs[k]
  BY <1>2, <1>6, ExceptSeq
<1>8. kept \subseteq kept' /\ kept' \subseteq Edits /\ disk' \in MaybeTexts /\ disk'.typed \subseteq kept'
  <2>1. job.content.typed \subseteq Edits
    BY <1>2 DEF MaybeTexts, Texts, NoText
  <2> QED
    BY <1>2, <1>5, <1>6, <2>1
<1>9. DocumentTypeOK'
  BY <1>0, <1>7, <1>8 DEF DocInv, DocumentTypeOK, digests, loads, writing
<1>10. Known(done, contentRevision', Typed', kept', wanted', ToFollow')
  <2>1. CASE done.op # "write"
    <3>1. done.ok => done.content \in Texts
      BY <1>5, <1>6, <2>1 DEF MaybeTexts
    <3> QED
      BY <1>5, <1>6, <2>1, <3>1 DEF Known
  <2>2. CASE done.op = "write"
    <3>1. /\ job.mark <= contentRevision /\ (job.mark = contentRevision => Typed \subseteq job.content.typed \cup Blank)
          /\ wanted \subseteq kept \cup Blank \cup job.content.typed \cup ToFollow
      BY <1>4, <1>6, <2>2 DEF Known
    <3>2. done.ok => done.content.typed \subseteq kept'
      BY <1>6, <2>2
    <3> QED
      BY <1>0, <1>3, <1>6, <1>8, <2>2, <3>1, <3>2 DEF Known
  <2> QED
    BY <2>1, <2>2
<1>11. JobsAreKnown'
  <2> SUFFICES ASSUME NEW k \in 1 .. Len(jobs')
               PROVE  Known(jobs'[k], contentRevision', Typed', kept', wanted', ToFollow')
    BY DEF JobsAreKnown
  <2>1. CASE k = i
    BY <1>7, <1>10, <2>1
  <2>2. CASE k # i
    <3>1. jobs'[k] = jobs[k] /\ k \in 1 .. Len(jobs)
      BY <1>7, <2>2
    <3>2. Known(jobs[k], contentRevision', Typed', kept', wanted', ToFollow')
      BY <1>0, <1>2, <1>3, <1>8, <3>1, AllStayKnown
    <3> QED
      BY <3>1, <3>2
  <2> QED
    BY <2>1, <2>2
<1>12. OneWrite'
  <2>1. \A k \in 1 .. Len(jobs') : k \in 1 .. Len(jobs) /\ jobs'[k].op = jobs[k].op
    BY <1>6, <1>7
  <2> QED
    BY <1>0, <1>7, <2>1 DEF DocInv, OneWrite, writing
<1>13. FileIsKept' /\ DocumentIsStored'
  BY <1>0, <1>3, <1>8 DEF DocInv, FileIsKept, DocumentIsStored, CleanMeansSaved, SavesReachTheFile, writing
<1> QED
  BY <1>9, <1>11, <1>12, <1>13 DEF DocInv

LEMMA DocStep == DocInv /\ [DocumentNext]_documentVars => DocInv'
<1> SUFFICES ASSUME DocInv, [DocumentNext]_documentVars PROVE DocInv'
  OBVIOUS
<1>1. CASE open /\ DocumentStep
  <2>1. DOMAIN jobs = 1 .. Len(jobs) /\ DOMAIN decodes = 1 .. Len(decodes)
    BY DEF DocInv, DocumentTypeOK
  <2> QED
    BY <1>1, <2>1, TypeStep, ReloadStep, SaveStep, LoadedStep, SavedStep, DecodedStep, WatchedStep, ClosedStep
    DEF DocumentStep, CloseTab
<1>2. CASE UNCHANGED documentVars
  BY <1>2 DEF documentVars, digests, loads, writing, history, DocInv, DocumentTypeOK, JobsAreKnown, FileIsKept, OneWrite,
     DocumentIsStored, CleanMeansSaved, SavesReachTheFile, Typed, ToFollow
<1> QED
  BY <1>1, <1>2, ChangedStep, JobStep DEF DocumentNext

LEMMA DocInvariant == DocumentSpec => []DocInv
  BY DocInitially, DocStep, PTL DEF DocumentSpec

(* Every reachable value of a document has its type.                        *)
THEOREM DocumentTypeCorrect == DocumentSpec => []DocumentTypeOK
  BY DocInvariant, PTL DEF DocInv

(* What the editor says of a file is so: a document that is clean has nothing *)
(* that the file lacks, and an edit that was saved is there or on its way,  *)
(* for any contents, edits and bounds, and any order of reads and writes.   *)
THEOREM EditorTellsTheTruth == DocumentSpec => []DocumentIsStored
  BY DocInvariant, PTL DEF DocInv

(* No load takes away what was typed and never saved, unless the reader asked *)
(* to read the file again.                                                 *)
THEOREM TypedTextIsAlwaysKept == DocumentSpec => TypedTextIsKept
<1> DEFINE Kept == open' /\ ~rereading => heard \cap (buffer.typed \ buffer'.typed) \subseteq kept \cup Blank
<1>1. DocInv /\ [DocumentNext]_documentVars => [Kept]_documentVars
  <2> SUFFICES ASSUME DocInv, DocumentNext, open', ~rereading
               PROVE  heard \cap (buffer.typed \ buffer'.typed) \subseteq kept \cup Blank
    OBVIOUS
  <2>1. CASE buffer' = buffer
    BY <2>1
  <2>2. ASSUME NEW e \in Edits, Type(e) PROVE buffer.typed \ buffer'.typed = {}
    BY <2>2, TextsMade DEF Type, DocInv
  <2>3. ASSUME NEW k \in DOMAIN decodes, ApplyDecoded(k), buffer' # buffer
        PROVE  heard \cap buffer.typed \subseteq kept \cup Blank
    <3>1. ~Ignored(decodes[k].content)
      BY <2>3 DEF ApplyDecoded
    <3>2. ~dirty
      BY <3>1 DEF Ignored
    <3> QED
      BY <3>2 DEF DocInv, DocumentIsStored, CleanMeansSaved, Typed
  <2>4. ASSUME NEW i \in DOMAIN jobs, OnLoaded(i) \/ OnWatched(i) \/ OnSaved(i) PROVE buffer' = buffer
    BY <2>4 DEF OnLoaded, OnWatched, OnSaved
  <2>5. ASSUME NEW b \in BOOLEAN, ReloadFile(b) \/ SaveDocument(b) PROVE buffer' = buffer
    BY <2>5 DEF ReloadFile, SaveDocument
  <2>6. ASSUME WatchedFileChanged \/ CloseTab PROVE buffer' = buffer
    BY <2>6 DEF WatchedFileChanged, CloseTab, Closed, documentVars
  <2>7. ASSUME DoJob \/ ChangeFile PROVE buffer' = buffer
    BY <2>7 DEF DoJob, ChangeFile
  <2> QED
    BY <2>1, <2>2, <2>3, <2>4, <2>5, <2>6, <2>7 DEF DocumentNext, DocumentStep
<1> QED
  BY <1>1, DocInvariant, PTL DEF DocumentSpec, TypedTextIsKept

-----------------------------------------------------------------------------
\* A language server and its client
(* What may be said, in both directions.                                    *)
CopyTexts == [of : FileContents \cup {"none"}, typed : SUBSET Words]
Copies == [text : CopyTexts, version : Nat, opened : BOOLEAN]
Said == [edits : SUBSET Words] \cup [text : CopyTexts]
Ids == Nat \ {0}
Messages ==
    [type : {"initialize", "request", "cancel", "shutdown"}, id : Ids]
    \cup [type : {"initialized", "exit", "didSave", "didClose"}]
    \cup [type : {"didOpen"}, version : Nat, text : CopyTexts]
    \cup [type : {"didChange"}, version : Nat, content : Said]
Calls == [call : {"start", "kill", "requestTermination", "shutdown"}] \cup [call : {"send"}, message : Messages]
Signals ==
    [signal : {"started", "startFailed", "exited", "protocolFailed"}]
    \cup [signal : {"message"}, id : Ids, ok : BOOLEAN]
PeerPhases == {"fresh", "initializing", "answered", "refused", "initialized", "shut", "confused"}
Peers == [phase : PeerPhases, held : Copies, asks : SUBSET Ids]

ClientTypes ==
    /\ there \in BOOLEAN /\ dismissed \in BOOLEAN /\ running \in BOOLEAN /\ ready \in BOOLEAN
    /\ stopping \in BOOLEAN /\ greeting \in BOOLEAN /\ ending \in BOOLEAN
    /\ lastId \in Nat /\ initializing \in Nat /\ shuttingDown \in Nat /\ asked \in SUBSET Ids
    /\ copy \in Copies
    /\ toTransport \in Seq(Calls) /\ toClient \in Seq(Signals)
    /\ process \in {"none", "starting", "running", "killed", "aborted"}
    /\ peer \in Peers

(* What the client knows of itself: nothing is open at a server that is not  *)
(* ready, and a client that was given up has no document.                   *)
ClientKnows ==
    /\ copy.opened => ready
    /\ ready => running /\ initializing = NoId
    /\ initializing # NoId => running
    /\ greeting \/ ending => running
    /\ shuttingDown # NoId => ready /\ dismissed
    /\ dismissed => stopping /\ copy = Absent
    /\ copy # Absent => copy.version > 0

(* What is on its way to the client: the start comes before everything, and  *)
(* the end after it, when there is no process.                              *)
SignalsInOrder ==
    /\ ~there => toClient = <<>>
    /\ \A i \in 1..Len(toClient) :
          /\ toClient[i].signal = "started" => i = 1 /\ ~running
          /\ toClient[i].signal = "exited" => i = Len(toClient) /\ process = "none"
          /\ toClient[i].signal = "startFailed" => Len(toClient) = 1 /\ process = "none" /\ ~running

(* What is on its way to the transport.                                     *)
CallsStart == \E n \in 1..Len(toTransport) : toTransport[n].call = "start"
NothingButTheEnd == \A i \in 1..Len(toTransport) : toTransport[i].call = "shutdown"
NothingSaid == \A i \in 1..Len(toTransport) : toTransport[i].call # "send"
NoAnswers == \A i \in 1..Len(toClient) : toClient[i].signal # "message"

StartsFromNothing ==
    \A n \in 1..Len(toTransport) : toTransport[n].call = "start" =>
        /\ process = "none"
        /\ \A i \in 1..Len(toTransport) : i # n => toTransport[i].call # "start"
        /\ \A i \in 1..Len(toTransport) : i > n => toTransport[i].call = "shutdown"
        /\ there => ~running /\ toClient = <<>>

EndIsOfTheDead == \A i \in 1..Len(toTransport) : toTransport[i].call = "shutdown" => ~there

(* Without a process the client was told, or will be.                       *)
HearsOfTheEnd ==
    \/ ~running /\ toClient = <<>>
    \/ ~running /\ Len(toClient) = 1 /\ toClient[1].signal = "startFailed"
    \/ toClient # <<>> /\ toClient[Len(toClient)].signal = "exited" /\ (running \/ toClient[1].signal = "started")

NoProcess == process = "none" => peer = FreshServer /\ (~CallsStart /\ there => HearsOfTheEnd)

Starts == process = "starting" => NothingButTheEnd /\ peer = FreshServer /\ (there => ~running /\ toClient = <<>>)

(* The server as the messages make it, and those after which it is another.  *)
States == [phase : PeerPhases, held : Copies]
Now(server) == [phase |-> server.phase, held |-> server.held]
AfterMessage(s, message) == [phase |-> PhaseAfter(s, message), held |-> HeldAfter(s, message)]
Goes(s, c, t) == IF c.call = "send" THEN InTurn(s, c.message) /\ t = AfterMessage(s, c.message) ELSE t = s

(* Every call of the queue is in turn, from s to t.                         *)
Chain(q, s, t) ==
    \E through \in [0..Len(q) -> States] :
        /\ through[0] = s /\ through[Len(q)] = t
        /\ \A i \in 1..Len(q) : Goes(through[i - 1], q[i], through[i])

(* The client speaks to the server that t will be.                          *)
Believes(t) ==
    \/ /\ t.phase = "initialized" /\ shuttingDown = NoId
       /\ t.held = Absent \/ t.held.opened
       /\ t.held.opened = copy.opened
       /\ copy.opened => t.held.version <= copy.version /\ (Sync # "none" => t.held.version = copy.version)
    \/ t.phase = "shut" /\ dismissed

Live == process \in {"running", "killed", "aborted"}

(* What the server was asked, and what it answered, before it is greeted.    *)
Greeting ==
    \/ /\ peer.phase = "fresh" /\ NoAnswers
       /\ \A i \in 1..Len(toTransport) : toTransport[i].call = "send" => toTransport[i].message.id = initializing
    \/ peer.phase = "initializing" /\ NoAnswers /\ peer.asks = {initializing}
    \/ /\ peer.phase \in {"answered", "refused"} /\ NothingSaid
       /\ \A i \in 1..Len(toClient) :
             toClient[i].signal = "message" =>
                 toClient[i].id = initializing /\ toClient[i].ok = (peer.phase = "answered")

OneGreeting ==
    \A i, j \in 1..Len(toTransport) :
        toTransport[i].call = "send" /\ toTransport[j].call = "send" =>
            i = j /\ toTransport[i].message.type = "initialize"

Conversation ==
    /\ ~CallsStart
    /\ peer.phase \in {"fresh", "initializing", "answered", "refused"} => peer.held = Absent
    /\ peer.phase \in {"fresh", "answered", "refused"} => peer.asks = {}
    /\ peer.phase = "initializing" => \A i, j \in peer.asks : i = j
    /\ peer.phase # "confused"
    /\ peer.phase = "fresh" => OneGreeting
    /\ peer.phase = "initializing" => NothingSaid
    /\ there /\ ~running =>
          peer = FreshServer /\ toTransport = <<>> /\ NoAnswers /\ toClient # <<>> /\ toClient[1].signal = "started"
    /\ there /\ initializing # NoId => Greeting
    /\ there /\ ready => peer.phase \in {"answered", "initialized", "shut"}

InAgreement == \E t \in States : Chain(toTransport, Now(peer), t) /\ (there /\ ready => Believes(t))

ServerInv ==
    /\ ClientTypes /\ ClientKnows /\ SignalsInOrder /\ StartsFromNothing /\ EndIsOfTheDead
    /\ NoProcess /\ Starts /\ (Live => Conversation /\ InAgreement)

-----------------------------------------------------------------------------
LEMMA InTheQueue ==
    ASSUME NEW S, NEW q \in Seq(S), NEW c \in S
    PROVE  /\ Append(q, c) \in Seq(S) /\ Len(Append(q, c)) = Len(q) + 1
           /\ Append(q, c)[Len(q) + 1] = c /\ \A i \in 1..Len(q) : Append(q, c)[i] = q[i]
OBVIOUS

LEMMA OutOfTheQueue ==
    ASSUME NEW S, NEW q \in Seq(S), q # <<>>
    PROVE  /\ Tail(q) \in Seq(S) /\ Len(Tail(q)) = Len(q) - 1 /\ Len(q) \in Nat \ {0}
           /\ Head(q) = q[1] /\ Head(q) \in S /\ \A i \in 1..(Len(q) - 1) : Tail(q)[i] = q[i + 1]
OBVIOUS

LEMMA ChainStill ==
    ASSUME NEW q \in Seq(Calls), NEW s \in States, \A i \in 1..Len(q) : q[i].call # "send"
    PROVE  Chain(q, s, s)
<1> DEFINE through == [i \in 0..Len(q) |-> s]
<1>1. through \in [0..Len(q) -> States] /\ through[0] = s /\ through[Len(q)] = s
  OBVIOUS
<1>2. \A i \in 1..Len(q) : Goes(through[i - 1], q[i], through[i])
  BY DEF Goes
<1> QED BY <1>1, <1>2 DEF Chain

LEMMA ChainMore ==
    ASSUME NEW q \in Seq(Calls), NEW s \in States, NEW t \in States, NEW u \in States, NEW c \in Calls,
           Chain(q, s, t), Goes(t, c, u)
    PROVE  Chain(Append(q, c), s, u)
<1>0. Len(q) \in Nat
  OBVIOUS
<1>1. PICK through \in [0..Len(q) -> States] :
          /\ through[0] = s /\ through[Len(q)] = t
          /\ \A i \in 1..Len(q) : Goes(through[i - 1], q[i], through[i])
  BY DEF Chain
<1> DEFINE more == Append(q, c)
           further == [i \in 0..Len(more) |-> IF i <= Len(q) THEN through[i] ELSE u]
<1>2. Len(more) = Len(q) + 1 /\ more[Len(q) + 1] = c /\ \A i \in 1..Len(q) : more[i] = q[i]
  BY InTheQueue
<1> HIDE DEF more
<1>3. further \in [0..Len(more) -> States]
  BY <1>0, <1>2
<1>4. further[0] = s /\ further[Len(more)] = u /\ further[Len(q)] = t
  BY <1>0, <1>1, <1>2
<1>5. ASSUME NEW i \in 1..Len(more) PROVE Goes(further[i - 1], more[i], further[i])
  <2>1. CASE i <= Len(q)
    <3>1. i \in 1..Len(q) /\ further[i] = through[i] /\ further[i - 1] = through[i - 1]
      BY <1>0, <1>2, <2>1
    <3> QED BY <1>1, <1>2, <3>1
  <2>2. CASE ~(i <= Len(q))
    <3>1. i = Len(q) + 1 /\ i - 1 = Len(q) /\ i = Len(more)
      BY <1>0, <1>2, <2>2
    <3> QED BY <1>2, <1>4, <3>1
  <2> QED BY <2>1, <2>2
<1> HIDE DEF further
<1>6. Chain(more, s, u)
  BY <1>3, <1>4, <1>5 DEF Chain
<1> QED BY <1>6 DEF more

LEMMA ChainNext ==
    ASSUME NEW q \in Seq(Calls), NEW s \in States, NEW t \in States, Chain(q, s, t), q # <<>>
    PROVE  \E u \in States : Goes(s, Head(q), u) /\ Chain(Tail(q), u, t)
<1>1. PICK through \in [0..Len(q) -> States] :
          /\ through[0] = s /\ through[Len(q)] = t
          /\ \A i \in 1..Len(q) : Goes(through[i - 1], q[i], through[i])
  BY DEF Chain
<1> DEFINE rest == Tail(q)
           further == [i \in 0..Len(rest) |-> through[i + 1]]
<1>2. /\ Len(rest) = Len(q) - 1 /\ Len(q) \in Nat \ {0} /\ Head(q) = q[1]
      /\ \A i \in 1..(Len(q) - 1) : rest[i] = q[i + 1]
  BY OutOfTheQueue
<1> HIDE DEF rest
<1>3. further \in [0..Len(rest) -> States]
  BY <1>2
<1>4. further[0] = through[1] /\ further[Len(rest)] = t /\ through[1] \in States
  BY <1>1, <1>2
<1>5. ASSUME NEW i \in 1..Len(rest) PROVE Goes(further[i - 1], rest[i], further[i])
  <2>1. i + 1 \in 1..Len(q) /\ further[i - 1] = through[i] /\ further[i] = through[i + 1] /\ rest[i] = q[i + 1]
        /\ i + 1 - 1 = i
    BY <1>2
  <2>2. Goes(through[i + 1 - 1], q[i + 1], through[i + 1])
    BY <1>1, <2>1
  <2> QED BY <2>1, <2>2
<1>6. Goes(s, Head(q), through[1])
  <2>1. 1 \in 1..Len(q) /\ 1 - 1 = 0
    BY <1>2
  <2>2. Goes(through[1 - 1], q[1], through[1])
    BY <1>1, <2>1
  <2> QED BY <1>1, <1>2, <2>1, <2>2
<1> HIDE DEF further
<1>7. Chain(rest, through[1], t)
  BY <1>3, <1>4, <1>5 DEF Chain
<1> QED BY <1>4, <1>6, <1>7 DEF rest

LEMMA ChainNone ==
    ASSUME NEW s, NEW t, Chain(<<>>, s, t)
    PROVE  s = t
BY DEF Chain

(* What a document does: it keeps what the server has, or says one thing of   *)
(* it, to a server that is ready.                                           *)
Keeps(entry, r) ==
    /\ r.sent = <<>> /\ r.copy.opened = entry.opened
    /\ entry.opened => entry.version <= r.copy.version /\ (Sync # "none" => r.copy.version = entry.version)

SaysOf(entry, r, m) ==
    /\ r.sent = <<m>> /\ ready
    /\ \/ m.type = "didOpen" /\ ~entry.opened /\ r.copy.opened /\ m.version = r.copy.version
       \/ /\ m.type = "didChange" /\ entry.opened /\ r.copy.opened
          /\ m.version = r.copy.version /\ entry.version < r.copy.version
       \/ m.type = "didSave" /\ entry.opened /\ r.copy.opened /\ r.copy.version = entry.version
       \/ m.type = "didClose" /\ entry.opened /\ ~r.copy.opened

Outcome(entry, r) ==
    /\ r.copy \in Copies /\ (r.copy # Absent => r.copy.version > 0)
    /\ Keeps(entry, r) \/ \E m \in Messages : SaysOf(entry, r, m)

LEMMA NoneIsACopy ==
    /\ Absent \in Copies /\ Absent.opened = FALSE /\ Absent.version = 0
    /\ \A t \in CopyTexts :
          /\ Entry(t) \in Copies /\ Entry(t).opened = FALSE /\ Entry(t).version = 1 /\ Entry(t).text = t
          /\ Entry(t) # Absent
BY DEF Absent, Entry, Copies, CopyTexts, NoCopy

LEMMA SendOpenSays ==
    ASSUME NEW e \in Copies, e.version > 0, ready, ~e.opened
    PROVE  Outcome(e, SendOpen(e)) /\ SendOpen(e).copy.opened
<1> DEFINE m == [type |-> "didOpen", version |-> e.version, text |-> e.text]
           c == [e EXCEPT !.opened = TRUE]
<1>1. m \in Messages /\ m.type = "didOpen" /\ m.version = e.version
  BY DEF Messages, Copies
<1>2. c \in Copies /\ c.opened /\ c.version = e.version /\ c.text = e.text
  BY DEF Copies
<1>3. SendOpen(e).copy = c /\ SendOpen(e).sent = <<m>>
  BY DEF SendOpen
<1> HIDE DEF m, c
<1>4. SaysOf(e, SendOpen(e), m)
  BY <1>1, <1>2, <1>3 DEF SaysOf
<1> QED BY <1>1, <1>2, <1>3, <1>4 DEF Outcome

LEMMA OpenDocumentSays ==
    ASSUME NEW e \in Copies, e # Absent => e.version > 0, NEW t \in CopyTexts, e.opened => ready
    PROVE  /\ Outcome(e, OpenDocument(e, t)) /\ OpenDocument(e, t).copy.text = t
           /\ OpenDocument(e, t).copy # Absent
<1>0. PICK held : held = IF e = Absent THEN Entry(t) ELSE [e EXCEPT !.text = t]
  OBVIOUS
<1>1. held \in Copies /\ held.version > 0 /\ held.text = t /\ held.opened = e.opened
      /\ (e.opened => held.version = e.version)
  <2>1. CASE e = Absent
    <3>1. held = Entry(t) /\ e.opened = FALSE
      BY <1>0, <2>1, NoneIsACopy
    <3>2. /\ Entry(t) \in Copies /\ Entry(t).version = 1 /\ Entry(t).text = t /\ Entry(t).opened = FALSE
      BY NoneIsACopy
    <3>3. held \in Copies /\ held.version = 1 /\ held.text = t /\ held.opened = e.opened
      BY <3>1, <3>2, Zenon
    <3>4. ~e.opened /\ held.version > 0
      BY <3>1, <3>3
    <3> QED BY <3>3, <3>4, Zenon
  <2>2. CASE e # Absent
    BY <1>0, <2>2 DEF Copies
  <2> QED BY <2>1, <2>2
<1>2. OpenDocument(e, t) = IF ready /\ ~held.opened THEN SendOpen(held) ELSE Quiet(held)
  BY <1>0 DEF OpenDocument
<1>3. CASE ready /\ ~held.opened
  <2>1. Outcome(held, SendOpen(held)) /\ SendOpen(held).copy.opened
    BY <1>1, <1>3, SendOpenSays
  <2>2. PICK r : r = SendOpen(held)
    OBVIOUS
  <2>3. r.copy.text = t
    BY <1>1, <2>2 DEF SendOpen, Copies
  <2>4. Outcome(e, r)
    BY <1>1, <1>3, <2>1, <2>2 DEF Outcome, Keeps, SaysOf
  <2>5. r.copy # Absent /\ OpenDocument(e, t) = r
    BY <1>2, <1>3, <2>1, <2>2, NoneIsACopy
  <2> QED BY <2>3, <2>4, <2>5, Zenon
<1>4. CASE ~(ready /\ ~held.opened)
  <2>1. Quiet(held).copy = held /\ Quiet(held).sent = <<>>
    BY DEF Quiet
  <2>2. Keeps(e, Quiet(held))
    <3>1. e.version \in Nat
      BY DEF Copies
    <3> QED BY <1>1, <2>1, <3>1 DEF Keeps
  <2>3. Outcome(e, Quiet(held))
    BY <1>1, <2>1, <2>2 DEF Outcome
  <2> QED BY <1>1, <1>2, <1>4, <2>1, <2>3, NoneIsACopy
<1> QED BY <1>3, <1>4

LEMMA SendChangeSays ==
    ASSUME NEW e \in Copies, NEW was \in Copies, was.opened = e.opened, was.version = e.version,
           NEW content \in Said, Sync # "none" => content # NoContent, e.opened => ready
    PROVE  Outcome(was, SendChange(e, content))
<1> DEFINE c == [e EXCEPT !.version = @ + 1]
           m == [type |-> "didChange", version |-> c.version, content |-> content]
           r == SendChange(e, content)
<1>1. c \in Copies /\ c.version = e.version + 1 /\ c.opened = e.opened /\ e.version \in Nat
  BY DEF Copies
<1>2. r.copy = c /\ r.sent = IF Heard(e, content) THEN <<m>> ELSE <<>>
  BY DEF SendChange, DidChange
<1>3. m.type = "didChange" /\ m.version = c.version
  OBVIOUS
<1>4. m \in Messages
  BY <1>1 DEF Messages, Copies
<1> HIDE DEF c, m, r
<1>5. CASE Heard(e, content)
  <2>1. ready /\ e.opened
    BY <1>5, Zenon DEF Heard
  <2>2. r.sent = <<m>> /\ r.copy = c
    BY <1>2, <1>5
  <2>3. was.opened /\ r.copy.opened
    BY <1>1, <2>1, <2>2, Zenon
  <2>4. was.version < r.copy.version /\ m.version = r.copy.version
    BY <1>1, <1>3, <2>2
  <2>6. SaysOf(was, r, m)
    BY <1>3, <2>1, <2>2, <2>3, <2>4, Zenon DEF SaysOf
  <2>5. c # Absent => c.version > 0
    BY <1>1
  <2> QED BY <1>1, <1>2, <1>4, <2>2, <2>5, <2>6 DEF Outcome, r
<1>6. CASE ~Heard(e, content)
  <2>1. was.opened => Sync = "none"
    BY <1>1, <1>6 DEF Heard
  <2>2. Keeps(was, r)
    BY <1>1, <1>2, <1>6, <2>1 DEF Keeps
  <2> QED BY <1>1, <1>2, <2>2 DEF Outcome, r
<1> QED BY <1>5, <1>6

LEMMA ReplaceDocumentSays ==
    ASSUME NEW e \in Copies, NEW was \in Copies, was.opened = e.opened, was.version = e.version,
           e # Absent => e.version > 0, NEW t \in CopyTexts, e.opened => ready
    PROVE  Outcome(was, ReplaceDocument(e, t))
<1>1. CASE e = Absent \/ e.text = t
  <2>1. ReplaceDocument(e, t) = Quiet(e) /\ Quiet(e).copy = e /\ Quiet(e).sent = <<>> /\ e.version \in Nat
    BY <1>1 DEF ReplaceDocument, Quiet, Copies
  <2>2. Keeps(was, Quiet(e))
    BY <2>1 DEF Keeps
  <2> QED BY <2>1, <2>2 DEF Outcome
<1>2. CASE ~(e = Absent \/ e.text = t)
  <2>1. PICK o : o = [e EXCEPT !.text = t]
    OBVIOUS
  <2>2. o \in Copies /\ o.opened = e.opened /\ o.version = e.version
    BY <2>1 DEF Copies
  <2>3. [text |-> t] \in Said /\ [text |-> t] # NoContent
    <3>1. DOMAIN [text |-> t] = {"text"} /\ DOMAIN NoContent = {"edits"}
      BY DEF NoContent
    <3> QED BY <3>1 DEF Said
  <2>4. ReplaceDocument(e, t) = SendChange(o, [text |-> t])
    BY <1>2, <2>1 DEF ReplaceDocument
  <2>5. Outcome(was, SendChange(o, [text |-> t]))
    BY <2>2, <2>3, SendChangeSays
  <2> QED BY <2>4, <2>5
<1> QED BY <1>1, <1>2

LEMMA SaveDocumentSays ==
    ASSUME NEW e \in Copies, e # Absent => e.version > 0, NEW t \in CopyTexts, e.opened => ready
    PROVE  Outcome(e, SavedDocument(e, t))
<1>0. e.version \in Nat
  BY DEF Copies
<1>1. CASE e = Absent
  <2>1. SavedDocument(e, t).copy = e /\ SavedDocument(e, t).sent = <<>>
    BY <1>1 DEF SavedDocument, Quiet
  <2> QED BY <1>0, <1>1, <2>1 DEF Outcome, Keeps
<1>2. CASE e # Absent
  <2> DEFINE r == SavedDocument(e, t)
             m == [type |-> "didSave"]
  <2>1. /\ r.copy = [e EXCEPT !.text = t]
        /\ r.sent = IF ready /\ e.opened THEN <<m>> ELSE <<>>
    BY <1>2 DEF SavedDocument
  <2>2. r.copy \in Copies /\ r.copy.version = e.version /\ r.copy.opened = e.opened
    BY <2>1 DEF Copies
  <2>3. m \in Messages /\ m.type = "didSave"
    BY DEF Messages
  <2> HIDE DEF m, r
  <2>4. CASE ready /\ e.opened
    <3>1. SaysOf(e, r, m)
      BY <2>1, <2>2, <2>3, <2>4 DEF SaysOf
    <3> QED BY <1>2, <2>2, <2>3, <3>1 DEF Outcome, r
  <2>5. CASE ~(ready /\ e.opened)
    <3>1. Keeps(e, r)
      BY <1>0, <2>1, <2>2, <2>5 DEF Keeps
    <3> QED BY <1>2, <2>2, <3>1 DEF Outcome, r
  <2> QED BY <2>4, <2>5
<1> QED BY <1>1, <1>2

LEMMA CloseDocumentSays ==
    ASSUME OpenClose = TRUE, NEW e \in Copies, e.opened => ready
    PROVE  Outcome(e, CloseDocument(e))
<1> DEFINE r == CloseDocument(e)
           m == [type |-> "didClose"]
<1>1. r.copy = Absent /\ r.sent = IF ready /\ e.opened THEN <<m>> ELSE <<>>
  BY DEF CloseDocument
<1>2. m \in Messages /\ m.type = "didClose"
  BY DEF Messages
<1> HIDE DEF m, r
<1>3. CASE ready /\ e.opened
  <2>1. SaysOf(e, r, m)
    BY <1>1, <1>2, <1>3, NoneIsACopy DEF SaysOf
  <2> QED BY <1>1, <1>2, <2>1, NoneIsACopy DEF Outcome, r
<1>4. CASE ~(ready /\ e.opened)
  <2>1. Keeps(e, r)
    BY <1>1, <1>4, NoneIsACopy DEF Keeps, Copies
  <2> QED BY <1>1, <2>1, NoneIsACopy DEF Outcome, r
<1> QED BY <1>3, <1>4

LEMMA EditDocumentSays ==
    ASSUME NEW e \in Copies, e # Absent, e.version > 0, NEW w \in Words, e.opened => ready, Sync \in Syncs
    PROVE  /\ Outcome(e, EditDocument(e, <<w>>, 1))
           /\ EditDocument(e, <<w>>, 0).copy \in Copies
           /\ EditDocument(e, <<w>>, 0).copy.opened = e.opened
           /\ EditDocument(e, <<w>>, 0).copy.version = e.version
<1>1. /\ {<<w>>[i] : i \in 1 .. 1} = {w} /\ {<<w>>[i] : i \in 1 .. 0} = {}
      /\ <<w>> # <<>> /\ Len(<<w>>) = 1
  OBVIOUS
<1>2. ASSUME NEW s \in SUBSET Words PROVE With(e.text, s) \in CopyTexts
  <2>1. e.text \in CopyTexts
    BY DEF Copies
  <2> QED BY <2>1 DEF With, CopyTexts
<1>3. PICK t : t = With(e.text, {w})
  OBVIOUS
<1>4. PICK u : u = With(e.text, {})
  OBVIOUS
<1>5. PICK c : c = [e EXCEPT !.text = t]
  OBVIOUS
<1>6. PICK d : d = [e EXCEPT !.text = u]
  OBVIOUS
<1>7. t \in CopyTexts /\ u \in CopyTexts
  BY <1>2, <1>3, <1>4
<1>8. /\ c \in Copies /\ c.opened = e.opened /\ c.version = e.version
      /\ d \in Copies /\ d.opened = e.opened /\ d.version = e.version
  BY <1>5, <1>6, <1>7 DEF Copies
<1>9. EditDocument(e, <<w>>, 0).copy = d
  BY <1>1, <1>4, <1>6 DEF EditDocument, Quiet
<1>10. PICK content : content = CASE Sync = "incremental" -> [edits |-> {w}]
                                  [] Sync = "full" -> [text |-> t]
                                  [] Sync = "none" -> NoContent
  OBVIOUS
<1>11. EditDocument(e, <<w>>, 1) = SendChange(c, content)
  <2> DEFINE applied == {<<w>>[i] : i \in 1 .. 1}
             said == CASE Sync = "incremental" -> [edits |-> applied]
                       [] Sync = "full" -> [text |-> With(e.text, applied)]
                       [] Sync = "none" -> NoContent
  <2>1. applied = {w} /\ With(e.text, applied) = t
    BY <1>1, <1>3
  <2> HIDE DEF applied
  <2>2. said = content
    BY <1>10, <2>1, Zenon
  <2> HIDE DEF said
  <2>3. EditDocument(e, <<w>>, 1) = SendChange([e EXCEPT !.text = With(e.text, applied)], said)
    <3>1. ~(1 < Len(<<w>>))
      BY <1>1
    <3> QED BY <1>1, <3>1, Zenon DEF EditDocument, applied, said
  <2> QED BY <1>5, <2>1, <2>2, <2>3, Zenon
<1>12. content \in Said /\ (Sync # "none" => content # NoContent)
  <2>1. CASE Sync = "incremental"
    <3>1. content = [edits |-> {w}]
      BY <1>10, <2>1
    <3>2. content.edits = {w} /\ NoContent.edits = {} /\ {w} # {}
      BY <3>1 DEF NoContent
    <3> QED BY <3>1, <3>2 DEF Said
  <2>2. CASE Sync = "full"
    <3>1. content = [text |-> t]
      BY <1>10, <2>2
    <3>2. DOMAIN content = {"text"} /\ DOMAIN NoContent = {"edits"}
      BY <3>1 DEF NoContent
    <3> QED BY <1>7, <3>1, <3>2 DEF Said
  <2>3. CASE Sync = "none"
    BY <1>10, <2>3 DEF NoContent, Said
  <2> QED BY <2>1, <2>2, <2>3 DEF Syncs
<1>13. Outcome(e, SendChange(c, content))
  BY <1>8, <1>12, SendChangeSays
<1> QED BY <1>8, <1>9, <1>11, <1>13

(* What a server makes of what it is told.                                  *)
LEMMA AfterIsAState ==
    ASSUME NEW s \in States, NEW m \in Messages
    PROVE  AfterMessage(s, m) \in States
<1>1. PhaseAfter(s, m) \in PeerPhases
  BY DEF PhaseAfter, PeerPhases, States
<1>2. HeldAfter(s, m) \in Copies
  <2>1. CASE m.type = "didOpen"
    <3>1. m.version \in Nat /\ m.text \in CopyTexts
      BY <2>1 DEF Messages
    <3> QED BY <2>1, <3>1 DEF HeldAfter, Received, Copies
  <2>2. CASE m.type = "didClose"
    BY <2>2, NoneIsACopy DEF HeldAfter, Received
  <2>3. CASE m.type = "didChange"
    <3>1. m.version \in Nat /\ m.content \in Said
      BY <2>3 DEF Messages
    <3>2. CASE "text" \in DOMAIN m.content
      <4>1. m.content.text \in CopyTexts
        BY <3>1, <3>2 DEF Said
      <4>2. HeldAfter(s, m) = [s.held EXCEPT !.text = m.content.text, !.version = m.version]
        <5>1. HeldAfter(s, m) = Received(s.held, m)
          BY <2>3, Zenon DEF HeldAfter
        <5>2. "edits" \notin DOMAIN m.content
          BY <3>1, <3>2 DEF Said
        <5> QED BY <2>3, <3>2, <5>1, <5>2 DEF Received
      <4> QED BY <3>1, <4>1, <4>2 DEF States, Copies
    <3>3. CASE "text" \notin DOMAIN m.content
      <4>1. "edits" \in DOMAIN m.content /\ m.content.edits \in SUBSET Words
        BY <3>1, <3>3 DEF Said
      <4>2. HeldAfter(s, m)
            = [s.held EXCEPT !.text = With(s.held.text, m.content.edits), !.version = m.version]
        BY <2>3, <3>3, <4>1 DEF HeldAfter, Received
      <4>3. With(s.held.text, m.content.edits) \in CopyTexts
        BY <4>1 DEF With, CopyTexts, States, Copies
      <4> QED BY <3>1, <4>2, <4>3 DEF States, Copies
    <3> QED BY <3>2, <3>3
  <2>4. CASE m.type \notin {"didOpen", "didClose", "didChange"}
    BY <2>4 DEF HeldAfter, States
  <2> QED BY <2>1, <2>2, <2>3, <2>4
<1> QED BY <1>1, <1>2 DEF AfterMessage, States

LEMMA ChangeIsHeld ==
    ASSUME NEW s \in States, NEW m \in Messages, m.type = "didChange"
    PROVE  HeldAfter(s, m).version = m.version /\ HeldAfter(s, m).opened = s.held.opened
<1>1. m.content \in Said
  BY DEF Messages
<1>2. CASE "text" \in DOMAIN m.content
  <2>1. HeldAfter(s, m) = [s.held EXCEPT !.text = m.content.text, !.version = m.version]
    <3>1. HeldAfter(s, m) = Received(s.held, m)
      BY Zenon DEF HeldAfter
    <3>2. "edits" \notin DOMAIN m.content
      BY <1>1, <1>2 DEF Said
    <3> QED BY <1>2, <3>1, <3>2 DEF Received
  <2> QED BY <2>1 DEF States, Copies
<1>3. CASE "text" \notin DOMAIN m.content
  <2>1. "edits" \in DOMAIN m.content
    BY <1>1, <1>3 DEF Said
  <2>2. HeldAfter(s, m)
        = [s.held EXCEPT !.text = With(s.held.text, m.content.edits), !.version = m.version]
    BY <1>3, <2>1 DEF HeldAfter, Received
  <2> QED BY <2>2 DEF States, Copies
<1> QED BY <1>2, <1>3

(* The next state of the server, of one thing the client says of a document. *)
LEMMA SaidIsInTurn ==
    ASSUME ServerInv, there, ready, ~dismissed, NEW t \in States, Believes(t),
           NEW r, Outcome(copy, r), NEW m \in Messages, SaysOf(copy, r, m),
           copy' = r.copy, UNCHANGED <<shuttingDown, dismissed>>
    PROVE  InTurn(t, m) /\ Believes(AfterMessage(t, m))'
<1>1. /\ t.phase = "initialized" /\ shuttingDown = NoId /\ t.held.opened = copy.opened
      /\ t.held = Absent \/ t.held.opened
      /\ copy.opened => t.held.version <= copy.version /\ (Sync # "none" => t.held.version = copy.version)
  BY DEF Believes
<1>2. copy \in Copies /\ r.copy \in Copies /\ t.held \in Copies /\ (r.copy # Absent => r.copy.version > 0)
  BY DEF Outcome, ServerInv, ClientTypes, States
<1>3. copy.version \in Nat /\ r.copy.version \in Nat /\ t.held.version \in Nat
      /\ copy.opened \in BOOLEAN /\ r.copy.opened \in BOOLEAN
  BY <1>2 DEF Copies
<1> DEFINE u == AfterMessage(t, m)
<1>4. u.phase = PhaseAfter(t, m) /\ u.held = HeldAfter(t, m)
  BY DEF AfterMessage
<1> HIDE DEF u
<1>5. ASSUME InTurn(t, m), m.type \in {"didOpen", "didChange", "didSave", "didClose"} PROVE u.phase = "initialized"
  BY <1>1, <1>4, <1>5 DEF PhaseAfter
<1>6. ASSUME u.phase = "initialized", u.held = Absent \/ u.held.opened, u.held.opened = r.copy.opened,
             r.copy.opened =>
                 u.held.version <= r.copy.version /\ (Sync # "none" => u.held.version = r.copy.version)
      PROVE  Believes(u)'
  BY <1>1, <1>6 DEF Believes
<1>7. CASE m.type = "didOpen" /\ ~copy.opened /\ r.copy.opened /\ m.version = r.copy.version
  <2>1. t.held = Absent
    BY <1>1, <1>7
  <2>2. InTurn(t, m)
    BY <1>1, <1>7, <2>1 DEF InTurn
  <2>3. u.held = [text |-> m.text, version |-> m.version, opened |-> TRUE]
    BY <1>4, <1>7 DEF HeldAfter, Received
  <2>4. u.held.opened = TRUE /\ u.held.version = r.copy.version
    BY <1>7, <2>3
  <2>5. u.held.version <= r.copy.version
    BY <1>3, <2>4
  <2>6. r.copy.opened = TRUE
    BY <1>3, <1>7
  <2>7. u.phase = "initialized"
    BY <1>5, <1>7, <2>2
  <2>8. Believes(u)'
    BY <1>6, <2>4, <2>5, <2>6, <2>7
  <2> QED BY <2>2, <2>8 DEF u
<1>8. CASE /\ m.type = "didChange" /\ copy.opened /\ r.copy.opened
           /\ m.version = r.copy.version /\ copy.version < r.copy.version
  <2>1. t.held.opened /\ t.held # Absent /\ t.held.version < m.version
    <3>1. t.held.opened = TRUE /\ r.copy.opened = TRUE
      BY <1>1, <1>3, <1>8
    <3>2. t.held # Absent
      BY <3>1, NoneIsACopy
    <3>3. t.held.version <= copy.version
      BY <1>1, <1>8
    <3> QED BY <1>3, <1>8, <3>1, <3>2, <3>3
  <2>2. InTurn(t, m)
    BY <1>1, <1>3, <1>8, <2>1 DEF InTurn
  <2>3. u.held.version = r.copy.version /\ u.held.opened = t.held.opened
    BY <1>4, <1>8, ChangeIsHeld
  <2>4. u.held.version <= r.copy.version /\ r.copy.opened = TRUE /\ u.held.opened = TRUE
    BY <1>1, <1>3, <1>8, <2>3
  <2>5. u.phase = "initialized"
    BY <1>5, <1>8, <2>2
  <2>6. Believes(u)'
    BY <1>6, <2>3, <2>4, <2>5
  <2> QED BY <2>2, <2>6 DEF u
<1>9. CASE m.type = "didSave" /\ copy.opened /\ r.copy.opened /\ r.copy.version = copy.version
  <2>1. t.held.opened = TRUE /\ r.copy.opened = TRUE
    BY <1>1, <1>3, <1>9
  <2>2. t.held # Absent
    BY <2>1, NoneIsACopy
  <2>3. InTurn(t, m)
    BY <1>1, <1>9, <2>2 DEF InTurn
  <2>4. u.held = t.held
    BY <1>4, <1>9 DEF HeldAfter
  <2>5. u.phase = "initialized"
    BY <1>5, <1>9, <2>3
  <2>6. u.held.version <= r.copy.version /\ (Sync # "none" => u.held.version = r.copy.version)
    BY <1>1, <1>9, <2>4
  <2>7. Believes(u)'
    BY <1>6, <2>1, <2>4, <2>5, <2>6
  <2> QED BY <2>3, <2>7 DEF u
<1>10. CASE m.type = "didClose" /\ copy.opened /\ ~r.copy.opened
  <2>1. t.held.opened = TRUE /\ r.copy.opened = FALSE
    BY <1>1, <1>3, <1>10
  <2>2. t.held # Absent
    BY <2>1, NoneIsACopy
  <2>3. InTurn(t, m)
    BY <1>1, <1>10, <2>2 DEF InTurn
  <2>4. u.held = Absent
    BY <1>4, <1>10 DEF HeldAfter, Received
  <2>5. u.phase = "initialized"
    BY <1>5, <1>10, <2>3
  <2>6. u.held.opened = r.copy.opened
    BY <2>1, <2>4, NoneIsACopy
  <2>7. Believes(u)'
    BY <1>6, <2>1, <2>4, <2>5, <2>6
  <2> QED BY <2>3, <2>7 DEF u
<1> QED BY <1>7, <1>8, <1>9, <1>10 DEF SaysOf

(* What a step keeps that only adds to the queue, of a client that runs.     *)
Plain(q) == \A i \in 1..Len(q) : q[i].call \notin {"start", "shutdown"}

LEMMA RunningIsPlain ==
    ASSUME ServerInv, there, running \/ toClient # <<>>
    PROVE  /\ Plain(toTransport) /\ ~CallsStart /\ process # "starting"
           /\ process = "none" => HearsOfTheEnd
           /\ process # "none" => Live
<1>1. Plain(toTransport)
  BY DEF ServerInv, StartsFromNothing, EndIsOfTheDead, Plain
<1>2. ~CallsStart
  BY <1>1 DEF Plain, CallsStart
<1>3. process # "starting"
  BY DEF ServerInv, Starts
<1> QED BY <1>1, <1>2, <1>3 DEF ServerInv, NoProcess, ClientTypes, Live

LEMMA QueueGrows ==
    ASSUME ServerInv, Plain(toTransport'), process # "starting", UNCHANGED <<there, process, peer>>,
           process = "none" => HearsOfTheEnd'
    PROVE  StartsFromNothing' /\ EndIsOfTheDead' /\ NoProcess' /\ Starts' /\ ~CallsStart'
<1>1. ~CallsStart'
  BY DEF Plain, CallsStart
<1> QED BY <1>1 DEF ServerInv, StartsFromNothing, EndIsOfTheDead, NoProcess, Starts, Plain

LEMMA PlainMore ==
    ASSUME NEW q \in Seq(Calls), NEW c \in Calls, Plain(q), c.call \notin {"start", "shutdown"}
    PROVE  Plain(Append(q, c)) /\ Append(q, c) \in Seq(Calls)
<1>1. /\ Append(q, c) \in Seq(Calls) /\ Len(Append(q, c)) = Len(q) + 1 /\ Len(q) \in Nat
      /\ Append(q, c)[Len(q) + 1] = c /\ \A i \in 1..Len(q) : Append(q, c)[i] = q[i]
  BY InTheQueue
<1>2. ASSUME NEW i \in 1..Len(Append(q, c)) PROVE Append(q, c)[i].call \notin {"start", "shutdown"}
  <2>1. i \in 1..Len(q) \/ i = Len(q) + 1
    BY <1>1
  <2> QED BY <1>1, <2>1 DEF Plain
<1> QED BY <1>1, <1>2 DEF Plain

LEMMA OneIsSent ==
    ASSUME NEW q \in Seq(Calls), NEW m \in Messages
    PROVE  /\ q \o Sends(<<m>>) = Append(q, Send(m)) /\ q \o Sends(<<>>) = q
           /\ Send(m) \in Calls /\ Send(m).call = "send" /\ Send(m).message = m
<1>1. Sends(<<m>>) = <<Send(m)>>
  <2>1. DOMAIN <<m>> = 1..1 /\ <<m>>[1] = m
    OBVIOUS
  <2>2. Sends(<<m>>) = [i \in 1..1 |-> Send(m)]
    BY <2>1 DEF Sends
  <2>3. [i \in 1..1 |-> Send(m)] = <<Send(m)>>
    OBVIOUS
  <2> QED BY <2>2, <2>3
<1>2. Sends(<<>>) = <<>>
  BY DEF Sends
<1>3. Send(m) \in Calls /\ Send(m).call = "send" /\ Send(m).message = m
  BY DEF Send, Calls
<1>4. q \o <<Send(m)>> = Append(q, Send(m)) /\ q \o <<>> = q
  BY <1>3
<1> QED BY <1>1, <1>2, <1>3, <1>4

(* A client that is ready goes on talking to the same process.               *)
LEMMA GoesOnTalking ==
    ASSUME ServerInv, there, ready, Live, UNCHANGED <<there, ready, running, initializing, process, peer>>,
           ~CallsStart'
    PROVE  Conversation'
<1>1. running /\ initializing = NoId
  BY DEF ServerInv, ClientKnows
<1>2. Conversation /\ peer.phase \in {"answered", "initialized", "shut"}
  BY DEF ServerInv, Conversation
<1> QED BY <1>1, <1>2 DEF Conversation

LEMMA TellStep ==
    ASSUME ServerInv, there, ~dismissed, NEW r, Outcome(copy, r), Told(r)
    PROVE  ServerInv'
<1>0. /\ copy' = r.copy /\ toTransport' = toTransport \o Sends(r.sent)
      /\ UNCHANGED <<there, dismissed, running, ready, stopping, greeting, ending, lastId,
                     initializing, shuttingDown, asked, toClient, process, peer>>
  BY DEF Told, life, timers, ids, far
<1>1. toTransport \in Seq(Calls) /\ copy \in Copies /\ r.copy \in Copies /\ copy.opened \in BOOLEAN
  BY DEF ServerInv, ClientTypes, Outcome, Copies
<1>2. SignalsInOrder'
  BY <1>0 DEF ServerInv, SignalsInOrder
<1>3. CASE r.sent = <<>> /\ Keeps(copy, r)
  <2>1. toTransport' = toTransport
    <3>1. Sends(<<>>) = <<>>
      BY DEF Sends
    <3> QED BY <1>0, <1>1, <1>3, <3>1
  <2>2. r.copy.opened = copy.opened
    BY <1>3 DEF Keeps
  <2>3. ClientTypes'
    BY <1>0, <1>1, <2>1 DEF ServerInv, ClientTypes
  <2>4. ClientKnows'
    BY <1>0, <2>2 DEF ServerInv, ClientKnows, Outcome
  <2>5. StartsFromNothing' /\ EndIsOfTheDead' /\ NoProcess' /\ Starts'
    <3>1. StartsFromNothing' /\ EndIsOfTheDead'
      BY <1>0, <2>1 DEF ServerInv, StartsFromNothing, EndIsOfTheDead
    <3>2. NoProcess'
      BY <1>0, <2>1 DEF ServerInv, NoProcess, HearsOfTheEnd, CallsStart
    <3>3. Starts'
      BY <1>0, <2>1 DEF ServerInv, Starts, NothingButTheEnd
    <3> QED BY <3>1, <3>2, <3>3
  <2>6. ASSUME Live PROVE Conversation' /\ InAgreement'
    <3>1. Conversation'
      <4>1. Conversation
        BY <2>6 DEF ServerInv
      <4> QED BY <1>0, <2>1, <4>1
              DEF Conversation, CallsStart, OneGreeting, NothingSaid, NoAnswers, Greeting
    <3>2. PICK t \in States : Chain(toTransport, Now(peer), t) /\ (there /\ ready => Believes(t))
      BY <2>6 DEF ServerInv, InAgreement
    <3>3. Chain(toTransport, Now(peer), t)'
      BY <1>0, <2>1, <3>2 DEF Chain, Now
    <3>4. ready => Believes(t)'
      <4>1. SUFFICES ASSUME ready PROVE Believes(t)'
        OBVIOUS
      <4>2. Believes(t)
        BY <3>2, <4>1
      <4>3. CASE t.phase = "shut" /\ dismissed
        BY <1>0, <4>3 DEF Believes
      <4>4. CASE ~(t.phase = "shut" /\ dismissed)
        <5>1. /\ t.phase = "initialized" /\ shuttingDown = NoId /\ t.held.opened = copy.opened
              /\ t.held = Absent \/ t.held.opened
              /\ copy.opened => t.held.version <= copy.version /\ (Sync # "none" => t.held.version = copy.version)
          BY <4>2, <4>4 DEF Believes
        <5>2. copy.version \in Nat /\ r.copy.version \in Nat /\ t.held.version \in Nat
          BY <1>1 DEF Copies, States
        <5>3. copy.opened => copy.version <= r.copy.version /\ (Sync # "none" => r.copy.version = copy.version)
          BY <1>3 DEF Keeps
        <5>4. copy.opened =>
                t.held.version <= r.copy.version /\ (Sync # "none" => t.held.version = r.copy.version)
          BY <5>1, <5>2, <5>3
        <5>5. t.held.opened = r.copy.opened
          BY <2>2, <5>1
        <5>6. r.copy.opened =>
                t.held.version <= r.copy.version /\ (Sync # "none" => t.held.version = r.copy.version)
          BY <2>2, <5>4
        <5> QED BY <1>0, <5>1, <5>5, <5>6 DEF Believes
      <4> QED BY <4>3, <4>4
    <3> QED BY <1>0, <3>1, <3>3, <3>4 DEF InAgreement
  <2>7. Live' => Live
    BY <1>0 DEF Live
  <2> QED BY <1>2, <2>3, <2>4, <2>5, <2>6, <2>7 DEF ServerInv
<1>4. CASE \E m \in Messages : SaysOf(copy, r, m)
  <2>1. PICK m \in Messages : SaysOf(copy, r, m)
    BY <1>4
  <2>2. ready /\ running /\ initializing = NoId
    BY <2>1 DEF SaysOf, ServerInv, ClientKnows
  <2>3. /\ Plain(toTransport) /\ process # "starting" /\ (process = "none" => HearsOfTheEnd)
        /\ (process # "none" => Live)
    BY <2>2, RunningIsPlain
  <2>4. toTransport' = Append(toTransport, Send(m)) /\ Send(m) \in Calls /\ Send(m).call = "send"
        /\ Send(m).message = m
    BY <1>0, <1>1, <2>1, OneIsSent DEF SaysOf
  <2>5. toTransport' \in Seq(Calls) /\ Plain(toTransport')
    BY <1>1, <2>3, <2>4, PlainMore
  <2>6. ClientTypes'
    BY <1>0, <1>1, <2>5 DEF ServerInv, ClientTypes
  <2>7. ClientKnows'
    BY <1>0, <2>2 DEF ServerInv, ClientKnows, Outcome
  <2>8. StartsFromNothing' /\ EndIsOfTheDead' /\ NoProcess' /\ Starts' /\ ~CallsStart'
    <3>1. process = "none" => HearsOfTheEnd'
      BY <1>0, <2>3 DEF HearsOfTheEnd
    <3> QED BY <1>0, <2>3, <2>5, <3>1, QueueGrows
  <2>9. ASSUME Live PROVE Conversation' /\ InAgreement'
    <3>1. Conversation'
      BY <1>0, <2>2, <2>8, <2>9, GoesOnTalking
    <3>2. PICK t \in States : Chain(toTransport, Now(peer), t) /\ (there /\ ready => Believes(t))
      BY <2>9 DEF ServerInv, InAgreement
    <3>3. InTurn(t, m) /\ Believes(AfterMessage(t, m))'
      BY <1>0, <2>1, <2>2, <3>2, SaidIsInTurn
    <3>4. AfterMessage(t, m) \in States /\ Now(peer) \in States
      BY AfterIsAState DEF ServerInv, ClientTypes, Peers, States, Now
    <3>5. Goes(t, Send(m), AfterMessage(t, m))
      BY <2>4, <3>3 DEF Goes
    <3>6. Chain(toTransport', Now(peer), AfterMessage(t, m))
      BY <1>1, <2>4, <3>2, <3>4, <3>5, ChainMore
    <3>7. Now(peer)' = Now(peer)
      BY <1>0 DEF Now
    <3>8. Chain(toTransport, Now(peer), AfterMessage(t, m))'
      BY <3>6, <3>7 DEF Chain
    <3>9. InAgreement'
      BY <3>3, <3>4, <3>8 DEF InAgreement
    <3> QED BY <3>1, <3>9
  <2>10. Live' => Live
    BY <1>0 DEF Live
  <2> QED BY <1>2, <2>6, <2>7, <2>8, <2>9, <2>10 DEF ServerInv
<1> QED BY <1>3, <1>4 DEF Outcome, Keeps

(* What the documents of the workspace do.                                  *)
ToldOfDocument == SetLanguageServer \/ Reload \/ Edit \/ Saved \/ Detach

LEMMA ToldStep ==
    ASSUME OpenClose = TRUE, Sync \in Syncs, ServerInv, ToldOfDocument PROVE ServerInv'
<1>0. /\ copy \in Copies /\ (copy # Absent => copy.version > 0) /\ (copy.opened => ready)
      /\ dismissed \in BOOLEAN /\ (dismissed => copy = Absent)
  BY DEF ServerInv, ClientTypes, ClientKnows
<1>1. ASSUME NEW c \in FileContents PROVE [of |-> c, typed |-> {}] \in CopyTexts
  BY DEF CopyTexts
<1>2. CASE SetLanguageServer
  <2>1. there /\ ~dismissed
    BY <1>2 DEF SetLanguageServer, Speaks
  <2>2. PICK c \in FileContents : Told(OpenDocument(copy, [of |-> c, typed |-> {}]))
    BY <1>2 DEF SetLanguageServer
  <2>3. Outcome(copy, OpenDocument(copy, [of |-> c, typed |-> {}]))
    BY <1>0, <1>1, OpenDocumentSays
  <2> QED BY <2>1, <2>2, <2>3, TellStep
<1>3. CASE Reload
  <2>1. there /\ ~dismissed
    BY <1>0, <1>3 DEF Reload, MayChange, Speaks
  <2>2. PICK c \in FileContents :
            LET text == [of |-> c, typed |-> {}]
                opened == OpenDocument(copy, text)
                replaced == ReplaceDocument(opened.copy, text)
            IN Told([copy |-> replaced.copy, sent |-> opened.sent \o replaced.sent])
    BY <1>3 DEF Reload
  <2>3. PICK text : text = [of |-> c, typed |-> {}]
    OBVIOUS
  <2>4. PICK opened : opened = OpenDocument(copy, text)
    OBVIOUS
  <2>5. Outcome(copy, opened) /\ opened.copy.text = text
    BY <1>0, <1>1, <2>3, <2>4, OpenDocumentSays
  <2>6. ReplaceDocument(opened.copy, text) = Quiet(opened.copy)
    BY <2>5 DEF ReplaceDocument
  <2>7. PICK r : r = [copy |-> opened.copy, sent |-> opened.sent \o <<>>]
    OBVIOUS
  <2>8. Told(r)
    <3>1. Told([copy |-> ReplaceDocument(opened.copy, text).copy,
                sent |-> opened.sent \o ReplaceDocument(opened.copy, text).sent])
      BY <2>2, <2>3, <2>4, Zenon
    <3>2. ReplaceDocument(opened.copy, text).copy = opened.copy /\ ReplaceDocument(opened.copy, text).sent = <<>>
      BY <2>6 DEF Quiet
    <3> QED BY <2>7, <3>1, <3>2, Zenon
  <2>9. r.copy = opened.copy /\ r.sent = opened.sent
    <3>1. opened.sent = <<>> \/ \E m \in Messages : opened.sent = <<m>>
      BY <2>5 DEF Outcome, Keeps, SaysOf
    <3>2. opened.sent \o <<>> = opened.sent
      BY <3>1
    <3> QED BY <2>7, <3>2
  <2>10. Outcome(copy, r)
    BY <2>5, <2>9 DEF Outcome, Keeps, SaysOf
  <2> QED BY <2>1, <2>8, <2>10, TellStep
<1>4. CASE Edit
  <2>1. there /\ ~dismissed /\ copy # Absent
    BY <1>0, <1>4 DEF Edit, MayChange, Speaks
  <2>2. PICK w \in Words \ copy.text.typed :
            \/ Told(EditDocument(copy, <<w>>, 1))
            \/ Told(ReplaceDocument(EditDocument(copy, <<w>>, 0).copy, With(copy.text, {w})))
    BY <1>4 DEF Edit
  <2>3. /\ Outcome(copy, EditDocument(copy, <<w>>, 1))
        /\ EditDocument(copy, <<w>>, 0).copy \in Copies
        /\ EditDocument(copy, <<w>>, 0).copy.opened = copy.opened
        /\ EditDocument(copy, <<w>>, 0).copy.version = copy.version
    BY <1>0, <2>1, EditDocumentSays
  <2>4. PICK d : d = EditDocument(copy, <<w>>, 0).copy
    OBVIOUS
  <2>5. d \in Copies /\ d.opened = copy.opened /\ d.version = copy.version /\ d.version > 0
    BY <1>0, <2>1, <2>3, <2>4
  <2>6. With(copy.text, {w}) \in CopyTexts
    BY <1>0 DEF With, CopyTexts, Copies
  <2>7. Outcome(copy, ReplaceDocument(d, With(copy.text, {w})))
    BY <1>0, <2>5, <2>6, ReplaceDocumentSays
  <2> QED BY <2>1, <2>2, <2>3, <2>4, <2>7, TellStep
<1>5. CASE Saved
  <2>1. there /\ ~dismissed
    BY <1>0, <1>5 DEF Saved, Speaks
  <2>2. PICK unheard \in SUBSET Words : Told(SavedDocument(copy, With(copy.text, unheard)))
    BY <1>5 DEF Saved
  <2>3. With(copy.text, unheard) \in CopyTexts
    BY <1>0 DEF With, CopyTexts, Copies
  <2>4. Outcome(copy, SavedDocument(copy, With(copy.text, unheard)))
    BY <1>0, <2>3, SaveDocumentSays
  <2> QED BY <2>1, <2>2, <2>4, TellStep
<1>6. CASE Detach
  <2>1. there /\ ~dismissed /\ Told(CloseDocument(copy))
    BY <1>0, <1>6 DEF Detach, Speaks
  <2> QED BY <1>0, <2>1, CloseDocumentSays, TellStep
<1> QED BY <1>2, <1>3, <1>4, <1>5, <1>6 DEF ToldOfDocument

LEMMA RequestIsACall ==
    ASSUME NEW type \in {"initialize", "request", "cancel", "shutdown"}, NEW id \in Ids
    PROVE  /\ RequestMessage(type, id) \in Calls /\ RequestMessage(type, id).call = "send"
           /\ RequestMessage(type, id).message \in Messages /\ RequestMessage(type, id).message.type = type
           /\ RequestMessage(type, id).message.id = id
<1>1. PICK m : m = [type |-> type, id |-> id]
  OBVIOUS
<1>2. m \in Messages /\ m.type = type /\ m.id = id
  BY <1>1 DEF Messages
<1>3. RequestMessage(type, id) = Send(m)
  BY <1>1 DEF RequestMessage
<1> QED BY <1>2, <1>3 DEF Send, Calls

LEMMA NotifyIsACall ==
    ASSUME NEW type \in {"initialized", "exit"}
    PROVE  /\ Notify(type) \in Calls /\ Notify(type).call = "send"
           /\ Notify(type).message \in Messages /\ Notify(type).message.type = type
<1>1. PICK m : m = [type |-> type]
  OBVIOUS
<1>2. m \in Messages /\ m.type = type
  BY <1>1 DEF Messages
<1>3. Notify(type) = Send(m)
  BY <1>1 DEF Notify
<1> QED BY <1>2, <1>3 DEF Send, Calls

LEMMA CallIsACall ==
    ASSUME NEW k \in {"start", "kill", "requestTermination", "shutdown"}
    PROVE  TransportCall(k) \in Calls /\ TransportCall(k).call = k
BY DEF TransportCall, Calls

LEMMA NowIsAState == ServerInv => Now(peer) \in States
BY DEF ServerInv, ClientTypes, Peers, States, Now

(* Questions change nothing of what the server has.                         *)
LEMMA AskStep == ASSUME ServerInv, Ask PROVE ServerInv'
<1>0. /\ there /\ ready /\ copy # Absent /\ lastId' = lastId + 1 /\ asked' = {lastId'}
      /\ UNCHANGED <<there, dismissed, running, ready, stopping, greeting, ending, initializing, shuttingDown,
                     copy, toClient, process, peer>>
  BY DEF Ask, Speaks, life, timers, far
<1>1. /\ running /\ ~dismissed /\ toTransport \in Seq(Calls) /\ lastId' \in Ids /\ asked \in SUBSET Ids
  BY <1>0 DEF ServerInv, ClientTypes, ClientKnows, Ids
<1>2. /\ Plain(toTransport) /\ process # "starting" /\ (process = "none" => HearsOfTheEnd)
      /\ (process # "none" => Live)
  BY <1>0, <1>1, RunningIsPlain
<1>3. PICK last : last = RequestMessage("request", lastId')
  OBVIOUS
<1>4. PICK before : before = CHOOSE id \in asked : TRUE
  OBVIOUS
<1>5. asked # {} => before \in Ids
  BY <1>1, <1>4
<1>6. PICK first : first = RequestMessage("cancel", before)
  OBVIOUS
<1>7. last \in Calls /\ last.call = "send" /\ last.message \in Messages /\ last.message.type = "request"
  BY <1>1, <1>3, RequestIsACall
<1>8. asked # {} =>
        first \in Calls /\ first.call = "send" /\ first.message \in Messages /\ first.message.type = "cancel"
  BY <1>5, <1>6, RequestIsACall
<1>9. PICK q : q = IF asked = {} THEN toTransport ELSE Append(toTransport, first)
  OBVIOUS
<1>10. q \in Seq(Calls) /\ Plain(q)
  BY <1>1, <1>2, <1>8, <1>9, PlainMore
<1>11. toTransport' = Append(q, last)
  <2>1. toTransport' = toTransport \o (IF asked = {} THEN <<>> ELSE <<first>>) \o <<last>>
    BY <1>3, <1>4, <1>6 DEF Ask
  <2>2. CASE asked = {}
    <3>1. toTransport \o <<>> = toTransport
      BY <1>1
    <3>2. q \o <<last>> = Append(q, last)
      BY <1>7, <1>10
    <3>3. q = toTransport
      BY <1>9, <2>2
    <3>4. toTransport' = toTransport \o <<>> \o <<last>>
      BY <2>1, <2>2
    <3> QED BY <3>1, <3>2, <3>3, <3>4
  <2>3. CASE asked # {}
    <3>1. toTransport \o <<first>> = Append(toTransport, first)
      BY <1>1, <1>8, <2>3
    <3>2. q \o <<last>> = Append(q, last)
      BY <1>7, <1>10
    <3>3. q = toTransport \o <<first>>
      BY <1>9, <2>3, <3>1
    <3>4. toTransport' = toTransport \o <<first>> \o <<last>>
      BY <2>1, <2>3
    <3> QED BY <3>2, <3>3, <3>4
  <2> QED BY <2>2, <2>3
<1>12. Plain(toTransport') /\ toTransport' \in Seq(Calls)
  BY <1>7, <1>10, <1>11, PlainMore
<1>13. ClientTypes'
  BY <1>0, <1>1, <1>12 DEF ServerInv, ClientTypes, Ids
<1>14. ClientKnows' /\ SignalsInOrder'
  BY <1>0 DEF ServerInv, ClientKnows, SignalsInOrder
<1>15. StartsFromNothing' /\ EndIsOfTheDead' /\ NoProcess' /\ Starts' /\ ~CallsStart'
  <2>1. process = "none" => HearsOfTheEnd'
    BY <1>0, <1>2 DEF HearsOfTheEnd
  <2> QED BY <1>0, <1>2, <1>12, <2>1, QueueGrows
<1>16. ASSUME Live PROVE Conversation' /\ InAgreement'
  <2>1. Conversation'
    BY <1>0, <1>15, <1>16, GoesOnTalking
  <2>2. PICK t \in States : Chain(toTransport, Now(peer), t) /\ Believes(t)
    BY <1>0, <1>16 DEF ServerInv, InAgreement
  <2>3. t.phase = "initialized"
    BY <1>1, <2>2 DEF Believes
  <2>4. ASSUME NEW m \in Messages, m.type \in {"request", "cancel"} PROVE InTurn(t, m) /\ AfterMessage(t, m) = t
    <3>1. InTurn(t, m)
      BY <2>3, <2>4 DEF InTurn
    <3>2. PhaseAfter(t, m) = t.phase /\ HeldAfter(t, m) = t.held
      BY <2>4, <3>1 DEF PhaseAfter, HeldAfter
    <3>3. t = [phase |-> t.phase, held |-> t.held]
      BY DEF States
    <3> QED BY <3>1, <3>2, <3>3 DEF AfterMessage
  <2>5. Goes(t, last, t) /\ (asked # {} => Goes(t, first, t))
    BY <1>7, <1>8, <2>4 DEF Goes
  <2>6. Now(peer) \in States
    BY NowIsAState
  <2>7. Chain(q, Now(peer), t)
    BY <1>1, <1>8, <1>9, <2>2, <2>5, <2>6, ChainMore
  <2>8. Chain(toTransport', Now(peer), t)
    BY <1>7, <1>10, <1>11, <2>5, <2>6, <2>7, ChainMore
  <2>9. Chain(toTransport, Now(peer), t)'
    BY <1>0, <2>8 DEF Chain, Now
  <2>10. Believes(t)'
    BY <1>0, <2>2 DEF Believes
  <2> QED BY <2>1, <2>9, <2>10 DEF InAgreement
<1>17. Live' => Live
  BY <1>0 DEF Live
<1> QED BY <1>13, <1>14, <1>15, <1>16, <1>17 DEF ServerInv

(* A process that is to be killed is spoken to as before.                   *)
LEMMA KillStep ==
    ASSUME ServerInv, there, running, NEW c \in Calls, c.call \in {"kill", "requestTermination"},
           toTransport' = Append(toTransport, c),
           UNCHANGED <<there, running, ready, initializing, toClient, process, peer>>
    PROVE  /\ toTransport' \in Seq(Calls)
           /\ SignalsInOrder' /\ StartsFromNothing' /\ EndIsOfTheDead' /\ NoProcess' /\ Starts'
           /\ Live' => Conversation' /\ \E t \in States : Chain(toTransport, Now(peer), t)' /\ (ready => Believes(t))
<1>0. toTransport \in Seq(Calls)
  BY DEF ServerInv, ClientTypes
<1>1. /\ Plain(toTransport) /\ process # "starting" /\ (process = "none" => HearsOfTheEnd)
      /\ (process # "none" => Live)
  BY RunningIsPlain
<1>2. Plain(toTransport') /\ toTransport' \in Seq(Calls)
  BY <1>0, <1>1, PlainMore
<1>3. SignalsInOrder'
  BY DEF ServerInv, SignalsInOrder
<1>4. StartsFromNothing' /\ EndIsOfTheDead' /\ NoProcess' /\ Starts' /\ ~CallsStart'
  <2>1. process = "none" => HearsOfTheEnd'
    BY <1>1 DEF HearsOfTheEnd
  <2> QED BY <1>1, <1>2, <2>1, QueueGrows
<1>5. ASSUME Live
      PROVE  Conversation' /\ \E t \in States : Chain(toTransport, Now(peer), t)' /\ (ready => Believes(t))
  <2>1. Conversation
    BY <1>5 DEF ServerInv
  <2>2. /\ Len(toTransport') = Len(toTransport) + 1 /\ toTransport'[Len(toTransport) + 1] = c
        /\ \A i \in 1..Len(toTransport) : toTransport'[i] = toTransport[i]
        /\ Len(toTransport) \in Nat
    BY <1>0, InTheQueue
  <2>3. ASSUME NEW i \in 1..Len(toTransport'), toTransport'[i].call = "send"
        PROVE  i \in 1..Len(toTransport) /\ toTransport'[i] = toTransport[i]
    <3>1. i \in 1..Len(toTransport) \/ i = Len(toTransport) + 1
      BY <2>2
    <3> QED BY <2>2, <2>3, <3>1
  <2>4. OneGreeting => OneGreeting'
    BY <2>3 DEF OneGreeting
  <2>5. NothingSaid => NothingSaid'
    BY <2>3 DEF NothingSaid
  <2>6. Greeting => Greeting'
    BY <2>3, <2>5 DEF Greeting, NoAnswers
  <2>7. Conversation'
    BY <1>4, <2>1, <2>4, <2>5, <2>6 DEF Conversation
  <2>8. PICK t \in States : Chain(toTransport, Now(peer), t) /\ (there /\ ready => Believes(t))
    BY <1>5 DEF ServerInv, InAgreement
  <2>9. Goes(t, c, t)
    BY DEF Goes
  <2>10. Chain(toTransport', Now(peer), t)
    BY <1>0, <2>8, <2>9, NowIsAState, ChainMore
  <2>11. Chain(toTransport, Now(peer), t)'
    BY <2>10 DEF Chain, Now
  <2> QED BY <2>7, <2>8, <2>11
<1>6. Live' => Live
  BY DEF Live
<1> QED BY <1>2, <1>3, <1>4, <1>5, <1>6

(* What does not concern the server leaves all of it as it is.              *)
LEMMA NothingHappensThere ==
    ASSUME ServerInv, UNCHANGED <<there, running, ready, initializing, toTransport, toClient, process, peer>>
    PROVE  /\ SignalsInOrder' /\ StartsFromNothing' /\ EndIsOfTheDead' /\ NoProcess' /\ Starts'
           /\ Live' => Conversation' /\ \E t \in States : Chain(toTransport, Now(peer), t)'
                                                       /\ (there /\ ready => Believes(t))
<1>1. SignalsInOrder'
  BY DEF ServerInv, SignalsInOrder
<1>2. StartsFromNothing' /\ EndIsOfTheDead'
  BY DEF ServerInv, StartsFromNothing, EndIsOfTheDead
<1>3. NoProcess'
  BY DEF ServerInv, NoProcess, HearsOfTheEnd, CallsStart
<1>4. Starts'
  BY DEF ServerInv, Starts, NothingButTheEnd
<1>5. ASSUME Live
      PROVE  Conversation' /\ \E t \in States : Chain(toTransport, Now(peer), t)' /\ (there /\ ready => Believes(t))
  <2>1. Conversation
    BY <1>5 DEF ServerInv
  <2>2. Conversation'
    BY <2>1 DEF Conversation, CallsStart, OneGreeting, NothingSaid, NoAnswers, Greeting
  <2>3. PICK t \in States : Chain(toTransport, Now(peer), t) /\ (there /\ ready => Believes(t))
    BY <1>5 DEF ServerInv, InAgreement
  <2>4. Chain(toTransport, Now(peer), t)'
    BY <2>3 DEF Chain, Now
  <2> QED BY <2>2, <2>3, <2>4
<1>6. Live' => Live
  BY DEF Live
<1> QED BY <1>1, <1>2, <1>3, <1>4, <1>5, <1>6

LEMMA TimeoutStep == ASSUME ServerInv, InitializeTimeout \/ StopTimeout PROVE ServerInv'
<1>0. /\ there /\ (greeting \/ ending) /\ toTransport' = Append(toTransport, TransportCall("kill"))
      /\ UNCHANGED <<there, dismissed, running, ready, stopping, lastId, initializing, shuttingDown, asked,
                     copy, toClient, process, peer>>
      /\ greeting' \in {FALSE, greeting} /\ ending' \in {FALSE, ending}
  BY DEF InitializeTimeout, StopTimeout, life, ids, far
<1>1. running
  BY <1>0 DEF ServerInv, ClientKnows
<1>2. TransportCall("kill") \in Calls /\ TransportCall("kill").call = "kill"
  BY CallIsACall
<1>3. /\ toTransport' \in Seq(Calls)
      /\ SignalsInOrder' /\ StartsFromNothing' /\ EndIsOfTheDead' /\ NoProcess' /\ Starts'
      /\ Live' => Conversation' /\ \E t \in States : Chain(toTransport, Now(peer), t)' /\ (ready => Believes(t))
  BY <1>0, <1>1, <1>2, KillStep
<1>4. ClientTypes'
  BY <1>0, <1>3 DEF ServerInv, ClientTypes
<1>5. ClientKnows'
  BY <1>0, <1>1 DEF ServerInv, ClientKnows
<1>6. Live' => InAgreement'
  <2>1. ASSUME NEW t \in States, Believes(t) PROVE Believes(t)'
    BY <1>0, <2>1 DEF Believes
  <2> QED BY <1>0, <1>3, <2>1 DEF InAgreement
<1> QED BY <1>3, <1>4, <1>5, <1>6 DEF ServerInv

LEMMA StopStep == ASSUME ServerInv, Stop PROVE ServerInv'
<1>0. /\ there /\ ~dismissed /\ copy = Absent /\ dismissed' = TRUE /\ stopping' = TRUE
      /\ UNCHANGED <<there, running, ready, initializing, asked, copy, toClient, process, peer>>
  BY DEF Stop, far
<1>1. /\ toTransport \in Seq(Calls) /\ lastId \in Nat /\ running \in BOOLEAN /\ shuttingDown = NoId
      /\ greeting \in BOOLEAN /\ ending \in BOOLEAN
  BY <1>0 DEF ServerInv, ClientTypes, ClientKnows, NoId
<1>2. CASE UNCHANGED <<lastId, shuttingDown, toTransport>>
           /\ greeting' \in {FALSE, greeting} /\ ending' \in {running, ending}
  <2>1. ClientTypes'
    BY <1>0, <1>1, <1>2 DEF ServerInv, ClientTypes
  <2>2. ClientKnows'
    <3>1. ClientKnows /\ (greeting' => greeting) /\ (ending' => running \/ ending)
      <4>1. ASSUME greeting' PROVE greeting
        <5>1. greeting' = TRUE \/ ~greeting'
          BY <1>1, <1>2
        <5> QED BY <1>2, <4>1, <5>1
      <4>2. ASSUME ending' PROVE running \/ ending
        <5>1. ending' = running \/ ending' = ending
          BY <1>2
        <5> QED BY <4>2, <5>1, Zenon
      <4> QED BY <4>1, <4>2 DEF ServerInv
    <3>2. greeting' \/ ending' => running'
      BY <1>0, <3>1 DEF ClientKnows
    <3> QED BY <1>0, <1>2, <3>1, <3>2 DEF ClientKnows
  <2>3. /\ SignalsInOrder' /\ StartsFromNothing' /\ EndIsOfTheDead' /\ NoProcess' /\ Starts'
        /\ Live' => Conversation' /\ \E t \in States : Chain(toTransport, Now(peer), t)'
                                                    /\ (there /\ ready => Believes(t))
    BY <1>0, <1>2, NothingHappensThere
  <2>4. ASSUME NEW t \in States, Believes(t) PROVE Believes(t)'
    BY <1>0, <1>2, <2>4 DEF Believes
  <2>5. Live' => InAgreement'
    BY <1>0, <2>3, <2>4 DEF InAgreement
  <2> QED BY <2>1, <2>2, <2>3, <2>5 DEF ServerInv
<1>3. CASE running /\ ready /\ lastId' = lastId + 1 /\ shuttingDown' = lastId' /\ greeting' = FALSE /\ ending' = running
           /\ toTransport' = Append(toTransport, RequestMessage("shutdown", lastId'))
  <2>1. /\ Plain(toTransport) /\ process # "starting" /\ (process = "none" => HearsOfTheEnd)
        /\ (process # "none" => Live)
    BY <1>0, <1>3, RunningIsPlain
  <2>2. lastId' \in Ids /\ lastId' \in Nat /\ lastId' # NoId
    BY <1>1, <1>3 DEF Ids, NoId
  <2>3. PICK c : c = RequestMessage("shutdown", lastId')
    OBVIOUS
  <2>4. c \in Calls /\ c.call = "send" /\ c.message \in Messages /\ c.message.type = "shutdown"
    BY <2>2, <2>3, RequestIsACall
  <2>5. toTransport' = Append(toTransport, c) /\ toTransport' \in Seq(Calls) /\ Plain(toTransport')
    BY <1>1, <1>3, <2>1, <2>3, <2>4, PlainMore
  <2>6. ClientTypes'
    BY <1>0, <1>1, <1>3, <2>2, <2>5 DEF ServerInv, ClientTypes
  <2>7. ClientKnows' /\ SignalsInOrder'
    BY <1>0, <1>3 DEF ServerInv, ClientKnows, SignalsInOrder
  <2>8. StartsFromNothing' /\ EndIsOfTheDead' /\ NoProcess' /\ Starts' /\ ~CallsStart'
    <3>1. process = "none" => HearsOfTheEnd'
      BY <1>0, <2>1 DEF HearsOfTheEnd
    <3> QED BY <1>0, <2>1, <2>5, <3>1, QueueGrows
  <2>9. ASSUME Live PROVE Conversation' /\ InAgreement'
    <3>1. Conversation'
      BY <1>0, <1>3, <2>8, <2>9, GoesOnTalking
    <3>2. PICK t \in States : Chain(toTransport, Now(peer), t) /\ Believes(t)
      BY <1>0, <1>3, <2>9 DEF ServerInv, InAgreement
    <3>3. t.phase = "initialized"
      BY <1>0, <3>2 DEF Believes
    <3>4. InTurn(t, c.message)
      BY <2>4, <3>3 DEF InTurn
    <3>5. PICK u : u = AfterMessage(t, c.message)
      OBVIOUS
    <3>6. u \in States
      BY <2>4, <3>5, AfterIsAState
    <3>7. u.phase = "shut"
      BY <2>4, <3>4, <3>5 DEF AfterMessage, PhaseAfter
    <3>8. Goes(t, c, u)
      BY <2>4, <3>4, <3>5 DEF Goes
    <3>9. Chain(toTransport', Now(peer), u)
      BY <1>1, <2>4, <2>5, <3>2, <3>6, <3>8, NowIsAState, ChainMore
    <3>10. Chain(toTransport, Now(peer), u)'
      BY <1>0, <3>9 DEF Chain, Now
    <3>11. Believes(u)'
      BY <1>0, <3>7 DEF Believes
    <3> QED BY <3>1, <3>6, <3>10, <3>11 DEF InAgreement
  <2>10. Live' => Live
    BY <1>0 DEF Live
  <2> QED BY <2>6, <2>7, <2>8, <2>9, <2>10 DEF ServerInv
<1>4. CASE /\ running /\ ~ready /\ greeting' = FALSE /\ ending' = running /\ UNCHANGED <<lastId, shuttingDown>>
           /\ toTransport' = Append(toTransport, TransportCall("requestTermination"))
  <2>1. TransportCall("requestTermination") \in Calls /\ TransportCall("requestTermination").call = "requestTermination"
    BY CallIsACall
  <2>2. /\ toTransport' \in Seq(Calls)
        /\ SignalsInOrder' /\ StartsFromNothing' /\ EndIsOfTheDead' /\ NoProcess' /\ Starts'
        /\ Live' => Conversation' /\ \E t \in States : Chain(toTransport, Now(peer), t)' /\ (ready => Believes(t))
    BY <1>0, <1>4, <2>1, KillStep
  <2>3. ClientTypes'
    BY <1>0, <1>1, <1>4, <2>2 DEF ServerInv, ClientTypes
  <2>4. ClientKnows'
    BY <1>0, <1>1, <1>4 DEF ServerInv, ClientKnows
  <2>5. Live' => InAgreement'
    BY <1>0, <1>4, <2>2 DEF InAgreement
  <2> QED BY <2>2, <2>3, <2>4, <2>5 DEF ServerInv
<1> QED BY <1>1, <1>2, <1>3, <1>4 DEF Stop, timers

LEMMA DestroyStep == ASSUME ServerInv, Destroy PROVE ServerInv'
<1>0. /\ there /\ there' = FALSE /\ toTransport' = Append(toTransport, TransportCall("shutdown")) /\ toClient' = <<>>
      /\ UNCHANGED <<dismissed, running, ready, stopping, greeting, ending, lastId, initializing, shuttingDown,
                     asked, copy, process, peer>>
  BY DEF Destroy, timers, ids, far
<1>1. PICK c : c = TransportCall("shutdown")
  OBVIOUS
<1>2. c \in Calls /\ c.call = "shutdown" /\ toTransport \in Seq(Calls)
  BY <1>1, CallIsACall DEF ServerInv, ClientTypes
<1>3. /\ toTransport' \in Seq(Calls) /\ Len(toTransport') = Len(toTransport) + 1 /\ Len(toTransport) \in Nat
      /\ toTransport'[Len(toTransport) + 1] = c
      /\ \A i \in 1..Len(toTransport) : toTransport'[i] = toTransport[i]
  BY <1>0, <1>1, <1>2, InTheQueue
<1>4. ASSUME NEW i \in 1..Len(toTransport')
      PROVE  \/ i \in 1..Len(toTransport) /\ toTransport'[i] = toTransport[i]
             \/ i = Len(toTransport) + 1 /\ toTransport'[i] = c /\ c.call = "shutdown"
  BY <1>2, <1>3
<1>5. ClientTypes' /\ ClientKnows'
  <2>1. toClient' \in Seq(Signals)
    BY <1>0
  <2>2. ClientTypes'
    BY <1>0, <1>3, <2>1 DEF ServerInv, ClientTypes
  <2> QED BY <1>0, <2>2 DEF ServerInv, ClientKnows
<1>6. SignalsInOrder'
  BY <1>0 DEF SignalsInOrder
<1>7. StartsFromNothing'
  <2>1. ASSUME NEW n \in 1..Len(toTransport'), toTransport'[n].call = "start"
        PROVE  /\ process = "none" /\ \A i \in 1..Len(toTransport') : i # n => toTransport'[i].call # "start"
               /\ \A i \in 1..Len(toTransport') : i > n => toTransport'[i].call = "shutdown"
    <3>1. n \in 1..Len(toTransport) /\ toTransport[n].call = "start"
      BY <1>4, <2>1
    <3>2. /\ process = "none" /\ \A i \in 1..Len(toTransport) : i # n => toTransport[i].call # "start"
          /\ \A i \in 1..Len(toTransport) : i > n => toTransport[i].call = "shutdown"
      BY <3>1 DEF ServerInv, StartsFromNothing
    <3> QED BY <1>4, <3>2
  <2> QED BY <1>0, <2>1 DEF StartsFromNothing
<1>8. EndIsOfTheDead' /\ NoProcess'
  BY <1>0 DEF EndIsOfTheDead, NoProcess, ServerInv
<1>9. Starts'
  <2>1. NothingButTheEnd => NothingButTheEnd'
    BY <1>4 DEF NothingButTheEnd
  <2> QED BY <1>0, <2>1 DEF ServerInv, Starts
<1>10. ASSUME Live PROVE Conversation' /\ InAgreement'
  <2>1. Conversation
    BY <1>10 DEF ServerInv
  <2>2. ~CallsStart'
    BY <1>4, <2>1 DEF Conversation, CallsStart
  <2>3. (OneGreeting => OneGreeting') /\ (NothingSaid => NothingSaid')
    BY <1>4 DEF OneGreeting, NothingSaid
  <2>4. Conversation'
    BY <1>0, <2>1, <2>2, <2>3 DEF Conversation
  <2>5. PICK t \in States : Chain(toTransport, Now(peer), t)
    BY <1>10 DEF ServerInv, InAgreement
  <2>6. Goes(t, c, t)
    BY <1>2 DEF Goes
  <2>7. Chain(toTransport', Now(peer), t)
    BY <1>0, <1>1, <1>2, <2>5, <2>6, NowIsAState, ChainMore
  <2>8. Chain(toTransport, Now(peer), t)'
    BY <1>0, <2>7 DEF Chain, Now
  <2> QED BY <1>0, <2>4, <2>8 DEF InAgreement
<1>11. Live' => Live
  BY <1>0 DEF Live
<1> QED BY <1>5, <1>6, <1>7, <1>8, <1>9, <1>10, <1>11 DEF ServerInv

(* One signal less, of a client that runs when it has heard it.             *)
LEMMA HeardStep ==
    ASSUME ServerInv, there, toClient # <<>>, toClient' = Tail(toClient),
           Head(toClient).signal \in {"started", "message", "protocolFailed"},
           Head(toClient).signal = "started" => running', Head(toClient).signal # "started" => running' = running,
           UNCHANGED <<there, process, peer>>, Plain(toTransport')
    PROVE  /\ SignalsInOrder' /\ StartsFromNothing' /\ EndIsOfTheDead' /\ NoProcess' /\ Starts' /\ ~CallsStart'
           /\ NoAnswers => NoAnswers'
<1>1. /\ Len(toClient') = Len(toClient) - 1 /\ Len(toClient) \in Nat \ {0} /\ Head(toClient) = toClient[1]
      /\ \A i \in 1..(Len(toClient) - 1) : toClient'[i] = toClient[i + 1]
      /\ toClient \in Seq(Signals) /\ toClient' \in Seq(Signals)
  BY OutOfTheQueue DEF ServerInv, ClientTypes
<1>2. ASSUME NEW i \in 1..Len(toClient') PROVE i + 1 \in 1..Len(toClient) /\ toClient'[i] = toClient[i + 1] /\ i + 1 # 1
  BY <1>1
<1>3. SignalsInOrder'
  <2>1. ASSUME NEW i \in 1..Len(toClient')
        PROVE  /\ toClient'[i].signal # "started"
               /\ toClient'[i].signal = "exited" => i = Len(toClient') /\ process = "none"
               /\ toClient'[i].signal # "startFailed"
    <3>1. i + 1 \in 1..Len(toClient) /\ toClient'[i] = toClient[i + 1] /\ i + 1 # 1
      BY <1>2
    <3>2. /\ toClient[i + 1].signal # "started"
          /\ toClient[i + 1].signal = "exited" => i + 1 = Len(toClient) /\ process = "none"
          /\ toClient[i + 1].signal = "startFailed" => Len(toClient) = 1
      BY <3>1 DEF ServerInv, SignalsInOrder
    <3>3. PICK n \in Nat : n = Len(toClient) /\ Len(toClient') = n - 1
      BY <1>1
    <3>4. i \in 1..(n - 1)
      BY <3>3
    <3>5. n # 1 /\ (i + 1 = n => i = n - 1)
      BY <3>3, <3>4
    <3> QED BY <3>1, <3>2, <3>3, <3>5
  <2> QED BY <2>1 DEF SignalsInOrder
<1>4. process # "starting" /\ (process = "none" => HearsOfTheEnd)
  BY RunningIsPlain
<1>5. ASSUME process = "none" PROVE HearsOfTheEnd'
  <2>1. HearsOfTheEnd
    BY <1>4, <1>5
  <2>2. /\ toClient[Len(toClient)].signal = "exited" /\ (running \/ toClient[1].signal = "started")
    BY <1>1, <2>1 DEF HearsOfTheEnd
  <2>3. Len(toClient) # 1
    BY <1>1, <2>2
  <2>4. toClient' # <<>> /\ toClient'[Len(toClient')] = toClient[Len(toClient)]
    <3>1. Len(toClient') \in 1..(Len(toClient) - 1) /\ Len(toClient') + 1 = Len(toClient)
      BY <1>1, <2>3
    <3>2. PICK m : m = Len(toClient')
      OBVIOUS
    <3>3. m \in 1..Len(toClient') /\ m + 1 = Len(toClient)
      BY <3>1, <3>2
    <3>4. toClient'[m] = toClient[m + 1]
      BY <1>2, <3>3
    <3>5. toClient' # <<>>
      <4>1. Len(toClient') # 0
        BY <3>1
      <4>2. Len(<<>>) = 0
        OBVIOUS
      <4> QED BY <4>1, <4>2, Zenon
    <3>6. toClient'[Len(toClient')] = toClient[m + 1]
      BY <3>2, <3>4
    <3>7. toClient[m + 1] = toClient[Len(toClient)]
      BY <3>3
    <3> QED BY <3>5, <3>6, <3>7
  <2>5. running'
    BY <1>1, <2>2
  <2> QED BY <2>2, <2>4, <2>5 DEF HearsOfTheEnd
<1>6. StartsFromNothing' /\ EndIsOfTheDead' /\ NoProcess' /\ Starts' /\ ~CallsStart'
  BY <1>4, <1>5, QueueGrows
<1>7. NoAnswers => NoAnswers'
  BY <1>2 DEF NoAnswers
<1> QED BY <1>3, <1>6, <1>7

(* The chain of a queue that says nothing more is where the server is.       *)
LEMMA NothingMoreIsSaid ==
    ASSUME ServerInv, NothingSaid PROVE Chain(toTransport, Now(peer), Now(peer))
BY NowIsAState, ChainStill DEF ServerInv, ClientTypes, NothingSaid

LEMMA OnStartedStep == ASSUME ServerInv, OnStarted PROVE ServerInv'
<1>0. /\ there /\ toClient # <<>> /\ Head(toClient).signal = "started" /\ toClient' = Tail(toClient)
      /\ running' = TRUE /\ greeting' = TRUE /\ lastId' = lastId + 1 /\ initializing' = lastId'
      /\ toTransport' = Append(toTransport, RequestMessage("initialize", lastId'))
      /\ UNCHANGED <<there, dismissed, ready, stopping, ending, shuttingDown, asked, copy, process, peer>>
  BY DEF OnStarted, Hearing, far
<1>1. /\ toTransport \in Seq(Calls) /\ lastId' \in Ids /\ lastId' \in Nat /\ lastId' # NoId
      /\ toClient' \in Seq(Signals)
  BY <1>0, OutOfTheQueue DEF ServerInv, ClientTypes, Ids, NoId
<1>2. ~running
  <2>1. 1 \in 1..Len(toClient) /\ toClient[1].signal = "started"
    BY <1>0, OutOfTheQueue DEF ServerInv, ClientTypes
  <2> QED BY <2>1 DEF ServerInv, SignalsInOrder
<1>3. ~ready /\ shuttingDown = NoId /\ ~ending
  BY <1>2 DEF ServerInv, ClientKnows
<1>4. PICK c : c = RequestMessage("initialize", lastId')
  OBVIOUS
<1>5. /\ c \in Calls /\ c.call = "send" /\ c.message \in Messages
      /\ c.message.type = "initialize" /\ c.message.id = lastId'
  BY <1>1, <1>4, RequestIsACall
<1>6. Plain(toTransport)
  BY <1>0, RunningIsPlain
<1>7. toTransport' = Append(toTransport, c) /\ Plain(toTransport') /\ toTransport' \in Seq(Calls)
  BY <1>0, <1>1, <1>4, <1>5, <1>6, PlainMore
<1>8. /\ SignalsInOrder' /\ StartsFromNothing' /\ EndIsOfTheDead' /\ NoProcess' /\ Starts' /\ ~CallsStart'
      /\ NoAnswers => NoAnswers'
  BY <1>0, <1>7, HeardStep
<1>9. ClientTypes'
  BY <1>0, <1>1, <1>7 DEF ServerInv, ClientTypes
<1>10. ClientKnows'
  BY <1>0, <1>3 DEF ServerInv, ClientKnows
<1>11. ASSUME Live PROVE Conversation' /\ InAgreement'
  <2>1. peer = FreshServer /\ toTransport = <<>> /\ NoAnswers
    BY <1>0, <1>2, <1>11 DEF ServerInv, Conversation
  <2>2. peer.phase = "fresh" /\ peer.held = Absent /\ peer.asks = {}
    BY <2>1 DEF FreshServer
  <2>3. toTransport' = <<c>> /\ Len(toTransport') = 1 /\ toTransport'[1] = c
    BY <1>5, <1>7, <2>1
  <2>4. OneGreeting'
    BY <1>5, <2>3 DEF OneGreeting
  <2>5. Greeting'
    BY <1>0, <1>5, <1>8, <2>1, <2>2, <2>3 DEF Greeting
  <2>6. Conversation'
    BY <1>0, <1>3, <1>8, <2>2, <2>4, <2>5 DEF Conversation
  <2>7. Chain(toTransport, Now(peer), Now(peer))
    BY <2>1, NothingMoreIsSaid DEF NothingSaid
  <2>8. PICK u : u = AfterMessage(Now(peer), c.message)
    OBVIOUS
  <2>9. u \in States
    BY <1>5, <2>8, NowIsAState, AfterIsAState
  <2>10. InTurn(Now(peer), c.message)
    BY <1>5, <2>2 DEF InTurn, Now
  <2>11. Chain(toTransport', Now(peer), u)
    BY <1>1, <1>5, <1>7, <2>7, <2>8, <2>9, <2>10, NowIsAState, ChainMore DEF Goes
  <2>12. Chain(toTransport, Now(peer), u)'
    BY <1>0, <2>11 DEF Chain, Now
  <2> QED BY <1>0, <1>3, <2>6, <2>9, <2>12 DEF InAgreement
<1>12. Live' => Live
  BY <1>0 DEF Live
<1> QED BY <1>8, <1>9, <1>10, <1>11, <1>12 DEF ServerInv

(* An answer that is heard: the client runs.                                *)
LEMMA AnswerHeard ==
    ASSUME ServerInv, there, toClient # <<>>, Head(toClient).signal = "message"
    PROVE  /\ Head(toClient) \in Signals /\ Head(toClient).id \in Ids /\ Head(toClient).ok \in BOOLEAN
           /\ 1 \in 1..Len(toClient) /\ toClient[1] = Head(toClient) /\ ~NoAnswers
           /\ running
           /\ Tail(toClient) \in Seq(Signals)
<1>1. /\ Head(toClient) \in Signals /\ 1 \in 1..Len(toClient) /\ toClient[1] = Head(toClient)
      /\ Tail(toClient) \in Seq(Signals)
  BY OutOfTheQueue DEF ServerInv, ClientTypes
<1>2. Head(toClient).id \in Ids /\ Head(toClient).ok \in BOOLEAN
  BY <1>1 DEF Signals
<1>3. ~NoAnswers
  BY <1>1 DEF NoAnswers
<1>4. running
  <2>1. CASE process = "none"
    <3>1. HearsOfTheEnd
      BY <2>1, RunningIsPlain
    <3>2. running \/ (Len(toClient) = 1 /\ toClient[1].signal = "startFailed") \/ toClient[1].signal = "started"
      BY <3>1 DEF HearsOfTheEnd
    <3> QED BY <1>1, <3>2
  <2>2. CASE process # "none"
    <3>1. Live
      BY <2>2, RunningIsPlain
    <3> QED BY <1>3, <3>1 DEF ServerInv, Conversation
  <2> QED BY <2>1, <2>2
<1> QED BY <1>1, <1>2, <1>3, <1>4

LEMMA OnAnswerStep == ASSUME ServerInv, OnAnswer PROVE ServerInv'
<1>0. /\ there /\ toClient # <<>> /\ Head(toClient).signal = "message" /\ toClient' = Tail(toClient)
      /\ Head(toClient).id # initializing /\ asked' = asked \ {Head(toClient).id}
      /\ UNCHANGED <<there, dismissed, running, ready, stopping, greeting, ending, lastId, initializing,
                     shuttingDown, copy, toTransport, process, peer>>
  BY DEF OnAnswer, Hearing, far, life, timers
<1>1. /\ running /\ ~NoAnswers /\ 1 \in 1..Len(toClient) /\ toClient[1] = Head(toClient)
      /\ toClient' \in Seq(Signals)
  BY <1>0, AnswerHeard
<1>2. Plain(toTransport)
  BY <1>0, RunningIsPlain
<1>3. /\ SignalsInOrder' /\ StartsFromNothing' /\ EndIsOfTheDead' /\ NoProcess' /\ Starts' /\ ~CallsStart'
  BY <1>0, <1>1, <1>2, HeardStep DEF Plain
<1>4. ClientTypes'
  BY <1>0, <1>1 DEF ServerInv, ClientTypes
<1>5. ClientKnows'
  BY <1>0 DEF ServerInv, ClientKnows
<1>6. ASSUME Live PROVE Conversation' /\ InAgreement'
  <2>1. Conversation
    BY <1>6 DEF ServerInv
  <2>2. initializing = NoId
    <3>1. ~Greeting
      BY <1>0, <1>1 DEF Greeting
    <3> QED BY <1>0, <2>1, <3>1 DEF Conversation
  <2>3. OneGreeting' = OneGreeting /\ NothingSaid' = NothingSaid
    BY <1>0 DEF OneGreeting, NothingSaid
  <2>4. Conversation'
    BY <1>0, <1>1, <1>3, <2>1, <2>2, <2>3 DEF Conversation
  <2>5. PICK t \in States : Chain(toTransport, Now(peer), t) /\ (there /\ ready => Believes(t))
    BY <1>6 DEF ServerInv, InAgreement
  <2>6. Chain(toTransport, Now(peer), t)'
    BY <1>0, <2>5 DEF Chain, Now
  <2>7. Believes(t) => Believes(t)'
    BY <1>0 DEF Believes
  <2> QED BY <1>0, <2>4, <2>5, <2>6, <2>7 DEF InAgreement
<1>7. Live' => Live
  BY <1>0 DEF Live
<1> QED BY <1>3, <1>4, <1>5, <1>6, <1>7 DEF ServerInv

LEMMA OnProtocolFailedStep == ASSUME ServerInv, OnProtocolFailed PROVE ServerInv'
<1>0. /\ there /\ toClient # <<>> /\ Head(toClient).signal = "protocolFailed" /\ toClient' = Tail(toClient)
      /\ stopping' = TRUE
      /\ UNCHANGED <<there, dismissed, running, ready, greeting, ending, lastId, initializing,
                     shuttingDown, asked, copy, toTransport, process, peer>>
  BY DEF OnProtocolFailed, Hearing, far, ids, timers
<1>1. /\ toClient' \in Seq(Signals) /\ toClient[1] = Head(toClient) /\ Len(toClient') = Len(toClient) - 1
      /\ Len(toClient) \in Nat /\ \A i \in 1..(Len(toClient) - 1) : toClient'[i] = toClient[i + 1]
  BY <1>0, OutOfTheQueue DEF ServerInv, ClientTypes
<1>2. Plain(toTransport)
  BY <1>0, RunningIsPlain
<1>3. /\ SignalsInOrder' /\ StartsFromNothing' /\ EndIsOfTheDead' /\ NoProcess' /\ Starts' /\ ~CallsStart'
      /\ NoAnswers => NoAnswers'
  BY <1>0, <1>2, HeardStep DEF Plain
<1>4. ClientTypes'
  BY <1>0, <1>1 DEF ServerInv, ClientTypes
<1>5. ClientKnows'
  BY <1>0 DEF ServerInv, ClientKnows
<1>6. ASSUME Live PROVE Conversation' /\ InAgreement'
  <2>1. Conversation
    BY <1>6 DEF ServerInv
  <2>2. running
    BY <1>0, <1>1, <2>1 DEF Conversation
  <2>3. OneGreeting' = OneGreeting /\ NothingSaid' = NothingSaid
    BY <1>0 DEF OneGreeting, NothingSaid
  <2>4. Greeting => Greeting'
    BY <1>0, <1>1, <1>3, <2>3 DEF Greeting
  <2>5. Conversation'
    BY <1>0, <1>3, <2>1, <2>2, <2>3, <2>4 DEF Conversation
  <2>6. PICK t \in States : Chain(toTransport, Now(peer), t) /\ (there /\ ready => Believes(t))
    BY <1>6 DEF ServerInv, InAgreement
  <2>7. Chain(toTransport, Now(peer), t)'
    BY <1>0, <2>6 DEF Chain, Now
  <2>8. Believes(t) => Believes(t)'
    BY <1>0 DEF Believes
  <2> QED BY <1>0, <2>5, <2>6, <2>7, <2>8 DEF InAgreement
<1>7. Live' => Live
  BY <1>0 DEF Live
<1> QED BY <1>3, <1>4, <1>5, <1>6, <1>7 DEF ServerInv

LEMMA OnStartFailedStep == ASSUME ServerInv, OnStartFailed PROVE ServerInv'
<1>0. /\ there /\ toClient # <<>> /\ Head(toClient).signal = "startFailed" /\ toClient' = Tail(toClient)
      /\ UNCHANGED <<client, toTransport, process, peer>>
  BY DEF OnStartFailed, Hearing, far
<1>1. Head(toClient) = toClient[1] /\ 1 \in 1..Len(toClient) /\ toClient \in Seq(Signals)
  BY <1>0, OutOfTheQueue DEF ServerInv, ClientTypes
<1>2. Len(toClient) = 1 /\ process = "none" /\ ~running
  BY <1>0, <1>1 DEF ServerInv, SignalsInOrder
<1>3. toClient' = <<>>
  BY <1>0, <1>1, <1>2
<1>4. Plain(toTransport) /\ ~CallsStart
  BY <1>0, RunningIsPlain
<1>5. ClientTypes'
  <2>1. toClient' \in Seq(Signals)
    BY <1>3
  <2> QED BY <1>0, <2>1 DEF ServerInv, ClientTypes, client, life, timers, ids
<1>6. ClientKnows' /\ SignalsInOrder'
  BY <1>0, <1>3 DEF ServerInv, ClientKnows, SignalsInOrder, client, life, timers, ids
<1>7. StartsFromNothing' /\ EndIsOfTheDead' /\ NoProcess' /\ Starts'
  <2>1. HearsOfTheEnd'
    BY <1>0, <1>2, <1>3 DEF HearsOfTheEnd, client, life
  <2> QED BY <1>0, <1>2, <1>4, <2>1, QueueGrows DEF client, life, Plain
<1> QED BY <1>0, <1>2, <1>5, <1>6, <1>7 DEF ServerInv, Live

LEMMA OnExitedStep == ASSUME ServerInv, OnExited PROVE ServerInv'
<1>0. /\ there /\ toClient # <<>> /\ Head(toClient).signal = "exited" /\ toClient' = Tail(toClient)
      /\ running' = FALSE /\ ready' = FALSE /\ greeting' = FALSE /\ ending' = FALSE
      /\ asked' = {} /\ initializing' = NoId /\ shuttingDown' = NoId /\ copy' = [copy EXCEPT !.opened = FALSE]
      /\ toTransport' = toTransport \/ toTransport' = Append(toTransport, TransportCall("start"))
      /\ UNCHANGED <<there, dismissed, stopping, lastId, process, peer>>
  BY DEF OnExited, Hearing, Forgotten, far
<1>1. Head(toClient) = toClient[1] /\ 1 \in 1..Len(toClient) /\ toClient \in Seq(Signals)
      /\ toTransport \in Seq(Calls) /\ copy \in Copies
  BY <1>0, OutOfTheQueue DEF ServerInv, ClientTypes
<1>2. Len(toClient) = 1 /\ process = "none"
  BY <1>0, <1>1 DEF ServerInv, SignalsInOrder
<1>3. toClient' = <<>>
  BY <1>0, <1>1, <1>2
<1>4. Plain(toTransport) /\ ~CallsStart /\ peer = FreshServer
  BY <1>0, <1>2, RunningIsPlain DEF ServerInv, NoProcess
<1>5. copy' \in Copies /\ copy'.opened = FALSE /\ copy'.version = copy.version /\ (copy = Absent => copy' = Absent)
  <2>1. copy' \in Copies /\ copy'.opened = FALSE /\ copy'.version = copy.version
    BY <1>0, <1>1 DEF Copies
  <2>2. copy = Absent => copy' = Absent
    <3>1. copy' = [text |-> copy.text, version |-> copy.version, opened |-> FALSE]
      BY <1>0, <1>1 DEF Copies
    <3> QED BY <3>1 DEF Absent
  <2> QED BY <2>1, <2>2
<1>6. toTransport' \in Seq(Calls)
  BY <1>0, <1>1, CallIsACall, InTheQueue
<1>7. ClientTypes'
  <2>1. toClient' \in Seq(Signals)
    BY <1>3
  <2>2. asked' \in SUBSET Ids /\ initializing' \in Nat /\ shuttingDown' \in Nat
    BY <1>0 DEF NoId
  <2> QED BY <1>0, <1>5, <1>6, <2>1, <2>2 DEF ServerInv, ClientTypes
<1>8. ClientKnows'
  <2>1. (copy # Absent => copy.version > 0) /\ (dismissed => stopping /\ copy = Absent)
    BY DEF ServerInv, ClientKnows
  <2> QED BY <1>0, <1>5, <2>1 DEF ClientKnows
<1>9. SignalsInOrder'
  BY <1>0, <1>3 DEF SignalsInOrder
<1>10. StartsFromNothing' /\ EndIsOfTheDead'
  <2>1. CASE toTransport' = toTransport
    BY <1>0, <1>4, <2>1 DEF StartsFromNothing, EndIsOfTheDead, Plain
  <2>2. CASE toTransport' = Append(toTransport, TransportCall("start"))
    <3>1. /\ Len(toTransport') = Len(toTransport) + 1 /\ Len(toTransport) \in Nat
          /\ toTransport'[Len(toTransport) + 1].call = "start"
          /\ \A i \in 1..Len(toTransport) : toTransport'[i] = toTransport[i]
      BY <1>1, <2>2, CallIsACall, InTheQueue
    <3>2. ASSUME NEW i \in 1..Len(toTransport')
          PROVE  \/ i = Len(toTransport') /\ toTransport'[i].call = "start"
                 \/ toTransport'[i].call \notin {"start", "shutdown"}
      <4>1. i \in 1..Len(toTransport) \/ i = Len(toTransport) + 1
        BY <3>1
      <4> QED BY <1>4, <3>1, <4>1 DEF Plain
    <3>3. EndIsOfTheDead'
      BY <3>2 DEF EndIsOfTheDead
    <3>4. StartsFromNothing'
      <4>1. ASSUME NEW n \in 1..Len(toTransport'), toTransport'[n].call = "start"
            PROVE  /\ \A i \in 1..Len(toTransport') : i # n => toTransport'[i].call # "start"
                   /\ \A i \in 1..Len(toTransport') : ~(i > n)
        <5>1. n = Len(toTransport')
          BY <3>2, <4>1
        <5> QED BY <3>1, <3>2, <5>1
      <4> QED BY <1>0, <1>2, <1>3, <4>1 DEF StartsFromNothing
    <3> QED BY <3>3, <3>4
  <2> QED BY <1>0, <2>1, <2>2
<1>11. NoProcess' /\ Starts'
  BY <1>0, <1>2, <1>3, <1>4 DEF NoProcess, Starts, HearsOfTheEnd
<1> QED BY <1>0, <1>2, <1>7, <1>8, <1>9, <1>10, <1>11 DEF ServerInv, Live

LEMMA OnShutdownStep == ASSUME ServerInv, OnShutdown PROVE ServerInv'
<1>0. /\ there /\ toClient # <<>> /\ Head(toClient).signal = "message" /\ toClient' = Tail(toClient)
      /\ Head(toClient).id = shuttingDown /\ shuttingDown' = NoId
      /\ UNCHANGED <<there, dismissed, running, ready, stopping, greeting, ending, lastId, initializing,
                     asked, copy, process, peer>>
  BY DEF OnShutdown, Hearing, far, life, timers
<1>1. /\ running /\ toClient' \in Seq(Signals) /\ shuttingDown # NoId
  BY <1>0, AnswerHeard DEF Ids, NoId
<1>2. ready /\ dismissed /\ toTransport \in Seq(Calls)
  BY <1>1 DEF ServerInv, ClientKnows, ClientTypes
<1>3. Plain(toTransport)
  BY <1>0, RunningIsPlain
<1>4. PICK exit : exit = Notify("exit")
  OBVIOUS
<1>5. PICK last : last = TransportCall("requestTermination")
  OBVIOUS
<1>6. /\ exit \in Calls /\ exit.call = "send" /\ exit.message \in Messages /\ exit.message.type = "exit"
      /\ last \in Calls /\ last.call = "requestTermination"
  BY <1>4, <1>5, NotifyIsACall, CallIsACall
<1>7. PICK q : q = IF Head(toClient).ok THEN Append(toTransport, exit) ELSE toTransport
  OBVIOUS
<1>8. q \in Seq(Calls) /\ Plain(q)
  BY <1>2, <1>3, <1>6, <1>7, PlainMore
<1>9. toTransport' = Append(q, last)
  <2>1. toTransport' = toTransport \o (IF Head(toClient).ok THEN <<exit>> ELSE <<>>) \o <<last>>
    BY <1>4, <1>5 DEF OnShutdown
  <2>2. CASE Head(toClient).ok
    <3>1. toTransport \o <<exit>> = Append(toTransport, exit)
      BY <1>2, <1>6
    <3>2. q \o <<last>> = Append(q, last)
      BY <1>6, <1>8
    <3>3. q = toTransport \o <<exit>>
      BY <1>7, <2>2, <3>1
    <3>4. toTransport' = toTransport \o <<exit>> \o <<last>>
      BY <2>1, <2>2
    <3> QED BY <3>2, <3>3, <3>4
  <2>3. CASE ~Head(toClient).ok
    <3>1. toTransport \o <<>> = toTransport
      BY <1>2
    <3>2. q \o <<last>> = Append(q, last)
      BY <1>6, <1>8
    <3>3. q = toTransport
      BY <1>7, <2>3
    <3>4. toTransport' = toTransport \o <<>> \o <<last>>
      BY <2>1, <2>3
    <3> QED BY <3>1, <3>2, <3>3, <3>4
  <2> QED BY <2>2, <2>3
<1>10. toTransport' \in Seq(Calls) /\ Plain(toTransport')
  BY <1>6, <1>8, <1>9, PlainMore
<1>11. SignalsInOrder' /\ StartsFromNothing' /\ EndIsOfTheDead' /\ NoProcess' /\ Starts' /\ ~CallsStart'
  BY <1>0, <1>1, <1>10, HeardStep
<1>12. ClientTypes'
  BY <1>0, <1>1, <1>10 DEF ServerInv, ClientTypes, NoId
<1>13. ClientKnows'
  BY <1>0 DEF ServerInv, ClientKnows
<1>14. ASSUME Live PROVE Conversation' /\ InAgreement'
  <2>1. Conversation'
    BY <1>0, <1>2, <1>11, <1>14, GoesOnTalking
  <2>2. PICK t \in States : Chain(toTransport, Now(peer), t) /\ Believes(t)
    BY <1>0, <1>2, <1>14 DEF ServerInv, InAgreement
  <2>3. t.phase = "shut"
    BY <1>1, <2>2 DEF Believes
  <2>4. PICK u : u = AfterMessage(t, exit.message)
    OBVIOUS
  <2>5. InTurn(t, exit.message)
    BY <1>6, <2>3 DEF InTurn
  <2>6. u \in States /\ u.phase = "shut"
    <3>1. u \in States
      BY <1>6, <2>4, AfterIsAState
    <3>2. u.phase = "shut"
      BY <1>6, <2>3, <2>4, <2>5 DEF AfterMessage, PhaseAfter
    <3> QED BY <3>1, <3>2
  <2>7. Goes(t, exit, u) /\ Goes(u, last, u) /\ Goes(t, last, t)
    BY <1>6, <2>4, <2>5 DEF Goes
  <2>8. PICK v \in {t, u} : v = IF Head(toClient).ok THEN u ELSE t
    OBVIOUS
  <2>9. v \in States /\ v.phase = "shut" /\ Goes(v, last, v)
    BY <2>3, <2>6, <2>7, <2>8
  <2>10. Chain(q, Now(peer), v)
    BY <1>2, <1>6, <1>7, <2>2, <2>6, <2>7, <2>8, NowIsAState, ChainMore
  <2>11. Chain(toTransport', Now(peer), v)
    BY <1>6, <1>8, <1>9, <2>9, <2>10, NowIsAState, ChainMore
  <2>12. Chain(toTransport, Now(peer), v)'
    BY <1>0, <2>11 DEF Chain, Now
  <2>13. Believes(v)'
    BY <1>0, <1>2, <2>9 DEF Believes
  <2> QED BY <2>1, <2>9, <2>12, <2>13 DEF InAgreement
<1>15. Live' => Live
  BY <1>0 DEF Live
<1> QED BY <1>11, <1>12, <1>13, <1>14, <1>15 DEF ServerInv

(* A server that refuses is spoken to no more.                              *)
LEMMA RefusedStep ==
    ASSUME ServerInv, OnInitialized, ~Head(toClient).ok PROVE ServerInv'
<1>0. /\ there /\ toClient # <<>> /\ Head(toClient).signal = "message" /\ toClient' = Tail(toClient)
      /\ Head(toClient).id = initializing /\ initializing' = NoId /\ greeting' = FALSE
      /\ UNCHANGED <<there, dismissed, running, ready, stopping, ending, lastId, shuttingDown,
                     asked, copy, toTransport, process, peer>>
  BY DEF OnInitialized, Hearing, far
<1>1. /\ running /\ ~NoAnswers /\ toClient' \in Seq(Signals) /\ initializing # NoId
      /\ 1 \in 1..Len(toClient) /\ toClient[1] = Head(toClient)
  BY <1>0, AnswerHeard DEF Ids, NoId
<1>2. ~ready /\ Plain(toTransport)
  BY <1>0, <1>1, RunningIsPlain DEF ServerInv, ClientKnows
<1>3. SignalsInOrder' /\ StartsFromNothing' /\ EndIsOfTheDead' /\ NoProcess' /\ Starts' /\ ~CallsStart'
  BY <1>0, <1>1, <1>2, HeardStep DEF Plain
<1>4. ClientTypes'
  BY <1>0, <1>1 DEF ServerInv, ClientTypes, NoId
<1>5. ClientKnows'
  BY <1>0, <1>2 DEF ServerInv, ClientKnows
<1>6. ASSUME Live PROVE Conversation' /\ InAgreement'
  <2>1. Conversation
    BY <1>6 DEF ServerInv
  <2>2. OneGreeting' = OneGreeting /\ NothingSaid' = NothingSaid
    BY <1>0 DEF OneGreeting, NothingSaid
  <2>3. Conversation'
    BY <1>0, <1>1, <1>2, <1>3, <2>1, <2>2 DEF Conversation
  <2>4. PICK t \in States : Chain(toTransport, Now(peer), t)
    BY <1>6 DEF ServerInv, InAgreement
  <2>5. Chain(toTransport, Now(peer), t)'
    BY <1>0, <2>4 DEF Chain, Now
  <2> QED BY <1>0, <1>2, <2>3, <2>5 DEF InAgreement
<1>7. Live' => Live
  BY <1>0 DEF Live
<1> QED BY <1>3, <1>4, <1>5, <1>6, <1>7 DEF ServerInv

(* A server that accepts is told of the document the client has.            *)
LEMMA AcceptedStep ==
    ASSUME OpenClose = TRUE, ServerInv, OnInitialized, Head(toClient).ok PROVE ServerInv'
<1>0. /\ there /\ toClient # <<>> /\ Head(toClient).signal = "message" /\ toClient' = Tail(toClient)
      /\ Head(toClient).id = initializing /\ initializing' = NoId /\ greeting' = FALSE /\ ready' = TRUE
      /\ UNCHANGED <<there, dismissed, running, stopping, ending, lastId, shuttingDown, asked, process, peer>>
  BY DEF OnInitialized, Hearing, far
<1>1. /\ running /\ ~NoAnswers /\ toClient' \in Seq(Signals) /\ initializing # NoId
      /\ 1 \in 1..Len(toClient) /\ toClient[1] = Head(toClient)
  BY <1>0, AnswerHeard DEF Ids, NoId
<1>2. /\ ~ready /\ ~copy.opened /\ shuttingDown = NoId /\ (copy # Absent => copy.version > 0)
      /\ (dismissed => copy = Absent) /\ copy \in Copies /\ toTransport \in Seq(Calls)
  BY <1>1 DEF ServerInv, ClientKnows, ClientTypes
<1>3. PICK hello : hello = Notify("initialized")
  OBVIOUS
<1>4. /\ hello \in Calls /\ hello.call = "send" /\ hello.message \in Messages
      /\ hello.message.type = "initialized"
  BY <1>3, NotifyIsACall
<1>5. PICK q : q = Append(toTransport, hello)
  OBVIOUS
<1>6. Plain(toTransport) /\ q \in Seq(Calls) /\ Plain(q)
  BY <1>0, <1>2, <1>4, <1>5, RunningIsPlain, PlainMore
<1>7. PICK m : m = [type |-> "didOpen", version |-> copy.version, text |-> copy.text]
  OBVIOUS
<1>8. m \in Messages /\ m.type = "didOpen" /\ m.version = copy.version /\ m.text = copy.text
  BY <1>2, <1>7 DEF Messages, Copies
<1>9. \/ copy = Absent /\ copy' = copy /\ toTransport' = q
      \/ /\ copy # Absent /\ copy' = [copy EXCEPT !.opened = TRUE]
         /\ toTransport' = Append(q, Send(m))
  <2>1. CASE copy = Absent
    <3>1. copy' = copy /\ toTransport' = Append(toTransport, hello) \o Sends(<<>>)
      BY <1>3, <2>1 DEF OnInitialized, Quiet
    <3> QED BY <1>5, <1>6, <1>8, <2>1, <3>1, OneIsSent
  <2>2. CASE copy # Absent
    <3>1. copy' = [copy EXCEPT !.opened = TRUE] /\ toTransport' = Append(toTransport, hello) \o Sends(<<m>>)
      BY <1>3, <1>7, <2>2 DEF OnInitialized, SendOpen
    <3> QED BY <1>5, <1>6, <1>8, <2>2, <3>1, OneIsSent
  <2> QED BY <2>1, <2>2
<1>10. Send(m) \in Calls /\ Send(m).call = "send" /\ Send(m).message = m
  BY <1>2, <1>8, OneIsSent
<1>11. toTransport' \in Seq(Calls) /\ Plain(toTransport')
  BY <1>6, <1>9, <1>10, PlainMore
<1>12. /\ copy' \in Copies /\ copy'.version = copy.version /\ (copy # Absent => copy'.opened = TRUE)
       /\ (copy = Absent => copy' = Absent)
  BY <1>2, <1>9 DEF Copies
<1>13. SignalsInOrder' /\ StartsFromNothing' /\ EndIsOfTheDead' /\ NoProcess' /\ Starts' /\ ~CallsStart'
  BY <1>0, <1>1, <1>11, HeardStep
<1>14. ClientTypes'
  BY <1>0, <1>1, <1>11, <1>12 DEF ServerInv, ClientTypes, NoId
<1>15. ClientKnows'
  BY <1>0, <1>1, <1>2, <1>12 DEF ServerInv, ClientKnows
<1>16. ASSUME Live PROVE Conversation' /\ InAgreement'
  <2>1. Conversation
    BY <1>16 DEF ServerInv
  <2>2. peer.phase = "answered" /\ NothingSaid
    <3>1. Greeting
      BY <1>0, <1>1, <2>1 DEF Conversation
    <3>2. /\ peer.phase \in {"answered", "refused"} /\ NothingSaid
          /\ Head(toClient).ok = (peer.phase = "answered")
      BY <1>0, <1>1, <3>1 DEF Greeting
    <3>3. peer.phase = "answered"
      BY <3>2
    <3> QED BY <3>2, <3>3
  <2>3. peer.held = Absent
    BY <2>1, <2>2 DEF Conversation
  <2>4. Conversation'
    BY <1>0, <1>1, <1>13, <2>1, <2>2 DEF Conversation
  <2>5. Chain(toTransport, Now(peer), Now(peer)) /\ Now(peer) \in States
    BY <2>2, NothingMoreIsSaid, NowIsAState
  <2>6. PICK t : t = AfterMessage(Now(peer), hello.message)
    OBVIOUS
  <2>7. InTurn(Now(peer), hello.message)
    BY <1>4, <2>2 DEF InTurn, Now
  <2>8. t \in States
    BY <1>4, <2>5, <2>6, AfterIsAState
  <2>9. t.phase = "initialized" /\ t.held = Absent
    BY <1>4, <2>3, <2>6, <2>7 DEF AfterMessage, PhaseAfter, HeldAfter, Now
  <2>10. Chain(q, Now(peer), t)
    BY <1>2, <1>4, <1>5, <2>5, <2>6, <2>7, <2>8, ChainMore DEF Goes
  <2>11. CASE copy = Absent
    <3>1. Chain(toTransport, Now(peer), t)'
      BY <1>0, <1>9, <2>10, <2>11 DEF Chain, Now
    <3>2. Believes(t)'
      <4>1. t.held.opened = FALSE /\ copy'.opened = FALSE
        BY <1>12, <2>9, <2>11, NoneIsACopy
      <4> QED BY <1>0, <1>2, <2>9, <4>1 DEF Believes
    <3> QED BY <2>4, <2>8, <3>1, <3>2 DEF InAgreement
  <2>12. CASE copy # Absent
    <3>1. PICK u : u = AfterMessage(t, m)
      OBVIOUS
    <3>2. InTurn(t, m)
      BY <1>8, <2>9 DEF InTurn
    <3>3. u \in States
      BY <1>8, <2>8, <3>1, AfterIsAState
    <3>4. u.phase = "initialized"
      BY <1>8, <2>9, <3>1, <3>2 DEF AfterMessage, PhaseAfter
    <3>5. u.held = [text |-> m.text, version |-> m.version, opened |-> TRUE]
      BY <1>8, <3>1 DEF AfterMessage, HeldAfter, Received
    <3>6. u.held.opened = TRUE /\ u.held.version = copy'.version /\ copy'.opened = TRUE /\ copy'.version \in Nat
      BY <1>8, <1>12, <2>12, <3>5 DEF Copies
    <3>7. Goes(t, Send(m), u)
      BY <1>10, <3>1, <3>2 DEF Goes
    <3>8. Chain(toTransport', Now(peer), u)
      <4>1. Chain(Append(q, Send(m)), Now(peer), u)
        BY <1>6, <1>10, <2>5, <2>8, <2>10, <3>3, <3>7, ChainMore
      <4>2. toTransport' = Append(q, Send(m))
        BY <1>9, <2>12
      <4> QED BY <4>1, <4>2, Zenon
    <3>9. Chain(toTransport, Now(peer), u)'
      BY <1>0, <3>8 DEF Chain, Now
    <3>10. Believes(u)'
      <4>1. u.held.version <= copy'.version
        BY <3>6
      <4> QED BY <1>0, <1>2, <3>4, <3>6, <4>1 DEF Believes
    <3> QED BY <2>4, <3>3, <3>9, <3>10 DEF InAgreement
  <2> QED BY <2>11, <2>12
<1>17. Live' => Live
  BY <1>0 DEF Live
<1> QED BY <1>13, <1>14, <1>15, <1>16, <1>17 DEF ServerInv

(* The transport takes a call from the queue.                               *)
LEMMA Taken ==
    ASSUME ServerInv, toTransport # <<>>, toTransport' = Tail(toTransport)
    PROVE  /\ toTransport' \in Seq(Calls) /\ Head(toTransport) \in Calls
           /\ 1 \in 1..Len(toTransport) /\ Head(toTransport) = toTransport[1]
           /\ Len(toTransport') = Len(toTransport) - 1 /\ Len(toTransport) \in Nat \ {0}
           /\ \A i \in 1..Len(toTransport') :
                 i + 1 \in 1..Len(toTransport) /\ i + 1 # 1 /\ toTransport'[i] = toTransport[i + 1]
           /\ CallsStart' => CallsStart
           /\ NothingSaid => NothingSaid'
           /\ NothingButTheEnd => NothingButTheEnd'
           /\ OneGreeting => OneGreeting'
<1>1. /\ toTransport' \in Seq(Calls) /\ Head(toTransport) \in Calls /\ Head(toTransport) = toTransport[1]
      /\ Len(toTransport') = Len(toTransport) - 1 /\ Len(toTransport) \in Nat \ {0}
      /\ \A i \in 1..(Len(toTransport) - 1) : toTransport'[i] = toTransport[i + 1]
  BY OutOfTheQueue DEF ServerInv, ClientTypes
<1>2. ASSUME NEW i \in 1..Len(toTransport')
      PROVE  i + 1 \in 1..Len(toTransport) /\ i + 1 # 1 /\ toTransport'[i] = toTransport[i + 1]
  BY <1>1
<1>3. CallsStart' => CallsStart
  BY <1>2 DEF CallsStart
<1>4. (NothingSaid => NothingSaid') /\ (NothingButTheEnd => NothingButTheEnd')
  BY <1>2 DEF NothingSaid, NothingButTheEnd
<1>5. OneGreeting => OneGreeting'
  <2>1. SUFFICES ASSUME OneGreeting, NEW i \in 1..Len(toTransport'), NEW j \in 1..Len(toTransport'),
                        toTransport'[i].call = "send", toTransport'[j].call = "send"
                 PROVE  i = j /\ toTransport'[i].message.type = "initialize"
    BY DEF OneGreeting
  <2>2. i + 1 = j + 1 /\ toTransport'[i].message.type = "initialize"
    BY <1>2, <2>1 DEF OneGreeting
  <2> QED BY <1>1, <2>2
<1> QED BY <1>1, <1>2, <1>3, <1>4, <1>5

(* A call that is taken and starts nothing.                                 *)
LEMMA TakenStep ==
    ASSUME ServerInv, toTransport # <<>>, toTransport' = Tail(toTransport), Head(toTransport).call # "start",
           UNCHANGED <<there, running, toClient>>, process' = process \/ process' = "none" \/ (Live /\ Live')
    PROVE  SignalsInOrder' /\ StartsFromNothing' /\ EndIsOfTheDead' /\ (CallsStart => CallsStart')
<1>1. /\ 1 \in 1..Len(toTransport) /\ Head(toTransport) = toTransport[1]
      /\ Len(toTransport') = Len(toTransport) - 1 /\ Len(toTransport) \in Nat \ {0}
      /\ \A i \in 1..Len(toTransport') :
            i + 1 \in 1..Len(toTransport) /\ i + 1 # 1 /\ toTransport'[i] = toTransport[i + 1]
  BY Taken
<1>2. process = "none" => process' = "none"
  BY DEF Live
<1>3. SignalsInOrder'
  BY <1>2 DEF ServerInv, SignalsInOrder
<1>4. EndIsOfTheDead'
  BY <1>1 DEF ServerInv, EndIsOfTheDead
<1>5. StartsFromNothing'
  <2>1. ASSUME NEW n \in 1..Len(toTransport'), toTransport'[n].call = "start"
        PROVE  /\ process' = "none"
               /\ \A i \in 1..Len(toTransport') : i # n => toTransport'[i].call # "start"
               /\ \A i \in 1..Len(toTransport') : i > n => toTransport'[i].call = "shutdown"
               /\ there => ~running /\ toClient = <<>>
    <3>1. n + 1 \in 1..Len(toTransport) /\ toTransport[n + 1].call = "start"
      BY <1>1, <2>1
    <3>2. /\ process = "none"
          /\ \A i \in 1..Len(toTransport) : i # n + 1 => toTransport[i].call # "start"
          /\ \A i \in 1..Len(toTransport) : i > n + 1 => toTransport[i].call = "shutdown"
          /\ there => ~running /\ toClient = <<>>
      BY <3>1 DEF ServerInv, StartsFromNothing
    <3>3. ASSUME NEW i \in 1..Len(toTransport'), i # n PROVE toTransport'[i].call # "start"
      <4>1. i + 1 # n + 1 /\ i + 1 \in 1..Len(toTransport) /\ toTransport'[i] = toTransport[i + 1]
        BY <1>1, <3>3
      <4> QED BY <3>2, <4>1
    <3>4. ASSUME NEW i \in 1..Len(toTransport'), i > n PROVE toTransport'[i].call = "shutdown"
      <4>1. i + 1 > n + 1 /\ i + 1 \in 1..Len(toTransport) /\ toTransport'[i] = toTransport[i + 1]
        BY <1>1, <3>4
      <4> QED BY <3>2, <4>1
    <3> QED BY <1>2, <3>2, <3>3, <3>4
  <2> QED BY <2>1 DEF StartsFromNothing
<1>6. CallsStart => CallsStart'
  <2>1. SUFFICES ASSUME NEW n \in 1..Len(toTransport), toTransport[n].call = "start" PROVE CallsStart'
    BY DEF CallsStart
  <2>2. n # 1
    BY <1>1, <2>1
  <2>3. n - 1 \in 1..Len(toTransport') /\ toTransport'[n - 1] = toTransport[n - 1 + 1] /\ n - 1 + 1 = n
    BY <1>1, <2>2
  <2> QED BY <2>1, <2>3 DEF CallsStart
<1> QED BY <1>3, <1>4, <1>5, <1>6

LEMMA ClientElsewhere ==
    ASSUME ServerInv, UNCHANGED client, toTransport' \in Seq(Calls), toClient' \in Seq(Signals),
           process' \in {"none", "starting", "running", "killed", "aborted"}, peer' \in Peers
    PROVE  /\ ClientTypes' /\ ClientKnows'
           /\ UNCHANGED <<there, dismissed, running, ready, stopping, initializing, shuttingDown, copy>>
           /\ \A t \in States : Believes(t)' = Believes(t)
<1>1. UNCHANGED <<there, dismissed, running, ready, stopping, greeting, ending, lastId, initializing, shuttingDown,
                  asked, copy>>
  BY DEF client, life, timers, ids
<1>2. ClientTypes'
  BY <1>1 DEF ServerInv, ClientTypes
<1>3. ClientKnows'
  BY <1>1 DEF ServerInv, ClientKnows
<1>4. ASSUME NEW t \in States PROVE Believes(t)' = Believes(t)
  BY <1>1 DEF Believes
<1> QED BY <1>1, <1>2, <1>3, <1>4

LEMMA FreshIsAPeer == FreshServer \in Peers /\ FreshServer.phase = "fresh" /\ FreshServer.held = Absent /\ FreshServer.asks = {}
BY NoneIsACopy DEF FreshServer, Peers, PeerPhases

LEMMA TakesStart ==
    ASSUME ServerInv, DoCall, Head(toTransport).call = "start" PROVE ServerInv'
<1>0. /\ toTransport # <<>> /\ toTransport' = Tail(toTransport) /\ UNCHANGED <<client, toClient>>
      /\ process' = (IF process = "none" THEN "starting" ELSE process) /\ peer' = peer
  BY DEF DoCall
<1>1. /\ toTransport' \in Seq(Calls) /\ 1 \in 1..Len(toTransport) /\ Head(toTransport) = toTransport[1]
      /\ Len(toTransport) \in Nat
      /\ \A i \in 1..Len(toTransport') :
            i + 1 \in 1..Len(toTransport) /\ i + 1 # 1 /\ toTransport'[i] = toTransport[i + 1]
  BY <1>0, Taken
<1>2. /\ process = "none" /\ \A i \in 1..Len(toTransport) : i > 1 => toTransport[i].call = "shutdown"
      /\ there => ~running /\ toClient = <<>>
  BY <1>1 DEF ServerInv, StartsFromNothing
<1>3. process' = "starting" /\ peer' = FreshServer
  BY <1>0, <1>2 DEF ServerInv, NoProcess
<1>4. NothingButTheEnd'
  <2>1. ASSUME NEW i \in 1..Len(toTransport') PROVE toTransport'[i].call = "shutdown"
    <3>1. i + 1 \in 1..Len(toTransport) /\ i + 1 > 1 /\ toTransport'[i] = toTransport[i + 1]
      BY <1>1
    <3> QED BY <1>2, <3>1
  <2> QED BY <2>1 DEF NothingButTheEnd
<1>5. ClientTypes' /\ ClientKnows' /\ there' = there /\ running' = running
  <2>1. toClient' \in Seq(Signals) /\ peer' \in Peers
    BY <1>0 DEF ServerInv, ClientTypes
  <2> QED BY <1>0, <1>1, <1>3, <2>1, ClientElsewhere
<1>6. SignalsInOrder'
  <2>1. toClient = <<>> \/ ~there
    <3>1. there \in BOOLEAN
      BY DEF ServerInv, ClientTypes
    <3> QED BY <1>2, <3>1
  <2>2. toClient' = <<>>
    BY <1>0, <2>1 DEF ServerInv, SignalsInOrder
  <2> QED BY <2>2 DEF SignalsInOrder
<1>7. StartsFromNothing' /\ EndIsOfTheDead'
  <2>1. StartsFromNothing'
    BY <1>4 DEF StartsFromNothing, NothingButTheEnd
  <2>2. EndIsOfTheDead'
    BY <1>1, <1>5 DEF ServerInv, EndIsOfTheDead
  <2> QED BY <2>1, <2>2
<1>8. NoProcess' /\ Starts'
  BY <1>0, <1>2, <1>3, <1>4, <1>5 DEF NoProcess, Starts
<1> QED BY <1>3, <1>5, <1>6, <1>7, <1>8 DEF ServerInv, Live

(* A call that asks nothing of the server, or finds none.                   *)
LEMMA TakesQuietly ==
    ASSUME ServerInv, DoCall, peer' = peer,
           \/ Head(toTransport).call \in {"kill", "requestTermination"}
           \/ Head(toTransport).call = "send" /\ process = "none" /\ process' = process
    PROVE  ServerInv'
<1>0. /\ toTransport # <<>> /\ toTransport' = Tail(toTransport) /\ UNCHANGED <<client, toClient>>
      /\ process' = process \/ (process = "running" /\ process' = "killed")
  BY DEF DoCall
<1>1. /\ toTransport' \in Seq(Calls) /\ Head(toTransport) \in Calls
      /\ CallsStart' => CallsStart
      /\ (NothingSaid => NothingSaid') /\ (NothingButTheEnd => NothingButTheEnd') /\ (OneGreeting => OneGreeting')
      /\ Head(toTransport) = toTransport[1] /\ 1 \in 1..Len(toTransport)
      /\ \A i \in 1..Len(toTransport') : i + 1 \in 1..Len(toTransport) /\ toTransport'[i] = toTransport[i + 1]
  BY <1>0, Taken
<1>2. toClient' \in Seq(Signals) /\ peer' \in Peers /\ toClient' = toClient
      /\ process' \in {"none", "starting", "running", "killed", "aborted"}
  BY <1>0 DEF ServerInv, ClientTypes
<1>3. /\ ClientTypes' /\ ClientKnows'
      /\ UNCHANGED <<there, dismissed, running, ready, stopping, initializing, shuttingDown, copy>>
      /\ \A t \in States : Believes(t)' = Believes(t)
  BY <1>0, <1>1, <1>2, ClientElsewhere
<1>4. /\ (Live' <=> Live) /\ (process' = "none" <=> process = "none")
      /\ (process' = "starting" <=> process = "starting")
  BY <1>0 DEF Live
<1>5. SignalsInOrder' /\ StartsFromNothing' /\ EndIsOfTheDead' /\ (CallsStart => CallsStart')
  <2>1. Head(toTransport).call # "start"
    OBVIOUS
  <2>2. process' = process \/ process' = "none" \/ (Live /\ Live')
    BY <1>0 DEF Live
  <2>3. UNCHANGED <<there, running, toClient>>
    BY <1>2, <1>3
  <2> QED BY <1>0, <2>1, <2>2, <2>3, TakenStep
<1>6. NoProcess'
  <2>1. HearsOfTheEnd' = HearsOfTheEnd
    BY <1>2, <1>3 DEF HearsOfTheEnd
  <2> QED BY <1>3, <1>4, <1>5, <2>1 DEF ServerInv, NoProcess
<1>7. Starts'
  BY <1>1, <1>2, <1>3, <1>4 DEF ServerInv, Starts
<1>8. ASSUME Live PROVE Conversation' /\ InAgreement'
  <2>1. Conversation
    BY <1>8 DEF ServerInv
  <2>2. NoAnswers' = NoAnswers
    BY <1>2 DEF NoAnswers
  <2>3. Greeting => Greeting'
    BY <1>1, <1>2, <1>3, <2>2 DEF Greeting
  <2>4. there => running
    BY <1>0, <2>1, <1>8 DEF Conversation, ServerInv, ClientTypes
  <2>5. Conversation'
    BY <1>1, <1>2, <1>3, <2>1, <2>2, <2>3, <2>4 DEF Conversation
  <2>6. PICK t \in States : Chain(toTransport, Now(peer), t) /\ (there /\ ready => Believes(t))
    BY <1>8 DEF ServerInv, InAgreement
  <2>7. Head(toTransport).call # "send"
    BY <1>8 DEF Live
  <2>8. Chain(toTransport', Now(peer), t)
    <3>1. toTransport \in Seq(Calls) /\ Now(peer) \in States
      BY NowIsAState DEF ServerInv, ClientTypes
    <3>2. PICK u \in States : Goes(Now(peer), Head(toTransport), u) /\ Chain(Tail(toTransport), u, t)
      BY <1>0, <2>6, <3>1, ChainNext
    <3>3. u = Now(peer)
      BY <2>7, <3>2 DEF Goes
    <3> QED BY <1>0, <3>2, <3>3
  <2>9. Chain(toTransport, Now(peer), t)'
    BY <1>2, <2>8 DEF Chain, Now
  <2>10. there' /\ ready' => Believes(t)'
    BY <1>3, <2>6
  <2> QED BY <2>5, <2>9, <2>10 DEF InAgreement
<1> QED BY <1>3, <1>4, <1>5, <1>6, <1>7, <1>8 DEF ServerInv

LEMMA TakesShutdown ==
    ASSUME ServerInv, DoCall, Head(toTransport).call = "shutdown" PROVE ServerInv'
<1>0. /\ toTransport # <<>> /\ toTransport' = Tail(toTransport) /\ UNCHANGED <<client, toClient>>
      /\ process' = "none" /\ peer' = FreshServer
  BY DEF DoCall
<1>1. toTransport' \in Seq(Calls) /\ 1 \in 1..Len(toTransport) /\ Head(toTransport) = toTransport[1]
  BY <1>0, Taken
<1>2. ~there
  BY <1>1 DEF ServerInv, EndIsOfTheDead
<1>3. /\ ClientTypes' /\ ClientKnows' /\ UNCHANGED <<there, running>>
  <2>1. toClient' \in Seq(Signals)
    BY <1>0 DEF ServerInv, ClientTypes
  <2> QED BY <1>0, <1>1, <2>1, ClientElsewhere, FreshIsAPeer
<1>4. SignalsInOrder' /\ StartsFromNothing' /\ EndIsOfTheDead'
  BY <1>0, <1>3, TakenStep
<1> QED BY <1>0, <1>2, <1>3, <1>4 DEF ServerInv, NoProcess, Starts, Live

LEMMA TakesSend ==
    ASSUME ServerInv, DoCall, Head(toTransport).call = "send", process # "none", Hears(Head(toTransport).message),
           process' = process
    PROVE  ServerInv'
<1>0. /\ toTransport # <<>> /\ toTransport' = Tail(toTransport) /\ UNCHANGED <<client, toClient>>
  BY DEF DoCall
<1>1. /\ toTransport' \in Seq(Calls) /\ Head(toTransport) \in Calls
      /\ CallsStart' => CallsStart
      /\ Head(toTransport) = toTransport[1] /\ 1 \in 1..Len(toTransport)
      /\ \A i \in 1..Len(toTransport') :
            i + 1 \in 1..Len(toTransport) /\ i + 1 # 1 /\ toTransport'[i] = toTransport[i + 1]
  BY <1>0, Taken
<1>2. process # "starting"
  BY <1>1 DEF ServerInv, Starts, NothingButTheEnd
<1>3. Live /\ Conversation
  BY <1>2 DEF ServerInv, ClientTypes, Live
<1>4. PICK m : m = Head(toTransport).message
  OBVIOUS
<1>5. m \in Messages
  BY <1>1, <1>4 DEF Calls
<1>6. PICK t \in States : Chain(toTransport, Now(peer), t) /\ (there /\ ready => Believes(t))
  BY <1>3 DEF ServerInv, InAgreement
<1>7. toTransport \in Seq(Calls) /\ Now(peer) \in States /\ peer \in Peers
  BY NowIsAState DEF ServerInv, ClientTypes
<1>8. PICK u \in States : Goes(Now(peer), Head(toTransport), u) /\ Chain(toTransport', u, t)
  BY <1>0, <1>6, <1>7, ChainNext
<1>9. InTurn(Now(peer), m) /\ u = AfterMessage(Now(peer), m)
  BY <1>4, <1>8 DEF Goes
<1>10. /\ InTurn(peer, m) /\ u.phase = PhaseAfter(peer, m) /\ u.held = HeldAfter(peer, m)
  <2>1. Now(peer).phase = peer.phase /\ Now(peer).held = peer.held
    BY DEF Now
  <2>2. InTurn(peer, m) <=> InTurn(Now(peer), m)
    BY <2>1 DEF InTurn
  <2>3. PhaseAfter(Now(peer), m) = PhaseAfter(peer, m)
    BY <2>1, <2>2 DEF PhaseAfter
  <2>4. HeldAfter(Now(peer), m) = HeldAfter(peer, m)
    BY <2>1 DEF HeldAfter
  <2> QED BY <1>9, <2>2, <2>3, <2>4 DEF AfterMessage
<1>11. PICK asks : asks = CASE m.type \in {"initialize", "request", "shutdown"} -> peer.asks \cup {m.id}
                            [] m.type = "cancel" -> peer.asks \ {m.id}
                            [] OTHER -> peer.asks
  OBVIOUS
<1>12. peer' = [phase |-> u.phase, held |-> u.held, asks |-> asks]
  BY <1>4, <1>10, <1>11 DEF Hears
<1>13. asks \in SUBSET Ids
  <2>1. m.type \in {"initialize", "request", "shutdown", "cancel"} => m.id \in Ids
    BY <1>5 DEF Messages
  <2>2. peer.asks \in SUBSET Ids
    BY <1>7 DEF Peers
  <2> QED BY <1>11, <2>1, <2>2
<1>14. peer' \in Peers /\ peer'.phase = u.phase /\ peer'.held = u.held /\ peer'.asks = asks /\ Now(peer)' = u
  BY <1>12, <1>13 DEF Peers, States, Now
<1>15. /\ ClientTypes' /\ ClientKnows'
       /\ UNCHANGED <<there, dismissed, running, ready, stopping, initializing, shuttingDown, copy>>
       /\ Believes(t)' = Believes(t)
  <2>1. toClient' \in Seq(Signals) /\ process' \in {"none", "starting", "running", "killed", "aborted"}
    BY <1>0 DEF ServerInv, ClientTypes
  <2> QED BY <1>0, <1>1, <1>14, <2>1, ClientElsewhere
<1>16. SignalsInOrder' /\ StartsFromNothing' /\ EndIsOfTheDead'
  BY <1>0, <1>15, TakenStep
<1>17. ~CallsStart'
  BY <1>1, <1>3 DEF Conversation
<1>18. \/ m.type = "initialize" /\ peer.phase = "fresh" /\ u.phase = "initializing"
       \/ m.type = "initialized" /\ peer.phase = "answered" /\ u.phase = "initialized"
       \/ m.type \in {"didOpen", "didChange", "didSave", "didClose", "request", "cancel"}
          /\ peer.phase = "initialized" /\ u.phase = "initialized"
       \/ m.type = "shutdown" /\ peer.phase = "initialized" /\ u.phase = "shut"
       \/ m.type = "exit" /\ peer.phase = "shut" /\ u.phase = "shut"
  <2>1. m.type \in {"initialize", "initialized", "didOpen", "didChange", "didSave", "didClose", "request", "cancel",
                    "shutdown", "exit"}
    BY <1>5 DEF Messages
  <2> QED BY <1>10, <2>1 DEF InTurn, PhaseAfter
<1>19. there => running
  <2>1. toTransport # <<>>
    BY <1>0
  <2> QED BY <1>3, <2>1 DEF Conversation, ServerInv, ClientTypes
<1>20. Conversation'
  <2>1. CASE m.type = "initialize"
    <3>1. peer.phase = "fresh" /\ u.phase = "initializing" /\ OneGreeting /\ peer.asks = {} /\ peer.held = Absent
      BY <1>3, <1>18, <2>1 DEF Conversation
    <3>2. NothingSaid'
      <4>1. ASSUME NEW i \in 1..Len(toTransport') PROVE toTransport'[i].call # "send"
        <5>1. i + 1 \in 1..Len(toTransport) /\ i + 1 # 1 /\ toTransport'[i] = toTransport[i + 1]
          BY <1>1
        <5> QED BY <1>1, <3>1, <5>1 DEF OneGreeting
      <4> QED BY <4>1 DEF NothingSaid
    <3>3. u.held = Absent
      BY <1>10, <2>1, <3>1 DEF HeldAfter
    <3>4. asks = {m.id}
      BY <1>11, <2>1, <3>1
    <3>5. there /\ initializing # NoId => NoAnswers /\ m.id = initializing
      BY <1>1, <1>3, <1>4, <3>1 DEF Conversation, Greeting
    <3>6. there' /\ initializing' # NoId => Greeting'
      <4>1. NoAnswers' = NoAnswers
        BY <1>0 DEF NoAnswers
      <4> QED BY <1>14, <1>15, <3>1, <3>4, <3>5, <4>1 DEF Greeting
    <3>7. ~(there /\ ready)
      BY <1>3, <3>1 DEF Conversation
    <3>8. \A i, j \in peer'.asks : i = j
      BY <1>14, <3>4
    <3> QED BY <1>14, <1>15, <1>17, <1>19, <3>1, <3>2, <3>3, <3>6, <3>7, <3>8 DEF Conversation
  <2>2. CASE m.type # "initialize"
    <3>1. u.phase \in {"initialized", "shut"}
      BY <1>18, <2>2
    <3>2. ~(there /\ initializing # NoId)
      <4>1. ~Greeting
        <5>1. peer.phase \in {"answered", "initialized", "shut"} /\ ~NothingSaid
          BY <1>1, <1>18, <2>2 DEF NothingSaid
        <5> QED BY <5>1 DEF Greeting
      <4> QED BY <1>3, <4>1 DEF Conversation
    <3> QED BY <1>14, <1>15, <1>17, <1>19, <3>1, <3>2 DEF Conversation
  <2> QED BY <2>1, <2>2
<1>21. Chain(toTransport, Now(peer), t)'
  BY <1>8, <1>14 DEF Chain
<1>22. InAgreement'
  BY <1>6, <1>15, <1>21 DEF InAgreement
<1>23. NoProcess' /\ Starts'
  BY <1>2 DEF NoProcess, Starts
<1> QED BY <1>15, <1>16, <1>20, <1>22, <1>23 DEF ServerInv

LEMMA DoCallStep == ASSUME ServerInv, DoCall PROVE ServerInv'
<1>1. CASE Head(toTransport).call = "start"
  BY <1>1, TakesStart
<1>2. CASE Head(toTransport).call = "shutdown"
  BY <1>2, TakesShutdown
<1>3. CASE Head(toTransport).call \in {"kill", "requestTermination"}
  <2>1. peer' = peer
    BY <1>3 DEF DoCall
  <2> QED BY <1>3, <2>1, TakesQuietly
<1>4. CASE Head(toTransport).call = "send"
  <2>1. CASE process = "none"
    <3>1. UNCHANGED <<process, peer>>
      BY <1>4, <2>1 DEF DoCall
    <3> QED BY <1>4, <2>1, <3>1, TakesQuietly
  <2>2. CASE process # "none"
    <3>1. Hears(Head(toTransport).message) /\ process' = process
      BY <1>4, <2>2 DEF DoCall
    <3> QED BY <1>4, <2>2, <3>1, TakesSend
  <2> QED BY <2>1, <2>2
<1> QED BY <1>1, <1>2, <1>3, <1>4 DEF DoCall

(* What becomes of the process.                                             *)
LEMMA SignalIsLast ==
    ASSUME ServerInv, NEW s \in Signals, there, toClient' = Append(toClient, s)
    PROVE  /\ toClient' \in Seq(Signals) /\ Len(toClient') = Len(toClient) + 1 /\ Len(toClient) \in Nat
           /\ toClient' # <<>> /\ toClient'[Len(toClient')] = s
           /\ \A i \in 1..Len(toClient') :
                 \/ i \in 1..Len(toClient) /\ toClient'[i] = toClient[i]
                 \/ i = Len(toClient') /\ toClient'[i] = s
           /\ toClient # <<>> => toClient'[1] = toClient[1] /\ 1 \in 1..Len(toClient)
<1>1. /\ toClient' \in Seq(Signals) /\ Len(toClient') = Len(toClient) + 1 /\ Len(toClient) \in Nat
      /\ toClient'[Len(toClient) + 1] = s /\ \A i \in 1..Len(toClient) : toClient'[i] = toClient[i]
  BY InTheQueue DEF ServerInv, ClientTypes
<1>2. ASSUME NEW i \in 1..Len(toClient')
      PROVE  \/ i \in 1..Len(toClient) /\ toClient'[i] = toClient[i]
             \/ i = Len(toClient') /\ toClient'[i] = s
  BY <1>1
<1>3. toClient # <<>> => 1 \in 1..Len(toClient)
  BY <1>1 DEF ServerInv, ClientTypes
<1>4. toClient' # <<>>
  BY <1>1
<1> QED BY <1>1, <1>2, <1>3, <1>4

LEMMA SignalIsASignal ==
    /\ \A name \in {"started", "startFailed", "exited", "protocolFailed"} :
          Signal(name) \in Signals /\ Signal(name).signal = name
    /\ \A id \in Ids, ok \in BOOLEAN :
          /\ Response(id, ok) \in Signals /\ Response(id, ok).signal = "message"
          /\ Response(id, ok).id = id /\ Response(id, ok).ok = ok
BY DEF Signal, Response, Signals

LEMMA ProcessStartsStep == ASSUME ServerInv, ProcessStarts PROVE ServerInv'
<1>0. process = "starting" /\ UNCHANGED <<client, toTransport, peer>>
  BY DEF ProcessStarts
<1>1. NothingButTheEnd /\ peer = FreshServer /\ (there => ~running /\ toClient = <<>>)
  BY <1>0 DEF ServerInv, Starts
<1>2. PICK s : /\ s \in {Signal("started"), Signal("startFailed")} /\ Says(s)
               /\ s = Signal("started") => process' = "running"
               /\ s = Signal("startFailed") => process' = "none"
  <2>1. Signal("started").signal # Signal("startFailed").signal
    BY SignalIsASignal
  <2>2. Signal("started") # Signal("startFailed")
    BY <2>1
  <2> QED BY <2>2 DEF ProcessStarts
<1>3. /\ s \in Signals
      /\ \/ process' = "running" /\ s.signal = "started"
         \/ process' = "none" /\ s.signal = "startFailed"
  BY <1>2, SignalIsASignal
<1>4. (there => toClient' = <<s>>) /\ (~there => toClient' = <<>>)
  <2>1. there => toClient' = Append(<<>>, s)
    BY <1>1, <1>2 DEF Says
  <2>2. ~there => toClient' = <<>>
    BY <1>2 DEF Says
  <2> QED BY <1>3, <2>1, <2>2
<1>5. toClient' \in Seq(Signals)
  <2>1. <<s>> \in Seq(Signals) /\ <<>> \in Seq(Signals)
    BY <1>3
  <2> QED BY <1>4, <2>1
<1>6. /\ ClientTypes' /\ ClientKnows' /\ UNCHANGED <<there, running, ready, initializing, toTransport, peer>>
  <2>1. toTransport' \in Seq(Calls) /\ peer' \in Peers
    BY <1>0 DEF ServerInv, ClientTypes
  <2> QED BY <1>0, <1>3, <1>5, <2>1, ClientElsewhere
<1>7. there => ~running /\ ~ready /\ initializing = NoId /\ toTransport = <<>>
  <2>1. there => Len(toTransport) = 0
    <3>1. Len(toTransport) \in Nat
      BY DEF ServerInv, ClientTypes
    <3>2. there => \A i \in 1..Len(toTransport) : FALSE
      BY <1>1 DEF ServerInv, EndIsOfTheDead, NothingButTheEnd
    <3> QED BY <3>1, <3>2
  <2>2. there => toTransport = <<>>
    BY <2>1 DEF ServerInv, ClientTypes
  <2> QED BY <1>1, <2>2 DEF ServerInv, ClientKnows
<1>8. there' \in BOOLEAN
  BY <1>6 DEF ClientTypes
<1>9. SignalsInOrder'
  <2>1. CASE there
    <3>1. Len(toClient') = 1 /\ toClient'[1] = s
      BY <1>3, <1>4, <2>1
    <3>2. ~running'
      BY <1>6, <1>7, <2>1
    <3> QED BY <1>3, <1>6, <2>1, <3>1, <3>2 DEF SignalsInOrder
  <2>2. CASE ~there
    BY <1>4, <2>2 DEF SignalsInOrder
  <2> QED BY <2>1, <2>2
<1>10. StartsFromNothing' /\ EndIsOfTheDead'
  BY <1>1, <1>6 DEF ServerInv, EndIsOfTheDead, StartsFromNothing, NothingButTheEnd
<1>11. NoProcess' /\ Starts'
  <2>1. ASSUME there, process' = "none" PROVE HearsOfTheEnd'
    <3>1. toClient' = <<s>> /\ s.signal = "startFailed"
      BY <1>3, <1>4, <2>1
    <3>2. Len(toClient') = 1 /\ toClient'[1].signal = "startFailed"
      BY <3>1
    <3>3. ~running'
      BY <1>6, <1>7, <2>1
    <3> QED BY <3>2, <3>3 DEF HearsOfTheEnd
  <2>2. process' # "starting"
    BY <1>3
  <2> QED BY <1>1, <1>6, <2>1, <2>2 DEF NoProcess, Starts
<1>12. ASSUME process' = "running" PROVE Conversation' /\ InAgreement'
  <2>1. s.signal = "started"
    BY <1>3, <1>12
  <2>2. peer' = FreshServer /\ peer'.phase = "fresh" /\ peer'.held = Absent /\ peer'.asks = {}
    BY <1>1, <1>6, FreshIsAPeer
  <2>3. ~CallsStart' /\ OneGreeting' /\ NothingSaid'
    BY <1>1, <1>6 DEF NothingButTheEnd, CallsStart, OneGreeting, NothingSaid
  <2>4. there => NoAnswers' /\ toClient' # <<>> /\ toClient'[1].signal = "started"
    <3>1. SUFFICES ASSUME there PROVE NoAnswers' /\ toClient' # <<>> /\ toClient'[1].signal = "started"
      OBVIOUS
    <3>2. toClient' = <<s>>
      BY <1>4, <3>1
    <3>3. Len(toClient') = 1 /\ toClient'[1] = s /\ toClient' # <<>>
      BY <3>2
    <3> QED BY <2>1, <3>3 DEF NoAnswers
  <2>5. Conversation'
    BY <1>6, <1>7, <2>2, <2>3, <2>4 DEF Conversation
  <2>6. Chain(toTransport, Now(peer), Now(peer))
    BY <1>1, NothingMoreIsSaid DEF NothingButTheEnd, NothingSaid
  <2>7. PICK t \in States : t = Now(peer)
    BY NowIsAState
  <2>8. Chain(toTransport, Now(peer), t)'
    BY <1>6, <2>6, <2>7 DEF Chain, Now
  <2>9. ~(there' /\ ready')
    BY <1>6, <1>7
  <2> QED BY <2>5, <2>8, <2>9 DEF InAgreement
<1> QED BY <1>3, <1>6, <1>9, <1>10, <1>11, <1>12 DEF ServerInv, Live

LEMMA ProcessExitsStep == ASSUME ServerInv, ProcessExits PROVE ServerInv'
<1>0. /\ Live /\ process' = "none" /\ peer' = FreshServer /\ Says(Signal("exited")) /\ UNCHANGED <<client, toTransport>>
  BY DEF ProcessExits, Live
<1>1. PICK s \in Signals : s = Signal("exited") /\ s.signal = "exited"
  BY SignalIsASignal
<1>2. Conversation
  BY <1>0 DEF ServerInv
<1>3. (there => toClient' = Append(toClient, s)) /\ (~there => toClient' = <<>>)
  BY <1>0, <1>1 DEF Says
<1>4. toClient' \in Seq(Signals)
  <2>1. CASE there
    BY <1>3, <2>1, SignalIsLast
  <2>2. CASE ~there
    BY <1>3, <2>2
  <2> QED BY <2>1, <2>2
<1>5. /\ ClientTypes' /\ ClientKnows' /\ UNCHANGED <<there, running, toTransport>>
  <2>1. toTransport' \in Seq(Calls)
    BY <1>0 DEF ServerInv, ClientTypes
  <2> QED BY <1>0, <1>4, <2>1, ClientElsewhere, FreshIsAPeer
<1>6. SignalsInOrder'
  <2>1. CASE there
    <3>1. ASSUME NEW i \in 1..Len(toClient')
          PROVE  /\ toClient'[i].signal = "started" => i = 1 /\ ~running
                 /\ toClient'[i].signal = "exited" => i = Len(toClient')
                 /\ toClient'[i].signal # "startFailed"
      <4>1. \/ i \in 1..Len(toClient) /\ toClient'[i] = toClient[i]
            \/ i = Len(toClient') /\ toClient'[i] = s
        BY <1>3, <2>1, SignalIsLast
      <4>2. CASE i \in 1..Len(toClient) /\ toClient'[i] = toClient[i]
        BY <1>0, <4>2 DEF ServerInv, SignalsInOrder, Live
      <4>3. CASE i = Len(toClient') /\ toClient'[i] = s
        BY <1>1, <4>3
      <4> QED BY <4>1, <4>2, <4>3
    <3> QED BY <1>0, <1>5, <2>1, <3>1 DEF SignalsInOrder
  <2>2. CASE ~there
    BY <1>3, <2>2 DEF SignalsInOrder
  <2> QED BY <2>1, <2>2
<1>7. StartsFromNothing' /\ EndIsOfTheDead'
  BY <1>2, <1>5 DEF ServerInv, EndIsOfTheDead, StartsFromNothing, Conversation, CallsStart
<1>8. there => HearsOfTheEnd'
  <2>1. SUFFICES ASSUME there PROVE HearsOfTheEnd'
    OBVIOUS
  <2>2. /\ toClient' # <<>> /\ toClient'[Len(toClient')].signal = "exited"
        /\ toClient # <<>> => toClient'[1] = toClient[1]
    BY <1>1, <1>3, <2>1, SignalIsLast
  <2>3. running \/ (toClient # <<>> /\ toClient[1].signal = "started")
    BY <1>2, <2>1 DEF Conversation
  <2> QED BY <1>5, <2>2, <2>3 DEF HearsOfTheEnd
<1>9. NoProcess' /\ Starts'
  BY <1>0, <1>5, <1>8 DEF NoProcess, Starts
<1> QED BY <1>0, <1>5, <1>6, <1>7, <1>9 DEF ServerInv, Live

(* What a live process says, other than that it started or ended.           *)
LEMMA SpeaksStep ==
    ASSUME ServerInv, Live, Live', UNCHANGED <<client, toTransport>>, peer' \in Peers,
           NEW s \in Signals, s.signal \in {"message", "protocolFailed"}, Says(s)
    PROVE  /\ ClientTypes' /\ ClientKnows' /\ SignalsInOrder' /\ StartsFromNothing' /\ EndIsOfTheDead'
           /\ NoProcess' /\ Starts'
           /\ UNCHANGED <<there, running, ready, initializing, toTransport>>
           /\ \A t \in States : Believes(t)' = Believes(t)
           /\ there /\ toClient # <<>> => toClient' # <<>> /\ toClient'[1] = toClient[1]
           /\ NoAnswers /\ s.signal # "message" => NoAnswers'
<1>1. (there => toClient' = Append(toClient, s)) /\ (~there => toClient' = <<>>)
  BY DEF Says
<1>2. toClient' \in Seq(Signals)
  <2>1. CASE there
    BY <1>1, <2>1, SignalIsLast
  <2>2. CASE ~there
    BY <1>1, <2>2
  <2> QED BY <2>1, <2>2
<1>3. /\ ClientTypes' /\ ClientKnows' /\ UNCHANGED <<there, running, ready, initializing, toTransport>>
      /\ \A t \in States : Believes(t)' = Believes(t)
  <2>1. toTransport' \in Seq(Calls) /\ process' \in {"none", "starting", "running", "killed", "aborted"}
    BY DEF ServerInv, ClientTypes, Live
  <2> QED BY <1>2, <2>1, ClientElsewhere
<1>4. SignalsInOrder'
  <2>1. CASE there
    <3>1. ASSUME NEW i \in 1..Len(toClient')
          PROVE  /\ toClient'[i].signal = "started" => i = 1 /\ ~running
                 /\ toClient'[i].signal \notin {"exited", "startFailed"}
      <4>1. \/ i \in 1..Len(toClient) /\ toClient'[i] = toClient[i]
            \/ i = Len(toClient') /\ toClient'[i] = s
        BY <1>1, <2>1, SignalIsLast
      <4>2. CASE i \in 1..Len(toClient) /\ toClient'[i] = toClient[i]
        BY <4>2 DEF ServerInv, SignalsInOrder, Live
      <4>3. CASE i = Len(toClient') /\ toClient'[i] = s
        BY <4>3
      <4> QED BY <4>1, <4>2, <4>3
    <3> QED BY <1>3, <2>1, <3>1 DEF SignalsInOrder
  <2>2. CASE ~there
    BY <1>1, <2>2 DEF SignalsInOrder
  <2> QED BY <2>1, <2>2
<1>5. StartsFromNothing' /\ EndIsOfTheDead'
  <2>1. ~CallsStart
    BY DEF ServerInv, Conversation
  <2> QED BY <1>3, <2>1 DEF ServerInv, EndIsOfTheDead, StartsFromNothing, CallsStart
<1>6. NoProcess' /\ Starts'
  BY DEF NoProcess, Starts, Live
<1>7. there /\ toClient # <<>> => toClient' # <<>> /\ toClient'[1] = toClient[1]
  BY <1>1, SignalIsLast
<1>8. NoAnswers /\ s.signal # "message" => NoAnswers'
  <2>1. SUFFICES ASSUME NoAnswers, s.signal # "message", NEW i \in 1..Len(toClient')
                 PROVE  toClient'[i].signal # "message"
    BY DEF NoAnswers
  <2>2. CASE there
    <3>1. \/ i \in 1..Len(toClient) /\ toClient'[i] = toClient[i]
          \/ i = Len(toClient') /\ toClient'[i] = s
      BY <1>1, <2>2, SignalIsLast
    <3> QED BY <2>1, <3>1 DEF NoAnswers
  <2>3. CASE ~there
    <3>1. Len(toClient') = 0
      BY <1>1, <2>3
    <3> QED BY <3>1
  <2> QED BY <2>2, <2>3
<1> QED BY <1>3, <1>4, <1>5, <1>6, <1>7, <1>8

LEMMA ServerBreaksProtocolStep == ASSUME ServerInv, ServerBreaksProtocol PROVE ServerInv'
<1>0. /\ Live /\ Live' /\ UNCHANGED <<client, toTransport, peer>> /\ Says(Signal("protocolFailed"))
  BY DEF ServerBreaksProtocol, Live
<1>1. PICK s \in Signals : s = Signal("protocolFailed") /\ s.signal = "protocolFailed"
  BY SignalIsASignal
<1>2. Conversation /\ peer' \in Peers
  BY <1>0 DEF ServerInv, ClientTypes
<1>3. /\ ClientTypes' /\ ClientKnows' /\ SignalsInOrder' /\ StartsFromNothing' /\ EndIsOfTheDead'
      /\ NoProcess' /\ Starts'
      /\ UNCHANGED <<there, running, ready, initializing, toTransport, peer>>
      /\ \A t \in States : Believes(t)' = Believes(t)
      /\ there /\ toClient # <<>> => toClient' # <<>> /\ toClient'[1] = toClient[1]
      /\ NoAnswers => NoAnswers'
  <2>1. Says(s) /\ s.signal \in {"message", "protocolFailed"} /\ s.signal # "message"
    BY <1>0, <1>1
  <2> QED BY <1>0, <1>2, <2>1, SpeaksStep
<1>4. /\ CallsStart' = CallsStart /\ OneGreeting' = OneGreeting /\ NothingSaid' = NothingSaid
  BY <1>3 DEF CallsStart, OneGreeting, NothingSaid
<1>5. there /\ Greeting => Greeting'
  <2>1. SUFFICES ASSUME there, Greeting PROVE Greeting'
    OBVIOUS
  <2>2. ASSUME NEW i \in 1..Len(toClient'), toClient'[i].signal = "message"
        PROVE  i \in 1..Len(toClient) /\ toClient'[i] = toClient[i]
    <3>1. toClient' = Append(toClient, s)
      BY <1>0, <1>1, <2>1 DEF Says
    <3>2. \/ i \in 1..Len(toClient) /\ toClient'[i] = toClient[i]
          \/ i = Len(toClient') /\ toClient'[i] = s
      BY <2>1, <3>1, SignalIsLast
    <3> QED BY <1>1, <2>2, <3>2
  <2>3. CASE peer.phase = "fresh" /\ NoAnswers
    BY <1>3, <2>1, <2>3 DEF Greeting
  <2>4. CASE peer.phase = "initializing"
    BY <1>3, <2>1, <2>4 DEF Greeting
  <2>5. CASE peer.phase \in {"answered", "refused"}
    <3>1. NothingSaid /\ \A i \in 1..Len(toClient) :
              toClient[i].signal = "message" =>
                  toClient[i].id = initializing /\ toClient[i].ok = (peer.phase = "answered")
      BY <2>1, <2>5 DEF Greeting
    <3>2. \A i \in 1..Len(toClient') :
              toClient'[i].signal = "message" =>
                  toClient'[i].id = initializing /\ toClient'[i].ok = (peer.phase = "answered")
      BY <2>2, <3>1
    <3> QED BY <1>3, <1>4, <2>5, <3>1, <3>2 DEF Greeting
  <2> QED BY <2>1, <2>3, <2>4, <2>5 DEF Greeting
<1>6. Conversation'
  BY <1>2, <1>3, <1>4, <1>5 DEF Conversation
<1>7. PICK t \in States : Chain(toTransport, Now(peer), t) /\ (there /\ ready => Believes(t))
  BY <1>0 DEF ServerInv, InAgreement
<1>8. Chain(toTransport, Now(peer), t)' /\ (there' /\ ready' => Believes(t)')
  BY <1>3, <1>7 DEF Chain, Now
<1>9. InAgreement'
  BY <1>8 DEF InAgreement
<1> QED BY <1>3, <1>6, <1>9 DEF ServerInv

LEMMA ServerAnswersStep == ASSUME ServerInv, ServerAnswers PROVE ServerInv'
<1>1. PICK id \in peer.asks, ok \in BOOLEAN :
        /\ peer' = [peer EXCEPT !.asks = @ \ {id},
                               !.phase = IF @ # "initializing" THEN @ ELSE IF ok THEN "answered" ELSE "refused"]
        /\ Says(Response(id, ok))
  BY DEF ServerAnswers
<1>2. Live /\ Live' /\ UNCHANGED <<client, toTransport>> /\ Conversation /\ peer \in Peers
  BY DEF ServerAnswers, Live, ServerInv, ClientTypes
<1>3. id \in Ids
  BY <1>2 DEF Peers
<1>4. PICK s \in Signals : s = Response(id, ok) /\ s.signal = "message" /\ s.id = id /\ s.ok = ok
  BY <1>3, SignalIsASignal
<1>5. /\ peer'.asks = peer.asks \ {id} /\ peer'.held = peer.held
      /\ peer'.phase = IF peer.phase # "initializing" THEN peer.phase ELSE IF ok THEN "answered" ELSE "refused"
      /\ peer' \in Peers
  BY <1>1, <1>2 DEF Peers, PeerPhases
<1>6. /\ ClientTypes' /\ ClientKnows' /\ SignalsInOrder' /\ StartsFromNothing' /\ EndIsOfTheDead'
      /\ NoProcess' /\ Starts'
      /\ UNCHANGED <<there, running, ready, initializing, toTransport>>
      /\ \A t \in States : Believes(t)' = Believes(t)
  <2>1. Says(s) /\ s.signal \in {"message", "protocolFailed"}
    BY <1>1, <1>4
  <2> QED BY <1>2, <1>5, <2>1, SpeaksStep
<1>7. peer.phase \notin {"fresh", "answered", "refused"}
  BY <1>1, <1>2 DEF Conversation
<1>8. there => running
  BY <1>2, <1>7, FreshIsAPeer DEF Conversation, ServerInv, ClientTypes
<1>9. CallsStart' = CallsStart /\ NothingSaid' = NothingSaid
  BY <1>6 DEF CallsStart, NothingSaid
<1>10. CASE peer.phase = "initializing"
  <2>1. NothingSaid /\ peer.held = Absent /\ ~(there /\ ready)
    BY <1>2, <1>10 DEF Conversation
  <2>2. peer'.phase = (IF ok THEN "answered" ELSE "refused") /\ peer'.held = Absent
    BY <1>5, <1>10, <2>1
  <2>3. there /\ initializing # NoId => NoAnswers /\ peer.asks = {initializing}
    BY <1>2, <1>10 DEF Conversation, Greeting
  <2>4. there /\ initializing # NoId => Greeting'
    <3>1. SUFFICES ASSUME there, initializing # NoId PROVE Greeting'
      OBVIOUS
    <3>2. id = initializing
      BY <1>1, <2>3, <3>1
    <3>3. ASSUME NEW i \in 1..Len(toClient'), toClient'[i].signal = "message"
          PROVE  toClient'[i].id = initializing /\ toClient'[i].ok = (peer'.phase = "answered")
      <4>1. toClient' = Append(toClient, s)
        BY <1>1, <1>4, <3>1 DEF Says
      <4>2. \/ i \in 1..Len(toClient) /\ toClient'[i] = toClient[i]
            \/ i = Len(toClient') /\ toClient'[i] = s
        BY <3>1, <4>1, SignalIsLast
      <4>3. toClient'[i] = s
        BY <2>3, <3>1, <3>3, <4>2 DEF NoAnswers
      <4>4. ok = (peer'.phase = "answered")
        BY <2>2
      <4> QED BY <1>4, <3>2, <4>3, <4>4
    <3> QED BY <1>6, <1>9, <2>1, <2>2, <3>3 DEF Greeting
  <2>5. peer.asks = {id}
    BY <1>1, <1>2, <1>10 DEF Conversation
  <2>6. peer'.asks = {}
    BY <1>5, <2>5
  <2>7. Conversation'
    BY <1>2, <1>6, <1>8, <1>9, <2>1, <2>2, <2>4, <2>6 DEF Conversation
  <2>8. NothingSaid' /\ ServerInv
    BY <1>9, <2>1
  <2>9. Chain(toTransport, Now(peer), Now(peer))'
    <3>1. toTransport' \in Seq(Calls) /\ Now(peer)' \in States
      BY <1>5, <1>6 DEF ClientTypes, Peers, States, Now
    <3>2. Chain(toTransport', Now(peer)', Now(peer)')
      BY <2>8, <3>1, ChainStill DEF NothingSaid
    <3> QED BY <3>2 DEF Chain
  <2>10. PICK t \in States : t = Now(peer)'
    BY <1>5 DEF Peers, States, Now
  <2>11. Chain(toTransport, Now(peer), t)'
    BY <2>9, <2>10 DEF Chain
  <2>12. InAgreement'
    BY <1>6, <2>1, <2>11 DEF InAgreement
  <2> QED BY <1>6, <2>7, <2>12 DEF ServerInv
<1>11. CASE peer.phase # "initializing"
  <2>1. peer'.phase = peer.phase /\ Now(peer)' = Now(peer) /\ peer.phase \in {"initialized", "shut"}
    BY <1>2, <1>5, <1>7, <1>11 DEF Now, Peers, PeerPhases, Conversation
  <2>2. ~(there /\ initializing # NoId)
    BY <1>2, <2>1 DEF Conversation, Greeting
  <2>3. Conversation'
    BY <1>2, <1>6, <1>8, <1>9, <2>1, <2>2 DEF Conversation
  <2>4. PICK t \in States : Chain(toTransport, Now(peer), t) /\ (there /\ ready => Believes(t))
    BY <1>2 DEF ServerInv, InAgreement
  <2>5. Chain(toTransport, Now(peer), t)' /\ (there' /\ ready' => Believes(t)')
    BY <1>6, <2>1, <2>4 DEF Chain
  <2>6. InAgreement'
    BY <2>5 DEF InAgreement
  <2> QED BY <1>6, <2>3, <2>6 DEF ServerInv
<1> QED BY <1>10, <1>11

LEMMA ServerInvInit == ServerInit => ServerInv
<1> SUFFICES ASSUME ServerInit PROVE ServerInv
  OBVIOUS
<1>1. ClientTypes
  <2>1. toTransport \in Seq(Calls) /\ toClient \in Seq(Signals)
    BY CallIsACall DEF ServerInit
  <2> QED BY <2>1, NoneIsACopy, FreshIsAPeer DEF ServerInit, ClientTypes, NoId
<1>2. Len(toTransport) = 1 /\ toTransport[1].call = "start" /\ Len(toClient) = 0
  BY CallIsACall DEF ServerInit
<1>3. ClientKnows
  BY NoneIsACopy DEF ServerInit, ClientKnows
<1>4. SignalsInOrder /\ StartsFromNothing /\ EndIsOfTheDead
  BY <1>2 DEF ServerInit, SignalsInOrder, StartsFromNothing, EndIsOfTheDead
<1>5. NoProcess /\ Starts /\ ~Live
  <2>1. CallsStart
    BY <1>2 DEF CallsStart
  <2> QED BY <2>1 DEF ServerInit, NoProcess, Starts, Live
<1> QED BY <1>1, <1>3, <1>4, <1>5 DEF ServerInv

LEMMA NothingIsSaid ==
    ASSUME ServerInv, UNCHANGED serverVars PROVE ServerInv'
<1>1. UNCHANGED <<there, dismissed, running, ready, stopping, greeting, ending, lastId, initializing, shuttingDown,
                  asked, copy, toTransport, toClient, process, peer>>
  BY DEF serverVars, client, far, life, timers, ids
<1>2. /\ SignalsInOrder' /\ StartsFromNothing' /\ EndIsOfTheDead' /\ NoProcess' /\ Starts'
      /\ Live' => Conversation' /\ \E t \in States : Chain(toTransport, Now(peer), t)'
                                                  /\ (there /\ ready => Believes(t))
  BY <1>1, NothingHappensThere
<1>3. ClientTypes'
  BY <1>1 DEF ServerInv, ClientTypes
<1>4. ClientKnows'
  BY <1>1 DEF ServerInv, ClientKnows
<1>5. ASSUME NEW t \in States PROVE Believes(t)' = Believes(t)
  BY <1>1 DEF Believes
<1>6. Live' => InAgreement'
  BY <1>1, <1>2, <1>5 DEF InAgreement
<1> QED BY <1>2, <1>3, <1>4, <1>6 DEF ServerInv

LEMMA ServerInvNext ==
    ASSUME OpenClose = TRUE, Sync \in Syncs, ServerInv, [ServerNext]_serverVars PROVE ServerInv'
<1>1. CASE ReaderStep
  BY <1>1, ToldStep, AskStep, StopStep, DestroyStep DEF ReaderStep, ToldOfDocument
<1>2. CASE ClientStep
  <2>1. CASE OnInitialized
    BY <2>1, AcceptedStep, RefusedStep
  <2>2. CASE ~OnInitialized
    BY <1>2, <2>2, OnStartedStep, OnShutdownStep, OnAnswerStep, OnProtocolFailedStep, OnStartFailedStep,
       OnExitedStep, TimeoutStep DEF ClientStep
  <2> QED BY <2>1, <2>2
<1>3. CASE ServerStep
  BY <1>3, DoCallStep, ProcessStartsStep, ProcessExitsStep, ServerAnswersStep, ServerBreaksProtocolStep
     DEF ServerStep
<1>4. CASE UNCHANGED serverVars
  BY <1>4, NothingIsSaid
<1> QED BY <1>1, <1>2, <1>3, <1>4 DEF ServerNext

LEMMA ServerInvSays == ASSUME ServerInv PROVE SpokenToInTurn /\ (Sync # "none" => VersionsAgree)
<1>1. SpokenToInTurn
  <2>1. CASE Live
    BY <2>1 DEF ServerInv, Conversation, SpokenToInTurn
  <2>2. CASE ~Live
    BY <2>2, FreshIsAPeer DEF ServerInv, ClientTypes, Live, NoProcess, Starts, SpokenToInTurn
  <2> QED BY <2>1, <2>2
<1>2. ASSUME Sync # "none", there, ready, process = "running", toTransport = <<>>, copy.opened
      PROVE  peer.held.version = copy.version
  <2>1. PICK t \in States : Chain(toTransport, Now(peer), t) /\ Believes(t)
    BY <1>2 DEF ServerInv, Live, InAgreement
  <2>2. t = Now(peer)
    BY <1>2, <2>1, ChainNone
  <2>3. t.held = peer.held
    BY <2>2 DEF Now
  <2>4. ~dismissed
    BY <1>2, NoneIsACopy DEF ServerInv, ClientKnows
  <2> QED BY <1>2, <2>1, <2>3, <2>4 DEF Believes
<1> QED BY <1>1, <1>2 DEF VersionsAgree

(* A server is spoken to in turn, and has the version of the document that its *)
(* client counts when it was told everything: for any contents and edits, and   *)
(* any number of crashes, restarts, requests and messages on their way.        *)
THEOREM ServersAgree ==
    ASSUME OpenClose = TRUE, Sync \in {"full", "incremental"} PROVE ServerSpec => []VersionsAgree
<1>1. ServerInit => ServerInv
  BY ServerInvInit
<1>2. ServerInv /\ [ServerNext]_serverVars => ServerInv'
  BY ServerInvNext DEF Syncs
<1>3. ServerInv => VersionsAgree
  BY ServerInvSays
<1> QED BY <1>1, <1>2, <1>3, PTL DEF ServerSpec

(* One that wants no changes is spoken to in turn as well.                    *)
THEOREM ServersAreSpokenToInTurn ==
    ASSUME OpenClose = TRUE, Sync \in Syncs PROVE ServerSpec => []SpokenToInTurn
<1>1. ServerInit => ServerInv
  BY ServerInvInit
<1>2. ServerInv /\ [ServerNext]_serverVars => ServerInv'
  BY ServerInvNext
<1>3. ServerInv => SpokenToInTurn
  BY ServerInvSays
<1> QED BY <1>1, <1>2, <1>3, PTL DEF ServerSpec
=============================================================================
