---------------------------- MODULE CodeDocument ----------------------------
(***************************************************************************)
(* A file in the editor of plugins/code-editor: the buffer the reader types *)
(* into, and the file on disk that others write as well (CodeDocument.cpp).  *)
(* What its language server is told is LanguageServerClient's.              *)
(*                                                                          *)
(* Bytes are read and written by the one thread of FileSystemService, in    *)
(* the order asked; what was read is decoded on a pool of threads, whose    *)
(* results come in any order.  A content stands for its bytes, its decoded   *)
(* text and its digest.  Writing leaves out the Blank edits, which add      *)
(* blanks to the ends of lines only, when the project's rules trim them.    *)
(* The file keeps its name: updatePath is left out.                         *)
(***************************************************************************)
EXTENDS Naturals, SequencesExt

CONSTANTS
    Contents,   (* what others write into the file                          *)
    Edits,      (* what the reader types, each once                         *)
    Blank,      (* the edits that saving trims away                         *)
    MaxEvents,  (* bound: times others change or remove the file, the reader *)
                (* asks for a save, or reads it in another charset          *)
    MaxJobs     (* bound: reads and writes in flight, and texts in decoding *)

VARIABLES
    open,            (* the document's tab is there                         *)
    disk,            (* the content of the file, or NoText when it is missing *)
    buffer,          (* the text of m_editor                                *)
    storedDigest,    (* m_storedDigest                                      *)
    appliedDigest,   (* m_appliedDigest                                     *)
    dirty, loading, rereading, saving, saveRequested,
    contentRevision, (* m_contentRevision                                   *)
    generation,      (* m_loadGeneration                                    *)
    jobs,            (* what FileSystemService was asked, oldest first      *)
    decodes,         (* what is being decoded                               *)
    heard,           (* history: edits that documentChanged took note of    *)
    kept,            (* history: edits that reached the file                *)
    wanted,          (* history: edits the reader has asked to save         *)
    events           (* steps counted against their bound                   *)

digests == <<storedDigest, appliedDigest>>
loads == <<loading, rereading, generation>>
writing == <<saving, saveRequested>>
history == <<heard, kept, wanted, events>>
documentVars ==
    <<open, disk, buffer, digests, dirty, loads, writing, contentRevision, jobs, decodes, history>>

(* No bytes at all: a file that is missing, a digest not taken yet.          *)
NoText == [of |-> "none", typed |-> {}]

Text(content) == [of |-> content, typed |-> {}]

Texts == [of : Contents \cup {"nothing"}, typed : SUBSET Edits]
MaybeTexts == Texts \cup {NoText}
Typed == heard \cap buffer.typed

(* MaxJobs bounds what is read, decoded and written at a time.              *)
HasRoom == Len(jobs) + Len(decodes) < MaxJobs

(* What saving writes of a text (encodedContent).                           *)
Written(text) == [text EXCEPT !.typed = @ \ Blank]

(* A job is marked with the revision it writes, or the generation of a load. *)
Job(op, content, mark) == [op |-> op, content |-> content, mark |-> mark, done |-> FALSE, ok |-> FALSE]
WriteJob == Job("write", Written(buffer), contentRevision)

DocumentInit ==
    /\ open = TRUE
    /\ disk \in {Text(c) : c \in Contents}
    /\ buffer = Text("nothing")
    /\ storedDigest = NoText /\ appliedDigest = NoText
    /\ dirty = FALSE /\ loading = FALSE /\ rereading = FALSE
    /\ saving = FALSE /\ saveRequested = FALSE
    /\ contentRevision = 0 /\ generation = 0
    /\ jobs = <<>> /\ decodes = <<>>
    /\ heard = {} /\ kept = {} /\ wanted = {} /\ events = 0

-----------------------------------------------------------------------------
Event == events < MaxEvents /\ events' = events + 1

(* documentChanged: what is typed while a load is under way is not noted.    *)
Type(e) ==
    /\ e \notin heard \cup kept \cup buffer.typed
    /\ buffer' = [buffer EXCEPT !.typed = @ \cup {e}]
    /\ IF loading
       THEN UNCHANGED <<dirty, contentRevision, heard>>
       ELSE /\ dirty' = TRUE
            /\ contentRevision' = contentRevision + 1
            /\ heard' = heard \cup {e}
    /\ UNCHANGED <<open, disk, digests, loads, writing, jobs, decodes, kept, wanted, events>>

(* reload, for the first time and with another charset.                     *)
ReloadFile(reread) ==
    /\ HasRoom
    /\ reread <=> generation > 0
    /\ IF reread THEN Event ELSE UNCHANGED events
    /\ generation' = generation + 1
    /\ loading' = TRUE
    /\ rereading' = (rereading \/ reread)
    /\ jobs' = Append(jobs, Job("reload", NoText, generation'))
    /\ UNCHANGED <<open, disk, buffer, digests, dirty, writing, contentRevision, decodes, heard, kept, wanted>>

(* writeContent, of what the buffer says now: a save under way is followed   *)
(* by another, and a text that the charset cannot spell is not written, of   *)
(* which the reader is told.                                                *)
WriteContent ==
    \/ saving /\ saveRequested' = TRUE /\ UNCHANGED <<saving, jobs>>
    \/ ~saving /\ HasRoom /\ saving' = TRUE /\ jobs' = Append(jobs, WriteJob) /\ UNCHANGED saveRequested

CannotSpell == ~saving /\ UNCHANGED <<writing, jobs>>

(* save, and saveWithCharset, which writes what was not changed as well.    *)
SaveDocument(always) ==
    /\ dirty \/ always
    /\ Event
    /\ \/ WriteContent /\ wanted' = wanted \cup Typed
       \/ CannotSpell /\ UNCHANGED wanted
    /\ UNCHANGED <<open, disk, buffer, digests, dirty, loads, contentRevision, decodes, heard, kept>>

-----------------------------------------------------------------------------
(* The thread of FileSystemService does the first job that is left, also     *)
(* when the document that asked for it is closed.  A file that is there may  *)
(* not be readable, or be too large.                                        *)
FirstLeft(i) == ~jobs[i].done /\ \A k \in 1 .. i - 1 : jobs[k].done

ReadNow(i) ==
    /\ jobs[i].op # "write"
    /\ \E ok \in {FALSE, disk # NoText} :
           jobs' = [jobs EXCEPT ![i] = [@ EXCEPT !.done = TRUE, !.ok = ok, !.content = disk]]
    /\ UNCHANGED <<disk, kept>>

WriteNow(i) ==
    /\ jobs[i].op = "write"
    /\ \E ok \in BOOLEAN :
           /\ jobs' = [jobs EXCEPT ![i] = [@ EXCEPT !.done = TRUE, !.ok = ok]]
           /\ disk' = IF ok THEN jobs[i].content ELSE disk
           /\ kept' = IF ok THEN kept \cup jobs[i].content.typed ELSE kept

DoJob ==
    /\ \E i \in DOMAIN jobs : FirstLeft(i) /\ (ReadNow(i) \/ WriteNow(i))
    /\ UNCHANGED <<open, buffer, digests, dirty, loads, writing, contentRevision, decodes, heard, wanted, events>>

(* The result that is looked at next: the oldest, or that of a job already   *)
(* done when its future was given its continuation.                         *)
Done(op, i) ==
    /\ jobs[i].op = op
    /\ jobs[i].done
    /\ i = 1 \/ i = Len(jobs)

(* applyContent: what was read is decoded, for the load it was read under.   *)
Decoding(job) ==
    IF job.ok THEN Append(decodes, [generation |-> generation, content |-> job.content]) ELSE decodes

(* The continuation of reload: a load that another has followed is nothing.  *)
OnLoaded(i) ==
    /\ Done("reload", i)
    /\ jobs' = RemoveAt(jobs, i)
    /\ IF jobs[i].mark = generation
       THEN /\ loading' = FALSE
            /\ decodes' = Decoding(jobs[i])
       ELSE UNCHANGED <<loading, decodes>>
    /\ UNCHANGED <<open, disk, buffer, digests, dirty, rereading, generation, writing, contentRevision, history>>

(* The continuation of watchedFileChanged.                                  *)
OnWatched(i) ==
    /\ Done("watch", i)
    /\ jobs' = RemoveAt(jobs, i)
    /\ decodes' = Decoding(jobs[i])
    /\ UNCHANGED <<open, disk, buffer, digests, dirty, loads, writing, contentRevision, history>>

\* Mutant of StillDirty: what is typed during a save is taken for saved.
DirtyNever(job) == FALSE

(* What is typed during a save is still to be saved after it.               *)
StillDirty(job) == dirty /\ contentRevision # job.mark

\* Mutant of Follows: a save asked for while another is written is dropped.
FollowsNever(job) == FALSE

(* A save asked for meanwhile follows, but not after one that failed.        *)
Follows(job) == saveRequested /\ job.ok

(* The continuation of writeContent.  Of what is not written, here or in the *)
(* save that follows, the reader is told.                                   *)
OnSaved(i) ==
    /\ Done("write", i)
    /\ saveRequested' = FALSE
    /\ \/ /\ ~Follows(jobs[i])
          /\ saving' = FALSE /\ jobs' = RemoveAt(jobs, i)
          /\ wanted' = IF jobs[i].ok THEN wanted ELSE {}
       \/ /\ Follows(jobs[i])
          /\ saving' = TRUE /\ jobs' = Append(RemoveAt(jobs, i), WriteJob)
          /\ UNCHANGED wanted
       \/ /\ Follows(jobs[i])
          /\ saving' = FALSE /\ jobs' = RemoveAt(jobs, i)
          /\ wanted' = {}
    /\ storedDigest' = IF jobs[i].ok THEN jobs[i].content ELSE storedDigest
    /\ dirty' = IF jobs[i].ok THEN StillDirty(jobs[i]) ELSE dirty
    /\ UNCHANGED <<open, disk, buffer, appliedDigest, loads, contentRevision, decodes, heard, kept, events>>

-----------------------------------------------------------------------------
(* What a load that is adopted does: the digest says whether the buffer has  *)
(* the text already.  Putting it there ends m_loading, whatever is loading.  *)
Replaces(content) == rereading \/ content # appliedDigest

Adopt(content) ==
    /\ storedDigest' = content
    /\ appliedDigest' = content
    /\ IF Replaces(content)
       THEN buffer' = content /\ loading' = FALSE
       ELSE UNCHANGED <<buffer, loading>>
    /\ dirty' = FALSE
    /\ contentRevision' = contentRevision + 1
    /\ wanted' = IF rereading THEN {} ELSE wanted

(* A load leaves the document as it is when it says nothing new, or when the *)
(* reader has typed: that is a conflict, of which the reader is told.       *)
Ignored(content) == ~rereading /\ (content = storedDigest \/ dirty)

(* applyDecoded.  What was read may be no text, in the charset asked for or  *)
(* at all.                                                                  *)
ApplyDecoded(k) ==
    /\ decodes' = RemoveAt(decodes, k)
    /\ \/ /\ decodes[k].generation # generation
          /\ UNCHANGED <<buffer, digests, dirty, loading, rereading, contentRevision, wanted>>
       \/ /\ decodes[k].generation = generation
          /\ rereading' = FALSE
          /\ UNCHANGED <<buffer, digests, dirty, loading, contentRevision, wanted>>
       \/ /\ decodes[k].generation = generation
          /\ ~Ignored(decodes[k].content)
          /\ rereading' = FALSE
          /\ Adopt(decodes[k].content)
    /\ UNCHANGED <<open, disk, generation, writing, jobs, heard, kept, events>>

-----------------------------------------------------------------------------
(* The document ends with its tab, and what is still read, written and      *)
(* decoded for it finds nobody.                                             *)
Closed ==
    /\ open' = FALSE
    /\ buffer' = Text("nothing")
    /\ storedDigest' = NoText /\ appliedDigest' = NoText
    /\ dirty' = FALSE /\ loading' = FALSE /\ rereading' = FALSE
    /\ saving' = FALSE /\ saveRequested' = FALSE
    /\ decodes' = <<>> /\ wanted' = {}
    /\ UNCHANGED <<disk, contentRevision, generation, jobs, heard, kept, events>>

(* The reader closes the tab, and is asked first when something is typed.    *)
CloseTab == Closed

(* watchedFileChanged: the tab of a file that is gone closes, unless it has  *)
(* something typed; nothing is read while a save is under way.  The timer    *)
(* that calls it may have been started at any time, by the file's watcher or *)
(* by the reader coming back to the application.                            *)
WatchedFileChanged ==
    \/ disk = NoText /\ dirty /\ UNCHANGED documentVars
    \/ disk = NoText /\ ~dirty /\ Closed
    \/ disk # NoText /\ saving /\ UNCHANGED documentVars
    \/ /\ disk # NoText /\ ~saving
       /\ HasRoom
       /\ jobs' = Append(jobs, Job("watch", NoText, 0))
       /\ UNCHANGED <<open, disk, buffer, digests, dirty, loads, writing, contentRevision, decodes, history>>

-----------------------------------------------------------------------------
(* Others write the file, or remove it.                                     *)
ChangeFile ==
    /\ Event
    /\ disk' \in {Text(c) : c \in Contents} \cup {NoText}
    /\ disk' # disk
    /\ UNCHANGED <<open, buffer, digests, dirty, loads, writing, contentRevision, jobs, decodes, heard, kept, wanted>>

DocumentStep ==
    \/ \E e \in Edits : Type(e)
    \/ \E reread \in BOOLEAN : ReloadFile(reread)
    \/ \E always \in BOOLEAN : SaveDocument(always)
    \/ \E i \in DOMAIN jobs : OnLoaded(i) \/ OnWatched(i) \/ OnSaved(i)
    \/ \E k \in DOMAIN decodes : ApplyDecoded(k)
    \/ WatchedFileChanged \/ CloseTab

DocumentNext == (open /\ (DocumentStep \/ ChangeFile)) \/ DoJob

DocumentSpec == DocumentInit /\ [][DocumentNext]_documentVars

-----------------------------------------------------------------------------
Jobs == [op : {"reload", "watch", "write"}, content : MaybeTexts, mark : Nat, done : BOOLEAN, ok : BOOLEAN]

DocumentTypeOK ==
    /\ open \in BOOLEAN /\ dirty \in BOOLEAN /\ loading \in BOOLEAN /\ rereading \in BOOLEAN
    /\ saving \in BOOLEAN /\ saveRequested \in BOOLEAN
    /\ buffer \in Texts
    /\ disk \in MaybeTexts /\ storedDigest \in MaybeTexts /\ appliedDigest \in MaybeTexts
    /\ contentRevision \in Nat /\ generation \in Nat /\ events \in Nat
    /\ jobs \in Seq(Jobs)
    /\ decodes \in Seq([generation : Nat, content : Texts])
    /\ heard \subseteq Edits /\ kept \subseteq Edits /\ wanted \subseteq heard

(* A document that is not dirty has nothing typed that the file did not get, *)
(* however the end of a save, what is typed meanwhile and loads fall (the    *)
(* revision compared in writeContent).                                      *)
CleanMeansSaved == ~dirty => Typed \subseteq kept \cup Blank

(* What the reader has asked to save is in the file when no save is under    *)
(* way, unless the reader was told that it is not (writeContent: "an edit    *)
(* the reader saved is never dropped").                                     *)
SavesReachTheFile == ~saving => wanted \subseteq kept \cup Blank

(* Both of them: what the editor says of the file is so.                     *)
DocumentIsStored == CleanMeansSaved /\ SavesReachTheFile

(* What was typed and never saved is not replaced by what the file says,     *)
(* unless the reader asked to read it again, or closes the tab (applyDecoded). *)
TypedTextIsKept ==
    [][open' /\ ~rereading => heard \cap (buffer.typed \ buffer'.typed) \subseteq kept \cup Blank]_documentVars

(* What the document says it holds of the file, when it adopts it, is what   *)
(* it shows (applyDecoded: "The digest says whether the buffer already holds *)
(* this text").  No run checks it: it does not hold.                        *)
AdoptedIsShown ==
    [][open' /\ storedDigest' # storedDigest /\ jobs' = jobs => buffer' = storedDigest']_documentVars
=============================================================================
