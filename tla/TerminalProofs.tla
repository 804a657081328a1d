---------------------------- MODULE TerminalProofs ----------------------------
(***************************************************************************)
(* The terminal, for every size and any number of processes, sessions and  *)
(* failures: the flow of a session and the life of its processes, the      *)
(* threads of the console of Windows, what is seen of a screen, the buttons *)
(* of the mouse, and the permission to write the clipboard; and, in the end, *)
(* all of them beside each other.                                          *)
(***************************************************************************)
EXTENDS MCTerminal, SequenceTheorems, FiniteSetTheorems, TLAPS

\* The session
(* What the invariants of TerminalSession need to be inductive: a session  *)
(* that does not pause is below the size it pauses at, nobody watches the  *)
(* output of no process, the reaper was only given started processes, and a *)
(* session that was never started has nothing to show.                     *)
Aside ==
    /\ ~paused => pending < PauseSize
    /\ status = "Starting" => pending = 0 /\ ~paused /\ ~Running
    /\ readOn => Running
    /\ \A p \in handed : os[p] # "unborn"

(* TypeOK in four parts, which a step keeps for different reasons.         *)
Flags ==
    /\ exists \in BOOLEAN /\ paused \in BOOLEAN /\ flushing \in BOOLEAN
    /\ readOn \in BOOLEAN /\ writeOn \in BOOLEAN
    /\ status \in {"Starting", "Running", "Exited", "Failed"}

Counts ==
    /\ pending \in Backlog
    /\ input \in 0..InputSize
    /\ kernel \in 0..KernelSize /\ unread \in 0..KernelSize
    /\ errors \in 0..MaxErrors

Grids == size \in Sizes /\ drawn \in Sizes /\ told \in Sizes

Owners ==
    /\ child \in Processes \cup {NoProcess}
    /\ os \in [Processes -> ProcessStates]
    /\ handed \subseteq Processes

IInv ==
    /\ TypeOK /\ OutputKeepsFlowing /\ InputKeepsFlowing
    /\ WaitedForOnce /\ StatusIsCurrent /\ Aside

LEMMA Sized ==
    /\ NoProcess \notin Processes
    /\ FirstSize \in Sizes
    /\ ChunkSize \in Nat \ {0} /\ BatchSize \in Nat \ {0}
    /\ PauseSize \in Nat /\ ResumeSize \in Nat /\ ResumeSize < PauseSize
    /\ InputSize \in Nat /\ KernelSize \in Nat /\ MaxErrors \in Nat
BY SessionAssumption DEF SessionAssumption

LEMMA TypeParts == TypeOK <=> Flags /\ Counts /\ Grids /\ Owners
BY DEF TypeOK, Flags, Counts, Grids, Owners

LEMMA InitIInv == Init => IInv
<1> SUFFICES ASSUME Init PROVE IInv
  OBVIOUS
<1>1. Flags /\ Grids /\ Owners
  BY Sized DEF Init, Flags, Grids, Owners, ProcessStates
<1>2. Counts
  <2>1. pending = 0 /\ input = 0 /\ kernel = 0 /\ unread = 0 /\ errors = 0
    BY DEF Init
  <2> QED
    BY <2>1, Sized DEF Counts, Backlog
<1>3. OutputKeepsFlowing /\ InputKeepsFlowing
  BY DEF Init, OutputKeepsFlowing, InputKeepsFlowing, Running
<1>4. WaitedForOnce /\ StatusIsCurrent /\ Aside
  BY Sized DEF Init, WaitedForOnce, StatusIsCurrent, Aside, Running
<1> QED
  BY <1>1, <1>2, <1>3, <1>4, TypeParts DEF IInv

(* What the three pieces that move bytes leave behind.                     *)
LEMMA FlushedShape ==
    ASSUME Counts, NEW n \in 0..InputSize, n <= InputSize - input,
           NEW failed \in BOOLEAN, Flushed(n, failed)
    PROVE  /\ input' \in 0..InputSize /\ errors' \in 0..MaxErrors
           /\ writeOn' \in BOOLEAN /\ (writeOn' <=> input' > 0)
<1> USE Sized DEF Counts
<1>1. CASE failed
  <2>1. input' = 0 /\ errors' \in 0..MaxErrors
    BY <1>1 DEF Flushed, Fails
  <2>2. writeOn' = FALSE
    BY <1>1 DEF Flushed
  <2>3. 0 \in 0..InputSize /\ ~(0 > 0)
    OBVIOUS
  <2> QED
    BY <2>1, <2>2, <2>3, Zenon
<1>2. CASE ~failed
  <2>1. input' \in 0..(input + n) /\ errors' = errors
    BY <1>2 DEF Flushed, Works
  <2>2. input' \in 0..InputSize /\ errors' \in 0..MaxErrors
    BY <2>1
  <2>3. writeOn' = (input' > 0)
    BY <1>2 DEF Flushed
  <2>4. (input' > 0) \in BOOLEAN
    BY <2>2
  <2> QED
    BY <2>2, <2>3, <2>4, Zenon
<1> QED
  BY <1>1, <1>2

LEMMA ReceivedShape ==
    ASSUME Flags, Counts, OutputKeepsFlowing, Aside, readOn, NEW n \in 0..(2 * BatchSize - 1),
           Received(n)
    PROVE  /\ pending' \in Backlog /\ paused' \in BOOLEAN /\ flushing' \in BOOLEAN
           /\ flushing' <=> pending' > 0
           /\ paused' => pending' > ResumeSize
           /\ ~paused' => pending' < PauseSize
           /\ paused' <=> n > 0 /\ Pauses(n)
<1>1. paused = FALSE /\ pending \in Nat /\ pending < PauseSize
  BY Sized DEF Flags, Counts, Backlog, OutputKeepsFlowing, Aside, Running
<1>2. Pauses(n) <=> pending + n >= PauseSize
  BY <1>1 DEF Pauses
<1>3. pending' = pending + n
  BY DEF Received
<1>4. pending' \in Backlog
  BY <1>1, <1>3, Sized DEF Backlog
<1>5. paused' \in BOOLEAN /\ (paused' <=> n > 0 /\ Pauses(n))
  <2>1. paused' = (paused \/ (n > 0 /\ Pauses(n)))
    BY DEF Received
  <2> QED
    BY <2>1, <1>1, Zenon
<1>6. flushing' \in BOOLEAN /\ (flushing' <=> flushing \/ n > 0)
  <2>1. flushing' = (flushing \/ n > 0)
    BY DEF Received
  <2> QED
    BY <2>1, Zenon
<1>7. flushing' <=> pending' > 0
  BY <1>1, <1>3, <1>6, Sized DEF OutputKeepsFlowing
<1>8. paused' <=> n > 0 /\ pending + n >= PauseSize
  BY <1>2, <1>5
<1>9. n = 0 => pending' < PauseSize
  BY <1>1, <1>3
<1> QED
  BY <1>1, <1>3, <1>4, <1>5, <1>6, <1>7, <1>8, <1>9, Sized

LEMMA FlushOutputShape ==
    ASSUME Flags, Counts, OutputKeepsFlowing, Aside, NEW r \in 0..InputSize, FlushOutput(r)
    PROVE  /\ pending' \in Backlog /\ paused' \in BOOLEAN /\ flushing' \in BOOLEAN
           /\ readOn' \in BOOLEAN
           /\ flushing' <=> pending' > 0
           /\ paused' => pending' > ResumeSize
           /\ ~paused' => pending' < PauseSize
           /\ Running => (readOn' <=> ~paused')
           /\ readOn' => Running
<1>1. pending' \in Nat /\ pending' <= pending /\ pending' \in Backlog
  BY Sized DEF FlushOutput, Smaller, Counts, Backlog
<1>2. flushing' \in BOOLEAN /\ (flushing' <=> pending' > 0)
  <2>1. flushing' = (pending' > 0)
    BY DEF FlushOutput
  <2>2. (pending' > 0) \in BOOLEAN
    BY <1>1
  <2> QED
    BY <2>1, <2>2, Zenon
<1>3. CASE Resumes(pending')
  <2>1. paused /\ pending' <= ResumeSize
    BY <1>3 DEF Resumes
  <2>2. paused' = FALSE
    BY <1>3, Zenon DEF FlushOutput
  <2>3. readOn' = Running
    BY <1>3 DEF FlushOutput
  <2>4. readOn' \in BOOLEAN /\ (readOn' <=> Running)
    BY <2>3, Zenon DEF Running
  <2>5. pending' < PauseSize
    BY <1>1, <2>1, Sized
  <2> QED
    BY <1>1, <1>2, <2>2, <2>4, <2>5, Zenon
<1>4. CASE ~Resumes(pending')
  <2>1. readOn' = readOn
    BY <1>4 DEF FlushOutput
  <2>2. paused' = paused
    BY <1>4, Zenon DEF FlushOutput, Flags
  <2>3. paused => pending' > ResumeSize
    BY <1>1, <1>4, Sized DEF Resumes
  <2> QED
    BY <1>1, <1>2, <2>1, <2>2, <2>3, Sized DEF Flags, Counts, Backlog, OutputKeepsFlowing, Aside
<1> QED
  BY <1>3, <1>4

LEMMA FlushOutputInput ==
    ASSUME Flags, Counts, InputKeepsFlowing, NEW r \in 0..InputSize, FlushOutput(r)
    PROVE  /\ input' \in 0..InputSize /\ errors' \in 0..MaxErrors
           /\ writeOn' \in BOOLEAN /\ (writeOn' <=> input' > 0)
           /\ input' > 0 => Running
           /\ status' \in {status, "Failed"}
<1> PICK failed \in BOOLEAN :
        /\ IF r > 0 THEN Written(r, failed)
           ELSE ~failed /\ Works /\ UNCHANGED <<input, writeOn>>
        /\ ShowsFailure(failed)
  BY DEF FlushOutput
<1>1. status' \in {status, "Failed"}
  BY DEF ShowsFailure
<1>2. CASE UNCHANGED <<input, writeOn>> /\ Works
  BY <1>1, <1>2 DEF Works, Counts, Flags, InputKeepsFlowing
<1>3. CASE ~Refuses(r) /\ Flushed(r, failed)
  <2>1. r <= InputSize - input /\ Running
    BY <1>3, Sized DEF Refuses, Counts
  <2> QED
    BY <1>1, <1>3, <2>1, FlushedShape
<1> QED
  BY <1>2, <1>3 DEF Written

LEMMA NextIInv == IInv /\ [Next]_vars => IInv'
<1> SUFFICES ASSUME IInv, [Next]_vars PROVE IInv'
  OBVIOUS
<1>parts. /\ Flags /\ Counts /\ Grids /\ Owners /\ OutputKeepsFlowing
         /\ InputKeepsFlowing /\ WaitedForOnce /\ StatusIsCurrent /\ Aside
  BY TypeParts DEF IInv
<1>whole. Flags' /\ Counts' /\ Grids' /\ Owners' /\ OutputKeepsFlowing' /\ InputKeepsFlowing'
            /\ WaitedForOnce' /\ StatusIsCurrent' /\ Aside' => IInv'
  BY DEF IInv, TypeOK, Flags, Counts, Grids, Owners
<1> USE <1>parts
<1>1. ASSUME NEW n \in 1..KernelSize, Produce(n) PROVE IInv'
  <2>1. UNCHANGED <<exists, status, pending, paused, flushing, size, drawn, child, input,
                    readOn, writeOn, told, unread, os, handed, errors>>
    BY <1>1 DEF Produce, session, backend, system
  <2>2. Flags' /\ Grids' /\ Owners' /\ OutputKeepsFlowing'
        /\ InputKeepsFlowing' /\ WaitedForOnce' /\ StatusIsCurrent' /\ Aside'
    BY <2>1 DEF Flags, Grids, Owners, ProcessStates, OutputKeepsFlowing, InputKeepsFlowing, WaitedForOnce, StatusIsCurrent, Aside, Running
  <2>3. Counts'
    BY <1>1, <2>1, Sized DEF Produce, Counts, Backlog, Works, Fails
  <2> QED
    BY <2>2, <2>3, <1>whole
<1>2. ASSUME NEW p \in Processes, Exit(p) PROVE IInv'
  <2>1. UNCHANGED <<exists, status, pending, paused, flushing, size, drawn, child, input,
                    readOn, writeOn, told, kernel, unread, handed, errors>>
    BY <1>2 DEF Exit, session, backend, system
  <2>2. Flags' /\ Counts' /\ Grids' /\ OutputKeepsFlowing'
        /\ InputKeepsFlowing' /\ StatusIsCurrent'
    BY <2>1 DEF Flags, Counts, Backlog, Grids, OutputKeepsFlowing, InputKeepsFlowing, StatusIsCurrent, Running
  <2>3. Owners'
    BY <1>2, <2>1, Sized DEF Exit, Owners, ProcessStates
  <2>4. WaitedForOnce'
    BY <1>2, <2>1, Sized DEF Exit, WaitedForOnce, Owners, Running
  <2>5. Aside'
    BY <1>2, <2>1, Sized DEF Exit, Aside, Owners, Running
  <2> QED
    BY <2>2, <2>3, <2>4, <2>5, <1>whole
<1>3. ASSUME NEW p \in Processes, Reap(p) PROVE IInv'
  <2>1. UNCHANGED <<exists, status, pending, paused, flushing, size, drawn, child, input,
                    readOn, writeOn, told, kernel, unread, handed, errors>>
    BY <1>3 DEF Reap, session, backend, system
  <2>2. Flags' /\ Counts' /\ Grids' /\ OutputKeepsFlowing'
        /\ InputKeepsFlowing' /\ StatusIsCurrent'
    BY <2>1 DEF Flags, Counts, Backlog, Grids, OutputKeepsFlowing, InputKeepsFlowing, StatusIsCurrent, Running
  <2>3. Owners'
    BY <1>3, <2>1, Sized DEF Reap, Owners, ProcessStates
  <2>4. WaitedForOnce'
    BY <1>3, <2>1, Sized DEF Reap, WaitedForOnce, Owners, Running
  <2>5. Aside'
    BY <1>3, <2>1, Sized DEF Reap, Aside, Owners, Running
  <2> QED
    BY <2>2, <2>3, <2>4, <2>5, <1>whole
<1>4. CASE Start
  <2> USE <1>4 DEF Start, Started, StartsNothing, HandOver, session, backend, system
  <2>a. ~Running /\ ~paused /\ ~writeOn /\ UNCHANGED <<pending, paused, flushing, input>>
    BY DEF StatusIsCurrent, Running, InputKeepsFlowing, Aside, OutputKeepsFlowing
  <2>1. Flags'
    BY Sized DEF Flags, Counts, Running, Works, Fails, Aside
  <2>2. Counts'
    BY Sized DEF Counts, Flags, Backlog, InputKeepsFlowing, Running, Works, Fails, Aside
  <2>3. Grids'
    BY Sized DEF Grids, Running, Works, Fails, Aside
  <2>4. Owners'
    BY Sized DEF Owners, ProcessStates, Running, Works, Fails, Aside
  <2>b. pending' = 0 /\ ~paused' /\ (flushing' <=> pending' > 0)
    BY <2>a DEF Aside, OutputKeepsFlowing
  <2>c. Running' => readOn'
    BY Sized DEF Running
  <2>5. OutputKeepsFlowing'
    BY <2>b, <2>c DEF OutputKeepsFlowing
  <2>6. InputKeepsFlowing'
    BY <2>a DEF Flags, InputKeepsFlowing, StatusIsCurrent
  <2>7. WaitedForOnce'
    BY Sized DEF Owners, ProcessStates, WaitedForOnce, Running, Works, Fails, Aside
  <2>8. StatusIsCurrent'
    BY Sized DEF Flags, InputKeepsFlowing, StatusIsCurrent, Running, Works, Fails, Aside
  <2>9. Aside'
    BY Sized DEF Counts, Backlog, Owners, ProcessStates, WaitedForOnce, OutputKeepsFlowing, Running, Works, Fails, Aside
  <2> QED
    BY <2>1, <2>2, <2>3, <2>4, <2>5, <2>6, <2>7, <2>8, <2>9, <1>whole
<1>5. CASE Restart
  <2> USE <1>5 DEF Restart, Terminated, Started, StartsNothing, HandOver, Running, Smaller, Works, Fails, session, backend, system, Aside
  <2>1. Flags'
    BY Sized DEF Flags, Counts
  <2>2. Counts'
    BY Sized DEF Counts, Flags, Backlog, InputKeepsFlowing
  <2>3. Grids'
    BY Sized DEF Grids
  <2>4. Owners'
    BY Sized DEF Owners, ProcessStates
  <2>5. OutputKeepsFlowing'
    BY Sized DEF Flags, Counts, Backlog, OutputKeepsFlowing
  <2>6. InputKeepsFlowing'
    BY Sized DEF Flags, Counts, InputKeepsFlowing
  <2>7. WaitedForOnce'
    BY Sized DEF Owners, ProcessStates, WaitedForOnce
  <2>8. StatusIsCurrent'
    BY Sized DEF Flags, InputKeepsFlowing, StatusIsCurrent
  <2>9. Aside'
    BY Sized DEF Counts, Backlog, Owners, ProcessStates, WaitedForOnce, OutputKeepsFlowing
  <2> QED
    BY <2>1, <2>2, <2>3, <2>4, <2>5, <2>6, <2>7, <2>8, <2>9, <1>whole
<1>6. CASE Destroy
  <2> USE <1>6 DEF Destroy, Terminated, HandOver, Running, Smaller, Works, Fails, session, backend, system, Aside
  <2>1. Flags'
    BY Sized DEF Flags, Counts
  <2>2. Counts'
    BY Sized DEF Counts, Flags, Backlog, InputKeepsFlowing
  <2>3. Grids'
    BY Sized DEF Grids
  <2>4. Owners'
    BY Sized DEF Owners, ProcessStates
  <2>5. OutputKeepsFlowing'
    BY Sized DEF Flags, Counts, Backlog, OutputKeepsFlowing
  <2>6. InputKeepsFlowing'
    BY Sized DEF Flags, Counts, InputKeepsFlowing
  <2>7. WaitedForOnce'
    BY Sized DEF Owners, ProcessStates, WaitedForOnce
  <2>8. StatusIsCurrent'
    BY Sized DEF Flags, InputKeepsFlowing, StatusIsCurrent
  <2>9. Aside'
    BY Sized DEF Counts, Backlog, Owners, ProcessStates, WaitedForOnce, OutputKeepsFlowing
  <2> QED
    BY <2>1, <2>2, <2>3, <2>4, <2>5, <2>6, <2>7, <2>8, <2>9, <1>whole
<1>7. ASSUME NEW n \in 1..InputSize, Write(n) PROVE IInv'
  <2> USE <1>7
  <2>a. PICK failed \in BOOLEAN : Flushed(n, failed) /\ ShowsFailure(failed)
    BY DEF Write
  <2>b. n \in 0..InputSize /\ n <= InputSize - input /\ Running
    BY Sized DEF Write, Refuses, Counts, Running
  <2>c. /\ input' \in 0..InputSize /\ errors' \in 0..MaxErrors
        /\ writeOn' \in BOOLEAN /\ (writeOn' <=> input' > 0)
    BY <2>a, <2>b, FlushedShape
  <2>d. status' \in {status, "Failed"}
    BY <2>a DEF ShowsFailure
  <2>e. UNCHANGED <<exists, pending, paused, flushing, size, drawn,
                    child, readOn, told, kernel, unread, os, handed>>
    BY DEF Write
  <2>1. Flags'
    BY <2>b, <2>c, <2>d, <2>e DEF Flags, Counts, Running, Aside
  <2>2. Counts'
    BY <2>b, <2>c, <2>d, <2>e DEF Counts, Flags, Backlog, InputKeepsFlowing, Running, Aside
  <2>3. Grids'
    BY <2>b, <2>c, <2>d, <2>e DEF Grids, Running, Aside
  <2>4. Owners'
    BY <2>b, <2>c, <2>d, <2>e DEF Owners, ProcessStates, Running, Aside
  <2>5. OutputKeepsFlowing'
    BY <2>b, <2>c, <2>d, <2>e DEF Flags, Counts, Backlog, OutputKeepsFlowing, Running, Aside
  <2>6. InputKeepsFlowing'
    BY <2>b, <2>c, <2>d, <2>e DEF Flags, Counts, InputKeepsFlowing, Running, Aside
  <2>7. WaitedForOnce'
    BY <2>b, <2>c, <2>d, <2>e DEF Owners, ProcessStates, WaitedForOnce, Running, Aside
  <2>8. StatusIsCurrent'
    BY <2>b, <2>c, <2>d, <2>e DEF Flags, InputKeepsFlowing, StatusIsCurrent, Running, Aside
  <2>9. Aside'
    BY <2>b, <2>c, <2>d, <2>e DEF Counts, Backlog, Owners, ProcessStates, WaitedForOnce, OutputKeepsFlowing, Running, Aside
  <2> QED
    BY <2>1, <2>2, <2>3, <2>4, <2>5, <2>6, <2>7, <2>8, <2>9, <1>whole
<1>8. CASE FlushInput
  <2> USE <1>8
  <2>a. PICK failed \in BOOLEAN : Flushed(0, failed) /\ ShowsFailure(failed)
    BY DEF FlushInput
  <2>b. 0 \in 0..InputSize /\ 0 <= InputSize - input /\ Running
    BY Sized DEF FlushInput, Counts, InputKeepsFlowing
  <2>c. /\ input' \in 0..InputSize /\ errors' \in 0..MaxErrors
        /\ writeOn' \in BOOLEAN /\ (writeOn' <=> input' > 0)
    BY <2>a, <2>b, FlushedShape
  <2>d. status' \in {status, "Failed"}
    BY <2>a DEF ShowsFailure
  <2>e. UNCHANGED <<exists, pending, paused, flushing, size, drawn,
                    child, readOn, told, kernel, unread, os, handed>>
    BY DEF FlushInput
  <2>1. Flags'
    BY <2>b, <2>c, <2>d, <2>e DEF Flags, Counts, Running, Aside
  <2>2. Counts'
    BY <2>b, <2>c, <2>d, <2>e DEF Counts, Flags, Backlog, InputKeepsFlowing, Running, Aside
  <2>3. Grids'
    BY <2>b, <2>c, <2>d, <2>e DEF Grids, Running, Aside
  <2>4. Owners'
    BY <2>b, <2>c, <2>d, <2>e DEF Owners, ProcessStates, Running, Aside
  <2>5. OutputKeepsFlowing'
    BY <2>b, <2>c, <2>d, <2>e DEF Flags, Counts, Backlog, OutputKeepsFlowing, Running, Aside
  <2>6. InputKeepsFlowing'
    BY <2>b, <2>c, <2>d, <2>e DEF Flags, Counts, InputKeepsFlowing, Running, Aside
  <2>7. WaitedForOnce'
    BY <2>b, <2>c, <2>d, <2>e DEF Owners, ProcessStates, WaitedForOnce, Running, Aside
  <2>8. StatusIsCurrent'
    BY <2>b, <2>c, <2>d, <2>e DEF Flags, InputKeepsFlowing, StatusIsCurrent, Running, Aside
  <2>9. Aside'
    BY <2>b, <2>c, <2>d, <2>e DEF Counts, Backlog, Owners, ProcessStates, WaitedForOnce, OutputKeepsFlowing, Running, Aside
  <2> QED
    BY <2>1, <2>2, <2>3, <2>4, <2>5, <2>6, <2>7, <2>8, <2>9, <1>whole
<1>9. CASE CheckProcess
  <2> USE <1>9 DEF CheckProcess, Finish, Running, Smaller, Works, Fails, session, backend, system, Aside
  <2>1. Flags'
    BY Sized DEF Flags, Counts
  <2>2. Counts'
    BY Sized DEF Counts, Flags, Backlog, InputKeepsFlowing
  <2>3. Grids'
    BY Sized DEF Grids
  <2>4. Owners'
    BY Sized DEF Owners, ProcessStates
  <2>5. OutputKeepsFlowing'
    BY Sized DEF Flags, Counts, Backlog, OutputKeepsFlowing
  <2>6. InputKeepsFlowing'
    BY Sized DEF Flags, Counts, InputKeepsFlowing
  <2>7. WaitedForOnce'
    BY Sized DEF Owners, ProcessStates, WaitedForOnce
  <2>8. StatusIsCurrent'
    BY Sized DEF Flags, InputKeepsFlowing, StatusIsCurrent
  <2>9. Aside'
    BY Sized DEF Counts, Backlog, Owners, ProcessStates, WaitedForOnce, OutputKeepsFlowing
  <2> QED
    BY <2>1, <2>2, <2>3, <2>4, <2>5, <2>6, <2>7, <2>8, <2>9, <1>whole
<1>10. CASE DrainOutput
  <2> USE <1>10
  <2>a. readOn /\ Running /\ ~paused
    BY DEF DrainOutput, Aside, OutputKeepsFlowing
  <2>b. PICK n \in Batches :
          /\ Received(n)
          /\ \/ /\ kernel' = kernel - n
                /\ readOn' = (~(n > 0 /\ Pauses(n)))
                /\ UNCHANGED <<status, child, input, writeOn, unread, os>>
             \/ Finish(0)
    BY DEF DrainOutput
  <2>c. n \in 0..(2 * BatchSize - 1) /\ n \in 0..kernel
    BY <2>b, Sized DEF Counts, Smaller, Batches
  <2>d. /\ pending' \in Backlog /\ paused' \in BOOLEAN /\ flushing' \in BOOLEAN
        /\ flushing' <=> pending' > 0
        /\ paused' => pending' > ResumeSize
        /\ ~paused' => pending' < PauseSize
        /\ paused' <=> n > 0 /\ Pauses(n)
    BY <2>a, <2>b, <2>c, ReceivedShape
  <2>e. UNCHANGED <<exists, size, drawn, told, handed, errors>>
    BY DEF DrainOutput
  <2>f. CASE /\ kernel' = kernel - n
             /\ readOn' = (~(n > 0 /\ Pauses(n)))
             /\ UNCHANGED <<status, child, input, writeOn, unread, os>>
    <3>a. readOn' \in BOOLEAN /\ (readOn' <=> ~paused')
      BY <2>d, <2>f, Zenon
    <3>b. kernel' \in 0..KernelSize /\ UNCHANGED <<status, child, input, writeOn, unread, os>>
      BY <2>c, <2>f, Sized DEF Counts
    <3>1. Flags'
      BY <2>a, <2>d, <2>e, <3>a, <3>b DEF Flags, Counts, Running, Aside
    <3>2. Counts'
      BY <2>a, <2>d, <2>e, <3>a, <3>b DEF Counts, Flags, Backlog, InputKeepsFlowing, Running, Aside
    <3>3. Grids'
      BY <2>a, <2>d, <2>e, <3>a, <3>b DEF Grids, Running, Aside
    <3>4. Owners'
      BY <2>a, <2>d, <2>e, <3>a, <3>b DEF Owners, ProcessStates, Running, Aside
    <3>5. OutputKeepsFlowing'
      BY <2>a, <2>d, <2>e, <3>a, <3>b DEF Flags, Counts, Backlog, OutputKeepsFlowing, Running, Aside
    <3>6. InputKeepsFlowing'
      BY <2>a, <2>d, <2>e, <3>a, <3>b DEF Flags, Counts, InputKeepsFlowing, Running, Aside
    <3>7. WaitedForOnce'
      BY <2>a, <2>d, <2>e, <3>a, <3>b DEF Owners, ProcessStates, WaitedForOnce, Running, Aside
    <3>8. StatusIsCurrent'
      BY <2>a, <2>d, <2>e, <3>a, <3>b DEF Flags, InputKeepsFlowing, StatusIsCurrent, Running, Aside
    <3>9. Aside'
      BY <2>a, <2>d, <2>e, <3>a, <3>b DEF Counts, Backlog, Owners, ProcessStates, WaitedForOnce, OutputKeepsFlowing, Running, Aside
    <3> QED
      BY <3>1, <3>2, <3>3, <3>4, <3>5, <3>6, <3>7, <3>8, <3>9, <1>whole
  <2>g. CASE Finish(0)
    <3> USE <2>g DEF Finish
    <3>1. Flags'
      BY <2>a, <2>d, <2>e, Sized DEF Flags, Counts, Running, Aside
    <3>2. Counts'
      BY <2>a, <2>d, <2>e, Sized DEF Counts, Flags, Backlog, InputKeepsFlowing, Running, Aside
    <3>3. Grids'
      BY <2>a, <2>d, <2>e, Sized DEF Grids, Running, Aside
    <3>4. Owners'
      BY <2>a, <2>d, <2>e, Sized DEF Owners, ProcessStates, Running, Aside
    <3>5. OutputKeepsFlowing'
      BY <2>a, <2>d, <2>e, Sized DEF Flags, Counts, Backlog, OutputKeepsFlowing, Running, Aside
    <3>6. InputKeepsFlowing'
      BY <2>a, <2>d, <2>e, Sized DEF Flags, Counts, InputKeepsFlowing, Running, Aside
    <3>7. WaitedForOnce'
      BY <2>a, <2>d, <2>e, Sized DEF Owners, ProcessStates, WaitedForOnce, Running, Aside
    <3>8. StatusIsCurrent'
      BY <2>a, <2>d, <2>e, Sized DEF Flags, InputKeepsFlowing, StatusIsCurrent, Running, Aside
    <3>9. Aside'
      BY <2>a, <2>d, <2>e, Sized DEF Counts, Backlog, Owners, ProcessStates, WaitedForOnce, OutputKeepsFlowing, Running, Aside
    <3> QED
      BY <3>1, <3>2, <3>3, <3>4, <3>5, <3>6, <3>7, <3>8, <3>9, <1>whole
  <2> QED
    BY <2>b, <2>f, <2>g
<1>11. CASE DrainFails
  <2> USE <1>11
  <2>a. readOn /\ Running /\ ~paused
    BY DEF DrainFails, Aside, OutputKeepsFlowing
  <2>b. PICK n \in 0..Smaller(kernel, BatchSize - 1) :
          /\ Received(n)
          /\ kernel' = kernel - n /\ readOn' = (~(n > 0 /\ Pauses(n)))
    BY DEF DrainFails
  <2>c. n \in 0..(2 * BatchSize - 1) /\ n \in 0..kernel
    BY <2>b, Sized DEF Counts, Smaller, Batches
  <2>d. /\ pending' \in Backlog /\ paused' \in BOOLEAN /\ flushing' \in BOOLEAN
        /\ flushing' <=> pending' > 0
        /\ paused' => pending' > ResumeSize
        /\ ~paused' => pending' < PauseSize
        /\ paused' <=> n > 0 /\ Pauses(n)
    BY <2>a, <2>b, <2>c, ReceivedShape
  <2>e. readOn' \in BOOLEAN /\ (readOn' <=> ~paused')
    BY <2>b, <2>d, Zenon
  <2>f. /\ kernel' \in 0..KernelSize /\ errors' \in 0..MaxErrors /\ status' = "Failed"
        /\ UNCHANGED <<exists, size, drawn, child, input, writeOn, told, unread, os, handed>>
    BY <2>b, <2>c, Sized DEF DrainFails, Fails, Counts
  <2>1. Flags'
    BY <2>a, <2>d, <2>e, <2>f DEF Flags, Counts, Running, Aside
  <2>2. Counts'
    BY <2>a, <2>d, <2>e, <2>f DEF Counts, Flags, Backlog, InputKeepsFlowing, Running, Aside
  <2>3. Grids'
    BY <2>a, <2>d, <2>e, <2>f DEF Grids, Running, Aside
  <2>4. Owners'
    BY <2>a, <2>d, <2>e, <2>f DEF Owners, ProcessStates, Running, Aside
  <2>5. OutputKeepsFlowing'
    BY <2>a, <2>d, <2>e, <2>f DEF Flags, Counts, Backlog, OutputKeepsFlowing, Running, Aside
  <2>6. InputKeepsFlowing'
    BY <2>a, <2>d, <2>e, <2>f DEF Flags, Counts, InputKeepsFlowing, Running, Aside
  <2>7. WaitedForOnce'
    BY <2>a, <2>d, <2>e, <2>f DEF Owners, ProcessStates, WaitedForOnce, Running, Aside
  <2>8. StatusIsCurrent'
    BY <2>a, <2>d, <2>e, <2>f DEF Flags, InputKeepsFlowing, StatusIsCurrent, Running, Aside
  <2>9. Aside'
    BY <2>a, <2>d, <2>e, <2>f DEF Counts, Backlog, Owners, ProcessStates, WaitedForOnce, OutputKeepsFlowing, Running, Aside
  <2> QED
    BY <2>1, <2>2, <2>3, <2>4, <2>5, <2>6, <2>7, <2>8, <2>9, <1>whole
<1>12. ASSUME NEW r \in 0..InputSize, FlushOutput(r) PROVE IInv'
  <2>a. /\ pending' \in Backlog /\ paused' \in BOOLEAN /\ flushing' \in BOOLEAN
        /\ readOn' \in BOOLEAN
        /\ flushing' <=> pending' > 0
        /\ paused' => pending' > ResumeSize
        /\ ~paused' => pending' < PauseSize
        /\ Running => (readOn' <=> ~paused')
        /\ readOn' => Running
    BY <1>12, FlushOutputShape
  <2>b. /\ input' \in 0..InputSize /\ errors' \in 0..MaxErrors
        /\ writeOn' \in BOOLEAN /\ (writeOn' <=> input' > 0)
        /\ input' > 0 => Running
        /\ status' \in {status, "Failed"}
    BY <1>12, FlushOutputInput
  <2>c. UNCHANGED <<exists, size, drawn, child, told, kernel, unread, os, handed>>
    BY <1>12 DEF FlushOutput
  <2>d. status # "Starting"
    BY <1>12, Sized DEF FlushOutput, Aside, OutputKeepsFlowing, Counts, Backlog
  <2>1. Flags'
    BY <2>a, <2>b, <2>c DEF Flags, Counts, Running, Aside
  <2>2. Counts'
    BY <2>a, <2>b, <2>c DEF Counts, Flags, Backlog, InputKeepsFlowing, Running, Aside
  <2>3. Grids'
    BY <2>a, <2>b, <2>c DEF Grids, Running, Aside
  <2>4. Owners'
    BY <2>a, <2>b, <2>c DEF Owners, ProcessStates, Running, Aside
  <2>5. OutputKeepsFlowing'
    BY <2>a, <2>b, <2>c DEF Flags, Counts, Backlog, OutputKeepsFlowing, Running, Aside
  <2>6. InputKeepsFlowing'
    BY <2>a, <2>b, <2>c DEF Flags, Counts, InputKeepsFlowing, Running, Aside
  <2>7. WaitedForOnce'
    BY <2>a, <2>b, <2>c DEF Owners, ProcessStates, WaitedForOnce, Running, Aside
  <2>8. StatusIsCurrent'
    BY <2>a, <2>b, <2>c DEF Flags, InputKeepsFlowing, StatusIsCurrent, Running, Aside
  <2>9. Aside'
    BY <2>a, <2>b, <2>c, <2>d DEF Counts, Backlog, Owners, ProcessStates, WaitedForOnce, OutputKeepsFlowing, Running, Aside
  <2> QED
    BY <2>1, <2>2, <2>3, <2>4, <2>5, <2>6, <2>7, <2>8, <2>9, <1>whole
<1>13. ASSUME NEW s \in Sizes, Resize(s) PROVE IInv'
  <2>1. UNCHANGED <<exists, status, pending, paused, flushing, child, input, readOn, writeOn,
                    kernel, unread, os, handed>>
    BY <1>13 DEF Resize, session, backend, system
  <2>2. Flags' /\ Owners' /\ OutputKeepsFlowing' /\ InputKeepsFlowing'
        /\ WaitedForOnce' /\ StatusIsCurrent' /\ Aside'
    BY <2>1 DEF Flags, Owners, ProcessStates, OutputKeepsFlowing, InputKeepsFlowing, WaitedForOnce, StatusIsCurrent, Aside, Running
  <2>3. Counts'
    BY <1>13, <2>1, Sized DEF Resize, Counts, Backlog, Works, Fails
  <2>4. Grids'
    BY <1>13, <2>1, Sized DEF Resize, Grids, Works, Fails
  <2> QED
    BY <2>2, <2>3, <2>4, <1>whole
<1>14. CASE UNCHANGED vars
  <2>1. UNCHANGED <<exists, status, pending, paused, flushing, size, drawn, child, input,
                    readOn, writeOn, told, kernel, unread, os, handed, errors>>
    BY <1>14 DEF vars, session, backend, system
  <2>2. Flags' /\ Counts' /\ Grids' /\ Owners'
        /\ OutputKeepsFlowing' /\ InputKeepsFlowing' /\ WaitedForOnce' /\ StatusIsCurrent' /\ Aside'
    BY <2>1 DEF Flags, Counts, Backlog, Grids, Owners, ProcessStates, OutputKeepsFlowing, InputKeepsFlowing, WaitedForOnce, StatusIsCurrent, Aside, Running
  <2> QED
    BY <2>2, <1>whole
<1> QED
  BY <1>1, <1>2, <1>3, <1>4, <1>5, <1>6, <1>7, <1>8, <1>9, <1>10, <1>11, <1>12, <1>13, <1>14 DEF Next

LEMMA InductiveInvariant == Spec => []IInv
BY InitIInv, NextIInv, PTL DEF Spec

(* Every reachable value has its type; the backlog is bounded, whatever    *)
(* the sizes are.                                                          *)
THEOREM TypeCorrect == Spec => []TypeOK
<1>1. IInv => TypeOK
  BY DEF IInv
<1> QED
  BY <1>1, InductiveInvariant, PTL

(* No interleaving of reads, flushes, exits and restarts leaves output     *)
(* behind with nothing to move it.                                         *)
THEOREM OutputNeverStuck == Spec => []OutputKeepsFlowing
<1>1. IInv => OutputKeepsFlowing
  BY DEF IInv
<1> QED
  BY <1>1, InductiveInvariant, PTL

(* No write, partial write or failure leaves input behind with nothing to  *)
(* move it.                                                                *)
THEOREM InputNeverStuck == Spec => []InputKeepsFlowing
<1>1. IInv => InputKeepsFlowing
  BY DEF IInv
<1> QED
  BY <1>1, InductiveInvariant, PTL

(* The session never waits for, or signals, a process that is the reaper's *)
(* or nobody's any more.                                                   *)
THEOREM EachProcessWaitedForOnce == Spec => []WaitedForOnce
<1>1. IInv => WaitedForOnce
  BY DEF IInv
<1> QED
  BY <1>1, InductiveInvariant, PTL

(* The status a session shows is that of its current process.              *)
THEOREM StatusAlwaysCurrent == Spec => []StatusIsCurrent
<1>1. IInv => StatusIsCurrent
  BY DEF IInv
<1> QED
  BY <1>1, InductiveInvariant, PTL

-----------------------------------------------------------------------------
\* The settings

(* The setting and those that have it, and the saves on their way, each of  *)
(* which was counted.                                                      *)
Holders ==
    /\ storedAllowed \in BOOLEAN /\ allowed \in BOOLEAN /\ committed \in BOOLEAN /\ manager \in BOOLEAN
    /\ DOMAIN emulators \subseteq Terminals
    /\ \A t \in DOMAIN emulators : emulators[t] \in BOOLEAN

Saves ==
    /\ onTheWay \in Seq([value : BOOLEAN, revision : Nat])
    /\ revision \in 0..MaxSettings /\ Len(onTheWay) <= revision
    /\ starts \in 1..MaxStarts /\ troubles \in 0..MaxFaults

(* Whoever is started is given what the manager has.                       *)
Permitted == Holders /\ (manager => allowed) /\ OnlyWhileAllowed

LEMMA SettingsTypes == Holders /\ Saves => SettingsTypeOK
BY SettingsAssumption DEF Holders, Saves, SettingsTypeOK

LEMMA SavesKept ==
    /\ SettingsInit => Saves
    /\ Saves /\ Holders /\ [SettingsNext]_settingsVars => Saves'
<1>1. SettingsInit => Saves
  BY SettingsAssumption DEF SettingsInit, Saves
<1>2. ASSUME Saves, Holders, [SettingsNext]_settingsVars PROVE Saves'
  <2> USE <1>2, SettingsAssumption DEF Saves
  <2>1. CASE SetAllowed
    <3>1. [value |-> ~allowed, revision |-> revision + 1] \in [value : BOOLEAN, revision : Nat]
      OBVIOUS
    <3> QED
      BY <2>1, <3>1 DEF SetAllowed
  <2>2. CASE SaveSucceeds
    BY <2>2 DEF SaveSucceeds
  <2>3. CASE SaveFails
    BY <2>3 DEF SaveFails
  <2>4. ASSUME NEW t \in Terminals, CreateTerminal(t) \/ CloseTerminal(t) PROVE Saves'
    BY <2>4 DEF CreateTerminal, CloseTerminal
  <2>5. CASE StartAgain
    BY <2>5 DEF StartAgain, Opened
  <2>6. CASE UNCHANGED settingsVars
    BY <2>6 DEF settingsVars
  <2> QED
    BY <2>1, <2>2, <2>3, <2>4, <2>5, <2>6 DEF SettingsNext
<1> QED
  BY <1>1, <1>2

LEMMA InitPermitted == SettingsInit => Permitted
<1> SUFFICES ASSUME SettingsInit PROVE Permitted
  OBVIOUS
<1>1. storedAllowed = FALSE /\ allowed = FALSE /\ committed = FALSE /\ manager = FALSE
  BY DEF SettingsInit
<1>2. PICK sessions \in SUBSET Terminals : emulators = [t \in sessions |-> FALSE]
  BY DEF SettingsInit
<1>3. DOMAIN emulators \subseteq Terminals /\ \A t \in DOMAIN emulators : emulators[t] = FALSE
  BY <1>2
<1> QED
  BY <1>1, <1>3, Zenon DEF Permitted, Holders, OnlyWhileAllowed

(* A value that everybody is handed is everybody's.                        *)
LEMMA HandedToAll ==
    ASSUME Permitted, NEW value \in BOOLEAN, Handed(value), allowed' = value,
           storedAllowed' \in BOOLEAN, committed' \in BOOLEAN
    PROVE  Permitted'
<1>1. manager' = value /\ DOMAIN emulators' \subseteq Terminals
  BY DEF Handed, Permitted, Holders
<1>2. \A t \in DOMAIN emulators' : emulators'[t] = value
  BY DEF Handed
<1> QED
  BY <1>1, <1>2, Zenon DEF Permitted, Holders, OnlyWhileAllowed

LEMMA StepPermitted == Permitted /\ Saves /\ [SettingsNext]_settingsVars => Permitted'
<1> SUFFICES ASSUME Permitted, Saves, [SettingsNext]_settingsVars PROVE Permitted'
  OBVIOUS
<1>1. storedAllowed \in BOOLEAN /\ allowed \in BOOLEAN /\ committed \in BOOLEAN /\ manager \in BOOLEAN
  BY DEF Permitted, Holders
<1>2. CASE SetAllowed
  <2>1. Handed(~allowed) /\ allowed' = (~allowed) /\ UNCHANGED <<storedAllowed, committed>>
    BY <1>2 DEF SetAllowed
  <2>2. (~allowed) \in BOOLEAN
    BY <1>1, Zenon
  <2> QED
    BY <1>1, <2>1, <2>2, HandedToAll
<1>3. CASE SaveSucceeds
  <2>1. Head(onTheWay).value \in BOOLEAN
    <3>1. onTheWay \in Seq([value : BOOLEAN, revision : Nat]) /\ onTheWay # <<>>
      BY <1>3 DEF SaveSucceeds, Saves
    <3>2. Head(onTheWay) \in [value : BOOLEAN, revision : Nat]
      BY <3>1, HeadTailProperties
    <3> QED
      BY <3>2, Zenon
  <2>2. /\ storedAllowed' = Head(onTheWay).value /\ committed' = Head(onTheWay).value
        /\ UNCHANGED <<allowed, manager, emulators>>
    BY <1>3 DEF SaveSucceeds
  <2> QED
    BY <2>1, <2>2, Zenon DEF Permitted, Holders, OnlyWhileAllowed
<1>4. CASE SaveFails
  <2>1. UNCHANGED <<storedAllowed, committed>>
    BY <1>4 DEF SaveFails
  <2>2. CASE Head(onTheWay).revision = revision
    BY <1>1, <1>4, <2>1, <2>2, HandedToAll DEF SaveFails, TakenBack
  <2>3. CASE Head(onTheWay).revision # revision
    <3>1. UNCHANGED <<allowed, manager, emulators>>
      BY <1>4, <2>3 DEF SaveFails
    <3> QED
      BY <2>1, <3>1, Zenon DEF Permitted, Holders, OnlyWhileAllowed
  <2> QED
    BY <2>2, <2>3
<1>5. ASSUME NEW t \in Terminals, CreateTerminal(t) PROVE Permitted'
  <2>1. DOMAIN emulators' = DOMAIN emulators \cup {t}
    BY <1>5 DEF CreateTerminal
  <2>2. \A u \in DOMAIN emulators' : emulators'[u] = manager \/ (u \in DOMAIN emulators /\ emulators'[u] = emulators[u])
    BY <1>5 DEF CreateTerminal
  <2>3. UNCHANGED <<storedAllowed, allowed, committed, manager>>
    BY <1>5 DEF CreateTerminal
  <2>4. DOMAIN emulators' \subseteq Terminals
    BY <2>1, Zenon DEF Permitted, Holders
  <2> QED
    BY <2>2, <2>3, <2>4, Zenon DEF Permitted, Holders, OnlyWhileAllowed
<1>6. ASSUME NEW t \in Terminals, CloseTerminal(t) PROVE Permitted'
  <2>1. /\ DOMAIN emulators' \subseteq DOMAIN emulators
        /\ \A u \in DOMAIN emulators' : emulators'[u] = emulators[u]
    BY <1>6 DEF CloseTerminal
  <2>2. UNCHANGED <<storedAllowed, allowed, committed, manager>>
    BY <1>6 DEF CloseTerminal
  <2> QED
    BY <2>1, <2>2, Zenon DEF Permitted, Holders, OnlyWhileAllowed
<1>7. CASE StartAgain
  <2>1. /\ allowed' = storedAllowed /\ committed' = storedAllowed /\ manager' = FALSE
        /\ storedAllowed' = storedAllowed
        /\ DOMAIN emulators' = DOMAIN emulators /\ \A t \in DOMAIN emulators' : emulators'[t] = FALSE
    BY <1>7 DEF StartAgain, Opened
  <2> QED
    BY <2>1, Zenon DEF Permitted, Holders, OnlyWhileAllowed
<1>8. CASE UNCHANGED settingsVars
  <2>1. UNCHANGED <<storedAllowed, allowed, committed, manager, emulators>>
    BY <1>8 DEF settingsVars
  <2> QED
    BY <2>1, Zenon DEF Permitted, Holders, OnlyWhileAllowed
<1> QED
  BY <1>2, <1>3, <1>4, <1>5, <1>6, <1>7, <1>8 DEF SettingsNext

(* Every reachable value of the settings has its type.                     *)
THEOREM SettingsTypeCorrect == SettingsSpec => []SettingsTypeOK
<1>1. Permitted => Holders
  BY DEF Permitted
<1> QED
  BY <1>1, SettingsTypes, SavesKept, InitPermitted, StepPermitted, PTL DEF SettingsSpec

(* A program reaches the clipboard only while the reader allows it, however *)
(* changes, failing saves, starts and new sessions come together.           *)
THEOREM ClipboardOnlyWhileAllowed == SettingsSpec => []OnlyWhileAllowed
<1>1. Permitted => Holders /\ OnlyWhileAllowed
  BY DEF Permitted
<1> QED
  BY <1>1, SavesKept, InitPermitted, StepPermitted, PTL DEF SettingsSpec

-----------------------------------------------------------------------------
\* The console of Windows

Positions ==
    /\ main \in {"free", "flagged", "requested", "killed"}
    /\ reader \in {"none", "looks", "dozing", "asleep", "reads", "reaps", "tells", "ended"}
    /\ writer \in {"none", "looks", "dozing", "asleep", "writes", "gives up", "ended"}
    /\ shell \in {"none", "alive", "dead"}
    /\ handles \in BOOLEAN /\ running \in BOOLEAN
    /\ running => handles
    /\ main \in {"requested", "killed"} => ~running
    /\ HandlesOutliveTheirThreads

Amounts == shells \in 0..MaxShells /\ output \in 0..MaxOutput

(* A batch is the front of the queue while it is written, and begins anew    *)
(* with each look at it; while there is a console, what it was given and    *)
(* what waits is what was typed.                                           *)
Bytes ==
    /\ batch \in [bytes : Seq(Nat), offset : Nat]
    /\ queue \in Seq(Nat) /\ written \in Seq(Nat) /\ typed \in Seq(Nat)
    /\ batch.offset <= Len(queue)
    /\ writer \in {"looks", "dozing", "asleep"} => batch.offset = 0
    /\ writer = "writes" => /\ batch.offset <= Len(batch.bytes) /\ Len(batch.bytes) <= Len(queue)
                            /\ batch.bytes = SubSeq(queue, 1, Len(batch.bytes))
    /\ IsPrefix(written, typed)
    /\ handles => written \o Waiting = typed

CInv == Positions /\ Amounts /\ Bytes

LEMMA ConInitial == ConInit => CInv
<1> SUFFICES ASSUME ConInit PROVE CInv
  OBVIOUS
<1>1. Amounts
  BY ConAssumption DEF ConInit, Amounts
<1>5. Positions
  <2>1. handles = FALSE /\ running = FALSE
    BY DEF ConInit
  <2> QED
    BY <2>1 DEF ConInit, Positions, HandlesOutliveTheirThreads
<1>2. <<>> \in Seq(Nat) /\ Len(<<>>) = 0
  BY EmptySeq
<1>3. IsPrefix(<<>>, <<>>)
  BY <1>2 DEF IsPrefix
<1>4. batch \in [bytes : Seq(Nat), offset : Nat] /\ batch.offset = 0
  BY <1>2 DEF ConInit, NoBatch
<1> QED
  BY <1>1, <1>2, <1>3, <1>4, <1>5 DEF ConInit, CInv, Bytes

LEMMA PositionsKept == CInv /\ [ConNext]_conVars => Positions'
<1> SUFFICES ASSUME CInv, [ConNext]_conVars PROVE Positions'
  OBVIOUS
<1> USE DEF CInv, Positions, HandlesOutliveTheirThreads
<1>1. ASSUME Launch, main' = "free" PROVE Positions'
  BY <1>1 DEF Launch
<1>2. CASE StartConsole
  BY <1>1, <1>2 DEF StartConsole, flags, threads
<1>3. CASE WriteInput
  BY <1>3 DEF WriteInput, flags, Awake
<1>4. ASSUME NEW pause \in BOOLEAN, SetOutputPaused(pause) PROVE Positions'
  BY <1>4 DEF SetOutputPaused, Awake
<1>5. CASE Terminate
  BY <1>5 DEF Terminate, threads
<1>6. CASE RequestStop
  BY <1>6 DEF RequestStop, Awake
<1>7. CASE Kill
  BY <1>7 DEF Kill, Awake, flags
<1>8. CASE Join
  <2>1. CASE restarts
    <3>1. Launch
      BY <1>8, <2>1, Zenon DEF Join
    <3>2. main' = "free"
      BY <1>8 DEF Join
    <3> QED
      BY <1>1, <3>1, <3>2
  <2>2. CASE ~restarts
    <3>1. /\ main = "killed" /\ main' = "free" /\ handles' = FALSE /\ shell' = "none" /\ reader' = "none" /\ writer' = "none"
          /\ running' = running
      BY <1>8, <2>2 DEF Join, flags
    <3> QED
      BY <3>1
  <2> QED
    BY <2>1, <2>2
<1>9. CASE ReaderLooks
  BY <1>9 DEF ReaderLooks, flags
<1>10. CASE ReaderSleeps
  BY <1>10 DEF ReaderSleeps, flags
<1>11. CASE Read
  BY <1>11 DEF Read, flags
<1>12. CASE Reaped
  BY <1>12 DEF Reaped, Awake
<1>13. CASE TellsEnd
  BY <1>13 DEF TellsEnd, flags
<1>14. CASE WriterLooks
  BY <1>14 DEF WriterLooks, flags
<1>15. CASE WriterSleeps
  BY <1>15 DEF WriterSleeps, flags
<1>16. CASE WriteFails
  <2>1. running' \in BOOLEAN /\ (running' => running)
    <3>1. running' = (running /\ stopping)
      BY <1>16 DEF WriteFails
    <3> QED
      BY <3>1, Zenon
  <2> QED
    BY <1>16, <2>1 DEF WriteFails
<1>17. CASE GivesUp
  BY <1>17 DEF GivesUp
<1>18. CASE BatchWritten
  BY <1>18 DEF BatchWritten, flags
<1>19. ASSUME NEW n \in 1..MaxTyped, WriteFile(n) PROVE Positions'
  BY <1>19 DEF WriteFile, flags, threads
<1>20. CASE ShellPrints
  BY <1>20 DEF ShellPrints, flags, threads
<1>21. CASE ShellExits
  BY <1>21 DEF ShellExits, flags, threads
<1>22. CASE Deliver
  BY <1>22 DEF Deliver, flags, threads
<1>23. CASE UNCHANGED conVars
  BY <1>23 DEF conVars, flags, threads
<1> QED
  BY <1>2, <1>3, <1>4, <1>5, <1>6, <1>7, <1>8, <1>9, <1>10, <1>11, <1>12, <1>13, <1>14, <1>15, <1>16, <1>17,
     <1>18, <1>19, <1>20, <1>21, <1>22, <1>23 DEF ConNext, Terminating, Reading, Writing

LEMMA AmountsKept == CInv /\ [ConNext]_conVars => Amounts'
<1> SUFFICES ASSUME CInv, [ConNext]_conVars PROVE Amounts'
  OBVIOUS
<1> USE ConAssumption DEF CInv, Amounts
<1>1. ASSUME Launch PROVE Amounts'
  BY <1>1 DEF Launch
<1>2. CASE StartConsole \/ Join
  BY <1>1, <1>2 DEF StartConsole, Join
<1>3. CASE Read
  BY <1>3 DEF Read
<1>4. CASE ShellPrints
  <2>1. Len(events) \in Nat
    BY <1>4
  <2> QED
    BY <1>4, <2>1 DEF ShellPrints
<1>5. CASE Kill
  BY <1>5 DEF Kill
<1>6. CASE UNCHANGED <<shells, output>>
  BY <1>6
<1> QED
  BY <1>2, <1>3, <1>4, <1>5, <1>6
  DEF ConNext, Terminating, Reading, Writing, conVars, WriteInput, SetOutputPaused, Terminate, RequestStop, ReaderLooks,
      ReaderSleeps, Reaped, TellsEnd, WriterLooks, WriterSleeps, WriteFile, WriteFails, GivesUp, BatchWritten, ShellExits, Deliver

(* Sequences: what is taken off the front of what waits, and what is put to  *)
(* its end.                                                                *)
LEMMA RestTaken ==
    ASSUME NEW s \in Seq(Nat), NEW o \in Nat, NEW n \in Nat, o + n <= Len(s)
    PROVE  SubSeq(s, o + 1, o + n) \o SubSeq(s, o + n + 1, Len(s)) = SubSeq(s, o + 1, Len(s))
<1>1. o + 1 \in 1 .. Len(s) + 1 /\ o + n \in (o + 1) - 1 .. Len(s) /\ Len(s) \in o + n .. Len(s)
  OBVIOUS
<1> QED
  BY <1>1, ConcatAdjacentSubSeq

LEMMA RestIsSeq ==
    ASSUME NEW s \in Seq(Nat), NEW o \in Nat, NEW n \in Nat, n <= Len(s)
    PROVE  SubSeq(s, o + 1, n) \in Seq(Nat) /\ Len(SubSeq(s, o + 1, n)) = IF o < n THEN n - o ELSE 0
<1>1. \A i \in o + 1 .. n : s[i] \in Nat
  BY ElementOfSeq
<1> QED
  BY <1>1, SubSeqProperties

LEMMA RestAppended ==
    ASSUME NEW s \in Seq(Nat), NEW x \in Nat, NEW o \in Nat, o <= Len(s)
    PROVE  SubSeq(Append(s, x), o + 1, Len(s) + 1) = Append(SubSeq(s, o + 1, Len(s)), x)
<1> DEFINE long == Append(s, x)
<1> DEFINE rest == SubSeq(s, o + 1, Len(s))
<1>1. long \in Seq(Nat) /\ Len(long) = Len(s) + 1 /\ long[Len(s) + 1] = x /\ \A i \in 1 .. Len(s) : long[i] = s[i]
  BY AppendProperties
<1>2. rest \in Seq(Nat) /\ Len(rest) = Len(s) - o /\ \A i \in 1 .. Len(s) - o : rest[i] = s[o + i]
  <2>1. \A i \in o + 1 .. Len(s) : s[i] \in Nat
    BY ElementOfSeq
  <2> QED
    BY <2>1, SubSeqProperties
<1>3. SubSeq(long, o + 1, Len(s) + 1) \in Seq(Nat) /\ Len(SubSeq(long, o + 1, Len(s) + 1)) = Len(s) + 1 - o
      /\ \A i \in 1 .. Len(s) + 1 - o : SubSeq(long, o + 1, Len(s) + 1)[i] = long[o + i]
  <2>1. \A i \in o + 1 .. Len(s) + 1 : long[i] \in Nat
    BY <1>1, ElementOfSeq
  <2> QED
    BY <2>1, SubSeqProperties
<1>4. Append(rest, x) \in Seq(Nat) /\ Len(Append(rest, x)) = Len(s) + 1 - o
      /\ Append(rest, x)[Len(s) + 1 - o] = x /\ \A i \in 1 .. Len(s) - o : Append(rest, x)[i] = rest[i]
  BY <1>2, AppendProperties
<1>5. \A i \in 1 .. Len(s) + 1 - o : SubSeq(long, o + 1, Len(s) + 1)[i] = Append(rest, x)[i]
  <2> TAKE i \in 1 .. Len(s) + 1 - o
  <2>1. CASE i = Len(s) + 1 - o
    BY <1>1, <1>3, <1>4, <2>1
  <2>2. CASE i # Len(s) + 1 - o
    <3>1. i \in 1 .. Len(s) - o /\ o + i \in 1 .. Len(s)
      BY <2>2
    <3> QED
      BY <1>1, <1>2, <1>3, <1>4, <3>1
  <2> QED
    BY <2>1, <2>2
<1> QED
  BY <1>3, <1>4, <1>5, SeqEqual

LEMMA FrontIsPrefix ==
    ASSUME NEW s \in Seq(Nat), NEW t \in Seq(Nat)
    PROVE  IsPrefix(s, s \o t)
<1>1. s \o t \in Seq(Nat) /\ Len(s \o t) = Len(s) + Len(t) /\ \A i \in 1 .. Len(s) : (s \o t)[i] = s[i]
  BY ConcatProperties
<1>2. SubSeq(s, 0 + 1, Len(s)) \in Seq(Nat) /\ Len(SubSeq(s, 0 + 1, Len(s))) = Len(s)
  BY RestIsSeq
<1>3. SubSeq(s \o t, 0 + 1, Len(s)) \in Seq(Nat) /\ Len(SubSeq(s \o t, 0 + 1, Len(s))) = Len(s)
  BY <1>1, RestIsSeq
<1>4. \A i \in 1 .. Len(s) : SubSeq(s, 1, Len(s))[i] = s[i] /\ SubSeq(s \o t, 1, Len(s))[i] = (s \o t)[i]
  <2>1. \A i \in 1 .. Len(s) : s[i] \in Nat /\ (s \o t)[i] \in Nat
    BY <1>1, ElementOfSeq
  <2> QED
    BY <2>1, SubSeqProperties
<1>5. SubSeq(s, 1, Len(s)) = SubSeq(s \o t, 1, Len(s))
  BY <1>1, <1>2, <1>3, <1>4, SeqEqual
<1> QED
  BY <1>1, <1>5 DEF IsPrefix

LEMMA FrontStays ==
    ASSUME NEW s \in Seq(Nat), NEW x \in Nat, NEW n \in Nat, n <= Len(s)
    PROVE  SubSeq(Append(s, x), 1, n) = SubSeq(s, 1, n)
<1> DEFINE long == Append(s, x)
<1>1. long \in Seq(Nat) /\ Len(long) = Len(s) + 1 /\ \A i \in 1 .. Len(s) : long[i] = s[i]
  BY AppendProperties
<1>2. \A i \in 1 .. n : s[i] \in Nat /\ long[i] = s[i]
  BY <1>1, ElementOfSeq
<1>3. SubSeq(s, 1, n) \in Seq(Nat) /\ Len(SubSeq(s, 1, n)) = n /\ \A i \in 1 .. n : SubSeq(s, 1, n)[i] = s[i]
  BY <1>2, SubSeqProperties
<1>4. SubSeq(long, 1, n) \in Seq(Nat) /\ Len(SubSeq(long, 1, n)) = n /\ \A i \in 1 .. n : SubSeq(long, 1, n)[i] = long[i]
  BY <1>2, SubSeqProperties
<1> QED
  BY <1>2, <1>3, <1>4, SeqEqual

(* What is taken from a batch is taken from the front of the queue.          *)
LEMMA BatchIsTaken ==
    ASSUME NEW q \in Seq(Nat), NEW b \in Seq(Nat), NEW o \in Nat, NEW n \in Nat,
           Len(b) <= Len(q), b = SubSeq(q, 1, Len(b)), o + n <= Len(b)
    PROVE  SubSeq(b, o + 1, o + n) = SubSeq(q, o + 1, o + n)
<1>1. \A i \in 1 .. Len(b) : q[i] \in Nat /\ b[i] \in Nat
  BY ElementOfSeq
<1>2. \A i \in 1 .. Len(b) : SubSeq(q, 1, Len(b))[i] = q[i]
  BY <1>1, SubSeqProperties
<1>3. \A i \in 1 .. Len(b) : b[i] = q[i]
  BY <1>2
<1>4. \A i \in o + 1 .. o + n : b[i] = q[i] /\ b[i] \in Nat
  BY <1>1, <1>3
<1>5. SubSeq(b, o + 1, o + n) \in Seq(Nat) /\ Len(SubSeq(b, o + 1, o + n)) = n
  BY RestIsSeq
<1>6. SubSeq(q, o + 1, o + n) \in Seq(Nat) /\ Len(SubSeq(q, o + 1, o + n)) = n
  BY RestIsSeq
<1>7. \A i \in 1 .. n : SubSeq(b, o + 1, o + n)[i] = b[o + i]
  BY <1>4, SubSeqProperties
<1>8. \A i \in 1 .. n : SubSeq(q, o + 1, o + n)[i] = q[o + i]
  BY <1>4, SubSeqProperties
<1>9. \A i \in 1 .. n : SubSeq(b, o + 1, o + n)[i] = SubSeq(q, o + 1, o + n)[i]
  <2> TAKE i \in 1 .. n
  <2>1. o + i \in o + 1 .. o + n
    OBVIOUS
  <2>2. b[o + i] = q[o + i]
    BY <1>4, <2>1
  <2> QED
    BY <1>7, <1>8, <2>2
<1> QED
  BY <1>5, <1>6, <1>9, SeqEqual

LEMMA ThreeInARow ==
    ASSUME NEW s \in Seq(Nat), NEW t \in Seq(Nat), NEW u \in Seq(Nat)
    PROVE  (s \o t) \o u = s \o (t \o u)
  BY SMT

LEMMA FrontIsGiven ==
    ASSUME NEW w \in Seq(Nat), NEW q \in Seq(Nat), NEW o \in Nat, NEW n \in Nat, o + n <= Len(q)
    PROVE  LET given == w \o SubSeq(q, o + 1, o + n)
           IN  /\ given \in Seq(Nat)
               /\ given \o SubSeq(q, o + n + 1, Len(q)) = w \o SubSeq(q, o + 1, Len(q))
               /\ IsPrefix(given, w \o SubSeq(q, o + 1, Len(q)))
<1> DEFINE taken == SubSeq(q, o + 1, o + n)
<1> DEFINE left == SubSeq(q, o + n + 1, Len(q))
<1>1. taken \in Seq(Nat)
  BY RestIsSeq
<1>2. left \in Seq(Nat)
  <2>1. o + n \in Nat /\ Len(q) \in Nat
    OBVIOUS
  <2> QED
    BY <2>1, RestIsSeq
<1>3. taken \o left = SubSeq(q, o + 1, Len(q))
  BY RestTaken
<1> HIDE DEF taken, left
<1>4. w \o taken \in Seq(Nat)
  BY <1>1, ConcatProperties
<1>5. (w \o taken) \o left = w \o (taken \o left)
  BY <1>1, <1>2, ThreeInARow
<1>6. IsPrefix(w \o taken, (w \o taken) \o left)
  BY <1>2, <1>4, FrontIsPrefix
<1> QED
  BY <1>3, <1>4, <1>5, <1>6 DEF taken, left

LEMMA OneMoreWaits ==
    ASSUME NEW w \in Seq(Nat), NEW q \in Seq(Nat), NEW x \in Nat, NEW o \in Nat, o <= Len(q)
    PROVE  LET typedNow == Append(w \o SubSeq(q, o + 1, Len(q)), x)
           IN  w \o SubSeq(Append(q, x), o + 1, Len(q) + 1) = typedNow /\ IsPrefix(w, typedNow)
<1> DEFINE rest == SubSeq(q, o + 1, Len(q))
<1>1. rest \in Seq(Nat)
  <2>1. Len(q) \in Nat
    OBVIOUS
  <2> QED
    BY <2>1, RestIsSeq
<1>2. SubSeq(Append(q, x), o + 1, Len(q) + 1) = Append(rest, x)
  BY RestAppended
<1> HIDE DEF rest
<1>3. Append(rest, x) = rest \o <<x>> /\ <<x>> \in Seq(Nat) /\ Append(rest, x) \in Seq(Nat)
  BY <1>1, AppendIsConcat, AppendProperties
<1>4. w \o rest \in Seq(Nat)
  BY <1>1, ConcatProperties
<1>5. Append(w \o rest, x) = (w \o rest) \o <<x>>
  BY <1>4, AppendIsConcat
<1>6. (w \o rest) \o <<x>> = w \o (rest \o <<x>>)
  BY <1>1, <1>3, ThreeInARow
<1>7. IsPrefix(w, w \o Append(rest, x))
  BY <1>3, FrontIsPrefix
<1> QED
  BY <1>2, <1>3, <1>5, <1>6, <1>7 DEF rest

(* A step that moves no bytes, and wakes or sends away the writer at most.   *)
LEMMA BytesStay ==
    ASSUME CInv, UNCHANGED <<batch, queue, typed, written>>, handles' => handles,
           \/ writer' \in {writer, "none", "gives up", "ended"}
           \/ writer \in {"dozing", "asleep"} /\ writer' \in {"looks", "asleep"}
    PROVE  Bytes'
<1>1. Waiting' = Waiting
  BY DEF Waiting
<1> QED
  BY <1>1 DEF CInv, Bytes

LEMMA WaitingIsSeq == Bytes => Waiting \in Seq(Nat)
<1> SUFFICES ASSUME Bytes PROVE Waiting \in Seq(Nat)
  OBVIOUS
<1>1. batch.offset \in Nat /\ queue \in Seq(Nat) /\ Len(queue) \in Nat
  BY DEF Bytes
<1> QED
  BY <1>1, RestIsSeq DEF Waiting

LEMMA BytesKept == CInv /\ [ConNext]_conVars => Bytes'
<1> SUFFICES ASSUME CInv, [ConNext]_conVars PROVE Bytes'
  OBVIOUS
<1>a. /\ batch \in [bytes : Seq(Nat), offset : Nat] /\ batch.offset \in Nat /\ batch.bytes \in Seq(Nat)
      /\ queue \in Seq(Nat) /\ written \in Seq(Nat) /\ typed \in Seq(Nat)
      /\ batch.offset <= Len(queue)
  BY DEF CInv, Bytes
<1>b. Waiting \in Seq(Nat)
  BY WaitingIsSeq DEF CInv
<1>1. ASSUME Launch PROVE Bytes'
  <2>1. /\ typed' = <<>> /\ written' = <<>> /\ queue' = <<>> /\ batch' = [bytes |-> <<>>, offset |-> 0]
        /\ writer' \in {"none", "looks"}
    BY <1>1 DEF Launch, NoBatch
  <2>2. <<>> \in Seq(Nat) /\ Len(<<>>) = 0
    BY EmptySeq
  <2>3. IsPrefix(<<>>, <<>>)
    BY <2>2 DEF IsPrefix
  <2>4. batch' \in [bytes : Seq(Nat), offset : Nat] /\ batch'.offset = 0
    BY <2>1, <2>2
  <2>5. Waiting' = <<>>
    <3>1. Waiting' = SubSeq(<<>>, 0 + 1, 0)
      BY <2>1, <2>2, <2>4 DEF Waiting
    <3> QED
      BY <3>1, SubSeqEmpty
  <2>6. written' \o Waiting' = typed'
    BY <2>1, <2>2, <2>5, ConcatEmptySeq
  <2> QED
    BY <2>1, <2>2, <2>3, <2>4, <2>6 DEF Bytes
<1>2. CASE StartConsole
  <2>1. CASE handles
    BY <1>2, <2>1, BytesStay DEF StartConsole, threads
  <2>2. CASE ~handles
    <3>1. Launch
      BY <1>2, <2>2, Zenon DEF StartConsole
    <3> QED
      BY <1>1, <3>1
  <2> QED
    BY <2>1, <2>2
<1>3. CASE WriteInput
  <2>1. /\ queue' = Append(queue, Len(typed) + 1) /\ typed' = Append(typed, Len(typed) + 1)
        /\ running /\ handles' = handles /\ batch' = batch /\ written' = written
        /\ writer' = Awake(writer) /\ writer # "dozing"
    BY <1>3 DEF WriteInput
  <2>2. handles /\ handles' = TRUE
    BY <2>1 DEF CInv, Positions
  <2> DEFINE x == Len(typed) + 1
  <2>3. x \in Nat
    BY <1>a
  <2> HIDE DEF x
  <2>4. queue' = Append(queue, x) /\ typed' = Append(typed, x)
    BY <2>1 DEF x
  <2>5. queue' \in Seq(Nat) /\ Len(queue') = Len(queue) + 1 /\ typed' \in Seq(Nat)
    BY <1>a, <2>3, <2>4, AppendProperties
  <2>6. written \o SubSeq(queue, batch.offset + 1, Len(queue)) = typed
    BY <2>2 DEF CInv, Bytes, Waiting
  <2>7. /\ written \o SubSeq(queue', batch.offset + 1, Len(queue')) = typed'
        /\ IsPrefix(written, typed')
    <3>1. batch.offset \in Nat /\ batch.offset <= Len(queue) /\ queue \in Seq(Nat) /\ written \in Seq(Nat)
      BY <1>a
    <3>2. LET typedNow == Append(written \o SubSeq(queue, batch.offset + 1, Len(queue)), x)
          IN  /\ written \o SubSeq(Append(queue, x), batch.offset + 1, Len(queue) + 1) = typedNow
              /\ IsPrefix(written, typedNow)
      BY <2>3, <3>1, OneMoreWaits
    <3> QED
      BY <2>4, <2>5, <2>6, <3>2
  <2>8. written' \o Waiting' = typed' /\ IsPrefix(written', typed')
    BY <2>1, <2>7 DEF Waiting
  <2>9. ASSUME writer' = "writes"
        PROVE  /\ batch.offset <= Len(batch.bytes) /\ Len(batch.bytes) <= Len(queue')
               /\ batch.bytes = SubSeq(queue', 1, Len(batch.bytes))
    <3>1. writer = "writes"
      BY <2>1, <2>9 DEF Awake
    <3>2. batch.offset <= Len(batch.bytes) /\ Len(batch.bytes) <= Len(queue) /\ batch.bytes = SubSeq(queue, 1, Len(batch.bytes))
      BY <3>1 DEF CInv, Bytes
    <3>3. Len(batch.bytes) \in Nat
      BY <1>a
    <3>4. SubSeq(queue', 1, Len(batch.bytes)) = SubSeq(queue, 1, Len(batch.bytes))
      BY <1>a, <2>3, <2>4, <3>2, <3>3, FrontStays
    <3> QED
      BY <1>a, <2>5, <3>2, <3>3, <3>4
  <2>10. writer' \in {"looks", "dozing", "asleep"} => batch.offset = 0
    BY <2>1 DEF Awake, CInv, Bytes
  <2>11. batch.offset <= Len(queue')
    BY <1>a, <2>5
  <2> QED
    BY <1>a, <2>1, <2>5, <2>8, <2>9, <2>10, <2>11 DEF Bytes
<1>4. ASSUME NEW pause \in BOOLEAN, SetOutputPaused(pause) PROVE Bytes'
  BY <1>4, BytesStay DEF SetOutputPaused
<1>5. CASE Terminate
  BY <1>5, BytesStay DEF Terminate, threads
<1>6. CASE RequestStop
  BY <1>6, BytesStay DEF RequestStop
<1>7. CASE Kill
  BY <1>7, BytesStay DEF Kill, Awake
<1>8. CASE Join
  <2>1. CASE restarts
    <3>1. Launch
      BY <1>8, <2>1, Zenon DEF Join
    <3> QED
      BY <1>1, <3>1
  <2>2. CASE ~restarts
    <3>1. /\ queue' = <<>> /\ handles' = FALSE /\ writer' = "none" /\ batch' = [bytes |-> <<>>, offset |-> 0]
          /\ typed' = typed /\ written' = written
      BY <1>8, <2>2 DEF Join, NoBatch
    <3>2. <<>> \in Seq(Nat) /\ Len(<<>>) = 0
      BY EmptySeq
    <3>3. batch' \in [bytes : Seq(Nat), offset : Nat] /\ batch'.offset = 0
      BY <3>1, <3>2
    <3>4. IsPrefix(written, typed)
      BY DEF CInv, Bytes
    <3> QED
      BY <1>a, <3>1, <3>2, <3>3, <3>4 DEF Bytes
  <2> QED
    BY <2>1, <2>2
<1>9. CASE ReaderLooks \/ ReaderSleeps \/ Read \/ TellsEnd
  <2>1. UNCHANGED <<batch, queue, typed, written, handles, writer>>
    BY <1>9 DEF ReaderLooks, ReaderSleeps, Read, TellsEnd
  <2> QED
    BY <2>1, BytesStay
<1>10. CASE Reaped
  BY <1>10, BytesStay DEF Reaped, Awake
<1>11. CASE WriterLooks
  <2>1. /\ writer = "looks" /\ writer' \in {"ended", "dozing", "writes"}
        /\ batch' = [bytes |-> queue, offset |-> 0] /\ UNCHANGED <<handles, queue, typed, written>>
    BY <1>11 DEF WriterLooks
  <2>2. batch' \in [bytes : Seq(Nat), offset : Nat] /\ batch'.offset = 0 /\ batch'.bytes = queue /\ batch.offset = 0
    BY <1>a, <2>1 DEF CInv, Bytes
  <2>3. Waiting' = Waiting
    BY <2>1, <2>2 DEF Waiting
  <2>4. queue = SubSeq(queue, 1, Len(queue)) /\ Len(queue) \in Nat
    BY <1>a, SubSeqFull
  <2> QED
    BY <1>a, <2>1, <2>2, <2>3, <2>4 DEF CInv, Bytes
<1>12. CASE WriterSleeps
  BY <1>12, BytesStay DEF WriterSleeps
<1>13. CASE WriteFails
  BY <1>13, BytesStay DEF WriteFails
<1>14. CASE GivesUp
  BY <1>14, BytesStay DEF GivesUp
<1>15. CASE BatchWritten
  <2>1. /\ queue' = Waiting /\ writer' = "looks" /\ batch' = [bytes |-> <<>>, offset |-> 0]
        /\ UNCHANGED <<handles, typed, written>>
    BY <1>15 DEF BatchWritten, Waiting, NoBatch
  <2>2. <<>> \in Seq(Nat)
    BY EmptySeq
  <2>3. batch' \in [bytes : Seq(Nat), offset : Nat] /\ batch'.offset = 0
    BY <2>1, <2>2
  <2>4. Waiting' = Waiting
    <3>1. Waiting' = SubSeq(queue', 0 + 1, Len(queue'))
      BY <2>3 DEF Waiting
    <3>2. Waiting' = SubSeq(Waiting, 1, Len(Waiting))
      BY <2>1, <3>1
    <3> QED
      BY <1>b, <3>2, SubSeqFull
  <2>5. Len(Waiting) \in Nat
    BY <1>b
  <2> QED
    BY <1>a, <1>b, <2>1, <2>3, <2>4, <2>5 DEF CInv, Bytes
<1>16. ASSUME NEW n \in 1..MaxTyped, WriteFile(n) PROVE Bytes'
  <2>1. /\ writer = "writes" /\ n \in Nat /\ n <= Len(batch.bytes) - batch.offset
        /\ written' = written \o SubSeq(batch.bytes, batch.offset + 1, batch.offset + n)
        /\ batch' = [batch EXCEPT !.offset = @ + n] /\ UNCHANGED <<handles, writer, queue, typed>>
    BY <1>16, ConAssumption DEF WriteFile, threads
  <2> DEFINE o == batch.offset
  <2> DEFINE b == batch.bytes
  <2>2. Len(b) <= Len(queue) /\ b = SubSeq(queue, 1, Len(b))
    BY <2>1 DEF CInv, Bytes
  <2>3. o \in Nat /\ b \in Seq(Nat) /\ Len(b) \in Nat /\ Len(queue) \in Nat
    BY <1>a
  <2>4. batch' \in [bytes : Seq(Nat), offset : Nat] /\ batch'.offset = o + n /\ batch'.bytes = b
    <3>1. batch = [bytes |-> b, offset |-> o]
      BY <1>a
    <3>2. batch' = [bytes |-> b, offset |-> o + n]
      BY <2>1, <3>1
    <3>3. o + n \in Nat
      BY <2>1, <2>3
    <3> QED
      BY <2>3, <3>2, <3>3
  <2>5. written' = written \o SubSeq(b, o + 1, o + n) /\ n \in Nat /\ n <= Len(b) - o
    BY <2>1
  <2>6. Waiting' = SubSeq(queue, o + n + 1, Len(queue))
    BY <2>1, <2>4 DEF Waiting
  <2>7. written \o SubSeq(queue, o + 1, Len(queue)) = typed
    <3>1. handles
      BY <2>1 DEF CInv, Positions, HandlesOutliveTheirThreads
    <3> QED
      BY <3>1 DEF CInv, Bytes, Waiting
  <2> HIDE DEF o, b
  <2>8. o + n <= Len(b) /\ o + n <= Len(queue)
    BY <2>2, <2>3, <2>5
  <2>9. written' = written \o SubSeq(queue, o + 1, o + n)
    <3>1. SubSeq(b, o + 1, o + n) = SubSeq(queue, o + 1, o + n)
      <4>1. queue \in Seq(Nat)
        BY <1>a
      <4> QED
        BY <2>2, <2>3, <2>5, <2>8, <4>1, BatchIsTaken
    <3> QED
      BY <2>5, <3>1
  <2>10. written' \in Seq(Nat) /\ written' \o Waiting' = typed /\ IsPrefix(written', typed)
    <3>1. LET given == written \o SubSeq(queue, o + 1, o + n)
          IN  /\ given \in Seq(Nat)
              /\ given \o SubSeq(queue, o + n + 1, Len(queue)) = written \o SubSeq(queue, o + 1, Len(queue))
              /\ IsPrefix(given, written \o SubSeq(queue, o + 1, Len(queue)))
      BY <1>a, <2>3, <2>5, <2>8, FrontIsGiven
    <3> QED
      BY <2>6, <2>7, <2>9, <3>1
  <2>11. batch'.offset <= Len(queue) /\ batch'.offset <= Len(b)
    BY <2>4, <2>8
  <2>12. writer' = "writes" /\ UNCHANGED <<queue, typed>>
    BY <2>1
  <2> QED
    BY <1>a, <2>2, <2>4, <2>10, <2>11, <2>12 DEF Bytes
<1>17. CASE ShellPrints \/ ShellExits \/ Deliver
  <2>1. UNCHANGED <<batch, queue, typed, written, handles, writer>>
    BY <1>17 DEF ShellPrints, ShellExits, Deliver, threads
  <2> QED
    BY <2>1, BytesStay
<1>18. CASE UNCHANGED conVars
  BY <1>18, BytesStay DEF conVars, threads
<1> QED
  BY <1>2, <1>3, <1>4, <1>5, <1>6, <1>7, <1>8, <1>9, <1>10, <1>11, <1>12, <1>13, <1>14, <1>15, <1>16, <1>17, <1>18
  DEF ConNext, Terminating, Reading, Writing

LEMMA ConInvariant == ConSpec => []CInv
<1>1. CInv /\ [ConNext]_conVars => CInv'
  BY PositionsKept, AmountsKept, BytesKept DEF CInv
<1> QED
  BY <1>1, ConInitial, PTL DEF ConSpec

(* Every reachable value of a console has its type.                         *)
THEOREM ConTypeCorrect == ConSpec => []ConTypeOK
<1>1. CInv => ConTypeOK
  BY DEF CInv, Positions, Amounts, Bytes, ConTypeOK
<1> QED
  BY <1>1, ConInvariant, PTL

(* No thread ever works at handles that are gone, and the shell is given what *)
(* was typed once and in its order, whatever the threads are at when the      *)
(* terminal is ended or started again.                                     *)
THEOREM ThreadsAlwaysKeepTheirConsole == ConSpec => []ThreadsKeepTheirConsole
<1>1. CInv => ThreadsKeepTheirConsole
  BY DEF CInv, Positions, Bytes, ThreadsKeepTheirConsole, TypedOnceInOrder
<1> QED
  BY <1>1, ConInvariant, PTL

-----------------------------------------------------------------------------
\* The screen
(* An emulator, as far as the other parts of the terminal look at it.       *)
Emulators ==
    [alive : BOOLEAN, size : GridSizes, theme : Themes, lines : Seq(Lines), offset : Int, selection : Int]

Widgets ==
    [attached : BOOLEAN, visible : BOOLEAN, size : GridSizes,
     renderDue : BOOLEAN, resizeDue : BOOLEAN, fresh : BOOLEAN]

ScreenParts ==
    /\ emulator \in Emulators /\ widget \in Widgets
    /\ screen \in [size : GridSizes, theme : Themes, running : BOOLEAN]
    /\ pty \in GridSizes /\ chosen \in Themes /\ faults \in Nat

(* An emulator fails to start only when something failed: a size that is    *)
(* asked for finds one, and is not given up without a fault.                *)
AliveUnlessFaulty == faults = 0 => emulator.alive

ScreenInv == ScreenParts /\ AliveUnlessFaulty /\ ScreenIsCurrent

(* What is done to an emulator leaves an emulator, alive as it was.         *)
LEMMA Scrolled ==
    ASSUME NEW e \in Emulators
    PROVE  /\ \A row \in Int : ScrolledTo(e, row) \in Emulators /\ ScrolledTo(e, row).alive = e.alive
           /\ Bottomed(e) \in Emulators /\ Bottomed(e).alive = e.alive
<1>1. Highest(e) \in Int
  BY ScreenAssumption DEF ScreenAssumption, Highest, Emulators
<1>2. \A r \in Int : ScrolledTo(e, r) \in Emulators /\ ScrolledTo(e, r).alive = e.alive
  BY <1>1 DEF ScrolledTo, Emulators
<1> QED
  BY <1>1, <1>2 DEF Bottomed

LEMMA PrintedOn ==
    ASSUME NEW e \in Emulators, NEW line \in Lines
    PROVE  Printed(e, line) \in Emulators /\ Printed(e, line).alive = e.alive
<1> DEFINE full == Len(e.lines) = MaxLines
           lines == IF full THEN Append(Tail(e.lines), line) ELSE Append(e.lines, line)
           selection == IF full /\ e.selection > 0 THEN e.selection - 1 ELSE e.selection
           next == [e EXCEPT !.lines = lines, !.selection = selection]
<1>1. lines \in Seq(Lines)
  <2>1. e.lines \in Seq(Lines)
    BY DEF Emulators
  <2>2. e.lines # <<>> => Tail(e.lines) \in Seq(Lines)
    BY <2>1
  <2>3. CASE e.lines = <<>>
    BY <2>1, <2>3, ScreenAssumption DEF ScreenAssumption
  <2>4. CASE e.lines # <<>>
    BY <2>1, <2>2, <2>4
  <2> QED
    BY <2>3, <2>4
<1>2. selection \in Int
  BY DEF Emulators
<1> HIDE DEF lines, selection
<1>3. next \in Emulators /\ next.alive = e.alive
  BY <1>1, <1>2 DEF Emulators
<1>4. Printed(e, line) = IF e.offset = Highest(e) THEN Bottomed(next) ELSE next
  BY DEF Printed, lines, selection
<1> HIDE DEF next
<1>5. Bottomed(next) \in Emulators /\ Bottomed(next).alive = next.alive
  BY <1>3, Scrolled
<1> QED
  BY <1>3, <1>4, <1>5

LEMMA Replaced ==
    ASSUME NEW e \in Emulators, NEW lines \in Seq(Lines)
    PROVE  /\ [e EXCEPT !.lines = lines, !.offset = 0, !.selection = 0] \in Emulators
           /\ [e EXCEPT !.lines = lines, !.offset = 0, !.selection = 0].alive = e.alive
<1> DEFINE first == [e EXCEPT !.lines = lines]
           second == [first EXCEPT !.offset = 0]
           third == [second EXCEPT !.selection = 0]
<1>1. first \in Emulators /\ first.alive = e.alive
  BY DEF Emulators
<1>2. second \in Emulators /\ second.alive = e.alive
  <2> HIDE DEF first
  <2> QED
    BY <1>1 DEF Emulators
<1>3. third \in Emulators /\ third.alive = e.alive
  <2> HIDE DEF first, second
  <2> QED
    BY <1>2 DEF Emulators
<1> QED
  BY <1>3

LEMMA OthersDone ==
    ASSUME NEW e \in Emulators
    PROVE  /\ Cleared(e) \in Emulators /\ Cleared(e).alive = e.alive
           /\ Unselected(e) \in Emulators /\ Unselected(e).alive = e.alive
           /\ \A theme \in Themes : Themed(e, theme) \in Emulators /\ Themed(e, theme).alive = e.alive
           /\ \A grid \in GridSizes : Resized(e, grid) \in Emulators /\ Resized(e, grid).alive = e.alive
           /\ \A grid \in GridSizes, theme \in Themes :
                 Blank(grid, theme) \in Emulators /\ Blank(grid, theme).alive
<1>1. <<>> \in Seq(Lines)
  OBVIOUS
<1>2. Cleared(e) \in Emulators /\ Cleared(e).alive = e.alive
  <2>1. PICK lines \in Seq(Lines) : lines = <<>>
    BY <1>1, Zenon
  <2>2. Cleared(e) = [e EXCEPT !.lines = lines, !.offset = 0, !.selection = 0]
    BY <2>1 DEF Cleared
  <2> QED
    BY <2>2, Replaced
<1>3. Unselected(e) \in Emulators /\ Unselected(e).alive = e.alive
  BY DEF Unselected, Emulators
<1>4. \A theme \in Themes : Themed(e, theme) \in Emulators /\ Themed(e, theme).alive = e.alive
  BY DEF Themed, Emulators
<1>5. \A grid \in GridSizes : Resized(e, grid) \in Emulators /\ Resized(e, grid).alive = e.alive
  BY DEF Resized, Emulators
<1>6. \A grid \in GridSizes, theme \in Themes : Blank(grid, theme) \in Emulators /\ Blank(grid, theme).alive
  BY <1>1 DEF Blank, Emulators
<1> QED
  BY <1>2, <1>3, <1>4, <1>5, <1>6

LEMMA Rows ==
    ASSUME NEW e \in Emulators, NEW row \in DOMAIN e.lines
    PROVE  row \in Int /\ [e EXCEPT !.selection = row] \in Emulators
BY DEF Emulators

LEMMA RevealedOn ==
    ASSUME NEW e \in Emulators, NEW row
    PROVE  Revealed(e, row) \in Emulators /\ Revealed(e, row).alive = e.alive
<1>1. CASE row \notin DOMAIN e.lines
  BY <1>1 DEF Revealed
<1>2. CASE row \in DOMAIN e.lines
  <2> DEFINE marked == [e EXCEPT !.selection = row]
  <2>1. marked \in Emulators /\ marked.alive = e.alive /\ row - 1 - ViewRows \div 2 \in Int
    BY <1>2, Rows, ScreenAssumption DEF Emulators, ScreenAssumption
  <2>2. Revealed(e, row) = ScrolledTo(marked, row - 1 - ViewRows \div 2)
    BY <1>2 DEF Revealed
  <2> HIDE DEF marked
  <2> QED
    BY <2>1, <2>2, Scrolled
<1> QED
  BY <1>1, <1>2

LEMMA FollowedOn ==
    ASSUME NEW e \in Emulators, NEW row \in DOMAIN e.lines
    PROVE  /\ Followed([e EXCEPT !.selection = row], row) \in Emulators
           /\ Followed([e EXCEPT !.selection = row], row).alive = e.alive
<1> DEFINE marked == [e EXCEPT !.selection = row]
<1>1. marked \in Emulators /\ marked.alive = e.alive /\ row \in Int /\ marked.offset \in Int
  BY Rows DEF Emulators
<1> HIDE DEF marked
<1>2. PICK r \in Int : Followed(marked, row) = ScrolledTo(marked, r)
  BY <1>1 DEF Followed
<1>3. Followed(marked, row) \in Emulators /\ Followed(marked, row).alive = marked.alive
  BY <1>1, <1>2, Scrolled
<1> QED
  BY <1>1, <1>3 DEF marked

(* A change that is drawn: the drawing is behind and due, where it is seen. *)
LEMMA DrawnAgain ==
    ASSUME ScreenInv, emulator' \in Emulators, emulator'.alive = emulator.alive, RenderChanged,
           UNCHANGED <<screen, pty, faults>>, chosen' \in Themes
    PROVE  ScreenInv'
<1>1. ScreenParts'
  BY DEF ScreenInv, ScreenParts, RenderChanged, Behind, Widgets
<1>2. AliveUnlessFaulty'
  BY DEF ScreenInv, AliveUnlessFaulty
<1>3. ScreenIsCurrent'
  BY DEF ScreenInv, ScreenParts, ScreenIsCurrent, NothingSeenIsBehind, ShellHasTheSize, RenderChanged, Behind, Widgets
<1> QED
  BY <1>1, <1>2, <1>3 DEF ScreenInv

LEMMA ScreenBegins == ScreenInit => ScreenInv
<1> SUFFICES ASSUME ScreenInit PROVE ScreenInv
  OBVIOUS
<1>1. PICK grid \in GridSizes, theme \in Themes :
          /\ emulator = Blank(grid, theme)
          /\ screen = [size |-> grid, theme |-> theme, running |-> TRUE]
          /\ pty = grid /\ chosen = theme
          /\ widget = Nowhere(grid)
  BY DEF ScreenInit
<1>2. emulator \in Emulators /\ emulator.alive
  BY <1>1, OthersDone DEF Blank, Emulators
<1>3. widget \in Widgets /\ ~widget.attached
  BY <1>1 DEF Nowhere, Widgets
<1> QED
  BY <1>1, <1>2, <1>3 DEF ScreenInit, ScreenInv, ScreenParts, AliveUnlessFaulty, ScreenIsCurrent, NothingSeenIsBehind,
     ShellHasTheSize

(* A step that moves the emulator, and one that moves the widget alone.      *)
LEMMA ScrollsOn ==
    ASSUME ScreenInv, NEW e \in Emulators, e.alive = emulator.alive, Scrolls(e)
    PROVE  ScreenInv'
BY DrawnAgain DEF Scrolls, ScreenInv, ScreenParts

LEMMA WidgetMoves ==
    ASSUME ScreenInv, widget' \in Widgets, UNCHANGED <<emulator, screen, pty, chosen, faults>>,
           NothingSeenIsBehind'
    PROVE  ScreenInv'
BY DEF ScreenInv, ScreenParts, AliveUnlessFaulty, ScreenIsCurrent, ShellHasTheSize

LEMMA ViewSteps ==
    ASSUME ScreenInv,
           \/ ScrollToTop \/ ClearSelection \/ WriteToShell \/ ClearScrollback
           \/ \E rows \in {-ViewRows, -1, 1, ViewRows} : ScrollViewport(rows)
           \/ \E row \in 0..MaxLines : ScrollToRow(row) \/ SelectRow(row)
           \/ \E line \in Lines : FlushLine(line)
    PROVE  ScreenInv'
<1>1. emulator \in Emulators /\ emulator.offset \in Int /\ chosen \in Themes
  BY DEF ScreenInv, ScreenParts, Emulators
<1>2. CASE ScrollToTop
  BY <1>1, <1>2, Scrolled, ScrollsOn DEF ScrollToTop
<1>3. CASE ClearSelection
  BY <1>1, <1>3, OthersDone, ScrollsOn DEF ClearSelection
<1>4. CASE WriteToShell
  BY <1>1, <1>4, Scrolled, ScrollsOn DEF WriteToShell
<1>5. CASE ClearScrollback
  BY <1>1, <1>5, OthersDone, DrawnAgain DEF ClearScrollback
<1>6. ASSUME NEW rows \in {-ViewRows, -1, 1, ViewRows}, ScrollViewport(rows) PROVE ScreenInv'
  <2>1. emulator.offset + rows \in Int
    BY <1>1, ScreenAssumption DEF ScreenAssumption
  <2> QED
    BY <1>1, <1>6, <2>1, Scrolled, ScrollsOn DEF ScrollViewport
<1>7. ASSUME NEW row \in 0..MaxLines, ScrollToRow(row) PROVE ScreenInv'
  BY <1>1, <1>7, Scrolled, ScrollsOn, ScreenAssumption DEF ScrollToRow, ScreenAssumption
<1>8. ASSUME NEW row \in 0..MaxLines, SelectRow(row) PROVE ScreenInv'
  BY <1>1, <1>8, FollowedOn, ScrollsOn DEF SelectRow
<1>9. ASSUME NEW line \in Lines, FlushLine(line) PROVE ScreenInv'
  BY <1>1, <1>9, PrintedOn, DrawnAgain DEF FlushLine
<1> QED
  BY <1>2, <1>3, <1>4, <1>5, <1>6, <1>7, <1>8, <1>9

LEMMA FindSteps ==
    ASSUME ScreenInv,
           \/ RefreshMatches \/ DismissFindBar \/ AskToPaste \/ ProcessExited
           \/ \E yes \in BOOLEAN : StepMatch(yes) \/ PasteAnswered(yes)
           \/ \E theme \in Themes : SetTheme(theme)
    PROVE  ScreenInv'
<1>1. emulator \in Emulators /\ chosen \in Themes
  BY DEF ScreenInv, ScreenParts
<1>2. ASSUME NEW matches, NEW k, Reveals(matches, k) PROVE ScreenInv'
  <2>1. PICK row : /\ emulator' = Revealed(emulator, row)
                   /\ IF row \in DOMAIN emulator.lines THEN RenderChanged ELSE UNCHANGED widget
                   /\ UNCHANGED <<screen, pty, chosen, faults>>
    BY <1>2 DEF Reveals
  <2>2. CASE row \in DOMAIN emulator.lines
    BY <1>1, <2>1, <2>2, RevealedOn, DrawnAgain
  <2>3. CASE row \notin DOMAIN emulator.lines
    <3>1. UNCHANGED <<emulator, widget>>
      BY <2>1, <2>3 DEF Revealed
    <3> QED
      BY <2>1, <3>1 DEF ScreenInv, ScreenParts, AliveUnlessFaulty, ScreenIsCurrent, NothingSeenIsBehind,
         ShellHasTheSize
  <2> QED
    BY <2>2, <2>3
<1>3. CASE RefreshMatches
  BY <1>2, <1>3 DEF RefreshMatches
<1>4. CASE DismissFindBar
  BY <1>1, <1>4, OthersDone, DrawnAgain DEF DismissFindBar
<1>5. CASE AskToPaste
  BY <1>5 DEF AskToPaste, ScreenInv, ScreenParts, AliveUnlessFaulty, ScreenIsCurrent, NothingSeenIsBehind,
     ShellHasTheSize
<1>6. CASE ProcessExited
  <2>1. ScreenParts'
    BY <1>6 DEF ProcessExited, ScreenInv, ScreenParts, RenderChanged, Behind, Widgets
  <2>2. screen' = [screen EXCEPT !.running = FALSE] /\ screen'.size = screen.size /\ ~screen'.running
    BY <1>6 DEF ProcessExited, ScreenInv, ScreenParts
  <2> QED
    BY <1>6, <2>1, <2>2 DEF ProcessExited, ScreenInv, ScreenParts, AliveUnlessFaulty, ScreenIsCurrent,
       NothingSeenIsBehind, ShellHasTheSize, RenderChanged, Behind, Widgets
<1>7. ASSUME NEW yes \in BOOLEAN, StepMatch(yes) PROVE ScreenInv'
  BY <1>2, <1>7 DEF StepMatch
<1>8. ASSUME NEW yes \in BOOLEAN, PasteAnswered(yes) PROVE ScreenInv'
  <2>1. CASE emulator' = Bottomed(emulator) /\ RenderChanged
    BY <1>1, <1>8, <2>1, Scrolled, DrawnAgain DEF PasteAnswered
  <2>2. CASE UNCHANGED <<emulator, widget>>
    BY <1>8, <2>2 DEF PasteAnswered, ScreenInv, ScreenParts, AliveUnlessFaulty, ScreenIsCurrent,
       NothingSeenIsBehind, ShellHasTheSize
  <2> QED
    BY <1>8, <2>1, <2>2 DEF PasteAnswered
<1>9. ASSUME NEW theme \in Themes, SetTheme(theme) PROVE ScreenInv'
  <2>1. CASE emulator.alive
    <3>1. emulator' \in Emulators /\ emulator'.alive = emulator.alive /\ RenderChanged
          /\ UNCHANGED <<pty, faults>> /\ screen' = [screen EXCEPT !.theme = theme] /\ chosen' = theme
      <4>1. Themed(emulator, theme) \in Emulators /\ Themed(emulator, theme).alive = emulator.alive
        BY <1>1, OthersDone
      <4> QED
        BY <1>9, <2>1, <4>1 DEF SetTheme
    <3>2. screen' \in [size : GridSizes, theme : Themes, running : BOOLEAN]
          /\ screen'.size = screen.size /\ screen'.running = screen.running
      BY <3>1 DEF ScreenInv, ScreenParts
    <3>3. ScreenParts'
      BY <3>1, <3>2 DEF ScreenInv, ScreenParts, RenderChanged, Behind, Widgets
    <3> QED
      BY <3>1, <3>2, <3>3 DEF ScreenInv, ScreenParts, AliveUnlessFaulty, ScreenIsCurrent, NothingSeenIsBehind,
         ShellHasTheSize, RenderChanged, Behind, Widgets
  <2>2. CASE ~emulator.alive
    BY <1>9, <2>2 DEF SetTheme, ScreenInv, ScreenParts, AliveUnlessFaulty, ScreenIsCurrent, NothingSeenIsBehind,
       ShellHasTheSize
  <2> QED
    BY <2>1, <2>2
<1> QED
  BY <1>3, <1>4, <1>5, <1>6, <1>7, <1>8, <1>9

LEMMA WidgetSteps ==
    ASSUME ScreenInv,
           \/ RefreshSnapshot \/ ShowEvent \/ HideEvent \/ Deactivate
           \/ \E grid \in GridSizes : ResizeEvent(grid) \/ SetSession(grid)
    PROVE  ScreenInv'
<1>1. widget \in Widgets /\ NothingSeenIsBehind
  BY DEF ScreenInv, ScreenParts, ScreenIsCurrent
<1>2. CASE RefreshSnapshot
  BY <1>1, <1>2, WidgetMoves DEF RefreshSnapshot, Widgets, NothingSeenIsBehind
<1>3. CASE ShowEvent
  BY <1>1, <1>3, WidgetMoves DEF ShowEvent, Uncovered, Scheduled, Widgets, NothingSeenIsBehind
<1>4. CASE HideEvent
  BY <1>1, <1>4, WidgetMoves DEF HideEvent, Widgets, NothingSeenIsBehind
<1>5. CASE Deactivate
  BY <1>1, <1>5, WidgetMoves DEF Deactivate, Nowhere, Widgets, NothingSeenIsBehind
<1>6. ASSUME NEW grid \in GridSizes, ResizeEvent(grid) PROVE ScreenInv'
  BY <1>1, <1>6, WidgetMoves DEF ResizeEvent, Scheduled, Widgets, NothingSeenIsBehind
<1>7. ASSUME NEW grid \in GridSizes, SetSession(grid) PROVE ScreenInv'
  BY <1>1, <1>7, WidgetMoves DEF SetSession, Nowhere, Widgets, NothingSeenIsBehind
<1> QED
  BY <1>2, <1>3, <1>4, <1>5, <1>6, <1>7

LEMMA SizeSteps ==
    ASSUME ScreenInv, UpdateTerminalSize \/ RestartSession
    PROVE  ScreenInv'
<1>1. /\ emulator \in Emulators /\ widget \in Widgets /\ chosen \in Themes /\ pty \in GridSizes
      /\ screen \in [size : GridSizes, theme : Themes, running : BOOLEAN] /\ faults \in Nat
      /\ AliveUnlessFaulty /\ NothingSeenIsBehind /\ ShellHasTheSize
  BY DEF ScreenInv, ScreenParts, ScreenIsCurrent
<1>2. CASE UpdateTerminalSize
  <2> DEFINE settled == [widget EXCEPT !.resizeDue = FALSE]
  <2>1. /\ settled \in Widgets /\ settled.size = widget.size /\ settled.fresh = widget.fresh
        /\ settled.renderDue = widget.renderDue /\ settled.attached = widget.attached
        /\ settled.visible = widget.visible
    BY <1>1 DEF Widgets
  <2>2. Resized(emulator, widget.size) \in Emulators /\ Resized(emulator, widget.size).alive = emulator.alive
    BY <1>1, OthersDone DEF Widgets
  <2>3. CASE widget.size = screen.size /\ widget' = settled /\ UNCHANGED <<emulator, screen, pty, faults, chosen>>
    BY <1>1, <2>1, <2>3, WidgetMoves DEF NothingSeenIsBehind
  <2>4. CASE /\ emulator' = Resized(emulator, widget.size) /\ screen' = Recorded(screen, TRUE)
             /\ pty' = IF screen.running THEN widget.size ELSE pty
             /\ widget' = Behind(settled) /\ UNCHANGED <<faults, chosen>>
    <3> HIDE DEF settled
    <3>1. /\ screen' \in [size : GridSizes, theme : Themes, running : BOOLEAN]
          /\ screen'.size = widget.size /\ screen'.running = screen.running
      BY <1>1, <2>4 DEF Recorded, Widgets
    <3>2. /\ widget' \in Widgets /\ widget'.size = widget.size
          /\ widget'.visible => widget'.renderDue
      BY <2>1, <2>4 DEF Behind, Widgets
    <3>3. pty' \in GridSizes /\ (screen'.running => pty' = screen'.size)
      BY <1>1, <2>4, <3>1 DEF Widgets
    <3>4. ScreenParts' /\ AliveUnlessFaulty'
      BY <1>1, <2>2, <2>4, <3>1, <3>2, <3>3 DEF ScreenParts, AliveUnlessFaulty
    <3> QED
      BY <3>1, <3>2, <3>3, <3>4 DEF ScreenInv, ScreenIsCurrent, NothingSeenIsBehind, ShellHasTheSize
  <2>5. CASE /\ emulator' = Resized(emulator, widget.size) /\ screen' = Recorded(screen, FALSE)
             /\ widget' = [settled EXCEPT !.fresh = FALSE] /\ UNCHANGED <<pty, chosen>> /\ faults' = faults + 1
    <3> HIDE DEF settled
    <3>1. screen' = screen
      BY <2>5 DEF Recorded
    <3>2. widget' \in Widgets
      BY <2>1, <2>5 DEF Widgets
    <3>3. faults' \in Nat /\ faults' # 0
      BY <1>1, <2>5
    <3> QED
      BY <1>1, <2>2, <2>5, <3>1, <3>2, <3>3
      DEF ScreenInv, ScreenParts, AliveUnlessFaulty, ScreenIsCurrent, NothingSeenIsBehind, ShellHasTheSize
  <2>6. CASE ~emulator.alive /\ widget' = settled /\ UNCHANGED <<emulator, screen, pty, faults, chosen>>
    <3>1. NothingSeenIsBehind'
      BY <1>1, <2>6 DEF AliveUnlessFaulty, NothingSeenIsBehind
    <3> QED
      BY <2>1, <2>6, <3>1, WidgetMoves
  <2> QED
    BY <1>2, <2>3, <2>4, <2>5, <2>6 DEF UpdateTerminalSize
<1>3. CASE RestartSession
  <2>1. /\ Blank(screen.size, screen.theme) \in Emulators /\ Blank(screen.size, screen.theme).alive
        /\ screen.size \in GridSizes
    BY <1>1, OthersDone
  <2>2. CASE /\ emulator' = Blank(screen.size, screen.theme)
             /\ screen' = [screen EXCEPT !.running = TRUE] /\ pty' = screen.size
             /\ RenderChanged /\ UNCHANGED <<chosen, faults>>
    <3>1. /\ screen' \in [size : GridSizes, theme : Themes, running : BOOLEAN]
          /\ screen'.size = screen.size
      BY <1>1, <2>2
    <3>2. widget' \in Widgets
      BY <1>1, <2>2 DEF RenderChanged, Behind, Widgets
    <3>3. NothingSeenIsBehind'
      BY <1>1, <2>2, <3>1 DEF NothingSeenIsBehind, RenderChanged, Behind, Widgets
    <3> QED
      BY <1>1, <2>1, <2>2, <3>1, <3>2, <3>3
      DEF ScreenInv, ScreenParts, AliveUnlessFaulty, ScreenIsCurrent, ShellHasTheSize
  <2>3. CASE /\ \E lives \in BOOLEAN : emulator' = [Blank(screen.size, screen.theme) EXCEPT !.alive = lives]
             /\ screen' = [screen EXCEPT !.running = FALSE]
             /\ widget' = [widget EXCEPT !.fresh = @ /\ ~widget.attached]
             /\ UNCHANGED <<pty, chosen>> /\ faults' = faults + 1
    <3>1. /\ screen' \in [size : GridSizes, theme : Themes, running : BOOLEAN] /\ ~screen'.running
      BY <1>1, <2>3
    <3>2. widget' \in Widgets
      BY <1>1, <2>3, Zenon DEF Widgets
    <3>3. emulator' \in Emulators
      BY <2>1, <2>3 DEF Emulators
    <3>4. faults' \in Nat /\ faults' # 0
      BY <1>1, <2>3
    <3> QED
      BY <1>1, <2>3, <3>1, <3>2, <3>3, <3>4
      DEF ScreenInv, ScreenParts, AliveUnlessFaulty, ScreenIsCurrent, NothingSeenIsBehind, ShellHasTheSize
  <2> QED
    BY <1>3, <2>2, <2>3 DEF RestartSession
<1> QED
  BY <1>2, <1>3

LEMMA ScreenStays == ScreenInv /\ [ScreenNext]_screenVars => ScreenInv'
<1> SUFFICES ASSUME ScreenInv, [ScreenNext]_screenVars PROVE ScreenInv'
  OBVIOUS
<1>1. CASE ScreenNext
  BY <1>1, ViewSteps, FindSteps, WidgetSteps, SizeSteps DEF ScreenNext
<1>2. CASE UNCHANGED screenVars
  BY <1>2 DEF screenVars, ScreenInv, ScreenParts, AliveUnlessFaulty, ScreenIsCurrent, NothingSeenIsBehind,
     ShellHasTheSize
<1> QED
  BY <1>1, <1>2

(* What is seen is the screen of the shell and has its size, however prints, *)
(* resizes, hidings, showings, other panes, themes, restarts and faults     *)
(* fall, for any sizes of the grid and of the history.                      *)
THEOREM ScreenAlwaysCurrent == ScreenSpec => []ScreenIsCurrent
<1>1. ScreenInv => ScreenIsCurrent
  BY DEF ScreenInv
<1> QED
  BY <1>1, ScreenBegins, ScreenStays, PTL DEF ScreenSpec

(* What the type of the screen says beyond ScreenParts: the history keeps   *)
(* to its size and the viewport within it; what was found is a sequence of   *)
(* rows, few enough, and one of them is the current one.                   *)
Bounded(e) ==
    /\ e \in Emulators /\ Len(e.lines) <= MaxLines
    /\ e.offset \in 0..Highest(e) /\ e.selection \in 0..MaxLines

Found(matches, k) == (\E S : matches \in Seq(S)) /\ Len(matches) <= MaxMatches /\ k \in 0..Len(matches)

Numbers == asking \in BOOLEAN /\ changes \in 0..MaxChanges /\ faults \in 0..MaxMishaps

ScreenBounds == Bounded(emulator) /\ Found(find.matches, find.current) /\ Numbers

LEMMA HighestRow ==
    ASSUME NEW e, e.lines \in Seq(Lines), Len(e.lines) <= MaxLines
    PROVE  Highest(e) \in 0..MaxLines
BY ScreenAssumption DEF ScreenAssumption, Highest

LEMMA TypeOfScreen == ScreenParts /\ ScreenBounds => ScreenTypeOK
<1> SUFFICES ASSUME ScreenParts, ScreenBounds PROVE ScreenTypeOK
  OBVIOUS
<1>1. Highest(emulator) \in 0..MaxLines
  BY HighestRow DEF ScreenBounds, Bounded, Emulators
<1>2. emulator.offset \in 0..MaxLines /\ emulator.offset <= Highest(emulator) /\ emulator.selection \in 0..MaxLines
  BY <1>1, ScreenAssumption DEF ScreenAssumption, ScreenBounds, Bounded
<1>3. emulator \in [alive : BOOLEAN, size : GridSizes, theme : Themes, lines : Seq(Lines),
                    offset : 0..MaxLines, selection : 0..MaxLines]
  BY <1>2 DEF ScreenParts, Emulators
<1> QED
  BY <1>2, <1>3 DEF ScreenTypeOK, ScreenParts, ScreenBounds, Bounded, Found, Numbers, Widgets

LEMMA ScrollsInBounds ==
    ASSUME NEW e \in Emulators, Len(e.lines) <= MaxLines, e.selection \in 0..MaxLines
    PROVE  (\A row \in Int : Bounded(ScrolledTo(e, row))) /\ Bounded(Bottomed(e))
<1>1. Highest(e) \in 0..MaxLines
  BY HighestRow DEF Emulators
<1>2. ASSUME NEW row \in Int PROVE Bounded(ScrolledTo(e, row))
  <2> DEFINE f == ScrolledTo(e, row)
  <2>1. f.lines = e.lines /\ f.selection = e.selection /\ f.offset \in 0..Highest(e)
    BY <1>1, ScreenAssumption DEF ScreenAssumption, ScrolledTo, Emulators
  <2>2. Highest(f) = Highest(e) /\ f \in Emulators
    BY <2>1, Scrolled DEF Highest
  <2> QED
    BY <2>1, <2>2 DEF Bounded
<1>3. Highest(e) \in Int
  BY <1>1
<1> QED
  BY <1>2, <1>3 DEF Bottomed

LEMMA PrintsInBounds ==
    ASSUME NEW e, Bounded(e), NEW line \in Lines
    PROVE  Bounded(Printed(e, line))
<1> DEFINE full == Len(e.lines) = MaxLines
           lines == IF full THEN Append(Tail(e.lines), line) ELSE Append(e.lines, line)
           selection == IF full /\ e.selection > 0 THEN e.selection - 1 ELSE e.selection
           next == [e EXCEPT !.lines = lines, !.selection = selection]
<1>1. e \in Emulators /\ e.lines \in Seq(Lines) /\ Len(e.lines) <= MaxLines /\ MaxLines \in Nat /\ MaxLines # 0
      /\ e.offset \in 0..Highest(e) /\ e.selection \in 0..MaxLines
  BY ScreenAssumption DEF ScreenAssumption, Bounded, Emulators
<1>2. lines \in Seq(Lines) /\ Len(lines) <= MaxLines /\ Len(lines) >= Len(e.lines)
  <2>1. CASE full
    <3>1. Tail(e.lines) \in Seq(Lines) /\ Len(Tail(e.lines)) = Len(e.lines) - 1
      BY <1>1, <2>1
    <3> QED
      BY <1>1, <2>1, <3>1
  <2>2. CASE ~full
    BY <1>1, <2>2
  <2> QED
    BY <2>1, <2>2
<1>3. selection \in 0..MaxLines
  BY <1>1
<1> HIDE DEF lines, selection
<1>4. /\ next.lines = lines /\ next.selection = selection /\ next.offset = e.offset
      /\ next \in Emulators
  <2> DEFINE longer == [e EXCEPT !.lines = lines]
  <2>1. longer \in Emulators /\ longer.lines = lines /\ longer.offset = e.offset
    BY <1>1, <1>2 DEF Emulators
  <2>2. next = [longer EXCEPT !.selection = selection]
    OBVIOUS
  <2> HIDE DEF longer, next
  <2>3. selection \in Int
    BY <1>1, <1>3
  <2> QED
    BY <2>1, <2>2, <2>3 DEF Emulators
<1>5. Printed(e, line) = IF e.offset = Highest(e) THEN Bottomed(next) ELSE next
  BY DEF Printed, lines, selection
<1> HIDE DEF next
<1>6. Bounded(Bottomed(next))
  BY <1>2, <1>3, <1>4, ScrollsInBounds
<1>7. Highest(e) <= Highest(next) /\ Highest(e) \in Nat /\ Highest(next) \in Nat
  BY <1>1, <1>2, <1>4, ScreenAssumption DEF ScreenAssumption, Highest
<1>8. Bounded(next)
  BY <1>1, <1>2, <1>3, <1>4, <1>7 DEF Bounded
<1> QED
  BY <1>5, <1>6, <1>8

LEMMA OthersInBounds ==
    ASSUME NEW e, Bounded(e)
    PROVE  /\ Bounded(Cleared(e)) /\ Bounded(Unselected(e))
           /\ \A theme \in Themes : Bounded(Themed(e, theme))
           /\ \A grid \in GridSizes : Bounded(Resized(e, grid))
<1>1. e \in Emulators /\ Len(e.lines) <= MaxLines /\ e.offset \in 0..Highest(e) /\ e.selection \in 0..MaxLines
      /\ MaxLines \in Nat /\ ViewRows \in Nat
  BY ScreenAssumption DEF ScreenAssumption, Bounded
<1>2. Bounded(Cleared(e))
  <2>1. Cleared(e) \in Emulators
    BY <1>1, OthersDone
  <2>2. Cleared(e).lines = <<>> /\ Cleared(e).offset = 0 /\ Cleared(e).selection = 0
    <3>1. PICK none : none = <<>>
      OBVIOUS
    <3> DEFINE first == [e EXCEPT !.lines = none]
               second == [first EXCEPT !.offset = 0]
               third == [second EXCEPT !.selection = 0]
    <3>2. Cleared(e) = third
      BY <3>1 DEF Cleared
    <3>3. DOMAIN e = {"alive", "size", "theme", "lines", "offset", "selection"}
      BY <1>1 DEF Emulators
    <3>4. first.lines = none /\ DOMAIN first = DOMAIN e
      BY <3>3
    <3>5. second.lines = none /\ second.offset = 0 /\ DOMAIN second = DOMAIN e
      <4> HIDE DEF first
      <4> QED
        BY <3>3, <3>4
    <3>6. third.lines = none /\ third.offset = 0 /\ third.selection = 0
      <4> HIDE DEF second
      <4> QED
        BY <3>3, <3>5
    <3> QED
      BY <3>1, <3>2, <3>6
  <2>3. Len(Cleared(e).lines) = 0 /\ Highest(Cleared(e)) = 0
    BY <1>1, <2>2 DEF Highest
  <2> QED
    BY <1>1, <2>1, <2>2, <2>3 DEF Bounded
<1>3. ASSUME NEW f \in Emulators, f.lines = e.lines, f.offset = e.offset, f.selection \in 0..MaxLines
      PROVE  Bounded(f)
  BY <1>1, <1>3 DEF Bounded, Highest
<1>4. Bounded(Unselected(e))
  BY <1>1, <1>3, OthersDone DEF Unselected, Emulators
<1>5. ASSUME NEW theme \in Themes PROVE Bounded(Themed(e, theme))
  BY <1>1, <1>3, <1>5, OthersDone DEF Themed, Emulators
<1>6. ASSUME NEW grid \in GridSizes PROVE Bounded(Resized(e, grid))
  BY <1>1, <1>3, <1>6, OthersDone DEF Resized, Emulators
<1> QED
  BY <1>2, <1>4, <1>5, <1>6

LEMMA RowsInBounds ==
    ASSUME NEW e, Bounded(e), NEW row
    PROVE  /\ Bounded(Revealed(e, row))
           /\ row \in DOMAIN e.lines => Bounded(Followed([e EXCEPT !.selection = row], row))
<1>1. e \in Emulators /\ Len(e.lines) <= MaxLines /\ e.lines \in Seq(Lines) /\ ViewRows \in Nat /\ MaxLines \in Nat
  BY ScreenAssumption DEF ScreenAssumption, Bounded, Emulators
<1>2. CASE row \notin DOMAIN e.lines
  BY <1>2 DEF Revealed
<1>3. CASE row \in DOMAIN e.lines
  <2> DEFINE marked == [e EXCEPT !.selection = row]
  <2>1. row \in 0..MaxLines
    BY <1>1, <1>3
  <2>2. marked \in Emulators /\ marked.lines = e.lines /\ marked.selection = row /\ marked.offset \in Int
    BY <1>1, <2>1 DEF Emulators
  <2>3. Revealed(e, row) = ScrolledTo(marked, row - 1 - ViewRows \div 2)
    BY <1>3 DEF Revealed
  <2> HIDE DEF marked
  <2>4. PICK r \in Int : Followed(marked, row) = ScrolledTo(marked, r)
    BY <2>1, <2>2, <1>1 DEF Followed
  <2>5. row - 1 - ViewRows \div 2 \in Int
    BY <1>1, <2>1
  <2>6. \A k \in Int : Bounded(ScrolledTo(marked, k))
    BY <1>1, <2>1, <2>2, ScrollsInBounds
  <2> QED
    BY <2>3, <2>4, <2>5, <2>6 DEF marked
<1> QED
  BY <1>2, <1>3

(* What a search finds is a sequence of at most MaxMatches rows.            *)
LEMMA SearchFinds ==
    ASSUME NEW lines \in Seq(Lines)
    PROVE  \A k \in {0, IF Search(lines) = <<>> THEN 0 ELSE 1} : Found(Search(lines), k)
<1> DEFINE hits == {k \in DOMAIN lines : lines[k] = "hit"}
           number == IF Cardinality(hits) < MaxMatches THEN Cardinality(hits) ELSE MaxMatches
           matches == Search(lines)
<1>1. IsFiniteSet(hits)
  BY FS_Subset, FS_Interval
<1>2. Cardinality(hits) \in Nat
  BY <1>1, FS_CardinalityType
<1>3. number \in Nat /\ number <= MaxMatches
  BY <1>2, ScreenAssumption DEF ScreenAssumption
<1>4. matches = [n \in 1..number |-> CHOOSE k \in hits : Cardinality({j \in hits : j <= k}) = n]
  BY DEF Search
<1> HIDE DEF number, hits, matches
<1>5. matches \in Seq({matches[n] : n \in 1..number}) /\ Len(matches) = number
  <2>1. matches \in [1..number -> {matches[n] : n \in 1..number}]
    BY <1>4
  <2> QED
    BY <1>3, <2>1, LenProperties
<1>6. matches # <<>> => 1 \in 0..Len(matches)
  BY <1>3, <1>5
<1> QED
  BY <1>3, <1>5, <1>6 DEF Found, matches

LEMMA Around ==
    ASSUME NEW k \in Int, NEW n \in Nat, n # 0
    PROVE  (k % n) + 1 \in 0..n
OBVIOUS

LEMMA RevealsInBounds ==
    ASSUME ScreenBounds, NEW matches, NEW k, Found(matches, k), Reveals(matches, k)
    PROVE  ScreenBounds'
<1>1. /\ find' = [matches |-> matches, current |-> k]
      /\ \E row : emulator' = Revealed(emulator, row)
      /\ UNCHANGED <<asking, changes, faults>>
  BY DEF Reveals
<1>2. Bounded(emulator')
  BY <1>1, RowsInBounds DEF ScreenBounds
<1> QED
  BY <1>1, <1>2 DEF ScreenBounds, Numbers, Bounded, Highest

LEMMA ViewsInBounds ==
    ASSUME ScreenBounds,
           \/ ScrollToTop \/ ClearSelection \/ WriteToShell \/ ClearScrollback
           \/ \E rows \in {-ViewRows, -1, 1, ViewRows} : ScrollViewport(rows)
           \/ \E row \in 0..MaxLines : ScrollToRow(row) \/ SelectRow(row)
           \/ \E line \in Lines : FlushLine(line)
    PROVE  ScreenBounds'
<1>1. /\ Bounded(emulator) /\ emulator \in Emulators /\ emulator.offset \in Int
      /\ Len(emulator.lines) <= MaxLines /\ emulator.selection \in 0..MaxLines
      /\ Found(find.matches, find.current) /\ Numbers
      /\ ViewRows \in Nat /\ MaxLines \in Nat /\ MaxChanges \in Nat
  BY ScreenAssumption DEF ScreenAssumption, ScreenBounds, Bounded, Emulators
<1>2. ASSUME NEW e, Bounded(e), emulator' = e, UNCHANGED <<find, asking, faults>>, changes' \in 0..MaxChanges
      PROVE  ScreenBounds'
  BY <1>1, <1>2 DEF ScreenBounds, Bounded, Highest, Numbers
<1>3. ASSUME NEW e, Bounded(e), Scrolls(e) PROVE ScreenBounds'
  BY <1>1, <1>2, <1>3 DEF Scrolls, Numbers
<1>4. \A row \in Int : Bounded(ScrolledTo(emulator, row))
  BY <1>1, ScrollsInBounds
<1>5. CASE ScrollToTop
  BY <1>3, <1>4, <1>5 DEF ScrollToTop
<1>6. CASE ClearSelection
  BY <1>1, <1>3, <1>6, OthersInBounds DEF ClearSelection
<1>7. CASE WriteToShell
  BY <1>1, <1>3, <1>7, ScrollsInBounds DEF WriteToShell
<1>8. CASE ClearScrollback
  BY <1>1, <1>2, <1>8, OthersInBounds DEF ClearScrollback, Numbers
<1>9. ASSUME NEW rows \in {-ViewRows, -1, 1, ViewRows}, ScrollViewport(rows) PROVE ScreenBounds'
  <2>1. emulator.offset + rows \in Int
    BY <1>1
  <2> QED
    BY <1>3, <1>4, <1>9, <2>1 DEF ScrollViewport
<1>10. ASSUME NEW row \in 0..MaxLines, ScrollToRow(row) PROVE ScreenBounds'
  BY <1>1, <1>3, <1>4, <1>10 DEF ScrollToRow
<1>11. ASSUME NEW row \in 0..MaxLines, SelectRow(row) PROVE ScreenBounds'
  BY <1>1, <1>3, <1>11, RowsInBounds DEF SelectRow
<1>12. ASSUME NEW line \in Lines, FlushLine(line) PROVE ScreenBounds'
  <2>1. changes' \in 0..MaxChanges
    BY <1>1, <1>12 DEF FlushLine, Numbers
  <2> QED
    BY <1>1, <1>2, <1>12, <2>1, PrintsInBounds DEF FlushLine
<1> QED
  BY <1>5, <1>6, <1>7, <1>8, <1>9, <1>10, <1>11, <1>12

LEMMA FindsInBounds ==
    ASSUME ScreenBounds,
           \/ RefreshMatches \/ DismissFindBar \/ AskToPaste \/ ProcessExited
           \/ \E yes \in BOOLEAN : StepMatch(yes) \/ PasteAnswered(yes)
           \/ \E theme \in Themes : SetTheme(theme)
    PROVE  ScreenBounds'
<1>1. /\ Bounded(emulator) /\ emulator \in Emulators /\ emulator.lines \in Seq(Lines)
      /\ Len(emulator.lines) <= MaxLines /\ emulator.selection \in 0..MaxLines
      /\ Found(find.matches, find.current) /\ Numbers
  BY DEF ScreenBounds, Bounded, Emulators
<1>2. ASSUME NEW e, Bounded(e), emulator' = e, UNCHANGED <<find, changes, faults>>, asking' \in BOOLEAN
      PROVE  ScreenBounds'
  BY <1>1, <1>2 DEF ScreenBounds, Bounded, Highest, Numbers
<1>3. CASE RefreshMatches
  BY <1>1, <1>3, SearchFinds, RevealsInBounds DEF RefreshMatches
<1>4. CASE DismissFindBar
  <2>1. Found(find'.matches, find'.current)
    <3>1. find'.matches = <<>> /\ find'.current = 0
      BY <1>4 DEF DismissFindBar, NoMatches
    <3>2. Len(find'.matches) = 0 /\ find'.matches \in Seq(Lines)
      BY <3>1
    <3> QED
      BY <3>1, <3>2, ScreenAssumption DEF ScreenAssumption, Found
  <2>2. emulator' = Unselected(emulator) /\ UNCHANGED <<asking, changes, faults>>
    BY <1>4 DEF DismissFindBar
  <2>3. Bounded(emulator')
    BY <1>1, <2>2, OthersInBounds
  <2> QED
    BY <1>1, <2>1, <2>2, <2>3 DEF ScreenBounds, Bounded, Highest, Numbers
<1>5. CASE AskToPaste
  BY <1>1, <1>2, <1>5 DEF AskToPaste
<1>6. CASE ProcessExited
  BY <1>1, <1>2, <1>6 DEF ProcessExited, Numbers
<1>7. ASSUME NEW yes \in BOOLEAN, StepMatch(yes) PROVE ScreenBounds'
  <2> DEFINE count == Len(find.matches)
             step == IF yes THEN find.current ELSE find.current - 2
  <2>1. count \in Nat /\ count # 0 /\ step + count \in Int
    BY <1>1, <1>7 DEF StepMatch, Found
  <2>2. Found(find.matches, ((step + count) % count) + 1)
    BY <1>1, <2>1, Around DEF Found
  <2> QED
    BY <1>7, <2>2, RevealsInBounds DEF StepMatch
<1>8. ASSUME NEW yes \in BOOLEAN, PasteAnswered(yes) PROVE ScreenBounds'
  <2>1. Bounded(Bottomed(emulator))
    BY <1>1, ScrollsInBounds
  <2> QED
    BY <1>1, <1>2, <1>8, <2>1 DEF PasteAnswered
<1>9. ASSUME NEW theme \in Themes, SetTheme(theme) PROVE ScreenBounds'
  BY <1>1, <1>2, <1>9, OthersInBounds DEF SetTheme, Numbers
<1> QED
  BY <1>3, <1>4, <1>5, <1>6, <1>7, <1>8, <1>9

LEMMA WidgetInBounds ==
    ASSUME ScreenParts, ScreenBounds,
           \/ RefreshSnapshot \/ ShowEvent \/ HideEvent \/ Deactivate
           \/ \E grid \in GridSizes : ResizeEvent(grid) \/ SetSession(grid)
           \/ UpdateTerminalSize \/ RestartSession
    PROVE  ScreenBounds'
<1>1. /\ Bounded(emulator) /\ Found(find.matches, find.current) /\ Numbers
      /\ MaxLines \in Nat /\ MaxMatches \in Nat /\ MaxChanges \in Nat /\ MaxMishaps \in Nat
      /\ widget.size \in GridSizes /\ screen.size \in GridSizes /\ screen.theme \in Themes
  BY ScreenAssumption DEF ScreenAssumption, ScreenBounds, ScreenParts, Widgets
<1>2. ASSUME Bounded(emulator'), Found(find'.matches, find'.current), asking' = asking,
             changes' \in 0..MaxChanges, faults' \in 0..MaxMishaps
      PROVE  ScreenBounds'
  BY <1>1, <1>2 DEF ScreenBounds, Bounded, Highest, Numbers
<1>3. find' = NoMatches => Found(find'.matches, find'.current)
  <2>1. <<>> \in Seq(Lines) /\ Len(<<>>) = 0
    OBVIOUS
  <2> QED
    BY <1>1, <2>1 DEF NoMatches, Found
<1>4. CASE RefreshSnapshot \/ ShowEvent \/ HideEvent
  BY <1>1, <1>2, <1>4 DEF RefreshSnapshot, ShowEvent, HideEvent, Numbers
<1>5. CASE Deactivate
  BY <1>1, <1>2, <1>3, <1>5 DEF Deactivate, Numbers
<1>6. ASSUME NEW grid \in GridSizes, ResizeEvent(grid) PROVE ScreenBounds'
  BY <1>1, <1>2, <1>6 DEF ResizeEvent, Numbers
<1>7. ASSUME NEW grid \in GridSizes, SetSession(grid) PROVE ScreenBounds'
  BY <1>1, <1>2, <1>3, <1>7 DEF SetSession, Numbers
<1>8. CASE UpdateTerminalSize
  <2>1. Bounded(emulator')
    BY <1>1, <1>8, OthersInBounds DEF UpdateTerminalSize
  <2>2. UNCHANGED <<find, asking, changes>>
    BY <1>8 DEF UpdateTerminalSize
  <2>3. faults' = faults \/ (faults < MaxMishaps /\ faults' = faults + 1)
    BY <1>8, Zenon DEF UpdateTerminalSize
  <2>4. faults' \in 0..MaxMishaps
    BY <1>1, <2>3 DEF Numbers
  <2> QED
    BY <1>1, <1>2, <2>1, <2>2, <2>4 DEF Numbers
<1>9. CASE RestartSession
  <2> DEFINE blank == Blank(screen.size, screen.theme)
  <2>1. blank \in Emulators /\ Len(blank.lines) = 0 /\ blank.offset = 0 /\ blank.selection = 0
    <3>1. Len(<<>>) = 0
      OBVIOUS
    <3> QED
      BY <1>1, <3>1, OthersDone DEF Blank, ScreenParts
  <2>2. Len(emulator'.lines) = 0 /\ emulator'.offset = 0 /\ emulator'.selection = 0 /\ emulator' \in Emulators
    <3> HIDE DEF blank
    <3>1. CASE emulator' = blank
      BY <2>1, <3>1
    <3>2. ASSUME NEW lives \in BOOLEAN, emulator' = [blank EXCEPT !.alive = lives]
          PROVE  Len(emulator'.lines) = 0 /\ emulator'.offset = 0 /\ emulator'.selection = 0
                 /\ emulator' \in Emulators
      BY <2>1, <3>2 DEF Emulators
    <3> QED
      BY <1>9, <3>1, <3>2 DEF RestartSession, blank
  <2> HIDE DEF blank
  <2>3. Highest(emulator') = 0
    BY <2>2, ScreenAssumption DEF ScreenAssumption, Highest
  <2>4. Bounded(emulator')
    BY <1>1, <2>2, <2>3 DEF Bounded
  <2>5. faults' \in 0..MaxMishaps /\ changes' \in 0..MaxChanges /\ UNCHANGED <<find, asking>>
    BY <1>1, <1>9 DEF RestartSession, Numbers
  <2> QED
    BY <1>1, <1>2, <2>4, <2>5
<1> QED
  BY <1>4, <1>5, <1>6, <1>7, <1>8, <1>9

LEMMA BoundsBegin == ScreenInit => ScreenBounds
<1> SUFFICES ASSUME ScreenInit PROVE ScreenBounds
  OBVIOUS
<1>1. PICK grid \in GridSizes, theme \in Themes : emulator = Blank(grid, theme)
  BY DEF ScreenInit
<1>2. <<>> \in Seq(Lines) /\ Len(<<>>) = 0
  OBVIOUS
<1>3. emulator \in Emulators /\ Len(emulator.lines) = 0 /\ emulator.offset = 0 /\ emulator.selection = 0
  BY <1>1, <1>2 DEF Blank, Emulators
<1>4. Bounded(emulator)
  BY <1>3, ScreenAssumption DEF ScreenAssumption, Bounded, Highest
<1>5. Found(find.matches, find.current)
  <2>1. PICK none \in Seq(Lines) : none = <<>>
    BY <1>2, Zenon
  <2>2. find = [matches |-> none, current |-> 0]
    BY <2>1 DEF ScreenInit, NoMatches
  <2>3. Len(none) = 0
    BY <1>2, <2>1
  <2> QED
    BY <2>2, <2>3, ScreenAssumption DEF ScreenAssumption, Found
<1>6. asking = FALSE /\ changes = 0 /\ faults = 0
  BY Zenon DEF ScreenInit
<1>7. Numbers
  <2>1. asking \in BOOLEAN
    BY <1>6, Zenon
  <2> QED
    BY <1>6, <2>1, ScreenAssumption DEF ScreenAssumption, Numbers
<1> QED
  BY <1>4, <1>5, <1>7 DEF ScreenBounds

LEMMA BoundsStay == ScreenParts /\ ScreenBounds /\ [ScreenNext]_screenVars => ScreenBounds'
<1> SUFFICES ASSUME ScreenParts, ScreenBounds, [ScreenNext]_screenVars PROVE ScreenBounds'
  OBVIOUS
<1>1. CASE ScreenNext
  BY <1>1, ViewsInBounds, FindsInBounds, WidgetInBounds DEF ScreenNext
<1>2. CASE UNCHANGED screenVars
  BY <1>2 DEF screenVars, ScreenBounds, Bounded, Highest, Found, Numbers
<1> QED
  BY <1>1, <1>2

(* Every reachable value of a screen has its type: the history, the matches  *)
(* and the viewport keep to their limits.                                  *)
THEOREM ScreenTypeCorrect == ScreenSpec => []ScreenTypeOK
<1>1. ScreenInv /\ ScreenBounds => ScreenTypeOK
  BY TypeOfScreen DEF ScreenInv
<1>2. ScreenInit => ScreenInv /\ ScreenBounds
  BY ScreenBegins, BoundsBegin
<1>3. ScreenInv /\ ScreenBounds /\ [ScreenNext]_screenVars => ScreenInv' /\ ScreenBounds'
  BY ScreenStays, BoundsStay DEF ScreenInv
<1> QED
  BY <1>1, <1>2, <1>3, PTL DEF ScreenSpec

-----------------------------------------------------------------------------
\* The mouse
(* A program is told of buttons only while it runs and asks for them, and   *)
(* what it is told of is held, and reported.                               *)
Heeded == heard.held # {} => alive /\ modes.mouse

HeldInv == InputTypeOK /\ NoButtonSticks /\ Heeded

Told == [held : SUBSET Buttons, looked : BOOLEAN]

(* What the program is told of the focus leaves its buttons alone, and what  *)
(* it is told of the buttons is all it knows of them.                      *)
LEMMA FocusOnly ==
    ASSUME NEW t \in Told, NEW gained \in BOOLEAN, NEW taken \in BOOLEAN
    PROVE  FocusTold(t, gained, taken) \in Told /\ FocusTold(t, gained, taken).held = t.held
BY DEF FocusTold, SendFocus, Told

LEMMA ButtonsOnly ==
    ASSUME NEW t \in Told, NEW held \in SUBSET Buttons, NEW taken \in BOOLEAN
    PROVE  /\ MouseTold(t, held, taken) \in Told
           /\ MouseTold(t, held, taken).held = IF alive /\ modes.mouse /\ taken THEN held ELSE t.held
BY DEF MouseTold, SendMouse, EncodesMouse, ProgramWantsMouse, Told

(* A step of the focus or of the selection, which no button is part of.      *)
LEMMA ButtonsAsTheyWere ==
    ASSUME HeldInv, heard' \in Told, heard'.held = heard.held,
           UNCHANGED <<pane, down, clicked, reported, selecting, modes, alive, missed, panes, turns>>,
           focused' \in BOOLEAN, selected' \in BOOLEAN
    PROVE  HeldInv'
BY DEF HeldInv, InputTypeOK, NoButtonSticks, Heeded, Told

LEMMA FocusSteps ==
    ASSUME HeldInv, FocusIn \/ FocusOut \/ Drag \/ \E all \in BOOLEAN : Select(all)
    PROVE  HeldInv'
<1>1. heard \in Told /\ focused \in BOOLEAN /\ selected \in BOOLEAN
  BY DEF HeldInv, InputTypeOK, Told
<1>2. CASE FocusIn
  <2>1. PICK taken \in BOOLEAN : heard' = FocusTold(heard, TRUE, taken)
    BY <1>2 DEF FocusIn
  <2>2. heard' \in Told /\ heard'.held = heard.held
    BY <1>1, <2>1, FocusOnly
  <2> QED
    BY <1>1, <1>2, <2>2, ButtonsAsTheyWere DEF FocusIn, widgetVars
<1>3. CASE FocusOut
  <2>1. PICK taken \in BOOLEAN : heard' = FocusTold(heard, FALSE, taken)
    BY <1>3 DEF FocusOut
  <2>2. heard' \in Told /\ heard'.held = heard.held
    BY <1>1, <2>1, FocusOnly
  <2> QED
    BY <1>1, <1>3, <2>2, ButtonsAsTheyWere DEF FocusOut, widgetVars
<1>4. CASE Drag
  BY <1>1, <1>4, ButtonsAsTheyWere DEF Drag, widgetVars
<1>5. ASSUME NEW all \in BOOLEAN, Select(all) PROVE HeldInv'
  BY <1>1, <1>5, ButtonsAsTheyWere DEF Select, widgetVars
<1> QED
  BY <1>2, <1>3, <1>4, <1>5

LEMMA ButtonSteps ==
    ASSUME HeldInv, NEW b \in Buttons, NEW shift \in BOOLEAN,
           MousePress(b, shift) \/ MouseDoubleClick(b, shift) \/ MouseRelease(b, shift)
    PROVE  HeldInv'
<1>1. /\ heard \in Told /\ heard.held \in SUBSET Buttons /\ heard.held \subseteq reported \cup missed
      /\ reported \subseteq down /\ down \subseteq Buttons /\ modes \in [mouse : BOOLEAN, focus : BOOLEAN]
      /\ heard.held # {} => alive /\ modes.mouse
      /\ {pane, focused, selecting, selected, alive} \subseteq BOOLEAN /\ missed \subseteq Buttons
      /\ clicked \subseteq Buttons /\ panes \in 1..MaxPanes /\ turns \in 0..MaxTurns
  BY DEF HeldInv, InputTypeOK, NoButtonSticks, Heeded, Told
<1>2. CASE MousePress(b, shift)
  <2>1. PICK lookTaken \in BOOLEAN, taken \in BOOLEAN :
           LET looked == IF focused THEN heard ELSE FocusTold(heard, TRUE, lookTaken) IN
           \/ /\ MouseBelongsToProgram(shift)
              /\ selected' = FALSE /\ reported' = reported \cup {b}
              /\ heard' = MouseTold(looked, looked.held \cup {b}, taken)
              /\ missed' = IF taken THEN missed \ {b} ELSE missed
              /\ UNCHANGED selecting
           \/ /\ ~MouseBelongsToProgram(shift)
              /\ heard' = looked /\ UNCHANGED missed
              /\ IF b = "left" THEN StartSelection(FALSE) ELSE UNCHANGED <<selecting, selected, reported>>
    BY <1>2 DEF MousePress
  <2> DEFINE looked == IF focused THEN heard ELSE FocusTold(heard, TRUE, lookTaken)
  <2>2. looked \in Told /\ looked.held = heard.held
    BY <1>1, FocusOnly
  <2> HIDE DEF looked
  <2>3. CASE /\ MouseBelongsToProgram(shift)
             /\ selected' = FALSE /\ reported' = reported \cup {b}
             /\ heard' = MouseTold(looked, looked.held \cup {b}, taken)
             /\ missed' = IF taken THEN missed \ {b} ELSE missed
             /\ UNCHANGED selecting
    <3>1. looked.held \cup {b} \in SUBSET Buttons
      BY <1>1, <2>2
    <3>2. /\ heard' \in Told
          /\ heard'.held = IF alive /\ modes.mouse /\ taken THEN heard.held \cup {b} ELSE heard.held
      BY <2>2, <2>3, <3>1, ButtonsOnly
    <3>3. heard'.held \subseteq reported' \cup missed' /\ reported' \subseteq down' /\ down' \subseteq Buttons
      BY <1>1, <1>2, <2>3, <3>2 DEF MousePress
    <3> QED
      BY <1>1, <1>2, <2>3, <3>2, <3>3 DEF MousePress, HeldInv, InputTypeOK, NoButtonSticks, Heeded, Told
  <2>4. CASE /\ heard' = looked /\ selecting' \in BOOLEAN /\ selected' \in BOOLEAN
             /\ UNCHANGED <<reported, missed>>
    BY <1>1, <1>2, <2>2, <2>4 DEF MousePress, HeldInv, InputTypeOK, NoButtonSticks, Heeded, Told
  <2> QED
    BY <1>1, <2>1, <2>3, <2>4 DEF StartSelection, looked
<1>3. CASE MouseDoubleClick(b, shift)
  <2>1. selecting' \in BOOLEAN /\ selected' \in BOOLEAN /\ UNCHANGED reported
    BY <1>1, <1>3 DEF MouseDoubleClick, StartSelection
  <2> QED
    BY <1>1, <1>3, <2>1 DEF MouseDoubleClick, HeldInv, InputTypeOK, NoButtonSticks, Heeded, Told
<1>4. CASE MouseRelease(b, shift)
  <2>1. CASE b \notin reported /\ heard' = heard /\ missed' = missed
    BY <1>1, <1>4, <2>1 DEF MouseRelease, HeldInv, InputTypeOK, NoButtonSticks, Heeded, Told
  <2>2. ASSUME NEW taken \in BOOLEAN, heard' = MouseTold(heard, heard.held \ {b}, taken),
               missed' = IF taken THEN missed \ {b} ELSE missed \cup ({b} \cap heard.held)
        PROVE  HeldInv'
    <3>1. heard.held \ {b} \in SUBSET Buttons
      BY <1>1
    <3>2. heard' \in Told /\ heard'.held = IF alive /\ modes.mouse /\ taken THEN heard.held \ {b} ELSE heard.held
      BY <1>1, <2>2, <3>1, ButtonsOnly
    <3>3. heard'.held = IF taken THEN heard.held \ {b} ELSE heard.held
      BY <1>1, <3>2
    <3> QED
      BY <1>1, <1>4, <2>2, <3>2, <3>3 DEF MouseRelease, HeldInv, InputTypeOK, NoButtonSticks, Heeded, Told
  <2> QED
    BY <1>4, <2>1, <2>2 DEF MouseRelease, ReleaseIsReported
<1> QED
  BY <1>2, <1>3, <1>4

LEMMA PaneSteps ==
    ASSUME HeldInv, Careful,
           \/ Retire \/ Attach \/ ProgramExited \/ RestartProgram
           \/ \E m \in [mouse : BOOLEAN, focus : BOOLEAN] : ProgramTurns(m)
    PROVE  HeldInv'
<1> USE DEF HeldInv, InputTypeOK, NoButtonSticks, Heeded
<1>1. CASE Retire
  BY <1>1 DEF Retire
<1>2. CASE Attach
  BY <1>2, InputAssumption DEF Attach, InputAssumption, widgetVars
<1>3. CASE ProgramExited
  BY <1>3 DEF ProgramExited, Nothing, widgetVars
<1>4. CASE RestartProgram
  <2>1. modes' \in [mouse : BOOLEAN, focus : BOOLEAN] /\ heard' \in Told /\ heard'.held = {}
    BY <1>4 DEF RestartProgram, Nothing, NoModes, Told
  <2>2. turns' \in 0..MaxTurns
    BY <1>4, InputAssumption DEF RestartProgram, InputAssumption
  <2>3. {pane', focused', selecting', selected', alive'} \subseteq BOOLEAN
    BY <1>4 DEF RestartProgram, widgetVars
  <2> QED
    BY <1>4, <2>1, <2>2, <2>3 DEF RestartProgram, Told, widgetVars
<1>5. ASSUME NEW m \in [mouse : BOOLEAN, focus : BOOLEAN], ProgramTurns(m) PROVE HeldInv'
  <2>1. heard' \in Told /\ heard'.held = IF m.mouse /\ modes.mouse THEN heard.held ELSE {}
    BY <1>5 DEF ProgramTurns, Told
  <2> QED
    BY <1>5, <2>1, InputAssumption DEF ProgramTurns, InputAssumption, Told, widgetVars
<1> QED
  BY <1>1, <1>2, <1>3, <1>4, <1>5

LEMMA HeldBegins == InputInit => HeldInv
<1> SUFFICES ASSUME InputInit PROVE HeldInv
  OBVIOUS
<1>1. modes \in [mouse : BOOLEAN, focus : BOOLEAN] /\ heard \in Told /\ heard.held = {}
  BY DEF InputInit, Nothing, NoModes, Told
<1>2. panes \in 1..MaxPanes /\ turns \in 0..MaxTurns
  BY InputAssumption DEF InputAssumption, InputInit
<1>3. {pane, focused, selecting, selected, alive} \subseteq BOOLEAN
  BY DEF InputInit
<1> QED
  BY <1>1, <1>2, <1>3 DEF InputInit, HeldInv, InputTypeOK, NoButtonSticks, Heeded, Told

LEMMA HeldStays == ASSUME Careful PROVE HeldInv /\ [InputNext]_inputVars => HeldInv'
<1> SUFFICES ASSUME HeldInv, [InputNext]_inputVars PROVE HeldInv'
  OBVIOUS
<1>1. CASE UNCHANGED inputVars
  BY <1>1 DEF inputVars, HeldInv, InputTypeOK, NoButtonSticks, Heeded
<1>2. CASE InputNext
  BY <1>2, FocusSteps, ButtonSteps, PaneSteps DEF InputNext
<1> QED
  BY <1>1, <1>2

(* Through Shift, double clicks, selections and modes that change, a program *)
(* believes no button down whose release it will not hear of, but one whose   *)
(* release its full queue did not take, as long as no pane is retired with a  *)
(* button held on it (TerminalWidget.cpp).                                  *)
THEOREM ButtonsNeverStick == Careful => (InputSpec => []NoButtonSticks)
<1> SUFFICES ASSUME Careful PROVE InputSpec => []NoButtonSticks
  OBVIOUS
<1>1. HeldInv => NoButtonSticks
  BY DEF HeldInv
<1>2. HeldInv /\ [InputNext]_inputVars => HeldInv'
  BY HeldStays
<1> QED
  BY <1>1, <1>2, HeldBegins, PTL DEF InputSpec

-----------------------------------------------------------------------------
\* All of them
(* The parts stand beside each other, and one moves at a time.              *)
Apart == IInv /\ Permitted /\ Saves /\ CInv /\ ScreenInv /\ ScreenBounds /\ HeldInv

LEMMA ApartStay ==
    ASSUME Careful
    PROVE  Apart /\ [TerminalNext]_<<part, vars, conVars, screenVars, inputVars, settingsVars>> => Apart'
<1> SUFFICES ASSUME Apart, [TerminalNext]_<<part, vars, conVars, screenVars, inputVars, settingsVars>> PROVE Apart'
  OBVIOUS
<1>1. [Next]_vars /\ [ConNext]_conVars /\ [ScreenNext]_screenVars /\ [InputNext]_inputVars
      /\ [SettingsNext]_settingsVars
  BY Zenon DEF TerminalNext, Session, OnScreen, AtTheMouse, InSettings, OnWindows
<1>2. IInv'
  BY <1>1, NextIInv DEF Apart
<1>3. CInv'
  BY <1>1, PositionsKept, AmountsKept, BytesKept DEF Apart, CInv
<1>4. ScreenInv' /\ ScreenBounds'
  BY <1>1, ScreenStays, BoundsStay DEF Apart, ScreenInv
<1>5. HeldInv'
  BY <1>1, HeldStays DEF Apart
<1>6. Permitted' /\ Saves'
  BY <1>1, StepPermitted, SavesKept DEF Apart, Permitted
<1> QED
  BY <1>2, <1>3, <1>4, <1>5, <1>6 DEF Apart

(* Every reachable value of the terminal has its type, and no button stays   *)
(* pressed but by a release that was refused, where no pane is retired with   *)
(* a button held on it.                                                    *)
THEOREM TerminalTypeCorrect == Careful => (TerminalSpec => []TerminalTypeOK)
<1> SUFFICES ASSUME Careful PROVE TerminalSpec => []TerminalTypeOK
  OBVIOUS
<1>1. TerminalInit => Apart
  BY InitIInv, InitPermitted, SavesKept, ConInitial, ScreenBegins, BoundsBegin, HeldBegins DEF TerminalInit, Apart
<1>2. Apart /\ [TerminalNext]_<<part, vars, conVars, screenVars, inputVars, settingsVars>> => Apart'
  BY ApartStay
<1>3. Apart => TerminalTypeOK
  <2> SUFFICES ASSUME Apart PROVE TerminalTypeOK
    OBVIOUS
  <2>1. TypeOK
    BY DEF Apart, IInv
  <2>2. ConTypeOK
    BY DEF Apart, CInv, Positions, Amounts, Bytes, ConTypeOK
  <2>3. ScreenTypeOK
    BY TypeOfScreen DEF Apart, ScreenInv
  <2>4. SettingsTypeOK
    BY SettingsTypes DEF Apart, Permitted
  <2>5. InputTypeOK /\ NoButtonSticks
    BY DEF Apart, HeldInv
  <2> QED
    BY <2>1, <2>2, <2>3, <2>4, <2>5 DEF TerminalTypeOK
<1> QED
  BY <1>1, <1>2, <1>3, PTL DEF TerminalSpec
=============================================================================
