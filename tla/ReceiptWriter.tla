---------------------------- MODULE ReceiptWriter ----------------------------
(***************************************************************************)
(* The files in which the server keeps one receipt per session.            *)
(*                                                                         *)
(* A session's writes form a queue of their own and different sessions     *)
(* write side by side.  A write fills a temporary file, renames it over    *)
(* the receipt, and then waits for a retention pass; the passes of all     *)
(* sessions form one queue.  A step of this module is the code between two *)
(* file operations, each of which may fail, and the process may stop       *)
(* between any two of them.                                                *)
(*                                                                         *)
(* Every receipt counts for one unit of the disk budget, so the limits on  *)
(* files and on bytes are one limit.  One unit of time is longer than any  *)
(* write takes.                                                            *)
(***************************************************************************)
EXTENDS Integers, Sequences, FiniteSets

CONSTANTS
  Sessions,   \* session identities
  MaxFiles,   \* receipts the disk budget has room for
  Retention,  \* the age at which a receipt expires
  TempAge,    \* the age at which a temporary file is abandoned
  NoSession,  \* the session of a pass that does not run
  MaxEvents,  \* bound: events of a session in one process
  MaxClock,    \* bound on the clock
  MaxCrashes  \* bound: restarts of the server

ASSUME RetentionIsPositive ==
  /\ MaxFiles \in Nat \ {0} /\ Retention \in Nat \ {0}
  /\ TempAge \in Nat \ {0}
  /\ MaxEvents \in Nat /\ MaxClock \in Nat /\ MaxCrashes \in Nat

ASSUME SessionsAreFinite == IsFiniteSet(Sessions) /\ NoSession \notin Sessions

VARIABLES
  clock, crashes,
  log,       \* events each session of this process has committed
  queue,     \* each session's snapshots that wait behind the one being written
  write,     \* each session's write in progress
  waiting,   \* the sessions whose writes wait for their retention pass, in order
  pass,      \* the retention pass in progress
  file,      \* the snapshot in each session's file (0: no file)
  written,   \* when that file was written
  litter     \* the temporary files that belong to no write any more

fileVars == <<file, written, litter>>
taskVars == <<log, queue, write, waiting, pass>>
writerVars == <<clock, crashes, fileVars, taskVars>>

\* A write in progress: its snapshot, the operation it awaits, whether one of
\* them has failed, and its temporary file.
NoWrite == [snapshot |-> 0, pc |-> "idle", failed |-> FALSE,
            temp |-> "none"]

\* A retention pass: the operation it awaits, the session whose write asked for
\* it, when it began, the temporary files it saw by name, the files it is going
\* to remove, and the receipts renewed since it dated them.
NoPass == [pc |-> "idle", for |-> NoSession, since |-> 0, names |-> {},
           doomed |-> {}, stale |-> {}, fresh |-> {}]

WriterInit ==
  /\ clock = 0 /\ crashes = 0
  /\ log     = [s \in Sessions |-> 0]
  /\ queue   = [s \in Sessions |-> <<>>]
  /\ write   = [s \in Sessions |-> NoWrite]
  /\ waiting = <<>>
  /\ pass    = NoPass
  /\ file    = [s \in Sessions |-> 0]
  /\ written = [s \in Sessions |-> 0]
  /\ litter  = {}

-----------------------------------------------------------------------------
(* The queue of one session's writes.                                      *)

Awaits(s, pc) == write[s].pc = pc

Goes(s, w) == write' = [write EXCEPT ![s] = w]

\* The receipt as the session's record stands, known by its last sequence number.
Snapshot(s) == log'[s]

\* An event is committed and its snapshot taken at once, before anything is
\* awaited.  A session is created only when no receipt bears its identity.  A
\* snapshot over the size limit is refused here.
Emit(s) ==
  /\ log[s] < MaxEvents
  /\ log[s] = 0 => file[s] = 0
  /\ log' = [log EXCEPT ![s] = @ + 1]
  /\ \/ queue' = [queue EXCEPT ![s] = Append(@, Snapshot(s))]
     \/ UNCHANGED queue
  /\ UNCHANGED <<clock, crashes, write, waiting, pass, fileVars>>

\* A write that does not wait for the session's earlier ones.
Prepare_AtOnce(s) ==
  /\ Awaits(s, "idle") /\ queue[s] # <<>>
  /\ \E i \in DOMAIN queue[s] :
       /\ queue' = [queue EXCEPT ![s] = SubSeq(@, 1, i - 1) \o SubSeq(@, i + 1, Len(@))]
       /\ Goes(s, [NoWrite EXCEPT !.snapshot = queue[s][i], !.pc = "fill",
                                  !.temp = "partial"])
  /\ UNCHANGED <<clock, crashes, log, waiting, pass, fileVars>>

\* The directory is made and closed to others; a failure here leaves no file.
Prepare(s) ==
  /\ Awaits(s, "idle") /\ queue[s] # <<>>
  /\ queue' = [queue EXCEPT ![s] = Tail(@)]
  /\ \/ Goes(s, [NoWrite EXCEPT !.snapshot = Head(queue[s]), !.pc = "fill",
                                !.temp = "partial"])
     \/ UNCHANGED write
  /\ UNCHANGED <<clock, crashes, log, waiting, pass, fileVars>>

\* The temporary file is whole, or the disk is full.
Fill(s) ==
  /\ Awaits(s, "fill")
  /\ \/ Goes(s, [write[s] EXCEPT !.pc = "rename", !.temp = "whole"])
     \/ Goes(s, [write[s] EXCEPT !.pc = "clean", !.failed = TRUE])
  /\ UNCHANGED <<clock, crashes, log, queue, waiting, pass, fileVars>>

Renamed(s) ==
  /\ file' = [file EXCEPT ![s] = write[s].snapshot]
  /\ written' = [written EXCEPT ![s] = clock]
  /\ pass'    = IF pass.pc = "remove" THEN [pass EXCEPT !.fresh = @ \union {s}]
                                      ELSE pass

\* The rename puts the whole snapshot in the place of the previous one.
Rename(s) ==
  /\ Awaits(s, "rename")
  /\ \/ /\ Renamed(s)
        /\ Goes(s, [write[s] EXCEPT !.pc = "seal", !.temp = "none"])
     \/ /\ Goes(s, [write[s] EXCEPT !.pc = "clean", !.failed = TRUE])
        /\ UNCHANGED <<file, written, pass>>
  /\ UNCHANGED <<clock, crashes, log, queue, waiting, litter>>

\* The receipt is closed to others.
Seal(s) ==
  /\ Awaits(s, "seal")
  /\ \E failed \in BOOLEAN :
       Goes(s, [write[s] EXCEPT !.pc = "clean", !.failed = failed])
  /\ UNCHANGED <<clock, crashes, log, queue, waiting, pass, fileVars>>

\* A write's temporary file, as a directory entry.
Temp(s) == IF write[s].temp = "none" THEN {}
           ELSE {[of |-> s, snapshot |-> write[s].snapshot, at |-> clock]}

\* The temporary file is removed whatever came of the write.  Only a write
\* that succeeded asks for a retention pass; another one rejects.
Clean(s) ==
  /\ Awaits(s, "clean")
  /\ \/ /\ ~write[s].failed
        /\ Goes(s, [write[s] EXCEPT !.pc = "retention", !.temp = "none"])
        /\ waiting' = Append(waiting, s)
        /\ UNCHANGED litter
     \/ /\ write[s].failed
        /\ Goes(s, NoWrite)
        /\ UNCHANGED <<waiting, litter>>
     \/ /\ Goes(s, NoWrite)
        /\ litter' = litter \union Temp(s)
        /\ UNCHANGED waiting
  /\ UNCHANGED <<clock, crashes, log, queue, pass, file, written>>

-----------------------------------------------------------------------------
(* The retention passes.                                                   *)

Receipts == {s \in Sessions : file[s] # 0}
Temps    == litter \union UNION {Temp(s) : s \in Sessions}
Names(T) == {<<f.of, f.snapshot>> : f \in T}

\* The pass of the first write in the queue reads the directory's names.
PassBegins ==
  /\ pass.pc = "idle" /\ waiting # <<>>
  /\ pass' = [NoPass EXCEPT !.pc = "date", !.for = Head(waiting), !.since = clock,
                            !.names = Names(Temps)]
  /\ waiting' = Tail(waiting)
  /\ UNCHANGED <<clock, crashes, log, queue, write, fileVars>>

Age(at) == pass.since - at

Overdue == {s \in Receipts \ {pass.for} : Age(written[s]) >= Retention}

IsExcess_ToleratesOne(D, R) ==
  /\ D \subseteq R \ {pass.for}
  /\ Cardinality(D) = IF Cardinality(R) > MaxFiles + 1
                      THEN Cardinality(R) - MaxFiles - 1 ELSE 0

\* The oldest of the receipts R go, until the budget holds, but never the one
\* the pass has to spare.
IsExcess(D, R) ==
  /\ D \subseteq R \ {pass.for}
  /\ Cardinality(D) = IF Cardinality(R) > MaxFiles THEN Cardinality(R) - MaxFiles ELSE 0
  /\ \A d \in D, r \in R \ (D \union {pass.for}) : written[d] <= written[r]

\* Every name is dated; a temporary file that was renamed or removed since its
\* name was read fails the pass.  What is to be removed is decided here.
PassDates ==
  /\ pass.pc = "date"
  /\ pass.names \subseteq Names(Temps)
  /\ \E D \in SUBSET Receipts :
       /\ IsExcess(D, Receipts \ Overdue)
       /\ pass' = [pass EXCEPT !.pc = "remove", !.names = {}, !.doomed = Overdue \union D,
                               !.stale = {f \in Temps : Age(f.at) >= TempAge}]
  /\ UNCHANGED <<clock, crashes, log, queue, write, waiting, fileVars>>

\* Abandoned temporary files go first, then receipts in an order left open here.
\* A receipt goes by its name, whatever it holds by now.
PassRemoves ==
  /\ pass.pc = "remove"
  /\ \/ \E f \in pass.stale :
          /\ litter' = litter \ {f}
          /\ pass'   = [pass EXCEPT !.stale = @ \ {f}]
          /\ UNCHANGED <<file, written>>
     \/ \E s \in pass.doomed :
          /\ pass.stale = {}
          /\ file' = [file EXCEPT ![s] = 0]
          /\ written' = [written EXCEPT ![s] = 0]
          /\ pass'    = [pass EXCEPT !.doomed = @ \ {s}]
          /\ UNCHANGED litter
  /\ UNCHANGED <<clock, crashes, log, queue, write, waiting>>

\* A pass that fails does not tell the write that waits for it.
PassEnds_Silently ==
  /\ pass.pc # "idle"
  /\ pass' = NoPass
  /\ IF pass.doomed = {} /\ pass.stale = {} /\ pass.names = {}
     THEN Goes(pass.for, NoWrite) ELSE UNCHANGED write
  /\ UNCHANGED <<clock, crashes, log, queue, waiting, fileVars>>

\* The pass is over, and with it the write that waited for it: it resolves when
\* nothing was left to remove, and rejects after an operation that failed.
PassEnds ==
  /\ pass.pc # "idle"
  /\ pass'  = NoPass
  /\ Goes(pass.for, NoWrite)
  /\ UNCHANGED <<clock, crashes, log, queue, waiting, fileVars>>

-----------------------------------------------------------------------------
(* Time and crashes.                                                       *)

\* No write takes as long as a unit of time.
TimePasses ==
  /\ clock < MaxClock
  /\ \A s \in Sessions : Awaits(s, "idle")
  /\ clock' = clock + 1
  /\ UNCHANGED <<crashes, fileVars, taskVars>>

\* The process stops: its queues are gone, the files stay as they are.
Crash ==
  /\ crashes < MaxCrashes
  /\ crashes' = crashes + 1
  /\ litter'  = Temps
  /\ log'     = [s \in Sessions |-> 0]
  /\ queue'   = [s \in Sessions |-> <<>>]
  /\ write'   = [s \in Sessions |-> NoWrite]
  /\ waiting' = <<>>
  /\ pass'    = NoPass
  /\ UNCHANGED <<clock, file, written>>

-----------------------------------------------------------------------------
Write(s) == Prepare(s) \/ Fill(s) \/ Rename(s) \/ Seal(s) \/ Clean(s)

Pass == PassBegins \/ PassDates \/ PassRemoves \/ PassEnds

WriterNext ==
  \/ \E s \in Sessions : Emit(s) \/ Write(s)
  \/ Pass \/ TimePasses \/ Crash

\* Every file operation settles, one way or the other.
WritersAreFair == WF_writerVars(Pass) /\ \A s \in Sessions : WF_writerVars(Write(s))

WriterSpec == WriterInit /\ [][WriterNext]_writerVars /\ WritersAreFair

-----------------------------------------------------------------------------
(* Properties.                                                             *)

Writes ==
  [snapshot : Nat, pc : {"idle", "fill", "rename", "seal", "clean", "retention"},
   failed : BOOLEAN, temp : {"none", "partial", "whole"}]

TempFiles == [of : Sessions, snapshot : Nat, at : Nat]

Passes ==
  [pc : {"idle", "date", "remove"}, for : Sessions \union {NoSession}, since : Nat,
   names : SUBSET (Sessions \X Nat), doomed : SUBSET Sessions,
   stale : SUBSET TempFiles, fresh : SUBSET Sessions]

\* Every variable keeps its type.
WriterTypeOK ==
  /\ clock \in Nat /\ crashes \in Nat
  /\ log \in [Sessions -> Nat]
  /\ queue \in [Sessions -> Seq(Nat)]
  /\ write \in [Sessions -> Writes]
  /\ waiting \in Seq(Sessions)
  /\ pass \in Passes
  /\ file \in [Sessions -> Nat] /\ written \in [Sessions -> Nat]
  /\ litter \subseteq TempFiles

Directory == INSTANCE ReceiptDirectory WITH kept <- file

\* Through failing operations, crashes and the passes of other sessions, the file
\* of a session only ever moves on to a later snapshot, or goes: no slow or
\* repeated write brings an older one back, and none shows a part of one.
ImplementsDirectory == Directory!Spec

\* A pass that has removed all it meant to leaves the directory within its
\* limits, but for the receipts renewed since it dated them.
RetentionHolds ==
  pass.pc = "remove" /\ pass.doomed = {} /\ pass.stale = {} =>
    /\ Cardinality(Receipts \ pass.fresh) <= MaxFiles
    /\ \A s \in Receipts \ (pass.fresh \union {pass.for}) : Age(written[s]) < Retention
    /\ \A f \in litter : Age(f.at) < TempAge

\* However many operations fail, every write settles, and no failed write or
\* pass keeps a later one from its turn.
WritesSettle ==
  \A s \in Sessions :
    queue[s] # <<>> \/ ~Awaits(s, "idle") ~> queue[s] = <<>> /\ Awaits(s, "idle")
=============================================================================
