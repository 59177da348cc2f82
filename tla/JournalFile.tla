----------------------------- MODULE JournalFile -----------------------------
(***************************************************************************)
(* The control journal below its events: frames written to one file by the  *)
(* journal thread for all coordinators, writes that stop part way, syncs    *)
(* that fail, power losses that keep part of what was not synced, and the   *)
(* scan that repairs or refuses the file at the next open.                  *)
(* DurablePartition takes the journal as the sequence of events this module *)
(* shows it to be.                                                          *)
(***************************************************************************)
EXTENDS Naturals, Sequences, SequencesExt

CONSTANTS
    JournalClients,   \* coordinators that append
    JournalEvents,    \* the events they append
    MaxFrames,        \* bound on frames written
    MaxJournalFaults, \* bound on failed writes and syncs
    MaxJournalLosses, \* bound on power losses
    TruncationFails   \* BOOLEAN: the cut after a failed write may fail too

ASSUME JournalAssumption ==
    /\ {MaxFrames, MaxJournalFaults, MaxJournalLosses} \subseteq Nat
    /\ TruncationFails \in BOOLEAN

VARIABLES
    jfile,     \* the file as the process sees it, a sequence of cells
    jdisk,     \* the file as of its last sync, or as found
    jthread,   \* [at, event, from, start]: the journal thread
    jclients,  \* [JournalClients -> "idle" | "waiting"]
    jqueue,    \* commands sent: [from, event]
    frames,    \* events of the frames the file holds whole, oldest first
    answered,  \* how many of them a successful sync covered
    jfaults, jlosses

journalVars == <<jfile, jdisk, jthread, jclients, jqueue, frames, answered, jfaults, jlosses>>

JournalFault == jfaults < MaxJournalFaults /\ jfaults' = jfaults + 1

-----------------------------------------------------------------------------
(* encode_event and decode_event *)

ValidPolicy(ev) == ev.gen > 0 /\ ev.isr \in 1..ev.rf /\ ev.rf <= 64
Advances(ev) == ev.expected > 0 /\ ev.gen > ev.expected
ValidBoundary(ev) == ev.next >= ev.start /\ ev.batch = ev.placement

Encodable(ev) ==
    CASE ev.kind = "configure"  -> ev.shards # <<>>
      [] ev.kind = "create"     -> ValidPolicy(ev) /\ ev.shards # <<>>
      [] ev.kind = "update"     -> ValidPolicy(ev) /\ Advances(ev)
      [] ev.kind = "checkpoint" -> ValidBoundary(ev)
      [] OTHER                  -> TRUE

(* The decoder checks what the encoder does, and that a ring has no shard   *)
(* twice.                                                                   *)
DistinctRing(ev) == ev.kind \in {"configure", "create"} => IsInjective(ev.shards)
Decodable(ev) == Encodable(ev) /\ DistinctRing(ev)

(* A frame in cells: two of prefix, the second one with the length of the   *)
(* body, as many of body as the kind needs, and one of checksum.            *)
PrefixCells == 2
BodyCells(ev) == IF ev.kind \in {"configure", "create", "checkpoint"} THEN 2 ELSE 1
FrameCells(ev) == PrefixCells + BodyCells(ev) + 1
Frame(ev) == [i \in 1..FrameCells(ev) |-> [event |-> ev, part |-> i]]

-----------------------------------------------------------------------------

ValidPrefix(cells, i, ev) ==
    SubSeq(cells, i + 1, i + PrefixCells) = SubSeq(Frame(ev), 1, PrefixCells)

(* scan_and_repair: the events, the length kept, and whether it succeeds. A *)
(* file that ends inside the frame its last prefix announces is cut there;  *)
(* a wrong prefix, checksum or body refuses.                                *)
ScanAndRepair(cells) ==
    LET stop(i, ok) == [ok |-> ok, keep |-> i, events |-> <<>>]
        scan[i \in 0..Len(cells)] ==
            IF i = Len(cells) \/ Len(cells) - i < PrefixCells THEN stop(i, TRUE)
            ELSE LET ev  == cells[i + 1].event
                     end == i + FrameCells(ev)
                 IN  IF ~ValidPrefix(cells, i, ev) THEN stop(i, FALSE)
                     ELSE IF end > Len(cells) THEN stop(i, TRUE)
                     ELSE IF SubSeq(cells, i + 1, end) # Frame(ev) \/ ~Decodable(ev)
                     THEN stop(i, FALSE)
                     ELSE [scan[end] EXCEPT !.events = <<ev>> \o @]
    IN  scan[0]

-----------------------------------------------------------------------------
NoCommand == [at |-> "idle", from |-> "none", start |-> 0]

JournalInit ==
    /\ jfile = <<>> /\ jdisk = <<>>
    /\ jthread = NoCommand
    /\ jclients = [c \in JournalClients |-> "idle"]
    /\ jqueue = <<>> /\ frames = <<>> /\ answered = 0
    /\ jfaults = 0 /\ jlosses = 0

Up == jthread.at # "down"

(* ControlJournalHandle::append: the coordinator waits for the answer. *)
SendEvent(c, ev) ==
    /\ Up /\ jclients[c] = "idle" /\ Len(frames) < MaxFrames
    /\ jclients' = [jclients EXCEPT ![c] = "waiting"]
    /\ jqueue' = Append(jqueue, [from |-> c, event |-> ev])
    /\ UNCHANGED <<jfile, jdisk, jthread, frames, answered, jfaults, jlosses>>

(* ControlJournalHandle::sync takes the same way. *)
SendSync(c) ==
    /\ Up /\ jclients[c] = "idle" /\ answered < Len(frames)
    /\ jclients' = [jclients EXCEPT ![c] = "waiting"]
    /\ jqueue' = Append(jqueue, [from |-> c, event |-> [kind |-> "sync"]])
    /\ UNCHANGED <<jfile, jdisk, jthread, frames, answered, jfaults, jlosses>>

Reply == jclients' = [jclients EXCEPT ![jthread.from] = "idle"]

(* The thread takes a command: a sync goes to the file at once, an event    *)
(* that cannot be encoded is answered with its error.                       *)
TakeCommand ==
    /\ jthread.at = "idle" /\ jqueue # <<>>
    /\ LET command == Head(jqueue)
       IN  /\ jqueue' = Tail(jqueue)
           /\ IF command.event.kind = "sync"
              THEN /\ jthread' = [at |-> "sync", from |-> command.from, start |-> Len(jfile)]
                   /\ UNCHANGED <<jfile, jclients, frames, jfaults>>
              ELSE IF ~Encodable(command.event)
              THEN /\ jclients' = [jclients EXCEPT ![command.from] = "idle"]
                   /\ UNCHANGED <<jfile, jthread, frames, jfaults>>
              ELSE \E n \in 0..FrameCells(command.event) :
                   /\ jfile' = jfile \o SubSeq(Frame(command.event), 1, n)
                   /\ UNCHANGED jclients
                   /\ IF n = FrameCells(command.event)
                      THEN /\ jthread' = [at |-> "sync", from |-> command.from,
                                          start |-> Len(jfile)]
                           /\ frames' = Append(frames, command.event)
                           /\ UNCHANGED jfaults
                      ELSE /\ JournalFault
                           /\ jthread' = [at |-> "cut", from |-> command.from,
                                          start |-> Len(jfile)]
                           /\ UNCHANGED frames
    /\ UNCHANGED <<jdisk, answered, jlosses>>

(* Mutant: a failed write leaves what it wrote. *)
CutBackNever ==
    /\ jthread.at = "cut"
    /\ jthread' = NoCommand /\ Reply
    /\ UNCHANGED <<jfile, jdisk, jqueue, frames, answered, jfaults, jlosses>>

(* The write failed: set_len to where it began, its own failure ignored. *)
CutBack ==
    /\ jthread.at = "cut"
    /\ \/ jfile' = SubSeq(jfile, 1, jthread.start)
       \/ TruncationFails /\ UNCHANGED jfile
    /\ jthread' = NoCommand /\ Reply
    /\ UNCHANGED <<jdisk, jqueue, frames, answered, jfaults, jlosses>>

(* Mutant: the answer does not wait for the sync. *)
SyncJournalSkipped(ok) ==
    /\ jthread.at = "sync" /\ ok
    /\ answered' = Len(frames)
    /\ jthread' = NoCommand /\ Reply
    /\ UNCHANGED <<jfile, jdisk, jqueue, frames, jfaults, jlosses>>

(* sync_data: a failed one is reported, and leaves the frame in the file. *)
SyncJournal(ok) ==
    /\ jthread.at = "sync"
    /\ IF ok THEN jdisk' = jfile /\ answered' = Len(frames) /\ UNCHANGED jfaults
       ELSE JournalFault /\ UNCHANGED <<jdisk, answered>>
    /\ jthread' = NoCommand /\ Reply
    /\ UNCHANGED <<jfile, jqueue, frames, jlosses>>

(* The first n cells of the file are on disk. *)
OnDisk(n) == n <= Len(jdisk) /\ n <= Len(jfile) /\ SubSeq(jdisk, 1, n) = SubSeq(jfile, 1, n)

(* What a power loss may leave: the last synced file, or the one in memory  *)
(* cut anywhere behind what is on disk of it.                               *)
CrashImages ==
    {jdisk} \union {SubSeq(jfile, 1, n) : n \in {m \in 0..Len(jfile) : ~OnDisk(m + 1)}}

LoseJournalPower ==
    /\ Up /\ jlosses < MaxJournalLosses
    /\ jlosses' = jlosses + 1
    /\ \E image \in CrashImages : jfile' = image /\ jdisk' = image
    /\ jthread' = [NoCommand EXCEPT !.at = "down"]
    /\ jclients' = [c \in JournalClients |-> "idle"]
    /\ jqueue' = <<>>
    /\ UNCHANGED <<frames, answered, jfaults>>

(* CoordinatorJournal::open: the torn tail is cut, and not synced. Without  *)
(* it, by a refusal or an expired clock, the journal stays closed.          *)
OpenJournal ==
    /\ ~Up /\ ScanAndRepair(jfile).ok
    /\ jfile' = SubSeq(jfile, 1, ScanAndRepair(jfile).keep)
    /\ frames' = ScanAndRepair(jfile).events
    /\ jthread' = NoCommand
    /\ UNCHANGED <<jdisk, jclients, jqueue, answered, jfaults, jlosses>>

JournalNext ==
    \/ \E c \in JournalClients : SendSync(c) \/ \E ev \in JournalEvents : SendEvent(c, ev)
    \/ TakeCommand \/ CutBack \/ (\E ok \in BOOLEAN : SyncJournal(ok))
    \/ LoseJournalPower \/ OpenJournal

JournalSpec == JournalInit /\ [][JournalNext]_journalVars

-----------------------------------------------------------------------------

=============================================================================
