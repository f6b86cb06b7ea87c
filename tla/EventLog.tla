------------------------------ MODULE EventLog ------------------------------
(***************************************************************************)
(* lib/eventlog/elog.c: `mosys eventlog add` and `clear` on the machines   *)
(* where the log is a flash region that mosys itself changes.  The region  *)
(* is a header followed by entries of varying length, then 0xff.  One add  *)
(* fetches the region up to three times (once to change it, once to find   *)
(* where the entries end, once to copy what stays of a log that has become *)
(* too long) and writes it once; each of these runs flashrom, with the big *)
(* lock released.                                                          *)
(*                                                                         *)
(* An image is the set of the entries in it, each at its offset behind the *)
(* header; what no entry covers is 0xff.  A user may add an event of any   *)
(* type, also of SMBIOS_EVENT_TYPE_ENDLOG, 0xff, which every reader takes  *)
(* for the blank rest.                                                     *)
(***************************************************************************)
EXTENDS FlashAccess, Integers, Sequences, FiniteSets, SequencesExt

CONSTANTS
  Length,       \* of the region, in bytes
  EventSizes,   \* lengths of the entries users add
  InitialLogs,  \* logs the firmware has left, as sequences of lengths
  MaxEvents     \* bound: no add starts once so many ids are used

data_offset == 8           \* sizeof(struct elog_header)
LogClearSize == 13         \* entry with 4 bytes of data and a checksum
full_threshold == (Length * 3) \div 4
shrink_size == Length \div 4
EndLogSize == 9            \* bound: an event of the end type has no data
EndLog == -1               \* in place of the id of such an event

(* A log at the threshold ends before the region does.  Entries of several *)
(* processes have one length, so that an entry written at a stale offset   *)
(* covers whole entries; an event of the end type, having no data, is      *)
(* covered by every event that is put in its place later.                  *)
ASSUME EventLogAssumption ==
  /\ Length \in Nat /\ data_offset + full_threshold < Length
  /\ EventSizes \subseteq 9 .. 300 /\ MaxEvents \in Nat
  /\ Cardinality(Procs) > 1 => EventSizes \subseteq {LogClearSize}

VARIABLES
  pc,           \* where each process is
  stage,        \* what it accesses the flash for
  op,           \* "add" or "clear"
  event,        \* the event to add
  got,          \* what the last fetch returned, or NoImage
  data,         \* the image of the first fetch, then the one to write
  events_size,  \* bytes of the entries, counted in the second fetch
  result,       \* of the last command: "none", "ok" or "failed"
  used,         \* history: the last event id in use
  added,        \* history: ids in the log before, or reported as added
  cut,          \* history: ids the image to write leaves out
  dropped,      \* history: ids that were left out to make room or cleared
  last_writer   \* history: whose image is in the flash

cmdVars == <<stage, op, event, got, data, events_size, result, cut>>
vars == <<holder, is_held, re_acquire, flash, pc, cmdVars, used, added,
          dropped, last_writer>>

ErasedImage == {}
Steps == {"idle", "drop", "tool", "retake", "use", "end"}
Stages == {"fetch", "size", "copy", "skip", "write"}

(* id 0 is SMBIOS_EVENT_TYPE_LOGCLEAR.                                     *)
Entry(off, len, id) == [off |-> off, len |-> len, id |-> id]
LogClear(off) == Entry(off, LogClearSize, 0)

(* No entry has length 1.                                                  *)
NoImage == {Entry(0, 1, 0)}

(* Behind one another from the first entry until an entry that would reach *)
(* the end of the region, or one of length 0, which is the last.           *)
Walk(image) ==
  LET from[off \in 0 .. Length] ==
        LET here == {e \in image : e.off = off
                                   /\ data_offset + off + e.len < Length}
        IN  IF here = {} THEN <<>>
            ELSE LET e == CHOOSE x \in here : TRUE
                 IN  IF e.len = 0 THEN <<e>> ELSE <<e>> \o from[off + e.len]
  IN  from[0]

(* smbios_eventlog_foreach_event(), which stops at the blank rest and at   *)
(* whatever has its type.                                                  *)
Visited(image) == Walk({e \in image : e.id # EndLog})

Corrupt(image) == \E i \in DOMAIN Visited(image) : Visited(image)[i].len = 0

(* The places of the entries that are shown.                               *)
Sound(entries) == {i \in DOMAIN entries : entries[i].len # 0}

Bytes(entries) == FoldLeft(LAMBDA n, e : n + e.len, 0, entries)
Ids(entries) == {entries[i].id : i \in DOMAIN entries} \ {0}
Listed(image) ==
  LET entries == Visited(image)
  IN  {entries[i].id : i \in Sound(entries)} \ {0}

(* How many entries are skipped until to_skip bytes are.                   *)
Skipped(entries, to_skip) ==
  CHOOSE n \in 0 .. Len(entries) :
    /\ \A k \in 0 .. n - 1 : Bytes(SubSeq(entries, 1, k)) < to_skip
    /\ n = Len(entries) \/ Bytes(SubSeq(entries, 1, n)) >= to_skip

(* Entries one behind the other from the beginning.                        *)
Layout(entries) ==
  {Entry(Bytes(SubSeq(entries, 1, i - 1)), entries[i].len, entries[i].id) :
     i \in DOMAIN entries}

(* The firmware's log: entries up to, maybe, one of length 0, none of which*)
(* reaches the end of the region.                                          *)
Numbered(log) == [i \in DOMAIN log |-> Entry(0, log[i], i)]

ASSUME InitialLogsAssumption ==
  \A log \in InitialLogs :
    /\ log \in Seq({0} \cup (9 .. 255)) /\ Len(log) <= MaxEvents
    /\ \A i \in 1 .. Len(log) - 1 : log[i] # 0
    /\ data_offset + Bytes(Numbered(log)) < Length

(* Put an entry over whatever is in its place.                             *)
Put(image, e) ==
  {x \in image : x.off + x.len <= e.off \/ x.off >= e.off + e.len} \cup {e}

Init ==
  /\ LockInit
  /\ \E log \in InitialLogs :
       /\ flash = Layout(Numbered(log))
       /\ used = Len(log)
       /\ added = Listed(flash)
  /\ pc = [p \in Procs |-> "idle"]
  /\ stage = [p \in Procs |-> "fetch"]
  /\ op = [p \in Procs |-> "add"]
  /\ event = [p \in Procs |-> LogClear(0)]
  /\ got = [p \in Procs |-> NoImage]
  /\ data = [p \in Procs |-> ErasedImage]
  /\ events_size = [p \in Procs |-> 0]
  /\ result = [p \in Procs |-> "none"]
  /\ cut = [p \in Procs |-> {}]
  /\ dropped = {}
  /\ last_writer = NoProc
-----------------------------------------------------------------------------
Goto(p, l) == pc' = [pc EXCEPT ![p] = l]

(* The next thing the flash is accessed for.                               *)
Access(p, s) ==
  /\ stage' = [stage EXCEPT ![p] = s]
  /\ Goto(p, "drop")

Fails(p) ==
  /\ result' = [result EXCEPT ![p] = "failed"]
  /\ Goto(p, "end")

Starts(p, o, e) ==
  /\ pc[p] = "idle"
  /\ \/ CommandLocks(p)
     \/ UNCHANGED lockVars
  /\ op' = [op EXCEPT ![p] = o]
  /\ event' = [event EXCEPT ![p] = e]
  /\ result' = [result EXCEPT ![p] = "none"]
  /\ cut' = [cut EXCEPT ![p] = {}]
  /\ UNCHANGED <<flash, got, data, events_size, added, dropped, last_writer>>

(* Mutant: the length byte of the entry is not checked for overflow.       *)
StartAdd_AnySize(p, size, id) ==
  /\ used < MaxEvents
  /\ used' = used + 1
  /\ id = used' \/ (id = EndLog /\ size = EndLogSize)
  /\ Starts(p, "add", Entry(0, size, id))
  /\ Access(p, "fetch")

(* `eventlog add`: the size is checked before the flash is touched, the    *)
(* type is not.                                                            *)
StartAdd(p, size, id) ==
  /\ used < MaxEvents
  /\ used' = used + 1
  /\ id = used' \/ (id = EndLog /\ size = EndLogSize)
  /\ size <= 255
  /\ Starts(p, "add", Entry(0, size, id))
  /\ Access(p, "fetch")

(* `eventlog clear`                                                        *)
StartClear(p) ==
  /\ Starts(p, "clear", LogClear(0))
  /\ Access(p, "fetch")
  /\ UNCHANGED used

Drop(p) ==
  /\ pc[p] = "drop"
  /\ LockDropped(p)
  /\ Goto(p, "tool")
  /\ UNCHANGED <<flash, cmdVars, used, added, dropped, last_writer>>

ToolReads(p) ==
  /\ pc[p] = "tool" /\ stage[p] # "write"
  /\ ToolMayRun
  /\ got' = [got EXCEPT ![p] = flash]
  /\ Goto(p, "retake")
  /\ UNCHANGED <<lockVars, flash, stage, op, event, data, events_size,
                 result, used, added, cut, dropped, last_writer>>

ToolWrites(p) ==
  /\ pc[p] = "tool" /\ stage[p] = "write"
  /\ ToolMayRun
  /\ flash' = data[p]
  /\ got' = [got EXCEPT ![p] = data[p]]
  /\ dropped' = dropped \cup cut[p]
  /\ last_writer' = p
  /\ Goto(p, "retake")
  /\ UNCHANGED <<lockVars, stage, op, event, data, events_size, result,
                 used, added, cut>>

Retake(p) ==
  /\ pc[p] = "retake"
  /\ LockRetaken(p)
  /\ Goto(p, "use")
  /\ UNCHANGED <<flash, cmdVars, used, added, dropped, last_writer>>

(* flashrom failed, or the lock did not come back.                         *)
AccessFails(p) ==
  /\ \/ /\ pc[p] = "tool" /\ ToolMayRun
        /\ (IF stage[p] = "write" THEN "write" ELSE "read") \in EnvFaults
        /\ LockRetaken(p)
     \/ /\ pc[p] \in {"tool", "retake"}
        /\ LockLost(p)
  /\ got' = [got EXCEPT ![p] = NoImage]
  /\ Goto(p, "use")
  /\ UNCHANGED <<flash, stage, op, event, data, events_size, result, used,
                 added, cut, dropped, last_writer>>

Uses(p, s) ==
  /\ pc[p] = "use" /\ stage[p] = s
  /\ got[p] # NoImage
  /\ UNCHANGED <<lockVars, flash, op, got, used, added, dropped, last_writer>>
-----------------------------------------------------------------------------
(* The image and, from its length, the limits.                             *)
Fetched(p) ==
  /\ Uses(p, "fetch")
  /\ \/ /\ op[p] = "add"
        /\ event[p].len <= shrink_size
        /\ data' = [data EXCEPT ![p] = got[p]]
        /\ Access(p, "size")
        /\ UNCHANGED result
     \/ /\ op[p] = "add"
        /\ event[p].len > shrink_size
        /\ Fails(p)
        /\ UNCHANGED <<data, stage>>
     \/ /\ op[p] = "clear"
        /\ data' = [data EXCEPT ![p] = ErasedImage]
        /\ Access(p, "skip")
        /\ UNCHANGED result
  /\ UNCHANGED <<event, events_size, cut>>

(* Mutant: nobody checks whether the log becomes too long.                 *)
Sized_NoThreshold(p) ==
  /\ Uses(p, "size")
  /\ ~Corrupt(got[p])
  /\ events_size' = [events_size EXCEPT ![p] = Bytes(Visited(got[p]))]
  /\ data' = [data EXCEPT ![p] =
       Put(@, [event[p] EXCEPT !.off = Bytes(Visited(got[p]))])]
  /\ Access(p, "write")
  /\ UNCHANGED <<event, result, cut>>

(* Mutant: the event is put over the last entry.                           *)
Sized_OverLast(p) ==
  /\ Uses(p, "size")
  /\ ~Corrupt(got[p])
  /\ LET entries == Visited(got[p])
         size == IF entries = <<>> THEN 0 ELSE Bytes(Front(entries))
     IN  data' = [data EXCEPT ![p] = Put(@, [event[p] EXCEPT !.off = size])]
  /\ Access(p, "write")
  /\ UNCHANGED <<event, events_size, result, cut>>

(* How much space the entries take, and whether the new one still fits.    *)
Sized(p) ==
  /\ Uses(p, "size")
  /\ LET size == Bytes(Visited(got[p]))
     IN  \/ /\ ~Corrupt(got[p])
            /\ events_size' = [events_size EXCEPT ![p] = size]
            /\ UNCHANGED <<event, result, cut>>
            /\ \/ /\ size + event[p].len <= full_threshold
                  /\ data' = [data EXCEPT ![p] =
                       Put(@, [event[p] EXCEPT !.off = size])]
                  /\ Access(p, "write")
               \/ /\ size + event[p].len > full_threshold
                  /\ Access(p, "copy")
                  /\ UNCHANGED data
         \/ /\ Corrupt(got[p])
            /\ Fails(p)
            /\ UNCHANGED <<event, events_size, data, stage, cut>>

(* What is left of the log once the oldest shrink_size bytes have gone,    *)
(* with a note that entries have gone and the event at the offsets the     *)
(* second fetch gives.                                                     *)
Shrunk(p, from) ==
  LET entries == Visited(got[p])
      n == Skipped(entries, shrink_size)
      size == from - Bytes(SubSeq(entries, 1, n))
      kept == Layout(SubSeq(entries, n + 1, Len(entries)))
  IN  Put(Put(kept, LogClear(size)),
          [event[p] EXCEPT !.off = size + LogClearSize])

(* Mutant: the size of the entries that are gone is not subtracted.        *)
Copied_StaleSize(p) ==
  /\ Uses(p, "copy")
  /\ ~Corrupt(got[p])
  /\ LET entries == Visited(got[p])
         n == Skipped(entries, shrink_size)
     IN  /\ data' = [data EXCEPT ![p] =
              Shrunk(p, events_size[p] + Bytes(SubSeq(entries, 1, n)))]
         /\ cut' = [cut EXCEPT ![p] = Ids(SubSeq(entries, 1, n))]
  /\ Access(p, "write")
  /\ UNCHANGED <<event, events_size, result>>

(* Mutant: what is kept is copied from the last entry to the first.        *)
Copied_Reversed(p) ==
  /\ Uses(p, "copy")
  /\ ~Corrupt(got[p])
  /\ LET entries == Visited(got[p])
         n == Skipped(entries, shrink_size)
         size == events_size[p] - Bytes(SubSeq(entries, 1, n))
         kept == Layout(Reverse(SubSeq(entries, n + 1, Len(entries))))
     IN  /\ data' = [data EXCEPT ![p] =
              Put(Put(kept, LogClear(size)),
                  [event[p] EXCEPT !.off = size + LogClearSize])]
         /\ cut' = [cut EXCEPT ![p] = Ids(SubSeq(entries, 1, n))]
  /\ Access(p, "write")
  /\ UNCHANGED <<event, events_size, result>>

Copied(p) ==
  /\ Uses(p, "copy")
  /\ \/ /\ ~Corrupt(got[p])
        /\ LET entries == Visited(got[p])
           IN  cut' = [cut EXCEPT ![p] =
                 Ids(SubSeq(entries, 1, Skipped(entries, shrink_size)))]
        /\ data' = [data EXCEPT ![p] = Shrunk(p, events_size[p])]
        /\ Access(p, "write")
        /\ UNCHANGED result
     \/ /\ Corrupt(got[p])
        /\ Fails(p)
        /\ UNCHANGED <<data, stage, cut>>
  /\ UNCHANGED <<event, events_size>>

(* clear: nothing is kept; a fetch that failed or a corrupt log only means *)
(* that the note does not say how much was there.                          *)
Cleared(p) ==
  /\ pc[p] = "use" /\ stage[p] = "skip"
  /\ data' = [data EXCEPT ![p] = {LogClear(0)}]
  /\ cut' = [cut EXCEPT ![p] = 1 .. used]
  /\ Access(p, "write")
  /\ UNCHANGED <<lockVars, flash, op, event, got, events_size, result, used,
                 added, dropped, last_writer>>

Written(p) ==
  /\ pc[p] = "use" /\ stage[p] = "write"
  /\ got[p] # NoImage
  /\ result' = [result EXCEPT ![p] = "ok"]
  /\ added' = added \cup ({event[p].id} \ {0, EndLog})
  /\ Goto(p, "end")
  /\ UNCHANGED <<lockVars, flash, stage, op, event, got, data, events_size,
                 used, cut, dropped, last_writer>>

(* -1: the flash could not be accessed, or there is no time to put in an   *)
(* entry (gmtime_r() failed), for which nothing has been written yet.      *)
Fail(p) ==
  /\ \/ pc[p] = "use" /\ stage[p] # "skip" /\ got[p] = NoImage
     \/ pc[p] = "drop" /\ stage[p] = "write" /\ "clock" \in EnvFaults
  /\ Fails(p)
  /\ UNCHANGED <<lockVars, flash, stage, op, event, got, data, events_size,
                 used, added, cut, dropped, last_writer>>

(* The command is over; the process and its buffers are gone.              *)
End(p) ==
  /\ pc[p] = "end"
  /\ CommandUnlocks(p)
  /\ Goto(p, "idle")
  /\ got' = [got EXCEPT ![p] = NoImage]
  /\ data' = [data EXCEPT ![p] = ErasedImage]
  /\ events_size' = [events_size EXCEPT ![p] = 0]
  /\ cut' = [cut EXCEPT ![p] = {}]
  /\ UNCHANGED <<flash, stage, op, event, result, used, added, dropped,
                 last_writer>>

Next ==
  \E p \in Procs :
    \/ \E size \in EventSizes, id \in {used + 1, EndLog} : StartAdd(p, size, id)
    \/ StartClear(p)
    \/ Drop(p) \/ ToolReads(p) \/ ToolWrites(p) \/ Retake(p) \/ AccessFails(p)
    \/ Fetched(p) \/ Sized(p) \/ Copied(p) \/ Cleared(p) \/ Written(p)
    \/ Fail(p) \/ End(p)

Spec == Init /\ [][Next]_vars
-----------------------------------------------------------------------------
Entries ==
  [off : 0 .. Length, len : {0} \cup (9 .. 255), id : 0 .. MaxEvents]
EndEntries == [off : 0 .. Length, len : {EndLogSize}, id : {EndLog}]
AnyEntries == Entries \cup EndEntries

TypeOK ==
  /\ LockTypeOK
  /\ flash \subseteq AnyEntries
  /\ pc \in [Procs -> Steps]
  /\ stage \in [Procs -> Stages]
  /\ op \in [Procs -> {"add", "clear"}]
  /\ event \in [Procs -> AnyEntries]
  /\ got \in [Procs -> {NoImage} \cup SUBSET AnyEntries]
  /\ data \in [Procs -> SUBSET AnyEntries]
  /\ events_size \in [Procs -> 0 .. Length]
  /\ result \in [Procs -> {"none", "ok", "failed"}]
  /\ used \in 0 .. MaxEvents
  /\ added \cup dropped \subseteq 1 .. MaxEvents
  /\ cut \in [Procs -> SUBSET (1 .. MaxEvents)]
  /\ last_writer \in Procs \cup {NoProc}

(* elog_prepare_entry() is given a place in a buffer of the region's       *)
(* length: every entry put there ends before the buffer does, however the  *)
(* lengths of the log, of its entries and of the new event fall; and every *)
(* entry is one whose length the code can store.                           *)
InBuffer ==
  /\ TypeOK
  /\ \A p \in Procs : \A e \in data[p] :
       e.off >= 0 /\ data_offset + e.off + e.len <= Length

(* An add that reported success, and after which nobody wrote the log, is  *)
(* what `eventlog list` shows as the last entry, also when the log had to  *)
(* be shrunk, and whatever was behind the entries before; the exception is *)
(* an event of the end type, which no list shows.                          *)
AddedIsLast ==
  \A p \in Procs :
    /\ result[p] = "ok" /\ op[p] = "add" /\ last_writer = p
    /\ event[p].id # EndLog
    => /\ Visited(flash) # <<>>
       /\ Last(Visited(flash)).id = event[p].id

(* Events are listed in the order in which they were added.                *)
InOrder ==
  LET entries == Visited(flash)
  IN  \A i, j \in Sound(entries) :
        i < j /\ entries[i].id # 0 /\ entries[j].id # 0
          => entries[i].id < entries[j].id

(* An event that was in the log, or reported as added, is listed until a   *)
(* clear or the shrinking of a log that is too long removes it.            *)
NoEventLost == added \subseteq Listed(flash) \cup dropped

(* The log neither loses nor reorders what it has (elog_add_event).        *)
LogKept == InOrder /\ NoEventLost
=============================================================================
