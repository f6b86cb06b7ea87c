----------------------------- MODULE VbnvFlash -----------------------------
(***************************************************************************)
(* lib/vbnv/vbnv_flash.c: the vboot non-volatile block kept in a flash     *)
(* region.  The region is a row of 16-byte blocks; a write puts its block  *)
(* behind the last one that is not blank (all 0xff), and starts over with  *)
(* an erased region when there is no room.  The region is read, changed in *)
(* memory and written back as a whole, by two runs of flashrom between     *)
(* which other mosys processes may do the same.                            *)
(***************************************************************************)
EXTENDS FlashAccess, Integers

CONSTANTS
  Blocks,       \* the blocks users write
  Blank,        \* a block of 0xff
  NumBlocks     \* len / VBNV_BLOCK_SIZE of the region

VBNV_BLOCK_SIZE == 16
NoBlock == "no block"

ASSUME VbnvAssumption ==
  /\ NumBlocks \in Nat \ {0}
  /\ NoBlock \notin Blocks \cup {Blank}

VARIABLES
  pc,           \* where each process is
  op,           \* the command: "read" or "write"
  data,         \* the block to write
  buf,          \* the region as read, then as to be written
  result,       \* what the last command returned: "none", "ok" or "failed"
  output,       \* the block the last read printed, or NoBlock
  last_writer   \* history: the process whose image is in the flash

vars == <<holder, is_held, re_acquire, flash, pc, op, data, buf, result,
          output, last_writer>>
cmdVars == <<op, data, buf, result, output, last_writer>>

Positions == 1 .. NumBlocks
Images == [Positions -> Blocks \cup {Blank}]
ErasedImage == [i \in Positions |-> Blank]
PCs == {"idle", "locked", "read", "read_done", "fetched", "prepared",
        "write", "write_done", "end"}

(* How many blocks precede the first blank one.                            *)
Leading(image) ==
  CHOOSE n \in 0 .. NumBlocks :
    /\ \A i \in 1 .. n : image[i] # Blank
    /\ n < NumBlocks => image[n + 1] = Blank

(* Mutant: the number of blocks is taken for the limit, as the message     *)
(* "VBNV is full" suggests.                                                *)
Index_FullInBlocks(image) ==
  LET index == Leading(image)
  IN  IF index = 0 \/ index >= NumBlocks THEN -1 ELSE index - 1

(* vbnv_index(): the last block before the first blank one.  The length it *)
(* compares with to find the region full is in bytes.                      *)
Index(image) ==
  LET index == Leading(image)
  IN  IF index = 0 \/ index >= NumBlocks * VBNV_BLOCK_SIZE
        THEN -1 ELSE index - 1

(* The block a reader of this image gets.                                  *)
Newest(image) ==
  IF Index(image) < 0 THEN NoBlock ELSE image[Index(image) + 1]

Init ==
  /\ LockInit
  /\ \/ flash = ErasedImage
     \/ \E b \in Blocks \ {Blank} : flash = [ErasedImage EXCEPT ![1] = b]
  /\ pc = [p \in Procs |-> "idle"]
  /\ op = [p \in Procs |-> "read"]
  /\ data = [p \in Procs |-> NoBlock]
  /\ buf = [p \in Procs |-> ErasedImage]
  /\ result = [p \in Procs |-> "none"]
  /\ output = [p \in Procs |-> NoBlock]
  /\ last_writer = NoProc
-----------------------------------------------------------------------------
Goto(p, l) == pc' = [pc EXCEPT ![p] = l]

Fails(p) ==
  /\ result' = [result EXCEPT ![p] = "failed"]
  /\ Goto(p, "end")

(* A command starts, with the big lock or with -f.                         *)
Start(p, o, b) ==
  /\ pc[p] = "idle"
  /\ \/ CommandLocks(p)
     \/ UNCHANGED lockVars
  /\ op' = [op EXCEPT ![p] = o]
  /\ data' = [data EXCEPT ![p] = IF o = "write" THEN b ELSE NoBlock]
  /\ result' = [result EXCEPT ![p] = "none"]
  /\ output' = [output EXCEPT ![p] = NoBlock]
  /\ Goto(p, "locked")
  /\ UNCHANGED <<flash, buf, last_writer>>

(* read_by_name() drops the lock for flashrom.                             *)
ReadDrops(p) ==
  /\ pc[p] = "locked"
  /\ LockDropped(p)
  /\ Goto(p, "read")
  /\ UNCHANGED <<flash, cmdVars>>

ReadRegion(p) ==
  /\ pc[p] = "read"
  /\ ToolMayRun
  /\ buf' = [buf EXCEPT ![p] = flash]
  /\ Goto(p, "read_done")
  /\ UNCHANGED <<lockVars, flash, op, data, result, output, last_writer>>

ReadTakesBack(p) ==
  /\ pc[p] = "read_done"
  /\ LockRetaken(p)
  /\ Goto(p, "fetched")
  /\ UNCHANGED <<flash, cmdVars>>

(* flashrom failed, or the lock did not come back: -1.                     *)
ReadFails(p) ==
  /\ \/ /\ pc[p] = "read" /\ ToolMayRun
        /\ "read" \in EnvFaults
        /\ LockRetaken(p)
     \/ /\ pc[p] \in {"read", "read_done"}
        /\ LockLost(p)
  /\ Fails(p)
  /\ UNCHANGED <<flash, op, data, buf, output, last_writer>>

(* Mutant: the first block is printed, not the last.                       *)
ReadReturns_First(p) ==
  /\ pc[p] = "fetched"
  /\ op[p] = "read"
  /\ output' = [output EXCEPT ![p] = buf[p][1]]
  /\ result' = [result EXCEPT ![p] = "ok"]
  /\ Goto(p, "end")
  /\ UNCHANGED <<lockVars, flash, op, data, buf, last_writer>>

(* vbnv_fetch_from_flash() and vbnv_flash_vboot_read().                    *)
ReadReturns(p) ==
  /\ pc[p] = "fetched"
  /\ op[p] = "read"
  /\ output' = [output EXCEPT ![p] = Newest(buf[p])]
  /\ result' = [result EXCEPT ![p] =
       IF Index(buf[p]) < 0 THEN "failed" ELSE "ok"]
  /\ Goto(p, "end")
  /\ UNCHANGED <<lockVars, flash, op, data, buf, last_writer>>

(* Mutant: a full region is not recognised as full.                        *)
PrepareWrite_WrapsAround(p) ==
  /\ pc[p] = "fetched"
  /\ op[p] = "write"
  /\ Index(buf[p]) >= 0
  /\ LET index == (Index(buf[p]) + 1) % NumBlocks
     IN  buf' = [buf EXCEPT ![p][index + 1] = data[p]]
  /\ Goto(p, "prepared")
  /\ UNCHANGED <<lockVars, flash, op, data, result, output, last_writer>>

(* Mutant: a full region is cleared and the block is not stored.           *)
PrepareWrite_OnlyClears(p) ==
  /\ pc[p] = "fetched"
  /\ op[p] = "write"
  /\ Index(buf[p]) >= 0
  /\ LET index == Index(buf[p]) + 1
     IN  buf' = [buf EXCEPT ![p] =
           IF index >= NumBlocks
             THEN ErasedImage
             ELSE [buf[p] EXCEPT ![index + 1] = data[p]]]
  /\ Goto(p, "prepared")
  /\ UNCHANGED <<lockVars, flash, op, data, result, output, last_writer>>

(* vbnv_write_to_flash(): the new image.                                   *)
PrepareWrite(p) ==
  /\ pc[p] = "fetched"
  /\ op[p] = "write"
  /\ Index(buf[p]) >= 0
  /\ LET index == Index(buf[p]) + 1
     IN  buf' = [buf EXCEPT ![p] =
           IF index * VBNV_BLOCK_SIZE >= NumBlocks * VBNV_BLOCK_SIZE
             THEN [ErasedImage EXCEPT ![1] = data[p]]
             ELSE [buf[p] EXCEPT ![index + 1] = data[p]]]
  /\ Goto(p, "prepared")
  /\ UNCHANGED <<lockVars, flash, op, data, result, output, last_writer>>

(* The region holds no block: nothing can be written.                      *)
PrepareFails(p) ==
  /\ pc[p] = "fetched"
  /\ op[p] = "write"
  /\ Index(buf[p]) < 0
  /\ Fails(p)
  /\ UNCHANGED <<lockVars, flash, op, data, buf, output, last_writer>>

WriteDrops(p) ==
  /\ pc[p] = "prepared"
  /\ LockDropped(p)
  /\ Goto(p, "write")
  /\ UNCHANGED <<flash, cmdVars>>

WriteRegion(p) ==
  /\ pc[p] = "write"
  /\ ToolMayRun
  /\ flash' = buf[p]
  /\ last_writer' = p
  /\ Goto(p, "write_done")
  /\ UNCHANGED <<lockVars, op, data, buf, result, output>>

WriteTakesBack(p) ==
  /\ pc[p] = "write_done"
  /\ LockRetaken(p)
  /\ result' = [result EXCEPT ![p] = "ok"]
  /\ Goto(p, "end")
  /\ UNCHANGED <<flash, op, data, buf, output, last_writer>>

(* flashrom failed before it changed anything, or the lock did not come    *)
(* back, perhaps after the region was written: -1 either way.              *)
WriteFails(p) ==
  /\ \/ /\ pc[p] = "write" /\ ToolMayRun
        /\ "write" \in EnvFaults
        /\ LockRetaken(p)
     \/ /\ pc[p] \in {"write", "write_done"}
        /\ LockLost(p)
  /\ Fails(p)
  /\ UNCHANGED <<flash, op, data, buf, output, last_writer>>

(* The command is over; the buffers are freed.                             *)
End(p) ==
  /\ pc[p] = "end"
  /\ CommandUnlocks(p)
  /\ buf' = [buf EXCEPT ![p] = ErasedImage]
  /\ Goto(p, "idle")
  /\ UNCHANGED <<flash, op, data, result, output, last_writer>>

Next ==
  \E p \in Procs :
    \/ \E o \in {"read", "write"}, b \in Blocks : Start(p, o, b)
    \/ ReadDrops(p) \/ ReadRegion(p) \/ ReadTakesBack(p) \/ ReadFails(p)
    \/ ReadReturns(p) \/ PrepareWrite(p) \/ PrepareFails(p)
    \/ WriteDrops(p) \/ WriteRegion(p) \/ WriteTakesBack(p) \/ WriteFails(p)
    \/ End(p)

Spec == Init /\ [][Next]_vars
-----------------------------------------------------------------------------
TypeOK ==
  /\ LockTypeOK
  /\ flash \in Images
  /\ pc \in [Procs -> PCs]
  /\ op \in [Procs -> {"read", "write"}]
  /\ data \in [Procs -> Blocks \cup {NoBlock}]
  /\ buf \in [Procs -> Images]
  /\ result \in [Procs -> {"none", "ok", "failed"}]
  /\ output \in [Procs -> Blocks \cup {Blank, NoBlock}]
  /\ last_writer \in Procs \cup {NoProc}

(* A row of at least one block followed by blank ones only: an image that  *)
(* vbnv_index() finds its way in.                                          *)
InUse(image) ==
  \E n \in Positions : \A i \in Positions : image[i] = Blank <=> i > n

(* Whatever commands run at the same time and fail, a region in use stays  *)
(* in use: one that lost this could not be read or written any more.       *)
RegionUsable == [][InUse(flash) => InUse(flash')]_vars

(* "returns -1 on failure, 0 on success": a write that reported success    *)
(* and was not followed by another process's write is what a read finds.   *)
WrittenIsRead ==
  \A p \in Procs :
    result[p] = "ok" /\ op[p] = "write" /\ last_writer = p
      => Newest(flash) = data[p]

(* "VBNV is uninitialized" and "VBNV is full" are for regions nobody ever  *)
(* wrote: vbnv_index() accepts whatever mosys itself has put there, a full *)
(* region included.                                                        *)
NeverRefused ==
  \A p \in Procs :
    pc[p] = "fetched" /\ Index(buf[p]) < 0 => buf[p] = ErasedImage

Reg == INSTANCE NvRegister WITH
         Blocks <- Blocks \ {Blank},
         value <- Newest(flash),
         writing <- [p \in Procs |->
                      IF op[p] = "write" /\ pc[p] \in {"prepared", "write"}
                        THEN data[p] ELSE NoBlock],
         seen <- [p \in Procs |->
                   IF op[p] = "read" /\ pc[p] \in {"read_done", "fetched"}
                     THEN Newest(buf[p])
                   ELSE IF op[p] = "read" /\ pc[p] = "end"
                     THEN output[p] ELSE NoBlock]

(* All processes together see one register, although none of them holds a  *)
(* lock from its read of the region to its write.                          *)
ImplementsRegister == Reg!Spec
=============================================================================
