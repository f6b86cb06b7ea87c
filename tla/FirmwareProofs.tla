--------------------------- MODULE FirmwareProofs ---------------------------
(***************************************************************************)
(* What is read from the firmware's flash: the vboot nvram region, for any *)
(* number of processes, any set of blocks, any size of the region and any  *)
(* failures, and the SPD of soldered memory, for every board and request.  *)
(* The one thing assumed beyond the models' constants is that users do not *)
(* write a block of 0xff to the region.                                    *)
(***************************************************************************)
EXTENDS VbnvFlash, SpdRead, WellFoundedInduction, TLAPS

(* A region is either as the factory left it or in use.                    *)
Usable(image) == image = ErasedImage \/ InUse(image)

(* What a process holds in memory is a usable region too; what it prepared *)
(* is in use with its block as the newest one; and a region that was in    *)
(* use when it was read still is.                                          *)
Buffers ==
  \A p \in Procs :
    /\ pc[p] \in {"read_done", "fetched"}
         => Usable(buf[p]) /\ (InUse(buf[p]) => InUse(flash))
    /\ pc[p] \in {"prepared", "write"}
         => InUse(buf[p]) /\ Newest(buf[p]) = data[p]
    /\ pc[p] \in {"prepared", "write", "write_done"}
         => op[p] = "write"
    /\ op[p] = "write" /\ pc[p] # "idle" => data[p] \in Blocks
    /\ pc[p] \in {"locked", "read", "read_done", "fetched"}
         => output[p] = NoBlock

Written ==
  \A p \in Procs :
    /\ last_writer = p /\ pc[p] = "write_done" => Newest(flash) = data[p]
    /\ last_writer = p /\ op[p] = "write" /\ result[p] = "ok"
         => Newest(flash) = data[p]

IInv == TypeOK /\ Usable(flash) /\ Buffers /\ Written
-----------------------------------------------------------------------------
(* vbnv_index() finds the last block of a usable region.                   *)
LEMMA LeadingOf ==
  ASSUME NEW image \in Images, NEW n \in Positions,
         \A i \in Positions : image[i] = Blank <=> i > n
  PROVE  /\ Leading(image) = n
         /\ Index(image) = n - 1
         /\ Newest(image) = image[n]
         /\ Newest(image) \in Blocks
<1> USE VbnvAssumption DEF Positions
<1>1. n \in 0 .. NumBlocks /\ NumBlocks \in Nat
  OBVIOUS
<1>2. /\ \A i \in 1 .. n : image[i] # Blank
      /\ n < NumBlocks => image[n + 1] = Blank
  OBVIOUS
<1>3. ASSUME NEW m \in 0 .. NumBlocks,
             \A i \in 1 .. m : image[i] # Blank,
             m < NumBlocks => image[m + 1] = Blank
      PROVE  m = n
  <2>1. CASE m < n
    <3>1. m + 1 \in 1 .. NumBlocks /\ ~(m + 1 > n)
      BY <2>1
    <3> QED BY <1>3, <2>1, <3>1
  <2>2. CASE m > n
    <3>1. n + 1 \in 1 .. m /\ n + 1 \in 1 .. NumBlocks /\ n + 1 > n
      BY <2>2
    <3> QED BY <1>3, <3>1
  <2> QED BY <2>1, <2>2
<1>4. Leading(image) = n
  BY <1>1, <1>2, <1>3 DEF Leading
<1>5. Index(image) = n - 1
  BY <1>1, <1>4 DEF Index, VBNV_BLOCK_SIZE
<1>6. Newest(image) = image[n]
  BY <1>1, <1>5 DEF Newest
<1>7. image[n] \in Blocks
  BY <1>1, <1>2 DEF Images
<1> QED BY <1>4, <1>5, <1>6, <1>7

(* The image vbnv_write_to_flash() makes of a usable region is usable, and *)
(* its newest block is the one to write.                                   *)
LEMMA Prepared ==
  ASSUME NEW image \in Images, InUse(image),
         NEW b \in Blocks \ {Blank},
         NEW image2,
         image2 = LET index == Index(image) + 1
                  IN  IF index * VBNV_BLOCK_SIZE
                           >= NumBlocks * VBNV_BLOCK_SIZE
                        THEN [ErasedImage EXCEPT ![1] = b]
                        ELSE [image EXCEPT ![index + 1] = b]
  PROVE  image2 \in Images /\ InUse(image2) /\ Newest(image2) = b
<1> USE VbnvAssumption DEF Positions
<1>1. PICK n \in Positions : \A i \in Positions : image[i] = Blank <=> i > n
  BY DEF InUse
<1>2. Index(image) + 1 = n
  BY <1>1, LeadingOf
<1> DEFINE Full == n * VBNV_BLOCK_SIZE >= NumBlocks * VBNV_BLOCK_SIZE
<1>2a. image2 = IF Full THEN [ErasedImage EXCEPT ![1] = b]
                        ELSE [image EXCEPT ![n + 1] = b]
  BY <1>2
<1>2b. Full <=> n >= NumBlocks
  BY DEF VBNV_BLOCK_SIZE
<1> HIDE DEF Full
<1>3. CASE n >= NumBlocks
  <2>1. image2 = [ErasedImage EXCEPT ![1] = b]
    BY <1>2a, <1>2b, <1>3
  <2>2. image2 \in Images
    BY <2>1 DEF Images, ErasedImage
  <2>3. 1 \in Positions /\ \A i \in Positions : image2[i] = Blank <=> i > 1
    BY <2>1 DEF ErasedImage
  <2>4. image2[1] = b
    BY <2>1 DEF ErasedImage
  <2> QED BY <2>2, <2>3, <2>4, LeadingOf DEF InUse
<1>4. CASE ~(n >= NumBlocks)
  <2>1. image2 = [image EXCEPT ![n + 1] = b]
    BY <1>2a, <1>2b, <1>4
  <2>2. image2 \in Images
    BY <2>1 DEF Images
  <2>3. /\ n + 1 \in Positions
        /\ \A i \in Positions : image2[i] = Blank <=> i > n + 1
    BY <1>1, <1>4, <2>1 DEF Images
  <2>4. image2[n + 1] = b
    BY <2>1, <2>3 DEF Images
  <2> QED BY <2>2, <2>3, <2>4, LeadingOf DEF InUse
<1> QED BY <1>3, <1>4

(* A usable region has a newest block, and vbnv_index() finds it.          *)
LEMMA UsableIsReadable ==
  ASSUME NEW image \in Images, InUse(image)
  PROVE  ~(Index(image) < 0) /\ Newest(image) \in Blocks
<1>1. PICK n \in Positions : \A i \in Positions : image[i] = Blank <=> i > n
  BY DEF InUse
<1>2. Index(image) = n - 1 /\ Newest(image) \in Blocks
  BY <1>1, LeadingOf
<1>3. ~(n - 1 < 0)
  BY VbnvAssumption DEF Positions
<1> QED BY <1>2, <1>3

(* In a region nobody has initialised there is nothing to find.            *)
LEMMA ErasedIsRefused ==
  /\ ErasedImage \in Images
  /\ Index(ErasedImage) = -1
  /\ Newest(ErasedImage) = NoBlock
<1> USE VbnvAssumption DEF Positions
<1>1. ErasedImage \in Images
  BY DEF Images, ErasedImage
<1>2. 1 \in Positions /\ ErasedImage[1] = Blank
  BY DEF ErasedImage
<1>3. /\ 0 \in 0 .. NumBlocks
      /\ \A i \in 1 .. 0 : ErasedImage[i] # Blank
      /\ 0 < NumBlocks => ErasedImage[0 + 1] = Blank
  BY <1>2
<1>4. ASSUME NEW m \in 0 .. NumBlocks, \A i \in 1 .. m : ErasedImage[i] # Blank
      PROVE  m = 0
  BY <1>2, <1>4
<1>5. Leading(ErasedImage) = 0
  BY <1>3, <1>4 DEF Leading
<1>6. Index(ErasedImage) = -1
  BY <1>5 DEF Index
<1> QED BY <1>1, <1>6 DEF Newest
-----------------------------------------------------------------------------
(* The state of a process and of the flash is usable in the beginning ...  *)
LEMMA InitIInv ==
  ASSUME Blank \notin Blocks, Init
  PROVE  IInv
<1> USE VbnvAssumption, FlashAccessAssumption
<1>5. ErasedImage \in Images
  BY ErasedIsRefused
<1>2. flash \in Images /\ Usable(flash)
  <2>1. CASE flash = ErasedImage
    BY <1>5, <2>1 DEF Usable
  <2>2. ASSUME NEW b \in Blocks \ {Blank}, flash = [ErasedImage EXCEPT ![1] = b]
        PROVE  flash \in Images /\ Usable(flash)
    <3>1. 1 \in Positions /\ \A i \in Positions : flash[i] = Blank <=> i > 1
      BY <2>2 DEF ErasedImage, Positions
    <3> QED BY <2>2, <3>1 DEF Images, ErasedImage, Positions, Usable, InUse
  <2> QED BY <2>1, <2>2 DEF Init
<1>6. TypeOK
  BY <1>2, <1>5 DEF Init, TypeOK, LockInit, LockTypeOK, PCs
<1>7. Buffers
  BY DEF Init, Buffers
<1>8. Written
  BY DEF Init, Written, LockInit
<1> QED BY <1>2, <1>6, <1>7, <1>8 DEF IInv

(* ... stays so ...                                                        *)
LEMMA NextIInv ==
  ASSUME Blank \notin Blocks, IInv, [Next]_vars
  PROVE  IInv'
<1> USE VbnvAssumption, FlashAccessAssumption
<1>t. TypeOK'
  <2> USE DEF IInv, TypeOK, LockTypeOK, lockVars, Goto, Fails, cmdVars, PCs,
              CommandLocks, CommandUnlocks, LockDropped, LockRetaken, LockLost
  <2>1. ASSUME NEW p \in Procs, NEW o \in {"read", "write"}, NEW b \in Blocks,
               Start(p, o, b)
        PROVE  TypeOK'
    BY <2>1 DEF Start
  <2>2. ASSUME NEW p \in Procs, ReadDrops(p) PROVE TypeOK'
    BY <2>2 DEF ReadDrops
  <2>3. ASSUME NEW p \in Procs, ReadRegion(p) PROVE TypeOK'
    BY <2>3 DEF ReadRegion
  <2>4. ASSUME NEW p \in Procs, ReadTakesBack(p) PROVE TypeOK'
    BY <2>4 DEF ReadTakesBack
  <2>5. ASSUME NEW p \in Procs, ReadFails(p) PROVE TypeOK'
    BY <2>5 DEF ReadFails
  <2>6. ASSUME NEW p \in Procs, ReadReturns(p) PROVE TypeOK'
    <3>1. Usable(buf[p]) /\ buf[p] \in Images
      BY <2>6 DEF Buffers, ReadReturns
    <3>2. Newest(buf[p]) \in Blocks \cup {NoBlock}
      BY <3>1, UsableIsReadable, ErasedIsRefused DEF Usable
    <3> QED BY <2>6, <3>2 DEF ReadReturns
  <2>7. ASSUME NEW p \in Procs, PrepareWrite(p) PROVE TypeOK'
    <3>1. /\ InUse(buf[p]) /\ buf[p] \in Images
          /\ data[p] \in Blocks \ {Blank}
      BY <2>7, ErasedIsRefused DEF Buffers, PrepareWrite, Usable
    <3>2. buf'[p] \in Images /\ buf' = [buf EXCEPT ![p] = buf'[p]]
      BY <2>7, <3>1, Prepared DEF PrepareWrite
    <3>3. buf' \in [Procs -> Images]
      BY <3>2
    <3> QED BY <2>7, <3>3 DEF PrepareWrite
  <2>8. ASSUME NEW p \in Procs, PrepareFails(p) PROVE TypeOK'
    BY <2>8 DEF PrepareFails
  <2>9. ASSUME NEW p \in Procs, WriteDrops(p) PROVE TypeOK'
    BY <2>9 DEF WriteDrops
  <2>10. ASSUME NEW p \in Procs, WriteRegion(p) PROVE TypeOK'
    BY <2>10 DEF WriteRegion
  <2>11. ASSUME NEW p \in Procs, WriteTakesBack(p) PROVE TypeOK'
    BY <2>11 DEF WriteTakesBack
  <2>12. ASSUME NEW p \in Procs, WriteFails(p) PROVE TypeOK'
    BY <2>12 DEF WriteFails
  <2>13. ASSUME NEW p \in Procs, End(p) PROVE TypeOK'
    <3>1. ErasedImage \in Images
      BY DEF Images, ErasedImage, Positions
    <3> QED BY <2>13, <3>1 DEF End
  <2>14. CASE UNCHANGED vars
    BY <2>14 DEF vars
  <2> QED
    BY <2>1, <2>2, <2>3, <2>4, <2>5, <2>6, <2>7, <2>8, <2>9, <2>10, <2>11,
       <2>12, <2>13, <2>14 DEF Next
<1> DEFINE Rest == Usable(flash) /\ Buffers /\ Written
<1> SUFFICES Rest'
  BY <1>t DEF IInv
<1> USE DEF Buffers, Written
<1> HIDE <1>t
<1>0. TypeOK /\ Rest
  BY DEF IInv
<1> USE <1>0 DEF TypeOK, lockVars, cmdVars, Goto, Fails, PCs
<1>1. ASSUME NEW p \in Procs, NEW o \in {"read", "write"}, NEW b \in Blocks,
             Start(p, o, b)
      PROVE  Rest'
  BY <1>1 DEF Start
<1>2. ASSUME NEW p \in Procs, ReadDrops(p) PROVE Rest'
  BY <1>2 DEF ReadDrops
<1>3. ASSUME NEW p \in Procs, ReadRegion(p) PROVE Rest'
  BY <1>3 DEF ReadRegion
<1>4. ASSUME NEW p \in Procs, ReadTakesBack(p) PROVE Rest'
  BY <1>4 DEF ReadTakesBack
<1>5. ASSUME NEW p \in Procs, ReadFails(p) PROVE Rest'
  BY <1>5 DEF ReadFails, LockLost
<1>6. ASSUME NEW p \in Procs, ReadReturns(p) PROVE Rest'
  <2>2. /\ op[p] = "read" /\ pc' = [pc EXCEPT ![p] = "end"]
        /\ \A q \in Procs : q # p => result'[q] = result[q]
        /\ \A q \in Procs : q # p => output'[q] = output[q]
        /\ UNCHANGED <<flash, op, data, buf, last_writer>>
    BY <1>6 DEF ReadReturns
  <2> HIDE DEF InUse, Newest
  <2> QED BY <2>2
<1>7. ASSUME NEW p \in Procs, PrepareWrite(p) PROVE Rest'
  <2>1. /\ InUse(buf[p]) /\ buf[p] \in Images
        /\ data[p] \in Blocks \ {Blank} /\ InUse(flash)
    BY <1>7, ErasedIsRefused DEF PrepareWrite, Usable
  <2>2. /\ InUse(buf'[p]) /\ Newest(buf'[p]) = data[p]
        /\ buf' = [buf EXCEPT ![p] = buf'[p]]
    BY <1>7, <2>1, Prepared DEF PrepareWrite
  <2>3. /\ pc[p] = "fetched" /\ op[p] = "write"
        /\ pc' = [pc EXCEPT ![p] = "prepared"]
        /\ UNCHANGED <<flash, op, data, result, output, last_writer>>
    BY <1>7 DEF PrepareWrite
  <2> HIDE DEF InUse, Newest
  <2>4. Buffers'
    <3> SUFFICES ASSUME NEW q \in Procs
                 PROVE  /\ pc'[q] \in {"read_done", "fetched"}
                             => /\ Usable(buf'[q])
                                /\ InUse(buf'[q]) => InUse(flash')
                        /\ pc'[q] \in {"prepared", "write"}
                             => InUse(buf'[q]) /\ Newest(buf'[q]) = data'[q]
                        /\ pc'[q] \in {"prepared", "write", "write_done"}
                             => op'[q] = "write"
                        /\ op'[q] = "write" /\ pc'[q] # "idle"
                             => data'[q] \in Blocks
                        /\ pc'[q] \in {"locked", "read", "read_done", "fetched"}
                             => output'[q] = NoBlock
      OBVIOUS
    <3>1. CASE q = p
      BY <2>1, <2>2, <2>3, <3>1
    <3>2. CASE q # p
      <4>1. buf'[q] = buf[q] /\ pc'[q] = pc[q]
        BY <2>2, <2>3, <3>2
      <4> QED BY <2>3, <4>1
    <3> QED BY <3>1, <3>2
  <2>5. Usable(flash)'
    BY <2>3
  <2>6. Written'
    BY <2>3
  <2> QED BY <2>4, <2>5, <2>6
<1>8. ASSUME NEW p \in Procs, PrepareFails(p) PROVE Rest'
  BY <1>8 DEF PrepareFails
<1>9. ASSUME NEW p \in Procs, WriteDrops(p) PROVE Rest'
  BY <1>9 DEF WriteDrops
<1>10. ASSUME NEW p \in Procs, WriteRegion(p) PROVE Rest'
  BY <1>10 DEF WriteRegion, Usable
<1>11. ASSUME NEW p \in Procs, WriteTakesBack(p) PROVE Rest'
  BY <1>11 DEF WriteTakesBack
<1>12. ASSUME NEW p \in Procs, WriteFails(p) PROVE Rest'
  BY <1>12 DEF WriteFails, LockLost
<1>13. ASSUME NEW p \in Procs, End(p) PROVE Rest'
  BY <1>13 DEF End
<1>14. CASE UNCHANGED vars
  BY <1>14 DEF vars
<1> QED
  BY <1>1, <1>2, <1>3, <1>4, <1>5, <1>6, <1>7, <1>8, <1>9, <1>10, <1>11,
     <1>12, <1>13, <1>14 DEF Next

LEMMA Inductive ==
  ASSUME Blank \notin Blocks
  PROVE  Spec => []IInv
<1>1. Init => IInv
  BY InitIInv
<1>2. IInv /\ [Next]_vars => IInv'
  BY NextIInv
<1> QED BY <1>1, <1>2, PTL DEF Spec
-----------------------------------------------------------------------------
(* Every variable keeps its type, whatever runs and whatever fails: no     *)
(* image is longer than the region it is written to.                       *)
THEOREM TypeCorrect == ASSUME Blank \notin Blocks PROVE Spec => []TypeOK
<1>1. IInv => TypeOK
  BY DEF IInv
<1> QED BY <1>1, Inductive, PTL

(* However many processes write at the same time, and wherever they fail,  *)
(* a region in use stays in use: only images in use are ever written.      *)
THEOREM StaysUsable == ASSUME Blank \notin Blocks PROVE Spec => RegionUsable
<1>1. ASSUME IInv, [Next]_vars, InUse(flash) PROVE InUse(flash')
  <2>1. ASSUME NEW p \in Procs, WriteRegion(p) PROVE InUse(flash')
    BY <1>1, <2>1 DEF WriteRegion, IInv, Buffers
  <2>2. (\A p \in Procs : ~WriteRegion(p)) => flash' = flash
    BY <1>1 DEF Next, vars, cmdVars, Start, ReadDrops, ReadRegion,
       ReadTakesBack, ReadFails, ReadReturns, PrepareWrite, PrepareFails,
       WriteDrops, WriteTakesBack, WriteFails, End
  <2> QED BY <1>1, <2>1, <2>2
<1>2. IInv /\ [Next]_vars => [InUse(flash) => InUse(flash')]_vars
  BY <1>1
<1> QED BY <1>2, Inductive, PTL DEF Spec, RegionUsable

(* A write that reported success and was not followed by another process's *)
(* is what a read finds.                                                   *)
THEOREM WriteIsVisible ==
  ASSUME Blank \notin Blocks PROVE Spec => []WrittenIsRead
<1>1. IInv => WrittenIsRead
  BY DEF IInv, Written, WrittenIsRead
<1> QED BY <1>1, Inductive, PTL

(* Whatever mosys itself has put into the region, the next command finds   *)
(* its way in it; only a region nobody initialised is refused.             *)
THEOREM NothingRefused ==
  ASSUME Blank \notin Blocks PROVE Spec => []NeverRefused
<1>1. IInv => NeverRefused
  BY UsableIsReadable DEF IInv, TypeOK, Buffers, Usable, NeverRefused
<1> QED BY <1>1, Inductive, PTL
-----------------------------------------------------------------------------
(* Refinement.  The register is the newest block of the flash.             *)
LEMMA InitRefines ==
  ASSUME Blank \notin Blocks, Init
  PROVE  Reg!Init
<1>1. flash \in Images /\ Usable(flash)
  BY InitIInv DEF IInv, TypeOK
<1>2. Newest(flash) \in (Blocks \ {Blank}) \cup {NoBlock}
  BY <1>1, UsableIsReadable, ErasedIsRefused DEF Usable
<1> QED BY <1>2 DEF Init, Reg!Init

(* What the two functions of the refinement are, and when they stay.       *)
Writing == [p \in Procs |->
             IF op[p] = "write" /\ pc[p] \in {"prepared", "write"}
               THEN data[p] ELSE NoBlock]
Seen == [p \in Procs |->
          IF op[p] = "read" /\ pc[p] \in {"read_done", "fetched"}
            THEN Newest(buf[p])
          ELSE IF op[p] = "read" /\ pc[p] = "end"
            THEN output[p] ELSE NoBlock]

(* Each step of a process is a step of the register or leaves it alone:    *)
(* reading the region observes it, preparing an image starts a write,      *)
(* writing the region makes it take effect, a failure and the end give up. *)
LEMMA NextRefines ==
  ASSUME Blank \notin Blocks, IInv, [Next]_vars
  PROVE  [Reg!Next]_(<<Newest(flash), Writing, Seen>>)
<1> USE VbnvAssumption, FlashAccessAssumption
<1>0. TypeOK /\ Buffers
  BY DEF IInv
<1> DEFINE Value == Newest(flash)
           Same == Value' = Value /\ Writing' = Writing /\ Seen' = Seen
           Goal == Same \/ Reg!Next
<1> SUFFICES Goal
  OBVIOUS
<1>a. ASSUME NEW p \in Procs, Value' = Value, Writing' = Writing,
             Seen' = [Seen EXCEPT ![p] = Value]
      PROVE  Goal
  BY <1>a DEF Reg!Next, Reg!Observes, Writing, Seen
<1>b. ASSUME NEW p \in Procs, NEW b \in Blocks \ {Blank}, Value' = Value,
             Value # NoBlock,
             Seen' = Seen, Writing' = [Writing EXCEPT ![p] = b]
      PROVE  Goal
  BY <1>b DEF Reg!Next, Reg!StartsWrite, Writing, Seen
<1>c. ASSUME NEW p \in Procs, Writing[p] # NoBlock, Value' = Writing[p],
             Writing' = [Writing EXCEPT ![p] = NoBlock], Seen' = Seen
      PROVE  Goal
  BY <1>c DEF Reg!Next, Reg!TakesEffect, Writing, Seen
<1>d. ASSUME NEW p \in Procs, Value' = Value,
             Writing' = [Writing EXCEPT ![p] = NoBlock],
             Seen' = [Seen EXCEPT ![p] = NoBlock]
      PROVE  Goal
  BY <1>d DEF Reg!Next, Reg!Ends, Writing, Seen
<1> HIDE DEF Goal, Same
<1> USE <1>0 DEF TypeOK, Buffers, lockVars, cmdVars, Goto, Fails, PCs
<1>1. ASSUME NEW p \in Procs, NEW o \in {"read", "write"}, NEW b \in Blocks,
             Start(p, o, b)
      PROVE  Goal
  BY <1>1 DEF Start, Writing, Seen, Goal, Same
<1>2. ASSUME NEW p \in Procs, ReadDrops(p) PROVE Goal
  BY <1>2 DEF ReadDrops, Writing, Seen, Goal, Same
<1>3. ASSUME NEW p \in Procs, ReadRegion(p) PROVE Goal
  <2>1. Value' = Value /\ Writing' = Writing
    BY <1>3 DEF ReadRegion, Writing
  <2>2. CASE op[p] = "read"
    <3>1. Seen' = [Seen EXCEPT ![p] = Value]
      BY <1>3, <2>2 DEF ReadRegion, Seen
    <3> QED BY <1>a, <2>1, <3>1
  <2>3. CASE op[p] # "read"
    <3>1. Seen' = Seen
      BY <1>3, <2>3 DEF ReadRegion, Seen
    <3> QED BY <2>1, <3>1 DEF Goal, Same
  <2> QED BY <2>2, <2>3
<1>4. ASSUME NEW p \in Procs, ReadTakesBack(p) PROVE Goal
  BY <1>4 DEF ReadTakesBack, Writing, Seen, Goal, Same
<1>5. ASSUME NEW p \in Procs, ReadFails(p) PROVE Goal
  <2>1. /\ pc[p] \in {"read", "read_done"} /\ pc' = [pc EXCEPT ![p] = "end"]
        /\ output[p] = NoBlock
        /\ UNCHANGED <<flash, op, data, buf, output>>
    BY <1>5 DEF ReadFails, LockLost
  <2>2. Value' = Value
    BY <2>1
  <2>3. Writing' = [Writing EXCEPT ![p] = NoBlock]
    BY <2>1 DEF Writing
  <2>4. Seen' = [Seen EXCEPT ![p] = NoBlock]
    BY <2>1 DEF Seen
  <2> QED BY <1>d, <2>2, <2>3, <2>4
<1>6. ASSUME NEW p \in Procs, ReadReturns(p) PROVE Goal
  <2>1. Value' = Value /\ Writing' = Writing
    BY <1>6 DEF ReadReturns, Writing
  <2>2. Seen' = Seen
    BY <1>6 DEF ReadReturns, Seen
  <2> QED BY <2>1, <2>2 DEF Goal, Same
<1>7. ASSUME NEW p \in Procs, PrepareWrite(p) PROVE Goal
  <2>1. /\ pc[p] = "fetched" /\ op[p] = "write" /\ data[p] \in Blocks \ {Blank}
        /\ pc' = [pc EXCEPT ![p] = "prepared"]
        /\ \A q \in Procs : q # p => buf'[q] = buf[q]
        /\ UNCHANGED <<flash, op, data, output>>
    BY <1>7 DEF PrepareWrite
  <2>2. Value' = Value
    BY <2>1
  <2>3. Writing' = [Writing EXCEPT ![p] = data[p]]
    BY <2>1 DEF Writing
  <2>4. Seen' = Seen
    <3> SUFFICES ASSUME NEW q \in Procs PROVE Seen'[q] = Seen[q]
      BY DEF Seen
    <3> HIDE DEF Newest
    <3>1. CASE q = p
      BY <2>1, <3>1 DEF Seen
    <3>2. CASE q # p
      BY <2>1, <3>2 DEF Seen
    <3> QED BY <3>1, <3>2
  <2>5. Value # NoBlock
    <3>1. InUse(flash)
      BY <1>7, ErasedIsRefused DEF PrepareWrite, Usable
    <3> QED BY <3>1, UsableIsReadable
  <2> QED BY <1>b, <2>1, <2>2, <2>3, <2>4, <2>5
<1>8. ASSUME NEW p \in Procs, PrepareFails(p) PROVE Goal
  <2>1. /\ pc[p] = "fetched" /\ op[p] = "write"
        /\ pc' = [pc EXCEPT ![p] = "end"]
        /\ UNCHANGED <<flash, op, data, buf, output>>
    BY <1>8 DEF PrepareFails
  <2> QED BY <2>1 DEF Writing, Seen, Goal, Same
<1>9. ASSUME NEW p \in Procs, WriteDrops(p) PROVE Goal
  BY <1>9 DEF WriteDrops, Writing, Seen, Goal, Same
<1>10. ASSUME NEW p \in Procs, WriteRegion(p) PROVE Goal
  <2>1. /\ pc[p] = "write" /\ op[p] = "write" /\ data[p] \in Blocks
        /\ Newest(buf[p]) = data[p] /\ flash' = buf[p]
        /\ pc' = [pc EXCEPT ![p] = "write_done"]
        /\ UNCHANGED <<op, data, buf, output>>
    BY <1>10 DEF WriteRegion
  <2>2. Writing[p] = data[p] /\ Writing[p] # NoBlock
    BY <2>1 DEF Writing
  <2>3. Value' = Writing[p]
    BY <2>1, <2>2
  <2>4. Writing' = [Writing EXCEPT ![p] = NoBlock]
    BY <2>1 DEF Writing
  <2>5. Seen' = Seen
    BY <2>1 DEF Seen
  <2> QED BY <1>c, <2>2, <2>3, <2>4, <2>5
<1>11. ASSUME NEW p \in Procs, WriteTakesBack(p) PROVE Goal
  BY <1>11 DEF WriteTakesBack, Writing, Seen, Goal, Same
<1>12. ASSUME NEW p \in Procs, WriteFails(p) PROVE Goal
  <2>1. /\ pc[p] \in {"write", "write_done"} /\ op[p] = "write"
        /\ pc' = [pc EXCEPT ![p] = "end"]
        /\ UNCHANGED <<flash, op, data, buf, output>>
    BY <1>12 DEF WriteFails, LockLost
  <2>2. Value' = Value
    BY <2>1
  <2>3. Writing' = [Writing EXCEPT ![p] = NoBlock]
    BY <2>1 DEF Writing
  <2>4. Seen' = [Seen EXCEPT ![p] = NoBlock]
    BY <2>1 DEF Seen
  <2> QED BY <1>d, <2>2, <2>3, <2>4
<1>13. ASSUME NEW p \in Procs, End(p) PROVE Goal
  <2>1. /\ pc[p] = "end" /\ pc' = [pc EXCEPT ![p] = "idle"]
        /\ \A q \in Procs : q # p => buf'[q] = buf[q]
        /\ UNCHANGED <<flash, op, data, output>>
    BY <1>13 DEF End
  <2>2. Value' = Value
    BY <2>1
  <2>3. Writing' = [Writing EXCEPT ![p] = NoBlock]
    BY <2>1 DEF Writing
  <2>4. Seen' = [Seen EXCEPT ![p] = NoBlock]
    <3> HIDE DEF Newest
    <3> QED BY <2>1 DEF Seen
  <2> QED BY <1>d, <2>2, <2>3, <2>4
<1>14. CASE UNCHANGED vars
  BY <1>14 DEF vars, Writing, Seen, Goal, Same
<1> QED
  BY <1>1, <1>2, <1>3, <1>4, <1>5, <1>6, <1>7, <1>8, <1>9, <1>10, <1>11,
     <1>12, <1>13, <1>14 DEF Next

(* All processes together see one register, although none of them holds    *)
(* the lock from its read of the region to its write of it.                *)
THEOREM Implementation ==
  ASSUME Blank \notin Blocks PROVE Spec => ImplementsRegister
<1>1. Init => Reg!Init
  BY InitRefines
<1>2. IInv /\ [Next]_vars => [Reg!Next]_(Reg!regVars)
  BY NextRefines DEF Reg!regVars, Writing, Seen
<1> QED BY <1>1, <1>2, Inductive, PTL DEF Spec, Reg!Spec, ImplementsRegister
-----------------------------------------------------------------------------
(* What the assumption and the types give.                                 *)
LEMMA SpdFacts ==
  ASSUME SpdTypeOK
  PROVE  /\ asked.arg \in Nat \cup {NoArg} /\ asked.pass \in 0 .. LastPass
         /\ asked.what \in {"print", "dump"}
         /\ spdboard.strap \in Nat
         /\ Len(spdboard.parts) \in Nat /\ Len(spdboard.blob) \in Nat
         /\ \A fails : Counts(fails) \in Int
         /\ ByPart => Fitted = Len(spdboard.parts)
         /\ ~ByPart => Fitted \in {1, 2}
         /\ Fitted \in Nat
         /\ \A fails : fails # "straps_counted" => Counts(fails) <= Fitted
         /\ \A fails : fails \notin {"straps_counted", "ec"} =>
              Counts(fails) = Fitted
  <1>1. /\ asked.arg \in Nat \cup {NoArg} /\ asked.pass \in 0 .. LastPass
        /\ asked.what \in {"print", "dump"}
        /\ spdboard.strap \in Nat
        /\ Len(spdboard.parts) \in Nat /\ Len(spdboard.blob) \in Nat
    BY SpdAssumption DEF SpdTypeOK, LastPass, NoArg
  <1>2. \A index : /\ dimm_count(index) \in Nat
                   /\ ByPart => dimm_count(index) = Len(spdboard.parts)
                   /\ ~ByPart => dimm_count(index) \in {1, 2}
    BY <1>1 DEF dimm_count
  <1>3. \A fails :
          /\ fails = "straps_counted" => Counts(fails) = dimm_count(Failing)
          /\ fails = "ec" => Counts(fails) = -1
          /\ fails \notin {"straps_counted", "ec"} => Counts(fails) = Fitted
    BY DEF Counts, Fitted
  <1>4. QED
    BY <1>1, <1>2, <1>3 DEF Fitted

(* A failure stays in the history, and a new one comes into it.            *)
LEMMA NoteEffect ==
  ASSUME SpdTypeOK, NEW kinds,
         kinds \subseteq {"straps_counted", "ec", "straps", "flashrom",
                          "fmap", "region", "smbios"},
         NEW fails \in Reads(kinds), Note(fails)
  PROVE  /\ failed' \in Seq({"straps_counted", "ec", "straps", "flashrom",
                             "fmap", "region", "smbios"})
         /\ \A other : Failure(other) => Failure(other)'
         /\ \A other : fails # Nothing /\ fails \in other => Failure(other)'
  <1>1. CASE fails = Nothing
    BY <1>1 DEF Note, SpdTypeOK, Failure
  <1>2. CASE fails # Nothing
    <2>1. /\ failed \in Seq({"straps_counted", "ec", "straps", "flashrom",
                             "fmap", "region", "smbios"})
          /\ fails \in {"straps_counted", "ec", "straps", "flashrom",
                        "fmap", "region", "smbios"}
          /\ failed' = Append(failed, fails)
      BY <1>2 DEF Note, Reads, SpdTypeOK
    <2>2. /\ DOMAIN failed' = 1 .. Len(failed) + 1
          /\ failed'[Len(failed) + 1] = fails
          /\ \A k \in DOMAIN failed :
               k \in DOMAIN failed' /\ failed'[k] = failed[k]
          /\ Len(failed) + 1 \in DOMAIN failed'
      BY <2>1
    <2>3. QED
      BY <2>1, <2>2 DEF Failure
  <1>3. QED
    BY <1>1, <1>2

(* The first DIMM of a pass.                                               *)
FirstDimm == IF asked.arg = NoArg THEN 0 ELSE asked.arg

(* Whatever comes after a DIMM is in range.                                *)
LEMMA AfterDimm ==
  ASSUME SpdTypeOK, NextDimm
  PROVE  \/ /\ spd_pc' = "read" /\ dimm' = dimm + 1 /\ pass' = pass
            /\ dimm' < last_dimm
         \/ /\ spd_pc' \in {"count", "ended"} /\ dimm' = FirstDimm
            /\ pass' \in 1 .. LastPass
  BY DEF NextDimm, NextPass, FirstDimm, SpdTypeOK, LastPass

Busy == {"read", "flashrom", "fmap", "region", "find", Regions[1],
         Regions[2]}

SpdTypes == SpdTypeOK /\ (spd_pc \in Busy => pass >= 1)

LEMMA EntryIsNat ==
  ASSUME SpdTypeOK, NEW part
  PROVE  /\ EntryOf(part) \in Int
         /\ EntryOf(part) >= 0 =>
              spdboard.blob[EntryOf(part) + 1] = part
  <1> DEFINE I == {i \in 1 .. Len(spdboard.blob) : spdboard.blob[i] = part}
             First == Min(I)
  <1>1. EntryOf(part) = (IF I # {} THEN First ELSE 0) - 1
    BY DEF EntryOf, SelectInSeq
  <1>2. I # {} => First \in I
    <2> SUFFICES ASSUME I # {} PROVE First \in I
      OBVIOUS
    <2>1. I \subseteq Nat
      BY SpdFacts
    <2>2. PICK x \in I : \A y \in I : ~ (<<y, x>> \in OpToRel(<, Nat))
      BY <2>1, NatLessThanWellFounded, WFMin
    <2>3. \A y \in I : x <= y
      <3> SUFFICES ASSUME NEW y \in I, y < x PROVE FALSE
        BY <2>1
      <3> DEFINE pair == <<y, x>>
      <3>1. pair \in Nat \X Nat /\ pair[1] < pair[2]
        BY <2>1
      <3> HIDE DEF pair
      <3>2. pair \in OpToRel(<, Nat)
        BY <3>1 DEF OpToRel
      <3>3. QED
        BY <2>2, <3>2 DEF pair
    <2>4. QED
      BY <2>3 DEF Min
  <1>3. CASE I = {}
    BY <1>1, <1>3
  <1>4. CASE I # {}
    <2>1. First \in Nat /\ First >= 1 /\ spdboard.blob[First] = part
      BY <1>2, <1>4, SpdFacts
    <2>2. EntryOf(part) = First - 1
      BY <1>1, <1>4
    <2> HIDE DEF First
    <2>3. EntryOf(part) + 1 = First /\ EntryOf(part) \in Int
      BY <2>1, <2>2
    <2>4. QED
      BY <2>1, <2>3
  <1>5. QED
    BY <1>3, <1>4

LEMMA CallFailsTypes ==
  ASSUME SpdTypes, spd_pc \in Busy, CallFails
  PROVE  /\ spd_pc' \in {"read", "count", "ended"}
         /\ pass' \in 1 .. LastPass /\ dimm' \in Nat
         /\ half' = "header" /\ printed' = printed
  BY AfterDimm, SpdFacts
     DEF CallFails, SpdTypes, SpdTypeOK, FirstDimm, LastPass, NoArg

LEMMA CallSucceedsTypes ==
  ASSUME SpdTypes, spd_pc \in Busy, NEW entry \in Nat, CallSucceeds(entry)
  PROVE  /\ spd_pc' \in {"read", "count", "ended"}
         /\ pass' \in 1 .. LastPass /\ dimm' \in Nat
         /\ half' \in {"header", "rest"}
         /\ printed' \in Seq((1 .. LastPass) \X Nat \X Nat)
  <1>1. CASE half = "header"
    BY <1>1 DEF CallSucceeds, SpdTypes, SpdTypeOK, LastPass
  <1>2. CASE half # "header"
    <2>1. NextDimm /\ half' = "header"
          /\ printed' = Append(printed, <<pass, dimm, entry>>)
      BY <1>2 DEF CallSucceeds
    <2>2. <<pass, dimm, entry>> \in (1 .. LastPass) \X Nat \X Nat
      BY DEF SpdTypes, SpdTypeOK, LastPass
    <2>3. printed' \in Seq((1 .. LastPass) \X Nat \X Nat)
      BY <2>1, <2>2 DEF SpdTypes, SpdTypeOK
    <2>4. /\ spd_pc' \in {"read", "count", "ended"}
          /\ pass' \in 1 .. LastPass /\ dimm' \in Nat
      <3>1. SpdTypeOK /\ pass >= 1
        BY DEF SpdTypes
      <3>2. FirstDimm \in Nat
        BY <3>1, SpdFacts DEF FirstDimm, NoArg
      <3>3. QED
        BY <2>1, <3>1, <3>2, AfterDimm DEF SpdTypeOK, LastPass
    <2>5. QED
      BY <2>1, <2>3, <2>4
  <1>3. QED
    BY <1>1, <1>2

Pcs == {"count", "read", "flashrom", "fmap", "region", "find", "ended",
        "crashed", Regions[1], Regions[2]}

(* What a step of the reading of a DIMM, after one that fails, does.       *)
Moves(pcs) ==
  \/ CallFails
  \/ \E entry \in Nat : CallSucceeds(entry)
  \/ \E next \in pcs : SkipTo(next)

LEMMA MovesTypes ==
  ASSUME SpdTypes, spd_pc \in Busy, Moves(Pcs), Static' = Static,
         fw' \in {"none", "unread", "firmware", "failed", "null"},
         flashroms' \in Nat,
         failed' \in Seq({"straps_counted", "ec", "straps", "flashrom",
                          "fmap", "region", "smbios"})
  PROVE  SpdTypes'
  <1>1. /\ spd_pc' \in Pcs /\ pass' \in 1 .. LastPass /\ dimm' \in Nat
        /\ half' \in {"header", "rest"}
        /\ printed' \in Seq((1 .. LastPass) \X Nat \X Nat)
    <2>1. CASE CallFails
      BY <2>1, CallFailsTypes DEF SpdTypes, SpdTypeOK, Pcs
    <2>2. CASE \E entry \in Nat : CallSucceeds(entry)
      BY <2>2, CallSucceedsTypes DEF Pcs
    <2>3. CASE \E next \in Pcs : SkipTo(next)
      BY <2>3 DEF SkipTo, SpdTypes, SpdTypeOK, LastPass
    <2>4. QED
      BY <2>1, <2>2, <2>3 DEF Moves
  <1>2. /\ spdboard' = spdboard /\ asked' = asked /\ last_dimm' = last_dimm
    BY DEF Static
  <1>3. QED
    BY <1>1, <1>2 DEF SpdTypes, SpdTypeOK, Busy, LastPass, Pcs

(* The actions of the read callbacks, as moves.                            *)
LEMMA ReadingMoves ==
  ASSUME SpdTypes
  PROVE  /\ ReadByStraps => spd_pc \in Busy /\ Moves({"flashrom", "find"})
         /\ Flashrom => spd_pc \in Busy /\ Moves({"find"})
         /\ FindByStraps => spd_pc \in Busy /\ Moves({"crashed"})
         /\ ReadByPart => spd_pc \in Busy /\ Moves({"fmap", "find"})
         /\ Fmap => spd_pc \in Busy /\ Moves({"find", "region", Regions[1]})
         /\ FirstRegion => spd_pc \in Busy /\ Moves({"find", Regions[2]})
         /\ Region => spd_pc \in Busy /\ Moves({"find"})
         /\ FindByPart => spd_pc \in Busy /\ Moves({"crashed"})
  <1>1. ReadByStraps => spd_pc \in Busy /\ Moves({"flashrom", "find"})
    BY DEF ReadByStraps, Busy, Moves
  <1>2. Flashrom => spd_pc \in Busy /\ Moves({"find"})
    BY DEF Flashrom, Busy, Moves
  <1>3. FindByStraps => spd_pc \in Busy /\ Moves({"crashed"})
    BY SpdFacts DEF FindByStraps, Busy, Moves, SpdTypes
  <1>4. ReadByPart => spd_pc \in Busy /\ Moves({"fmap", "find"})
    BY DEF ReadByPart, Busy, Moves
  <1>5. Fmap => spd_pc \in Busy /\ Moves({"find", "region", Regions[1]})
    BY DEF Fmap, Busy, Moves
  <1>6. FirstRegion => spd_pc \in Busy /\ Moves({"find", Regions[2]})
    BY DEF FirstRegion, Busy, Moves
  <1>7. Region => spd_pc \in Busy /\ Moves({"find"})
    BY DEF Region, Busy, Moves
  <1>8. FindByPart => spd_pc \in Busy /\ Moves({"crashed"})
    <2> SUFFICES ASSUME FindByPart PROVE spd_pc \in Busy /\ Moves({"crashed"})
      OBVIOUS
    <2> DEFINE entry == EntryOf(spdboard.parts[dimm + 1])
    <2>1. entry \in Int
      BY EntryIsNat DEF SpdTypes
    <2>2. CallFails \/ (entry >= 0 /\ CallSucceeds(entry))
            \/ SkipTo("crashed")
      BY DEF FindByPart
    <2> HIDE DEF entry
    <2>3. Moves({"crashed"})
      BY <2>1, <2>2 DEF Moves
    <2>4. QED
      BY <2>3 DEF FindByPart, Busy
  <1>9. QED
    BY <1>1, <1>2, <1>3, <1>4, <1>5, <1>6, <1>7, <1>8

Failures == {"straps_counted", "ec", "straps", "flashrom", "fmap",
             "region", "smbios"}

(* Whatever the action: what failed stays in the history.                  *)
LEMMA FailedGrows ==
  ASSUME SpdTypes, SpdNext
  PROVE  /\ failed' \in Seq(Failures)
         /\ \A kinds : Failure(kinds) => Failure(kinds)'
  <1>1. CASE failed' = failed
    BY <1>1 DEF SpdTypes, SpdTypeOK, Failures, Failure
  <1>2. CASE \E fails \in Reads(Failures) : Note(fails)
    BY <1>2, NoteEffect DEF SpdTypes, Failures
  <1>3. failed' = failed \/ \E fails \in Reads(Failures) : Note(fails)
    <2>1. \A kinds \in SUBSET Failures : Reads(kinds) \subseteq Reads(Failures)
      BY DEF Reads
    <2>2. CountReads \subseteq Failures
      BY DEF CountReads, Failures
    <2>3. QED
      BY <2>1, <2>2 DEF SpdNext, CountDimms, ReadByStraps, Flashrom,
         FindByStraps, ReadByPart, Fmap, FirstRegion, Region, FindByPart,
         Failures
  <1>4. QED
    BY <1>1, <1>2, <1>3

LEMMA SpdTypesStep == SpdTypes /\ [SpdNext]_spdVars => SpdTypes'
  <1> SUFFICES ASSUME SpdTypes, [SpdNext]_spdVars PROVE SpdTypes'
    OBVIOUS
  <1>1. CASE CountDimms
    <2>1. failed' \in Seq(Failures)
      BY <1>1, FailedGrows DEF SpdNext
    <2>2. last_dimm' \in Int /\ half' = "header"
          /\ UNCHANGED <<spdboard, asked, fw, printed, flashroms>>
      BY <1>1, SpdFacts DEF CountDimms, SpdTypes
    <2>3. \/ spd_pc' = "ended" /\ pass' = pass /\ dimm' = dimm
          \/ spd_pc' = "read" /\ pass # 0 /\ pass' = pass /\ dimm' = dimm
          \/ NextPass
      BY <1>1 DEF CountDimms
    <2>4. /\ spd_pc' \in {"ended", "read", "count"}
          /\ pass' \in 0 .. LastPass /\ dimm' \in Nat
          /\ spd_pc' = "read" => pass' >= 1
      BY <2>3, SpdFacts DEF NextPass, SpdTypes, SpdTypeOK, LastPass, NoArg
    <2>5. QED
      BY <2>1, <2>2, <2>4 DEF SpdTypes, SpdTypeOK, Busy, Failures, Regions
  <1>2. CASE SpdNext /\ ~CountDimms
    <2>1. spd_pc \in Busy /\ Moves(Pcs)
      BY <1>2, ReadingMoves DEF SpdNext, Moves, Pcs
    <2>2. /\ Static' = Static /\ flashroms' \in Nat
          /\ fw' \in {"none", "unread", "firmware", "failed", "null"}
      BY <1>2 DEF SpdNext, ReadByStraps, Flashrom, FindByStraps, ReadByPart,
                  Fmap, FirstRegion, Region, FindByPart, SpdTypes, SpdTypeOK
    <2>3. failed' \in Seq(Failures)
      BY <1>2, FailedGrows
    <2>4. QED
      BY <2>1, <2>2, <2>3, MovesTypes DEF Failures
  <1>3. CASE UNCHANGED spdVars
    BY <1>3 DEF spdVars, SpdTypes, SpdTypeOK
  <1>4. QED
    BY <1>1, <1>2, <1>3
-----------------------------------------------------------------------------
(* Whether the buffer has the firmware, and how often flashrom has run for *)
(* it, on a board with straps: after the first run the flag is cleared,    *)
(* with or without the firmware.                                           *)
StrapsFw ==
  /\ spd_pc \in {"count", "read", "flashrom", "find", "ended", "crashed"}
  /\ fw \in {"none", "unread", "firmware"}
  /\ flashroms = IF fw = "none" \/ spd_pc = "flashrom" THEN 0 ELSE 1
  /\ spd_pc = "flashrom" => fw = "unread"
  /\ spd_pc = "find" => fw # "none"
  /\ fw = "unread" => spd_pc = "flashrom" \/ Failure({"flashrom"})
  /\ fw # "firmware" => printed = <<>>
  /\ spd_pc = "crashed" => fw = "unread"

(* On the others: the FMAP and at most two regions.                        *)
PartsFw ==
  /\ spd_pc # "flashrom"
  /\ fw \in {"none", "firmware", "failed", "null"}
  /\ spd_pc \in {"fmap", "region", Regions[1], Regions[2]} => fw = "none"
  /\ spd_pc = "find" => fw \in {"firmware", "null"}
  /\ flashroms <= 3
  /\ fw = "none" =>
       flashroms = IF spd_pc \in {"region", Regions[1]} THEN 1
                   ELSE IF spd_pc = Regions[2] THEN 2 ELSE 0
  /\ fw = "null" => spdboard.fmap = {} /\ flashroms = 1
  /\ fw # "firmware" => printed = <<>>
  /\ spd_pc = "crashed" => fw = "null"

FwInv == IF ByPart THEN PartsFw ELSE StrapsFw

(* The next call, the next DIMM or pass, or the end.                       *)
LEMMA CallEnds ==
  ASSUME SpdTypes,
         CallFails \/ \E entry \in Nat : CallSucceeds(entry)
  PROVE  /\ spd_pc' \in {"count", "read", "ended"}
         /\ CallFails => printed' = printed
  BY AfterDimm DEF CallFails, CallSucceeds, SpdTypes

LEMMA FwStep == SpdTypes /\ FwInv /\ [SpdNext]_spdVars => FwInv'
  <1> SUFFICES ASSUME SpdTypes, FwInv, [SpdNext]_spdVars PROVE FwInv'
    OBVIOUS
  <1> USE DEF Regions
  <1>0. spdboard' = spdboard /\ ByPart' = ByPart
    BY DEF SpdNext, CountDimms, ReadByStraps, Flashrom, FindByStraps,
           ReadByPart, Fmap, FirstRegion, Region, FindByPart, Static,
           spdVars, ByPart
  <1>a. CASE UNCHANGED spdVars
    BY <1>0, <1>a DEF spdVars, FwInv, PartsFw, StrapsFw, Failure
  <1>b. SpdNext => \A kinds : Failure(kinds) => Failure(kinds)'
    BY FailedGrows
  <1>1. CASE CountDimms
    <2>1. /\ spd_pc = "count" /\ spd_pc' \in {"count", "read", "ended"}
          /\ UNCHANGED <<fw, printed, flashroms>>
      BY <1>1 DEF CountDimms, NextPass
    <2>2. Failure({"flashrom"}) => Failure({"flashrom"})'
      BY <1>1, <1>b DEF SpdNext
    <2>3. QED
      BY <1>0, <2>1, <2>2 DEF FwInv, PartsFw, StrapsFw
  <1>2. CASE ReadByStraps
    <2>1. /\ spd_pc = "read" /\ ~ByPart /\ flashroms' = flashroms
          /\ \/ CallFails /\ fw' = fw
             \/ fw = "none" /\ fw' = "unread" /\ SkipTo("flashrom")
             \/ fw # "none" /\ fw' = fw /\ SkipTo("find")
      BY <1>2 DEF ReadByStraps
    <2>2. Failure({"flashrom"}) => Failure({"flashrom"})'
      BY <1>2, <1>b DEF SpdNext
    <2>3. QED
      BY <1>0, <2>1, <2>2, CallEnds DEF FwInv, StrapsFw, SkipTo
  <1>3. CASE Flashrom
    <2>1. /\ spd_pc = "flashrom" /\ flashroms' = flashroms + 1
          /\ \/ fw' = "firmware" /\ SkipTo("find")
             \/ /\ fw' = fw /\ CallFails
                /\ \E fails \in Reads({"flashrom"}) :
                     Note(fails) /\ fails # Nothing
      BY <1>3 DEF Flashrom
    <2>2. fw' = fw => Failure({"flashrom"})' \/ fw' = "firmware"
      BY <2>1, NoteEffect DEF Reads, SpdTypes
    <2>3. ~ByPart /\ flashroms = 0 /\ fw = "unread"
      BY <2>1 DEF FwInv, PartsFw, StrapsFw
    <2>4. QED
      BY <1>0, <2>1, <2>2, <2>3, CallEnds DEF FwInv, StrapsFw, SkipTo
  <1>4. CASE FindByStraps
    <2>1. /\ spd_pc = "find" /\ ~ByPart
          /\ UNCHANGED <<fw, flashroms>>
          /\ \/ fw = "firmware"
                  /\ (CallFails \/ \E entry \in Nat : CallSucceeds(entry))
             \/ fw = "unread" /\ (CallFails \/ SkipTo("crashed"))
      BY <1>4, SpdFacts DEF FindByStraps, SpdTypes
    <2>2. Failure({"flashrom"}) => Failure({"flashrom"})'
      BY <1>4, <1>b DEF SpdNext
    <2>3. QED
      BY <1>0, <2>1, <2>2, CallEnds DEF FwInv, StrapsFw, SkipTo
  <1>5. CASE ReadByPart
    <2>1. /\ spd_pc = "read" /\ ByPart /\ UNCHANGED <<fw, flashroms>>
          /\ \/ CallFails
             \/ fw = "none" /\ SkipTo("fmap")
             \/ fw \notin {"none", "failed"} /\ SkipTo("find")
      BY <1>5 DEF ReadByPart
    <2>2. QED
      BY <1>0, <2>1, CallEnds DEF FwInv, PartsFw, SkipTo
  <1>6. CASE Fmap
    <2>1. /\ spd_pc = "fmap" /\ flashroms' = flashroms + 1
          /\ \/ spdboard.fmap = {} /\ fw' = "null" /\ SkipTo("find")
             \/ /\ SkipTo("region") \/ SkipTo(Regions[1])
                /\ fw' = fw
      BY <1>6 DEF Fmap
    <2>2. ByPart
      BY <2>1 DEF FwInv, StrapsFw
    <2>3. QED
      BY <1>0, <2>1, <2>2 DEF FwInv, PartsFw, SkipTo
  <1>7. CASE FirstRegion
    <2>1. /\ spd_pc = Regions[1] /\ flashroms' = flashroms + 1
          /\ \/ fw' = "firmware" /\ SkipTo("find")
             \/ fw' = fw /\ SkipTo(Regions[2])
      BY <1>7 DEF FirstRegion
    <2>2. ByPart
      BY <2>1 DEF FwInv, StrapsFw
    <2>3. QED
      BY <1>0, <2>1, <2>2 DEF FwInv, PartsFw, SkipTo
  <1>8. CASE Region
    <2>1. /\ spd_pc \in {"region", Regions[2]}
          /\ flashroms' = flashroms + 1
          /\ \/ fw' = "firmware" /\ SkipTo("find")
             \/ fw' = "failed" /\ CallFails
      BY <1>8 DEF Region
    <2>2. ByPart
      BY <2>1 DEF FwInv, StrapsFw
    <2>3. QED
      BY <1>0, <2>1, <2>2, CallEnds DEF FwInv, PartsFw, SkipTo
  <1>9. CASE FindByPart
    <2>1. /\ spd_pc = "find" /\ ByPart /\ UNCHANGED <<fw, flashroms>>
          /\ \/ fw = "firmware" /\ Moves({"crashed"}) /\ ~SkipTo("crashed")
             \/ fw = "null" /\ SkipTo("crashed")
      <3> DEFINE entry == EntryOf(spdboard.parts[dimm + 1])
      <3>1. entry \in Int
        BY EntryIsNat DEF SpdTypes
      <3>2. /\ spd_pc = "find" /\ ByPart /\ UNCHANGED <<fw, flashroms>>
            /\ \/ fw = "firmware"
                    /\ (CallFails \/ (entry >= 0 /\ CallSucceeds(entry)))
               \/ fw = "null" /\ SkipTo("crashed")
        BY <1>9 DEF FindByPart
      <3> HIDE DEF entry
      <3>3. CallFails \/ (entry >= 0 /\ CallSucceeds(entry)) =>
              Moves({"crashed"}) /\ ~SkipTo("crashed")
        BY <3>1, CallEnds DEF Moves, SkipTo
      <3>4. QED
        BY <3>2, <3>3
    <2>2. \/ fw = "firmware"
               /\ (CallFails \/ \E entry \in Nat : CallSucceeds(entry))
          \/ fw = "null" /\ SkipTo("crashed")
      BY <2>1 DEF Moves
    <2>3. QED
      BY <1>0, <2>1, <2>2, CallEnds DEF FwInv, PartsFw, SkipTo
  <1>10. QED
    BY <1>a, <1>1, <1>2, <1>3, <1>4, <1>5, <1>6, <1>7, <1>8, <1>9
       DEF SpdNext
-----------------------------------------------------------------------------
CountWrong == Failure({"straps_counted"})

(* The DIMMs that a read callback lets through.                            *)
RangeInv ==
  /\ spd_pc = "count" => dimm = FirstDimm
  /\ ByPart =>
       (spd_pc \in {"fmap", "region", "find", Regions[1], Regions[2]} =>
          dimm < Fitted)
  /\ ~ByPart =>
       /\ last_dimm <= Fitted \/ CountWrong
       /\ asked.what = "print" /\ spd_pc \in {"read", "flashrom", "find"} =>
            dimm < Fitted \/ CountWrong
       /\ spd_pc \in {"flashrom", "find"} => dimm <= Fitted \/ CountWrong

(* After a DIMM the range is kept, whatever callback ended it.             *)
LEMMA RangeAfter ==
  ASSUME SpdTypes, RangeInv, spd_pc \in Busy,
         spdboard' = spdboard, asked' = asked, last_dimm' = last_dimm,
         CountWrong => CountWrong',
         CallFails \/ \E entry \in Nat : CallSucceeds(entry),
         ByPart \/ spd_pc \in {"read", "flashrom", "find"}
  PROVE  RangeInv'
  <1>1. ByPart' = ByPart /\ Fitted' = Fitted /\ FirstDimm' = FirstDimm
    BY DEF ByPart, Fitted, dimm_count, FirstDimm
  <1>2. \/ spd_pc' = "read" /\ dimm' = dimm + 1 /\ dimm' < last_dimm
        \/ spd_pc' \in {"count", "ended"} /\ dimm' = FirstDimm
        \/ spd_pc' = "read" /\ dimm' = dimm
    BY AfterDimm DEF CallFails, CallSucceeds, SpdTypes
  <1>3. dimm \in Nat /\ last_dimm \in Int /\ Fitted \in Nat
    BY SpdFacts DEF SpdTypes, SpdTypeOK
  <1>4. QED
    BY <1>1, <1>2, <1>3 DEF RangeInv, Regions

LEMMA RangeStep ==
  SpdTypes /\ FwInv /\ RangeInv /\ [SpdNext]_spdVars => RangeInv'
  <1> SUFFICES ASSUME SpdTypes, FwInv, RangeInv, [SpdNext]_spdVars
               PROVE  RangeInv'
    OBVIOUS
  <1>0. /\ spdboard' = spdboard /\ asked' = asked
        /\ ByPart' = ByPart /\ Fitted' = Fitted /\ FirstDimm' = FirstDimm
    BY DEF SpdNext, CountDimms, ReadByStraps, Flashrom, FindByStraps,
           ReadByPart, Fmap, FirstRegion, Region, FindByPart, Static,
           spdVars, ByPart, Fitted, dimm_count, FirstDimm
  <1>a. CASE UNCHANGED spdVars
    BY <1>0, <1>a DEF spdVars, RangeInv, CountWrong, Failure
  <1>b. SpdNext => (CountWrong => CountWrong')
    BY FailedGrows DEF CountWrong
  <1>1. CASE CountDimms
    <2>1. PICK fails \in Reads(CountReads) :
            last_dimm' = Counts(fails) /\ Note(fails)
      BY <1>1 DEF CountDimms
    <2>2. fails = "straps_counted" => CountWrong'
      BY <2>1, NoteEffect
         DEF CountWrong, CountReads, Nothing, SpdTypes
    <2>3. last_dimm' <= Fitted \/ CountWrong'
      BY <2>1, <2>2, SpdFacts DEF SpdTypes
    <2>4. \/ spd_pc' = "ended"
          \/ spd_pc' = "count" /\ dimm' = FirstDimm
          \/ /\ spd_pc' = "read" /\ dimm' = dimm
             /\ asked.arg # NoArg => ~(asked.arg > last_dimm' - 1)
      BY <1>1 DEF CountDimms, NextPass, FirstDimm
    <2>5. /\ asked.arg \in Nat \cup {NoArg} /\ Fitted \in Nat
          /\ last_dimm' \in Int /\ (~ByPart => Fitted > 0)
      BY <2>1, SpdFacts DEF SpdTypes
    <2>6. dimm = FirstDimm
      BY <1>1 DEF CountDimms, RangeInv
    <2>7. ~ByPart /\ spd_pc' = "read" => dimm' < Fitted \/ CountWrong'
      BY <2>3, <2>4, <2>5, <2>6 DEF FirstDimm
    <2>8. QED
      BY <1>0, <2>3, <2>4, <2>7 DEF RangeInv, Regions
  <1>2. CASE ReadByStraps
    <2>1. PICK fails \in Reads(CountReads) :
            /\ Note(fails)
            /\ \/ CallFails
               \/ /\ Counts(fails) >= 0 /\ ~(dimm > Counts(fails))
                  /\ SkipTo("flashrom") \/ SkipTo("find")
      BY <1>2, SpdFacts DEF ReadByStraps, SpdTypes
    <2>2. CASE CallFails
      BY <1>0, <1>2, <1>b, <2>2, RangeAfter
         DEF SpdNext, ReadByStraps, Static, Busy
    <2>3. CASE ~CallFails
      <3>1. fails = "straps_counted" => CountWrong'
        BY <2>1, NoteEffect
           DEF CountWrong, CountReads, Nothing, SpdTypes
      <3>2. dimm <= Fitted \/ CountWrong'
        BY <2>1, <2>3, <3>1, SpdFacts DEF SpdTypes, SpdTypeOK
      <3>3. /\ spd_pc = "read" /\ ~ByPart /\ last_dimm' = last_dimm
            /\ dimm' = dimm /\ spd_pc' \in {"flashrom", "find"}
        BY <1>2, <2>1, <2>3 DEF ReadByStraps, SkipTo, Static
      <3>4. CountWrong => CountWrong'
        BY <1>2, <1>b DEF SpdNext
      <3>5. QED
        BY <1>0, <3>2, <3>3, <3>4 DEF RangeInv
    <2>4. QED
      BY <2>2, <2>3
  <1>3. CASE Flashrom \/ FindByStraps
    <2>1. /\ spd_pc \in {"flashrom", "find"} /\ last_dimm' = last_dimm
          /\ \/ CallFails \/ \E entry \in Nat : CallSucceeds(entry)
             \/ dimm' = dimm /\ spd_pc' \in {"find", "crashed"}
      BY <1>3, SpdFacts DEF Flashrom, FindByStraps, SkipTo, Static, SpdTypes
    <2>2. ~ByPart
      BY <1>3 DEF Flashrom, FindByStraps, FwInv, PartsFw
    <2>3. CountWrong => CountWrong'
      BY <1>3, <1>b DEF SpdNext
    <2>4. CASE CallFails \/ \E entry \in Nat : CallSucceeds(entry)
      BY <1>0, <2>1, <2>3, <2>4, RangeAfter DEF Busy
    <2>5. CASE dimm' = dimm /\ spd_pc' \in {"find", "crashed"}
      BY <1>0, <2>1, <2>2, <2>3, <2>5 DEF RangeInv
    <2>6. QED
      BY <2>1, <2>4, <2>5
  <1>4. CASE ReadByPart \/ Fmap \/ FirstRegion \/ Region \/ FindByPart
    <2>1. ByPart
      BY <1>4 DEF ReadByPart, Fmap, FirstRegion, Region, FindByPart,
                  FwInv, StrapsFw, Regions
    <2>2. spd_pc \in Busy /\ Moves(Pcs \ {"count"})
      BY <1>4, ReadingMoves DEF Moves, Pcs, Regions
    <2>3. last_dimm' = last_dimm
      BY <1>4 DEF ReadByPart, Fmap, FirstRegion, Region, FindByPart, Static
    <2>4. CountWrong => CountWrong'
      BY <1>4, <1>b DEF SpdNext
    <2>5. CASE CallFails \/ \E entry \in Nat : CallSucceeds(entry)
      BY <1>0, <2>1, <2>2, <2>3, <2>4, <2>5, RangeAfter
    <2>6. CASE ~CallFails /\ \E next \in Pcs \ {"count"} : SkipTo(next)
      <3>1. dimm < Fitted
        <4>1. CASE ReadByPart
          BY <2>6, <4>1, SpdFacts DEF ReadByPart, SpdTypes, SpdTypeOK
        <4>2. CASE ~ReadByPart
          BY <1>4, <2>1, <4>2
             DEF Fmap, FirstRegion, Region, FindByPart, RangeInv
        <4>3. QED
          BY <4>1, <4>2
      <3>2. dimm' = dimm /\ spd_pc' # "count"
        BY <2>6 DEF SkipTo
      <3>3. QED
        BY <1>0, <2>1, <3>1, <3>2 DEF RangeInv
    <2>7. QED
      BY <2>2, <2>5, <2>6 DEF Moves
  <1>5. QED
    BY <1>a, <1>1, <1>2, <1>3, <1>4 DEF SpdNext
-----------------------------------------------------------------------------
(* What is printed of a DIMM, at the place where it is.                    *)
Right(print) ==
  /\ FitsDimm(print[2], print[3])
  /\ \/ print[2] < Fitted
     \/ CountWrong
     \/ ~ByPart /\ asked.what = "dump" /\ print[2] = Fitted

LEMMA PrintStep ==
  ASSUME SpdTypes, FwInv, RangeInv, SpdTrue, [SpdNext]_spdVars
  PROVE  SpdTrue'
  <1>0. /\ ByPart' = ByPart /\ Fitted' = Fitted /\ asked' = asked
        /\ spdboard' = spdboard
    BY DEF SpdNext, CountDimms, ReadByStraps, Flashrom, FindByStraps,
           ReadByPart, Fmap, FirstRegion, Region, FindByPart, Static,
           spdVars, ByPart, Fitted, dimm_count
  <1> DEFINE Still(print) ==
               /\ FitsDimm(print[2], print[3])
               /\ \/ print[2] < Fitted
                  \/ CountWrong'
                  \/ ~ByPart /\ asked.what = "dump" /\ print[2] = Fitted
  <1>1. CountWrong => CountWrong'
    BY FailedGrows DEF CountWrong, spdVars, Failure
  <1>2. \A print : Right(print) => Still(print)
    BY <1>0, <1>1 DEF Right
  <1>3. SpdTrue <=> \A k \in DOMAIN printed : Right(printed[k])
    BY DEF SpdTrue, Right, CountWrong
  <1>4. SpdTrue' <=> \A k \in DOMAIN printed' : Still(printed'[k])
    BY <1>0 DEF SpdTrue, CountWrong, FitsDimm
  <1> HIDE DEF Still
  <1>5. CASE printed' = printed
    BY <1>2, <1>3, <1>4, <1>5
  <1>6. ASSUME NEW entry \in Nat, CallSucceeds(entry), printed' # printed,
               Right(<<pass, dimm, entry>>)
        PROVE  SpdTrue'
    <2>1. printed' = Append(printed, <<pass, dimm, entry>>)
      BY <1>6 DEF CallSucceeds
    <2>2. printed \in Seq((1 .. LastPass) \X Nat \X Nat)
      BY DEF SpdTypes, SpdTypeOK
    <2>3. \A k \in DOMAIN printed' :
            \/ k \in DOMAIN printed /\ printed'[k] = printed[k]
            \/ printed'[k] = <<pass, dimm, entry>>
      BY <2>1, <2>2
    <2>4. QED
      BY <1>2, <1>3, <1>4, <1>6, <2>3
  <1>7. CASE FindByStraps
    <2>1. /\ spd_pc = "find" /\ ~ByPart
          /\ printed' = printed \/ CallSucceeds(spdboard.strap)
      BY <1>7 DEF FindByStraps, SkipTo, CallFails
    <2>2. dimm \in Nat /\ Fitted \in Nat /\ spdboard.strap \in Nat
          /\ asked.what \in {"print", "dump"}
      BY SpdFacts DEF SpdTypes, SpdTypeOK
    <2>3. Right(<<pass, dimm, spdboard.strap>>)
      BY <2>1, <2>2 DEF Right, FitsDimm, RangeInv
    <2>4. QED
      BY <1>5, <1>6, <2>1, <2>2, <2>3
  <1>8. CASE FindByPart
    <2> DEFINE entry == EntryOf(spdboard.parts[dimm + 1])
    <2>1. /\ spd_pc = "find" /\ ByPart
          /\ printed' = printed \/ (entry >= 0 /\ CallSucceeds(entry))
      BY <1>8 DEF FindByPart, SkipTo, CallFails
    <2>2. /\ entry \in Int
          /\ entry >= 0 =>
               spdboard.blob[entry + 1] = spdboard.parts[dimm + 1]
      BY EntryIsNat DEF SpdTypes
    <2> HIDE DEF entry
    <2>3. dimm < Fitted
      BY <2>1 DEF RangeInv
    <2>4. entry >= 0 => Right(<<pass, dimm, entry>>)
      BY <2>1, <2>2, <2>3 DEF Right, FitsDimm
    <2>5. QED
      BY <1>5, <1>6, <2>1, <2>2, <2>4
  <1>9. CASE SpdNext /\ ~FindByStraps /\ ~FindByPart
    <2>1. printed' = printed
      BY <1>9 DEF SpdNext, CountDimms, ReadByStraps, Flashrom, ReadByPart,
                  Fmap, FirstRegion, Region, SkipTo, CallFails
    <2>2. QED
      BY <1>5, <2>1
  <1>10. CASE UNCHANGED spdVars
    BY <1>5, <1>10 DEF spdVars
  <1>11. QED
    BY <1>7, <1>8, <1>9, <1>10

SpdInv == SpdTypes /\ FwInv /\ RangeInv /\ SpdTrue

LEMMA SpdInvariant == SpdSpec => []SpdInv
  <1>1. SpdInit => SpdInv
    <2> SUFFICES ASSUME SpdInit PROVE SpdInv
      OBVIOUS
    <2>1. /\ printed \in Seq((1 .. LastPass) \X Nat \X Nat)
          /\ failed \in Seq(Failures)
      BY DEF SpdInit
    <2>2. /\ asked.arg \in Nat \cup {NoArg}
          /\ asked.pass \in 0 .. LastPass
          /\ asked.what = "dump" => asked.pass = LastPass
      BY SpdAssumption DEF SpdInit, LastPass, NoArg
    <2>3. /\ spd_pc \in {"read", "count"} /\ pass \in 0 .. LastPass
          /\ dimm \in Nat /\ last_dimm = 0 /\ half = "header"
          /\ fw = "none" /\ flashroms = 0
          /\ spdboard \in SpdBoards /\ asked \in Requests
          /\ spd_pc = "read" => pass >= 1 /\ asked.what = "dump"
      BY <2>2 DEF SpdInit, LastPass, NoArg
    <2>4. SpdTypes
      BY <2>1, <2>3 DEF SpdTypes, SpdTypeOK, Busy, Regions, Failures, LastPass
    <2>5. FwInv
      BY <2>3 DEF SpdInit, FwInv, PartsFw, StrapsFw, Regions
    <2>6. RangeInv
      <3>1. spd_pc = "count" => dimm = FirstDimm
        BY DEF SpdInit, FirstDimm
      <3>2. 0 <= Fitted
        BY <2>4, SpdFacts DEF SpdTypes
      <3>3. QED
        BY <2>3, <3>1, <3>2 DEF RangeInv, Regions
    <2>7. SpdTrue
      BY DEF SpdInit, SpdTrue
    <2>8. QED
      BY <2>4, <2>5, <2>6, <2>7 DEF SpdInv
  <1>2. SpdInv /\ [SpdNext]_spdVars => SpdInv'
    BY SpdTypesStep, FwStep, RangeStep, PrintStep DEF SpdInv
  <1>3. QED
    BY <1>1, <1>2, PTL DEF SpdSpec

(* The variables of the memory commands keep their types.                  *)
THEOREM SpdTypeCorrect == SpdSpec => []SpdTypeOK
  BY SpdInvariant, PTL DEF SpdInv, SpdTypes

(* What is printed of a DIMM is its own entry of the firmware's blob, and  *)
(* DIMMs that are not there are printed in two cases only.                 *)
THEOREM PrintsTrue == SpdSpec => []SpdTrue
  BY SpdInvariant, PTL DEF SpdInv

(* A crash has one of two reasons, and comes before anything is printed.   *)
THEOREM CrashesExplained == SpdSpec => []CrashExplained
  <1>1. SpdInv => CrashExplained
    BY DEF SpdInv, FwInv, PartsFw, StrapsFw, CrashExplained
  <1>2. QED
    BY <1>1, SpdInvariant, PTL

(* Flashrom runs once, or for the FMAP and two regions.                    *)
THEOREM FlashromLimited == SpdSpec => []FlashromOnce
  <1>1. SpdInv => FlashromOnce
    BY DEF SpdInv, FwInv, PartsFw, StrapsFw, FlashromOnce
  <1>2. QED
    BY <1>1, SpdInvariant, PTL

(* What the memory commands print, and what stops them, for any board.     *)
THEOREM SpdRightlyPrinted == SpdSpec => []SpdPrinted
  <1>1. SpdTrue /\ CrashExplained /\ FlashromOnce => SpdPrinted
    BY DEF SpdPrinted
  <1>2. QED
    BY <1>1, PrintsTrue, CrashesExplained, FlashromLimited, PTL

-----------------------------------------------------------------------------
(* A DIMM the firmware knows.                                              *)
Known(d) ==
  d \in 0 .. Fitted - 1 /\ (~ByPart \/ EntryOf(spdboard.parts[d + 1]) >= 0)

(* A print of all, without a failing read so far.                          *)
PrintsAll == failed = <<>> /\ asked.arg = NoArg

(* What is behind the process, and what it has printed.                    *)
Done(ps, d) == ps < pass \/ (ps = pass /\ (d < dimm \/ spd_pc = "ended"))
IsPrinted(ps, d) ==
  \E k \in DOMAIN printed : printed[k][1] = ps /\ printed[k][2] = d
InTurn ==
  \A j, k \in DOMAIN printed : j < k =>
    \/ printed[j][1] < printed[k][1]
    \/ printed[j][1] = printed[k][1] /\ printed[j][2] < printed[k][2]

AsPrinted ==
  \A ps \in 1 .. LastPass, d \in Nat :
    IsPrinted(ps, d) <=> asked.pass <= ps /\ Known(d) /\ Done(ps, d)

(* Then nothing is left out, and nothing comes twice.                      *)
Progress ==
  /\ spd_pc \in Busy => last_dimm = Fitted
  /\ asked.pass >= 1 /\ asked.pass <= pass
  /\ dimm = 0 \/ dimm < Fitted
  /\ spd_pc = "ended" => pass = LastPass
  /\ fw # "failed"
  /\ AsPrinted
  /\ InTurn
ProgressInv == PrintsAll => Progress

(* A step of such a print counts the DIMMs, goes on with the DIMM, leaves  *)
(* it out or prints it.                                                    *)
Counted ==
  /\ spd_pc = "count" /\ spd_pc' = "read" /\ dimm = 0
  /\ last_dimm' = Fitted /\ UNCHANGED <<pass, dimm, printed>>
GoesOn ==
  /\ spd_pc \in Busy /\ spd_pc' \in Busy \cup {"crashed"}
  /\ UNCHANGED <<pass, dimm, last_dimm, printed>>
LeavesOut ==
  /\ spd_pc \in Busy /\ NextDimm /\ ~Known(dimm)
  /\ UNCHANGED <<last_dimm, printed>>
Prints(entry) ==
  /\ spd_pc \in Busy /\ NextDimm /\ Known(dimm)
  /\ printed' = Append(printed, <<pass, dimm, entry>>)
  /\ UNCHANGED last_dimm

(* No read has failed before, and none does now.                           *)
LEMMA NoneFailed ==
  ASSUME SpdTypes, SpdNext, failed' = <<>>
  PROVE  failed = <<>>
  <1> SUFFICES ASSUME failed # <<>> PROVE FALSE
    OBVIOUS
  <1>1. failed \in Seq(Failures)
    BY DEF SpdTypes, SpdTypeOK, Failures
  <1>2. 1 \in DOMAIN failed /\ failed[1] \in Failures
    BY <1>1
  <1>3. Failure(Failures)
    BY <1>2 DEF Failure
  <1>4. Failure(Failures)'
    BY <1>3, FailedGrows
  <1>5. QED
    BY <1>4 DEF Failure

LEMMA NoneFails ==
  ASSUME SpdTypes, NEW fails, Note(fails), failed' = <<>>
  PROVE  fails = Nothing
  <1> SUFFICES ASSUME fails # Nothing PROVE FALSE
    OBVIOUS
  <1>1. failed' = Append(failed, fails)
    BY DEF Note
  <1>2. failed \in Seq(Failures \cup {fails})
    BY DEF SpdTypes, SpdTypeOK, Failures
  <1>3. Len(failed') = Len(failed) + 1 /\ Len(failed) \in Nat
    BY <1>1, <1>2
  <1>4. QED
    BY <1>3

LEMMA SuccessOf ==
  ASSUME SpdTypes, spd_pc \in Busy, Known(dimm), last_dimm' = last_dimm,
         NEW entry, CallSucceeds(entry)
  PROVE  GoesOn \/ Prints(entry)
  <1>1. CASE half = "header"
    BY <1>1 DEF CallSucceeds, GoesOn, Busy
  <1>2. CASE half # "header"
    BY <1>2 DEF CallSucceeds, Prints
  <1>3. QED
    BY <1>1, <1>2

LEMMA ProgressCases ==
  ASSUME SpdInv, Progress, asked.arg = NoArg, failed = <<>>,
         failed' = <<>>, SpdNext
  PROVE  /\ fw' # "failed"
         /\ \/ Counted \/ GoesOn \/ LeavesOut
            \/ \E entry \in Nat : Prints(entry)
  <1>0. /\ SpdTypes /\ SpdTypeOK /\ Fitted \in Nat /\ dimm \in Nat
        /\ spdboard.strap \in Nat
        /\ \A kinds : ~Failure(kinds)
    <2>1. SpdTypes /\ SpdTypeOK
      BY DEF SpdInv, SpdTypes
    <2>2. QED
      BY <2>1, SpdFacts DEF SpdTypeOK, Failure
  <1>1. CASE CountDimms
    <2>1. PICK fails \in Reads(CountReads) :
            last_dimm' = Counts(fails) /\ Note(fails)
      BY <1>1 DEF CountDimms
    <2>2. fails = Nothing
      BY <1>0, <2>1, NoneFails
    <2>3. last_dimm' = Fitted
      BY <1>0, <2>1, <2>2, SpdFacts DEF Nothing
    <2>4. dimm = 0
      BY <1>1 DEF CountDimms, SpdInv, RangeInv, FirstDimm
    <2>5. /\ spd_pc = "count" /\ spd_pc' = "read"
          /\ UNCHANGED <<pass, dimm, printed, fw>>
      <3>1. pass # 0
        BY <1>0, SpdFacts DEF Progress, SpdTypeOK, LastPass
      <3>2. QED
        BY <1>1, <3>1 DEF CountDimms
    <2>6. QED
      BY <2>3, <2>4, <2>5 DEF Counted, Progress
  <1>2. CASE ReadByStraps
    <2>1. PICK fails \in Reads(CountReads) :
            /\ Note(fails)
            /\ IF Counts(fails) < 0 \/ dimm > Counts(fails)
               THEN CallFails /\ UNCHANGED fw
               ELSE /\ SkipTo(IF fw = "none" THEN "flashrom" ELSE "find")
                    /\ fw' = IF fw = "none" THEN "unread" ELSE fw
      BY <1>2 DEF ReadByStraps
    <2>2. Counts(fails) = Fitted
      <3>1. fails = Nothing
        BY <1>0, <2>1, NoneFails
      <3>2. QED
        BY <1>0, <3>1, SpdFacts DEF Nothing
    <2>3. spd_pc = "read" /\ last_dimm' = last_dimm
      BY <1>2 DEF ReadByStraps, Static
    <2>4. CASE dimm > Fitted
      <3>1. ~Known(dimm)
        BY <1>0, <2>4 DEF Known
      <3>2. QED
        BY <2>1, <2>2, <2>3, <2>4, <3>1
           DEF CallFails, LeavesOut, Busy, Progress
    <2>5. CASE ~(dimm > Fitted)
      BY <1>0, <2>1, <2>2, <2>3, <2>5 DEF SkipTo, GoesOn, Busy, Progress
    <2>6. QED
      BY <2>4, <2>5
  <1>3. CASE Flashrom
    <2>1. PICK fails \in Reads({"flashrom"}) :
            /\ Note(fails)
            /\ fails = Nothing => fw' = "firmware" /\ SkipTo("find")
      BY <1>3 DEF Flashrom
    <2>2. fails = Nothing
      BY <1>0, <2>1, NoneFails
    <2>3. spd_pc = "flashrom" /\ last_dimm' = last_dimm
      BY <1>3 DEF Flashrom, Static
    <2>4. QED
      BY <2>1, <2>2, <2>3 DEF SkipTo, GoesOn, Busy
  <1>4. CASE FindByStraps
    <2>1. /\ spd_pc = "find" /\ ~ByPart /\ last_dimm' = last_dimm
          /\ fw' = fw
      BY <1>4 DEF FindByStraps, Static
    <2>2. fw # "unread"
      BY <1>0, <2>1 DEF SpdInv, FwInv, StrapsFw
    <2>3. CallSucceeds(spdboard.strap)
      <3>1. PICK fails \in Reads({"straps"}) :
              /\ Note(fails)
              /\ fails = Nothing => CallSucceeds(spdboard.strap)
        BY <1>4, <2>2 DEF FindByStraps
      <3>2. fails = Nothing
        BY <1>0, <3>1, NoneFails
      <3>3. QED
        BY <3>1, <3>2
    <2>4. asked.what = "print"
      BY <1>0, SpdAssumption DEF SpdTypeOK
    <2>5. Known(dimm)
      BY <1>0, <2>1, <2>4 DEF SpdInv, RangeInv, CountWrong, Known
    <2>6. GoesOn \/ Prints(spdboard.strap)
      BY <1>0, <2>1, <2>3, <2>5, SuccessOf DEF Busy
    <2>7. QED
      BY <1>0, <2>1, <2>6 DEF Progress
  <1>5. CASE ReadByPart
    <2>1. /\ spd_pc = "read" /\ ByPart /\ last_dimm' = last_dimm
          /\ fw' = fw /\ fw # "failed"
          /\ IF dimm >= Len(spdboard.parts) \/ fw = "failed"
             THEN CallFails
             ELSE SkipTo(IF fw = "none" THEN "fmap" ELSE "find")
      BY <1>5 DEF ReadByPart, Static, Progress
    <2>2. Fitted = Len(spdboard.parts)
      BY <1>0, <2>1, SpdFacts
    <2>3. CASE dimm >= Fitted
      <3>1. ~Known(dimm)
        BY <1>0, <2>3 DEF Known
      <3>2. QED
        BY <2>1, <2>2, <2>3, <3>1 DEF CallFails, LeavesOut, Busy
    <2>4. CASE ~(dimm >= Fitted)
      BY <2>1, <2>2, <2>4 DEF SkipTo, GoesOn, Busy
    <2>5. QED
      BY <2>3, <2>4
  <1>6. CASE Fmap
    <2>1. /\ spd_pc = "fmap" /\ last_dimm' = last_dimm
          /\ \/ fw' = "null" /\ SkipTo("find")
             \/ (SkipTo("region") \/ SkipTo(Regions[1])) /\ fw' = fw
      BY <1>6 DEF Fmap, Static
    <2>2. QED
      BY <2>1 DEF SkipTo, GoesOn, Busy, Progress
  <1>7. CASE FirstRegion
    <2>1. /\ spd_pc = Regions[1] /\ last_dimm' = last_dimm
          /\ \/ fw' = "firmware" /\ SkipTo("find")
             \/ fw' = fw /\ SkipTo(Regions[2])
      BY <1>7 DEF FirstRegion, Static
    <2>2. QED
      BY <2>1 DEF SkipTo, GoesOn, Busy, Progress
  <1>8. CASE Region
    <2>1. PICK fails \in Reads({"region"}) :
            /\ Note(fails)
            /\ fails = Nothing => fw' = "firmware" /\ SkipTo("find")
      BY <1>8 DEF Region
    <2>2. fails = Nothing
      BY <1>0, <2>1, NoneFails
    <2>3. spd_pc \in {"region", Regions[2]} /\ last_dimm' = last_dimm
      BY <1>8 DEF Region, Static
    <2>4. QED
      BY <2>1, <2>2, <2>3 DEF SkipTo, GoesOn, Busy
  <1>9. CASE FindByPart
    <2> DEFINE entry == EntryOf(spdboard.parts[dimm + 1])
    <2>1. /\ spd_pc = "find" /\ ByPart /\ last_dimm' = last_dimm
          /\ fw' = fw
      BY <1>9 DEF FindByPart, Static
    <2>2. \/ entry >= 0 /\ CallSucceeds(entry)
          \/ ~(entry >= 0) /\ CallFails
          \/ SkipTo("crashed")
      <3>1. \/ \E fails \in Reads({"smbios"}) :
                 /\ Note(fails)
                 /\ IF fails = Nothing /\ entry >= 0
                    THEN CallSucceeds(entry) ELSE CallFails
            \/ SkipTo("crashed")
        BY <1>9 DEF FindByPart
      <3> HIDE DEF entry
      <3>2. \A fails : Note(fails) => fails = Nothing
        BY <1>0, NoneFails
      <3>3. QED
        BY <3>1, <3>2
    <2>3. Known(dimm) <=> entry >= 0
      BY <1>0, <2>1 DEF SpdInv, RangeInv, Known
    <2>4. entry \in Int
      BY <1>0, EntryIsNat
    <2> HIDE DEF entry
    <2>5. CASE entry >= 0 /\ CallSucceeds(entry)
      <3>1. GoesOn \/ Prints(entry)
        BY <1>0, <2>1, <2>3, <2>5, SuccessOf DEF Busy
      <3>2. entry \in Nat
        BY <2>4, <2>5
      <3>3. QED
        BY <2>1, <3>1, <3>2 DEF Progress
    <2>6. CASE ~(entry >= 0) /\ CallFails
      BY <2>1, <2>3, <2>6 DEF CallFails, LeavesOut, Busy, Progress
    <2>7. CASE SkipTo("crashed")
      BY <2>1, <2>7 DEF SkipTo, GoesOn, Busy, Progress
    <2>8. QED
      BY <2>2, <2>5, <2>6, <2>7
  <1>10. QED
    BY <1>1, <1>2, <1>3, <1>4, <1>5, <1>6, <1>7, <1>8, <1>9 DEF SpdNext

(* After a DIMM, it is the one that is behind the process as well.         *)
LEMMA DoneAfter ==
  ASSUME SpdInv, Progress, asked.arg = NoArg, spd_pc \in Busy, NextDimm
  PROVE  /\ \A ps \in Nat, d \in Nat : d < Fitted =>
              (Done(ps, d)' <=> Done(ps, d) \/ (ps = pass /\ d = dimm))
         /\ spd_pc' = "ended" => pass' = LastPass
         /\ pass <= pass'
         /\ dimm' = 0 \/ dimm' < Fitted
  <1>1. /\ SpdTypeOK /\ Fitted \in Nat /\ dimm \in Nat
        /\ pass \in 1 .. LastPass
        /\ last_dimm = Fitted /\ spd_pc # "ended"
    <2>1. SpdTypeOK /\ spd_pc # "ended" /\ last_dimm = Fitted /\ pass >= 1
      BY DEF SpdInv, SpdTypes, Progress, Busy, Regions
    <2>2. QED
      BY <2>1, SpdFacts DEF SpdTypeOK, LastPass
  <1>2. CASE dimm + 1 < Fitted
    <2>1. dimm' = dimm + 1 /\ spd_pc' = "read" /\ pass' = pass
      BY <1>1, <1>2 DEF NextDimm
    <2>2. QED
      BY <1>1, <1>2, <2>1 DEF Done
  <1>3. CASE ~(dimm + 1 < Fitted)
    <2>1. /\ dimm' = 0
          /\ \/ pass = LastPass /\ pass' = pass /\ spd_pc' = "ended"
             \/ pass # LastPass /\ pass' = pass + 1 /\ spd_pc' = "count"
      BY <1>1, <1>3 DEF NextDimm, NextPass
    <2>2. QED
      BY <1>1, <1>3, <2>1 DEF Done
  <1>4. QED
    BY <1>2, <1>3

(* What is printed next comes after all that has been printed.             *)
LEMMA AddedPrint ==
  ASSUME NEW entry \in Nat, SpdInv, Progress, spd_pc \in Busy,
         printed' = Append(printed, <<pass, dimm, entry>>)
  PROVE  /\ \A ps, d : IsPrinted(ps, d)' <=>
                         IsPrinted(ps, d) \/ (ps = pass /\ d = dimm)
         /\ InTurn'
  <1> DEFINE Place == Len(printed) + 1
  <1>1. /\ printed \in Seq((1 .. LastPass) \X Nat \X Nat)
        /\ Place \in Nat /\ Place \notin DOMAIN printed
        /\ DOMAIN printed' = DOMAIN printed \cup {Place}
        /\ \A k \in DOMAIN printed :
             k \in Nat /\ k < Place /\ printed'[k] = printed[k]
        /\ printed'[Place] = <<pass, dimm, entry>>
    <2>1. printed \in Seq((1 .. LastPass) \X Nat \X Nat)
      BY DEF SpdInv, SpdTypes, SpdTypeOK
    <2>2. Len(printed) \in Nat /\ DOMAIN printed = 1 .. Len(printed)
      BY <2>1
    <2>3. /\ DOMAIN printed' = 1 .. Len(printed) + 1
          /\ \A k \in DOMAIN printed : printed'[k] = printed[k]
          /\ printed'[Place] = <<pass, dimm, entry>>
      BY <2>1
    <2>4. QED
      BY <2>1, <2>2, <2>3
  <1>2. \A k \in DOMAIN printed :
          /\ printed[k][1] \in 1 .. LastPass /\ printed[k][2] \in Nat
          /\ \/ printed[k][1] < pass
             \/ printed[k][1] = pass /\ printed[k][2] < dimm
    <2> SUFFICES ASSUME NEW k \in DOMAIN printed
                 PROVE  /\ printed[k][1] \in 1 .. LastPass
                        /\ printed[k][2] \in Nat
                        /\ \/ printed[k][1] < pass
                           \/ printed[k][1] = pass /\ printed[k][2] < dimm
      OBVIOUS
    <2>1. printed[k] \in (1 .. LastPass) \X Nat \X Nat
      BY <1>1
    <2>2. printed[k][1] \in 1 .. LastPass /\ printed[k][2] \in Nat
      BY <2>1
    <2>3. IsPrinted(printed[k][1], printed[k][2])
      BY DEF IsPrinted
    <2>4. Done(printed[k][1], printed[k][2])
      BY <2>2, <2>3 DEF Progress, AsPrinted
    <2>5. spd_pc # "ended"
      BY DEF Busy, Regions
    <2>6. QED
      BY <2>2, <2>4, <2>5 DEF Done
  <1> HIDE DEF Place
  <1>3. ASSUME NEW ps, NEW d
        PROVE  IsPrinted(ps, d)' <=>
                 IsPrinted(ps, d) \/ (ps = pass /\ d = dimm)
    <2>1. IsPrinted(ps, d)' <=>
            \E k \in DOMAIN printed' :
              printed'[k][1] = ps /\ printed'[k][2] = d
      BY DEF IsPrinted
    <2>2. /\ printed'[Place][1] = pass /\ printed'[Place][2] = dimm
          /\ Place \in DOMAIN printed'
      BY <1>1
    <2>3. QED
      BY <1>1, <2>1, <2>2 DEF IsPrinted
  <1>4. InTurn'
    <2> SUFFICES ASSUME NEW j \in DOMAIN printed', NEW k \in DOMAIN printed',
                        j < k
                 PROVE  \/ printed'[j][1] < printed'[k][1]
                        \/ /\ printed'[j][1] = printed'[k][1]
                           /\ printed'[j][2] < printed'[k][2]
      BY DEF InTurn
    <2>1. CASE k = Place
      <3>1. j \in DOMAIN printed
        BY <1>1, <2>1
      <3>2. printed'[j] = printed[j] /\ printed'[k] = <<pass, dimm, entry>>
        BY <1>1, <2>1, <3>1
      <3>3. QED
        BY <1>2, <3>1, <3>2
    <2>2. CASE k # Place
      <3>1. k \in DOMAIN printed /\ j \in DOMAIN printed
        BY <1>1, <2>2
      <3>2. printed'[j] = printed[j] /\ printed'[k] = printed[k]
        BY <1>1, <3>1
      <3>3. QED
        BY <3>1, <3>2 DEF Progress, InTurn
    <2>3. QED
      BY <2>1, <2>2
  <1>5. QED
    BY <1>3, <1>4

(* The firmware knows the same DIMMs as before.                            *)
LEMMA BoardStays ==
  ASSUME spdboard' = spdboard
  PROVE  Fitted' = Fitted /\ \A d : Known(d)' <=> Known(d)
  <1>1. Fitted' = Fitted /\ ByPart' = ByPart
    BY DEF Fitted, ByPart, dimm_count
  <1>2. \A part : EntryOf(part)' = EntryOf(part)
    BY DEF EntryOf, SelectInSeq
  <1>3. ASSUME NEW d PROVE Known(d)' <=> Known(d)
    BY <1>1, <1>2 DEF Known
  <1>4. QED
    BY <1>1, <1>3

LEMMA ProgressStep ==
  ASSUME SpdInv, ProgressInv, [SpdNext]_spdVars
  PROVE  ProgressInv'
  <1> SUFFICES ASSUME PrintsAll' PROVE Progress'
    BY DEF ProgressInv
  <1>1. CASE UNCHANGED spdVars
    <2>1. Progress
      BY <1>1 DEF ProgressInv, PrintsAll, spdVars
    <2>2. /\ Fitted' = Fitted
          /\ \A ps, d : /\ Known(d)' <=> Known(d)
                        /\ Done(ps, d)' <=> Done(ps, d)
                        /\ IsPrinted(ps, d)' <=> IsPrinted(ps, d)
      BY <1>1, BoardStays DEF spdVars, Done, IsPrinted
    <2>3. AsPrinted' /\ InTurn'
      BY <1>1, <2>1, <2>2 DEF spdVars, Progress, AsPrinted, InTurn
    <2>4. QED
      BY <1>1, <2>1, <2>2, <2>3 DEF spdVars, Progress
  <1>2. CASE SpdNext
    <2>1. spdboard' = spdboard /\ asked' = asked
      BY <1>2 DEF SpdNext, CountDimms, ReadByStraps, Flashrom, FindByStraps,
                  ReadByPart, Fmap, FirstRegion, Region, FindByPart, Static
    <2>2. SpdTypes /\ SpdTypeOK /\ failed = <<>> /\ asked.arg = NoArg
      BY <1>2, <2>1, NoneFailed DEF SpdInv, SpdTypes, PrintsAll
    <2>3. Progress /\ failed' = <<>>
      BY <2>2 DEF ProgressInv, PrintsAll
    <2>4. /\ fw' # "failed"
          /\ \/ Counted \/ GoesOn \/ LeavesOut
             \/ \E entry \in Nat : Prints(entry)
      BY <1>2, <2>2, <2>3, ProgressCases
    <2>5. Fitted' = Fitted /\ \A d : Known(d)' <=> Known(d)
      BY <2>1, BoardStays
    <2>6. Fitted \in Nat /\ pass \in 0 .. LastPass /\ asked.pass \in Nat
      BY <2>2, SpdFacts DEF SpdTypeOK
    <2>7. CASE Counted \/ GoesOn
      <3>1. /\ UNCHANGED <<pass, dimm, printed>> /\ last_dimm' = Fitted
            /\ spd_pc # "ended" /\ spd_pc' # "ended"
        BY <2>3, <2>7 DEF Counted, GoesOn, Progress, Busy, Regions
      <3>2. /\ \A ps, d : IsPrinted(ps, d)' <=> IsPrinted(ps, d)
            /\ \A ps, d : Done(ps, d)' <=> Done(ps, d)
            /\ InTurn' <=> InTurn
        BY <3>1 DEF IsPrinted, Done, InTurn
      <3>3. AsPrinted'
        BY <2>1, <2>3, <2>5, <3>2 DEF Progress, AsPrinted
      <3>4. QED
        BY <2>1, <2>3, <2>4, <2>5, <3>1, <3>2, <3>3 DEF Progress
    <2>8. CASE LeavesOut
      <3>1. spd_pc \in Busy /\ NextDimm /\ ~Known(dimm) /\ printed' = printed
            /\ last_dimm' = Fitted
        BY <2>3, <2>8 DEF LeavesOut, Progress
      <3>2. /\ \A ps, d : IsPrinted(ps, d)' <=> IsPrinted(ps, d)
            /\ InTurn' <=> InTurn
        BY <3>1 DEF IsPrinted, InTurn
      <3>3. AsPrinted'
        <4> SUFFICES ASSUME NEW ps \in 1 .. LastPass, NEW d \in Nat
                     PROVE  IsPrinted(ps, d)' <=>
                              asked'.pass <= ps /\ Known(d)' /\ Done(ps, d)'
          BY DEF AsPrinted
        <4>1. Known(d) => (Done(ps, d)' <=>
                             Done(ps, d) \/ (ps = pass /\ d = dimm))
          BY <2>2, <2>3, <2>6, <3>1, DoneAfter DEF Known, LastPass
        <4>2. IsPrinted(ps, d) <=> asked.pass <= ps /\ Known(d) /\ Done(ps, d)
          BY <2>3 DEF Progress, AsPrinted
        <4>3. QED
          BY <2>1, <2>5, <3>1, <3>2, <4>1, <4>2
      <3>4. QED
        <4>1. /\ spd_pc' = "ended" => pass' = LastPass
              /\ pass <= pass' /\ pass' \in Nat
              /\ dimm' = 0 \/ dimm' < Fitted
          BY <2>2, <2>3, <2>6, <3>1, DoneAfter, AfterDimm DEF LastPass
        <4>2. InTurn'
          BY <2>3, <3>2 DEF Progress
        <4>3. QED
          BY <2>1, <2>3, <2>4, <2>5, <2>6, <3>1, <3>3, <4>1, <4>2
             DEF Progress
    <2>9. CASE \E entry \in Nat : Prints(entry)
      <3>1. PICK entry \in Nat : Prints(entry)
        BY <2>9
      <3>2. /\ spd_pc \in Busy /\ NextDimm /\ Known(dimm)
            /\ printed' = Append(printed, <<pass, dimm, entry>>)
            /\ last_dimm' = Fitted
        BY <2>3, <3>1 DEF Prints, Progress
      <3>3. /\ \A ps, d : IsPrinted(ps, d)' <=>
                            IsPrinted(ps, d) \/ (ps = pass /\ d = dimm)
            /\ InTurn'
        BY <2>3, <3>2, AddedPrint
      <3>4. AsPrinted'
        <4> SUFFICES ASSUME NEW ps \in 1 .. LastPass, NEW d \in Nat
                     PROVE  IsPrinted(ps, d)' <=>
                              asked'.pass <= ps /\ Known(d)' /\ Done(ps, d)'
          BY DEF AsPrinted
        <4>1. Known(d) => (Done(ps, d)' <=>
                             Done(ps, d) \/ (ps = pass /\ d = dimm))
          BY <2>2, <2>3, <2>6, <3>2, DoneAfter DEF Known, LastPass
        <4>2. IsPrinted(ps, d) <=> asked.pass <= ps /\ Known(d) /\ Done(ps, d)
          BY <2>3 DEF Progress, AsPrinted
        <4>3. asked.pass <= pass
          BY <2>3 DEF Progress
        <4>4. IsPrinted(ps, d)' <=>
                IsPrinted(ps, d) \/ (ps = pass /\ d = dimm)
          BY <3>3
        <4>5. QED
          BY <2>1, <2>5, <3>2, <4>1, <4>2, <4>3, <4>4
      <3>5. QED
        <4>1. /\ spd_pc' = "ended" => pass' = LastPass
              /\ pass <= pass' /\ pass' \in Nat
              /\ dimm' = 0 \/ dimm' < Fitted
          BY <2>2, <2>3, <2>6, <3>2, DoneAfter, AfterDimm DEF LastPass
        <4>2. QED
          BY <2>1, <2>3, <2>4, <2>5, <2>6, <3>2, <3>3, <3>4, <4>1
             DEF Progress
    <2>10. QED
      BY <2>4, <2>7, <2>8, <2>9
  <1>3. QED
    BY <1>1, <1>2

LEMMA ProgressInvariant == SpdSpec => [](SpdInv /\ ProgressInv)
  <1>1. SpdInit /\ SpdInv => ProgressInv
    <2> SUFFICES ASSUME SpdInit, SpdInv, PrintsAll PROVE Progress
      BY DEF ProgressInv
    <2>1. asked.pass \in {1, LastPass} /\ asked.what = "print"
      BY SpdAssumption DEF SpdInit, PrintsAll
    <2>2. /\ spd_pc = "count" /\ dimm = 0 /\ pass = asked.pass
          /\ fw = "none" /\ printed = <<>>
      BY <2>1 DEF SpdInit, PrintsAll
    <2>3. DOMAIN printed = {}
      BY <2>2
    <2>4. AsPrinted
      BY <2>1, <2>2, <2>3 DEF AsPrinted, IsPrinted, Done, LastPass
    <2>5. QED
      BY <2>1, <2>2, <2>3, <2>4
         DEF Progress, InTurn, Busy, Regions, LastPass
  <1>2. SpdInv /\ ProgressInv /\ [SpdNext]_spdVars => ProgressInv'
    BY ProgressStep
  <1>3. QED
    BY <1>1, <1>2, SpdInvariant, PTL DEF SpdSpec

(* A print of all that no failing read disturbs prints each DIMM that the  *)
(* firmware knows once in each pass and in order, whatever the board.      *)
THEOREM SpdAllPrinted == SpdSpec => []AllPrinted
  <1>1. SpdInv /\ ProgressInv => AllPrinted
    <2> SUFFICES ASSUME SpdInv, ProgressInv, spd_pc = "ended", PrintsAll
                 PROVE  AllPrinted
      BY DEF AllPrinted, PrintsAll
    <2> DEFINE known == {d \in 0 .. Fitted - 1 :
                           ~ByPart \/ EntryOf(spdboard.parts[d + 1]) >= 0}
               Places == {<<p[1], p[2]>> : p \in Range(printed)}
    <2>1. Progress /\ pass = LastPass
      BY DEF ProgressInv, Progress
    <2>2. /\ printed \in Seq((1 .. LastPass) \X Nat \X Nat)
          /\ Fitted \in Nat /\ asked.pass \in 1 .. LastPass
      <3>1. SpdTypeOK
        BY DEF SpdInv, SpdTypes
      <3>2. QED
        BY <2>1, <3>1, SpdFacts DEF SpdTypeOK, Progress, LastPass
    <2>3. \A d : d \in known <=> Known(d)
      BY DEF Known
    <2>4. known \subseteq Nat
      BY <2>2
    <2>5. \A x : x \in Places <=>
                   \E k \in DOMAIN printed :
                     x = <<printed[k][1], printed[k][2]>>
      BY DEF Range
    <2>6. \A k \in DOMAIN printed :
            printed[k][1] \in 1 .. LastPass /\ printed[k][2] \in Nat
      <3> TAKE k \in DOMAIN printed
      <3>1. printed[k] \in (1 .. LastPass) \X Nat \X Nat
        BY <2>2
      <3>2. QED
        BY <3>1
    <2>7. \A ps \in 1 .. LastPass, d \in Nat :
            IsPrinted(ps, d) <=> asked.pass <= ps /\ d \in known
      BY <2>1, <2>3 DEF Progress, AsPrinted, Done, LastPass
    <2> HIDE DEF known, Places
    <2>8. ASSUME NEW x
          PROVE  x \in Places <=> x \in (asked.pass .. LastPass) \X known
      <3>1. ASSUME x \in Places
            PROVE  x \in (asked.pass .. LastPass) \X known
        <4>1. PICK k \in DOMAIN printed :
                x = <<printed[k][1], printed[k][2]>>
          BY <2>5, <3>1
        <4>2. IsPrinted(printed[k][1], printed[k][2])
          BY DEF IsPrinted
        <4>3. asked.pass <= printed[k][1] /\ printed[k][2] \in known
          BY <2>6, <2>7, <4>2
        <4>4. printed[k][1] \in asked.pass .. LastPass
          <5>1. printed[k][1] \in 1 .. LastPass
            BY <2>6
          <5>2. QED
            BY <2>2, <4>3, <5>1 DEF LastPass
        <4>5. QED
          BY <4>1, <4>3, <4>4
      <3>2. ASSUME x \in (asked.pass .. LastPass) \X known
            PROVE  x \in Places
        <4>1. PICK ps \in asked.pass .. LastPass, d \in known : x = <<ps, d>>
          BY <3>2
        <4>2. ps \in 1 .. LastPass /\ asked.pass <= ps /\ d \in Nat
          BY <2>2, <2>4 DEF LastPass
        <4>3. IsPrinted(ps, d)
          BY <2>7, <4>2
        <4>4. PICK k \in DOMAIN printed :
                printed[k][1] = ps /\ printed[k][2] = d
          BY <4>3 DEF IsPrinted
        <4>5. QED
          BY <2>5, <4>1, <4>4
      <3>3. QED
        BY <3>1, <3>2
    <2>9. Places = (asked.pass .. LastPass) \X known
      BY <2>8
    <2>10. InTurn
      BY <2>1 DEF Progress
    <2>11. QED
      BY <2>9, <2>10 DEF AllPrinted, InTurn, Places, known
  <1>2. QED
    BY <1>1, ProgressInvariant, PTL

=============================================================================
