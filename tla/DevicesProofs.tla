--------------------------- MODULE DevicesProofs ----------------------------
(***************************************************************************)
(* The devices: the reading of the EC's version, the search for the VPD's  *)
(* entry point, the super I/O chip, the straps of the Exynos boards and the*)
(* handles of the I2C devices, for any timeouts, lengths, regions, chips,  *)
(* wirings and reads.                                                      *)
(***************************************************************************)
EXTENDS SuperIo, EcRam, VpdSearch, Straps, I2cHandles, FiniteSetTheorems,
        WellFoundedInduction, TLAPS

(* Where the answer to the byte asked for is, as long as nothing was given *)
(* up.                                                                     *)
PlaceInv ==
  ~gave_up =>
    /\ \A k \in Bytes : k < i \/ ram_pc = "done" => version[k] = k
    /\ ram_pc = "ibf_command" => ibf = Empty /\ obf = Empty /\ ec = Idle
    /\ ram_pc = "ibf_offset" =>
         /\ obf = Empty
         /\ \/ ibf = Command /\ ec = Idle
            \/ ibf = Empty /\ ec = AwaitsOffset
    /\ ram_pc = "obf" =>
         \/ ibf = i /\ ec = AwaitsOffset /\ obf = Empty
         \/ ibf = Empty /\ ec = i /\ obf = Empty
         \/ ibf = Empty /\ ec = Idle /\ obf = i

(* Offsets and answers on their way are in the order they were asked for   *)
(* in, behind all that was read.                                           *)
Asked(n) == n < i \/ (n = i /\ ram_pc \in {"obf", "done"})

OrderInv ==
  /\ \A k \in Bytes :
       version[k] # Unset =>
         /\ k < i \/ ram_pc = "done"
         /\ version[k] <= k
         /\ obf # Empty => version[k] < obf
         /\ ec \in Bytes => version[k] < ec
         /\ ibf \in Bytes => version[k] < ibf
  /\ \A k, l \in Bytes :
       k < l /\ version[k] # Unset /\ version[l] # Unset
         => version[k] < version[l]
  /\ obf # Empty /\ ec \in Bytes => obf < ec
  /\ obf # Empty /\ ibf \in Bytes => obf < ibf
  /\ ec \in Bytes /\ ibf \in Bytes => ec < ibf
  /\ obf \in Bytes => Asked(obf)
  /\ ec \in Bytes => Asked(ec)
  /\ ibf \in Bytes => Asked(ibf)
  /\ ram_pc = "done" => i = LEN

RamInv == RamTypeOK /\ PlaceInv /\ OrderInv
-----------------------------------------------------------------------------
LEMMA LaterType ==
  ASSUME RamTypeOK, NEW d \in 1 .. MaxGap
  PROVE  Later(d).us \in Ticks /\ Later(d).s \in Nat
  BY EcRamAssumption DEF Later, RamTypeOK, Ticks

(* Every variable keeps its type under every step.                         *)
LEMMA RamTypeStep == RamTypeOK /\ [RamNext]_ramVars => RamTypeOK'
  <1> SUFFICES ASSUME RamTypeOK, [RamNext]_ramVars PROVE RamTypeOK'
    OBVIOUS
  <1> USE EcRamAssumption DEF RamTypeOK, Bytes, Restart, NextByte, ecVars,
        clock
  <1>0. 0 \in Ticks
    BY DEF Ticks
  <1>1. CASE UNCHANGED ramVars
    BY <1>1 DEF ramVars
  <1>2. CASE WriteCommand \/ WriteOffset
    BY <1>0, <1>2 DEF WriteCommand, WriteOffset
  <1>3. CASE ReadData
    BY <1>0, <1>3 DEF ReadData
  <1>4. CASE Poll
    <2>1. PICK d \in 1 .. MaxGap :
            LET now == Later(d)
            IN IF TimedOut(now.s, now.us)
               THEN /\ gave_up' = TRUE
                    /\ NextByte
                    /\ begin' = now.us /\ secs' = 0 /\ usec' = now.us
               ELSE /\ secs' = now.s /\ usec' = now.us
                    /\ UNCHANGED <<ram_pc, i, begin, gave_up>>
      BY <1>4 DEF Poll
    <2>2. Later(d).us \in Ticks /\ Later(d).s \in Nat
      BY LaterType
    <2>3. CASE TimedOut(Later(d).s, Later(d).us)
      <3>1. /\ gave_up' = TRUE /\ NextByte
            /\ begin' = Later(d).us /\ secs' = 0 /\ usec' = Later(d).us
        BY <2>1, <2>3
      <3>2. i' \in Bytes /\ ram_pc' \in {"ibf_command", "done"}
        BY <3>1
      <3>3. QED
        BY <1>4, <2>2, <3>1, <3>2 DEF Poll
    <2>4. CASE ~TimedOut(Later(d).s, Later(d).us)
      BY <1>4, <2>1, <2>2, <2>4 DEF Poll
    <2>5. QED
      BY <2>3, <2>4
  <1>5. CASE EcReads \/ EcAnswers
    BY <1>5 DEF EcReads, EcAnswers
  <1>6. CASE PortFails
    BY <1>0, <1>6 DEF PortFails
  <1>7. QED
    BY <1>1, <1>2, <1>3, <1>4, <1>5, <1>6 DEF RamNext, RamStep

(* What a poll or a failing access does to everything but the clock:       *)
(* nothing, or the byte is given up.                                       *)
LEMMA PollEffect ==
  ASSUME Poll \/ PortFails
  PROVE  /\ UNCHANGED <<timeout, ecVars, version>>
         /\ \/ UNCHANGED <<ram_pc, i, gave_up>>
            \/ NextByte /\ gave_up' = TRUE
  <1>1. CASE Poll
    <2>1. PICK d \in 1 .. MaxGap :
            LET now == Later(d)
            IN IF TimedOut(now.s, now.us)
               THEN gave_up' = TRUE /\ NextByte
               ELSE UNCHANGED <<ram_pc, i, gave_up>>
      BY <1>1 DEF Poll
    <2>2. QED
      BY <1>1, <2>1 DEF Poll
  <1>2. CASE PortFails
    BY <1>2 DEF PortFails
  <1>3. QED
    BY <1>1, <1>2

(* The bytes are in place while every wait has seen its answer.            *)
LEMMA PlaceStep == RamTypeOK /\ PlaceInv /\ [RamNext]_ramVars => PlaceInv'
  <1> SUFFICES ASSUME RamTypeOK, PlaceInv, [RamNext]_ramVars PROVE PlaceInv'
    OBVIOUS
  <1> USE EcRamAssumption DEF RamTypeOK, PlaceInv, Bytes, Empty, Idle,
        Command, AwaitsOffset, NextByte, ecVars
  <1>1. CASE UNCHANGED ramVars
    BY <1>1 DEF ramVars
  <1>2. CASE WriteCommand
    BY <1>2 DEF WriteCommand
  <1>3. CASE WriteOffset
    BY <1>3 DEF WriteOffset
  <1>4. CASE ReadData
    BY <1>4 DEF ReadData
  <1>5. CASE Poll \/ PortFails
    BY <1>5, PollEffect
  <1>6. CASE EcReads
    BY <1>6 DEF EcReads
  <1>7. CASE EcAnswers
    BY <1>7 DEF EcAnswers
  <1>8. QED
    BY <1>1, <1>2, <1>3, <1>4, <1>5, <1>6, <1>7 DEF RamNext, RamStep

(* Nothing overtakes in the two buffers and the EC, whatever was given up. *)
LEMMA OrderStep == RamTypeOK /\ OrderInv /\ [RamNext]_ramVars => OrderInv'
  <1> SUFFICES ASSUME RamTypeOK, OrderInv, [RamNext]_ramVars PROVE OrderInv'
    OBVIOUS
  <1> USE EcRamAssumption DEF RamTypeOK, OrderInv, Asked, Bytes, Empty, Unset,
        Foreign, Idle, Command, AwaitsOffset, ecVars
  <1>1. CASE UNCHANGED ramVars
    BY <1>1 DEF ramVars
  <1>2. CASE WriteCommand
    BY <1>2 DEF WriteCommand
  <1>3. CASE WriteOffset
    BY <1>3 DEF WriteOffset
  <1>4. CASE ReadData
    BY <1>4 DEF ReadData, NextByte
  <1>5. CASE Poll \/ PortFails
    <2>1. UNCHANGED <<timeout, ecVars, version>>
      BY <1>5, PollEffect
    <2>2. CASE UNCHANGED <<ram_pc, i, gave_up>>
      BY <2>1, <2>2
    <2>3. CASE NextByte /\ i = LEN
      BY <2>1, <2>3 DEF NextByte
    <2>4. CASE NextByte /\ i # LEN
      <3>1. i' = i + 1 /\ ram_pc' = "ibf_command" /\ ram_pc # "done"
        BY <2>4 DEF NextByte
      <3>2. QED
        BY <2>1, <3>1
    <2>5. QED
      BY <1>5, <2>2, <2>3, <2>4, PollEffect
  <1>6. CASE EcReads
    BY <1>6 DEF EcReads
  <1>7. CASE EcAnswers
    BY <1>7 DEF EcAnswers
  <1>8. QED
    BY <1>1, <1>2, <1>3, <1>4, <1>5, <1>6, <1>7 DEF RamNext, RamStep

LEMMA RamInvariant == RamSpec => []RamInv
  <1>1. RamInit => RamInv
    <2> SUFFICES ASSUME RamInit PROVE RamInv
      OBVIOUS
    <2> USE EcRamAssumption DEF RamInit
    <2>1. RamTypeOK
      BY DEF RamTypeOK, Bytes, Ticks
    <2>2. PlaceInv
      <3>1. ~gave_up => obf = Empty
        BY Zenon
      <3>2. QED
        BY <3>1 DEF PlaceInv, Bytes
    <2>3. OrderInv
      BY DEF OrderInv, Bytes, Empty, Unset, Foreign, Idle
    <2>4. QED
      BY <2>1, <2>2, <2>3 DEF RamInv
  <1>2. RamInv /\ [RamNext]_ramVars => RamInv'
    BY RamTypeStep, PlaceStep, OrderStep DEF RamInv
  <1>3. QED
    BY <1>1, <1>2, PTL DEF RamSpec

(* The variables of the reading of the version keep their types.           *)
THEOREM RamTypeCorrect == RamSpec => []RamTypeOK
  <1>1. RamInv => RamTypeOK
    BY DEF RamInv
  <1>2. QED
    BY <1>1, RamInvariant, PTL

(* As long as no byte is given up, every byte is the one asked for.        *)
THEOREM RightBytes == RamSpec => []BytesInPlace
  <1>1. RamInv => BytesInPlace
    BY DEF RamInv, PlaceInv, BytesInPlace
  <1>2. QED
    BY <1>1, RamInvariant, PTL

(* After a byte that was given up answers are late but never reordered or  *)
(* used twice.                                                             *)
THEOREM OrderedBytes == RamSpec => []BytesInOrder
  <1>1. RamInv => BytesInOrder
    BY EcRamAssumption
       DEF RamInv, OrderInv, BytesInOrder, Bytes, Unset, RamTypeOK
  <1>2. QED
    BY <1>1, RamInvariant, PTL

(* Answers in place and in order, for any timeout, any gaps between looks  *)
(* at the clock and any accesses that fail.                                *)
THEOREM VersionBytesRead == RamSpec => []VersionBytes
  <1>1. BytesInPlace /\ BytesInOrder => VersionBytes
    BY DEF VersionBytes
  <1>2. QED
    BY <1>1, RightBytes, OrderedBytes, PTL
-----------------------------------------------------------------------------
(* The last entry found is where it was found; nothing usable has been     *)
(* passed by; what was read behind the region has an explanation that lasts*)
(* until the search ends.                                                  *)
NoneUsableBefore(p) == \A q \in Places : q < p => region[q].table # "ok"

(* No search gets past the second entry point of the region.               *)
SecondInv ==
  \A p, q \in Places :
    IsEntryPoint(p) /\ IsEntryPoint(q) /\ p < q =>
      /\ addr <= q
      /\ vpd_pc \in {"check", "map", "ready"} => found <= q
      /\ vpd_pc = "check" /\ addr = 0 => found <= p

VpdInv ==
  /\ addr + remaining = N
  /\ vpd_pc = "search" => NoneUsableBefore(addr)
  /\ vpd_pc \in {"check", "map", "ready", "crashed"} =>
       found \in Places /\ IsEntryPoint(found) /\ NoneUsableBefore(found)
  /\ vpd_pc = "check" => found = addr + offset
  /\ vpd_pc \in {"map", "ready"} => region[found].table = "ok"
  /\ vpd_pc = "crashed" => Overhangs(found)
  /\ BeyondExplained
  /\ SecondInv

LEMMA EntryPointTable ==
  ASSUME region \in [Places -> Contents], NEW p \in Places
  PROVE  IsEntryPoint(p) <=> region[p].table \in {"ok"} \cup Bad
  BY DEF Contents, EntryPoints, Other, IsEntryPoint, Bad

(* An entry point that no usable one comes before is the first usable one, *)
(* or in its way.                                                          *)
LEMMA InTheWay ==
  ASSUME VpdTypeOK, NEW p \in Places, IsEntryPoint(p), NoneUsableBefore(p)
  PROVE  p \in Obstacles \/ FirstUsable(p)
  <1> USE VpdSearchAssumption DEF Places
  <1>1. \A u \in UsablePlaces : p <= u
    BY DEF NoneUsableBefore, UsablePlaces
  <1>2. CASE region[p].table = "ok"
    BY <1>1, <1>2 DEF FirstUsable, UsablePlaces
  <1>3. CASE region[p].table \in Bad
    <2>1. p \notin UsablePlaces
      BY <1>3 DEF UsablePlaces, Bad
    <2>2. \A u \in UsablePlaces : p < u
      BY <1>1, <2>1 DEF UsablePlaces
    <2>3. QED
      BY <1>3, <2>2 DEF Obstacles
  <1>4. QED
    BY <1>2, <1>3, EntryPointTable DEF VpdTypeOK

(* What explains a read behind the region depends on the region only.      *)
LEMMA ExplainedKept ==
  ASSUME BeyondExplained, UNCHANGED <<region, beyond>>,
         vpd_pc' = "crashed" => vpd_pc = "crashed"
  PROVE  BeyondExplained'
  BY DEF BeyondExplained, Overhangs, ReadUpTo, IsEntryPoint, Obstacles,
         FirstUsable, UsablePlaces

LEMMA FindEntryKeeps ==
  ASSUME VpdTypeOK, VpdInv, FindEntry
  PROVE  (VpdTypeOK /\ VpdInv)'
  <1> USE VpdSearchAssumption DEF Places
  <1>1. PICK o \in 0 .. N - 1 :
          /\ FindsAt(o)
          /\ offset' = o
          /\ found' = addr + o
          /\ beyond' = (beyond \/ Overhangs(addr + o))
          /\ vpd_pc' \in IF Overhangs(addr + o) THEN {"check", "crashed"}
                                                ELSE {"check"}
    BY DEF FindEntry
  <1>2. /\ UNCHANGED <<region, addr, remaining>> /\ vpd_pc = "search"
        /\ addr \in Nat /\ addr + remaining = N /\ beyond \in BOOLEAN
    BY DEF FindEntry, VpdInv, VpdTypeOK
  <1>3. addr + o \in Places /\ IsEntryPoint(addr + o)
    <2>1. o \in Nat /\ o < remaining /\ remaining \in Nat
      BY <1>1 DEF FindsAt, VpdTypeOK
    <2>2. addr + o \in Places
      BY <1>2, <2>1
    <2>3. QED
      BY <1>1, <2>2 DEF FindsAt
  <1>4. \A q \in Places : addr <= q /\ q < addr + o => ~IsEntryPoint(q)
    <2>1. ASSUME NEW q \in Places, addr <= q, q < addr + o
          PROVE  ~IsEntryPoint(q)
      <3>1. q - addr \in 0 .. o - 1 /\ addr + (q - addr) = q
        BY <1>2, <2>1
      <3>2. QED
        BY <1>1, <3>1 DEF FindsAt
    <2>2. QED
      BY <2>1
  <1>5. NoneUsableBefore(addr + o)
    <2>1. ASSUME NEW q \in Places, q < addr + o
          PROVE  region[q].table # "ok"
      <3>1. CASE q < addr
        BY <1>2, <2>1, <3>1 DEF VpdInv, NoneUsableBefore
      <3>2. CASE addr <= q
        BY <1>4, <2>1, <3>2, EntryPointTable DEF VpdTypeOK
      <3>3. QED
        BY <1>2, <3>1, <3>2
    <2>2. QED
      BY <2>1 DEF NoneUsableBefore
  <1>6. VpdTypeOK'
    <2>1. beyond' \in BOOLEAN
      BY <1>1, <1>2
    <2>2. found' \in -1 .. N - 1 /\ offset' \in 0 .. N
      BY <1>1, <1>3
    <2>3. vpd_pc' \in {"check", "crashed"}
      BY <1>1
    <2>4. QED
      BY <1>2, <2>1, <2>2, <2>3 DEF VpdTypeOK
  <1>7. BeyondExplained'
    <2>1. CASE Overhangs(addr + o)
      <3>1. addr + o \in Obstacles \/ FirstUsable(addr + o)
        BY <1>3, <1>5, InTheWay
      <3>2. \E p \in Places :
              Overhangs(p) /\ (p \in Obstacles \/ FirstUsable(p))
        BY <1>3, <2>1, <3>1
      <3>3. QED
        BY <1>2, <3>2
           DEF BeyondExplained, Overhangs, ReadUpTo, IsEntryPoint, Obstacles,
               FirstUsable, UsablePlaces
    <2>2. CASE ~Overhangs(addr + o)
      <3>1. beyond' = beyond /\ vpd_pc' = "check"
        BY <1>1, <1>2, <2>2
      <3>2. BeyondExplained
        BY DEF VpdInv
      <3>3. QED
        BY <1>2, <3>1, <3>2, ExplainedKept
    <2>3. QED
      BY <2>1, <2>2
  <1>8. SecondInv'
    <2>1. ASSUME NEW p \in Places, NEW q \in Places,
                 IsEntryPoint(p), IsEntryPoint(q), p < q
          PROVE  addr <= q /\ addr + o <= q /\ (addr = 0 => addr + o <= p)
      <3>1. addr <= q
        BY <2>1 DEF VpdInv, SecondInv
      <3>2. addr + o <= q
        BY <1>2, <1>3, <1>4, <2>1, <3>1
      <3>3. addr = 0 => addr + o <= p
        BY <1>2, <1>3, <1>4, <2>1
      <3>4. QED
        BY <3>1, <3>2, <3>3
    <2>2. QED
      BY <1>1, <1>2, <2>1 DEF SecondInv, IsEntryPoint
  <1>9. VpdInv'
    <2>1. vpd_pc' \in {"check", "crashed"}
      BY <1>1
    <2>2. vpd_pc' = "crashed" => Overhangs(addr + o)
      BY <1>1
    <2>3. /\ found' \in Places /\ IsEntryPoint(found)'
          /\ NoneUsableBefore(found)' /\ found' = addr' + offset'
      BY <1>1, <1>2, <1>3, <1>5 DEF IsEntryPoint, NoneUsableBefore
    <2>4. vpd_pc' = "crashed" => Overhangs(found)'
      BY <1>1, <1>2, <2>2 DEF Overhangs, ReadUpTo, IsEntryPoint
    <2>5. QED
      BY <1>2, <1>7, <1>8, <2>1, <2>3, <2>4 DEF VpdInv
  <1>10. QED
    BY <1>6, <1>9

LEMMA CheckEntryKeeps ==
  ASSUME VpdTypeOK, VpdInv, CheckEntry
  PROVE  (VpdTypeOK /\ VpdInv)'
  <1> USE VpdSearchAssumption DEF Places
  <1>1. /\ vpd_pc = "check" /\ UNCHANGED <<region, offset, found, beyond>>
        /\ vpd_pc' = IF Usable(region[found]) THEN "map" ELSE "search"
        /\ addr' = offset + 1 /\ remaining' = N - addr'
    BY DEF CheckEntry, Advance
  <1>2. /\ found \in Places /\ IsEntryPoint(found) /\ NoneUsableBefore(found)
        /\ found = addr + offset /\ BeyondExplained
        /\ addr \in Nat /\ offset \in Nat
    BY <1>1 DEF VpdInv, VpdTypeOK
  <1>3. addr' \in 0 .. N /\ remaining' \in 0 .. N /\ addr' + remaining' = N
    BY <1>1, <1>2
  <1>4. VpdTypeOK'
    BY <1>1, <1>3 DEF VpdTypeOK
  <1>5. BeyondExplained'
    BY <1>1, <1>2, ExplainedKept
  <1>6. SecondInv'
    <2>1. ASSUME NEW p \in Places, NEW q \in Places,
                 IsEntryPoint(p), IsEntryPoint(q), p < q
          PROVE  addr' <= q /\ found <= q
      <3>1. found <= q /\ (addr = 0 => found <= p)
        BY <1>1, <2>1 DEF VpdInv, SecondInv
      <3>2. addr' = found - addr + 1
        BY <1>1, <1>2
      <3>3. QED
        BY <1>2, <2>1, <3>1, <3>2
    <2>2. QED
      BY <1>1, <2>1 DEF SecondInv, IsEntryPoint
  <1>7. CASE Usable(region[found])
    <2>1. region[found].table = "ok"
      BY <1>2, <1>7, EntryPointTable DEF Usable, VpdTypeOK
    <2>2. QED
      BY <1>1, <1>2, <1>3, <1>4, <1>5, <1>6, <1>7, <2>1
         DEF VpdInv, IsEntryPoint, NoneUsableBefore
  <1>8. CASE ~Usable(region[found])
    <2>1. region[found].table # "ok"
      BY <1>8 DEF Usable, Bad
    <2>2. NoneUsableBefore(addr)'
      <3>1. ASSUME NEW q \in Places, q < addr'
            PROVE  region[q].table # "ok"
        <4>1. q < found \/ q = found
          BY <1>1, <1>2, <3>1
        <4>2. QED
          BY <1>2, <2>1, <4>1 DEF NoneUsableBefore
      <3>2. QED
        BY <1>1, <3>1 DEF NoneUsableBefore
    <2>3. QED
      BY <1>1, <1>3, <1>4, <1>5, <1>6, <1>8, <2>2 DEF VpdInv
  <1>9. QED
    BY <1>7, <1>8

LEMMA VpdInvariant == VpdSpec => [](VpdTypeOK /\ VpdInv)
  <1>1. VpdInit => VpdTypeOK /\ VpdInv
    <2> SUFFICES ASSUME VpdInit PROVE VpdTypeOK /\ VpdInv
      OBVIOUS
    <2>1. VpdTypeOK
      <3>1. beyond \in BOOLEAN
        BY DEF VpdInit
      <3>2. /\ addr \in 0 .. N /\ remaining \in 0 .. N /\ offset \in 0 .. N
            /\ found \in -1 .. N - 1
        BY VpdSearchAssumption DEF VpdInit
      <3>3. QED
        BY <3>1, <3>2 DEF VpdInit, VpdTypeOK
    <2>2. NoneUsableBefore(addr)
      BY VpdSearchAssumption DEF VpdInit, Places, NoneUsableBefore
    <2>3. BeyondExplained
      BY DEF VpdInit, BeyondExplained
    <2>4. SecondInv
      BY VpdSearchAssumption DEF VpdInit, SecondInv, Places
    <2>5. QED
      BY <2>1, <2>2, <2>3, <2>4, VpdSearchAssumption DEF VpdInit, VpdInv
  <1>2. VpdTypeOK /\ VpdInv /\ [VpdNext]_vpdVars => (VpdTypeOK /\ VpdInv)'
    <2> SUFFICES ASSUME VpdTypeOK, VpdInv, [VpdNext]_vpdVars
                 PROVE  (VpdTypeOK /\ VpdInv)'
      OBVIOUS
    <2>1. CASE UNCHANGED vpdVars
      BY <2>1
         DEF vpdVars, VpdTypeOK, VpdInv, NoneUsableBefore, BeyondExplained,
             SecondInv, Overhangs, ReadUpTo, IsEntryPoint, Obstacles, FirstUsable,
             UsablePlaces
    <2>2. CASE FindEntry
      BY <2>2, FindEntryKeeps
    <2>3. CASE CheckEntry
      BY <2>3, CheckEntryKeeps
    <2>4. CASE NotFound \/ MapFails
      <3>1. /\ vpd_pc' = "failed" /\ found' = -1
            /\ UNCHANGED <<region, addr, remaining, offset, beyond>>
        BY <2>4 DEF NotFound, MapFails
      <3>2. BeyondExplained'
        BY <3>1, ExplainedKept DEF VpdInv
      <3>3. VpdTypeOK'
        BY <3>1, VpdSearchAssumption DEF VpdTypeOK
      <3>4. SecondInv'
        BY <3>1 DEF VpdInv, SecondInv, IsEntryPoint
      <3>5. QED
        BY <3>1, <3>2, <3>3, <3>4 DEF VpdInv
    <2>5. CASE MapTables
      <3>1. /\ vpd_pc = "map" /\ vpd_pc' = "ready"
            /\ UNCHANGED <<region, addr, remaining, offset, found, beyond>>
        BY <2>5 DEF MapTables
      <3>2. BeyondExplained'
        BY <3>1, ExplainedKept DEF VpdInv
      <3>3. SecondInv'
        BY <3>1 DEF VpdInv, SecondInv, IsEntryPoint
      <3>4. QED
        BY <3>1, <3>2, <3>3
           DEF VpdInv, VpdTypeOK, IsEntryPoint, NoneUsableBefore
    <2>6. QED
      BY <2>1, <2>2, <2>3, <2>4, <2>5 DEF VpdNext, VpdStep
  <1>3. QED
    BY <1>1, <1>2, PTL DEF VpdSpec

(* The search maps what is left of the region, whatever is in it, and reads*)
(* behind it only where an entry point that it has to look at lies across  *)
(* the end.                                                                *)
THEOREM SearchBeyond == VpdSpec => [](WindowIsRest /\ BeyondExplained)
  <1>1. VpdInv => WindowIsRest /\ BeyondExplained
    BY DEF VpdInv, WindowIsRest
  <1>2. QED
    BY <1>1, VpdInvariant, PTL

(* A search that ends with a table has passed by no usable entry point.    *)
THEOREM FirstFound == VpdSpec => []FindsFirstUsable
  <1>1. VpdInv => FindsFirstUsable
    <2> SUFFICES ASSUME VpdInv, vpd_pc \in {"map", "ready"}
                 PROVE  FirstUsable(found)
      BY DEF FindsFirstUsable
    <2>1. ASSUME NEW q \in UsablePlaces PROVE found <= q
      BY <2>1, VpdSearchAssumption
         DEF VpdInv, NoneUsableBefore, UsablePlaces, Places
    <2>2. QED
      BY <2>1 DEF VpdInv, FirstUsable, UsablePlaces
  <1>2. QED
    BY <1>1, VpdInvariant, PTL

(* A search never gets past a second unusable entry point.                 *)
THEOREM StuckAtSecond == VpdSpec => []NonePastTwo
  <1>1. VpdTypeOK /\ VpdInv => NonePastTwo
    <2> SUFFICES ASSUME VpdTypeOK, VpdInv, vpd_pc \in {"map", "ready"},
                        NEW p \in Obstacles, NEW q \in Obstacles, p # q
                 PROVE  FALSE
      BY DEF NonePastTwo, OneObstacle
    <2>1. found \in UsablePlaces
      BY DEF VpdInv, UsablePlaces
    <2>2. \A o \in Obstacles : o \in Places /\ IsEntryPoint(o) /\ o < found
      BY <2>1, EntryPointTable DEF Obstacles, VpdTypeOK
    <2>3. p < q \/ q < p
      BY <2>2, VpdSearchAssumption DEF Places
    <2>4. found <= q \/ found <= p
      BY <2>2, <2>3 DEF VpdInv, SecondInv
    <2>5. found \in Int /\ p \in Int /\ q \in Int
      BY <2>1, <2>2, VpdSearchAssumption DEF UsablePlaces, Places
    <2>6. QED
      BY <2>2, <2>4, <2>5
  <1>2. QED
    BY <1>1, VpdInvariant, PTL

(* For any region, any number of entry points and whatever lies behind the *)
(* region: the window of each search, what is read outside of it, and the  *)
(* table that is taken in the end.                                         *)
THEOREM TableOfVpd == VpdSpec => []VpdFound
  <1>1. WindowIsRest /\ BeyondExplained /\ FindsFirstUsable /\ NonePastTwo
          => VpdFound
    BY DEF VpdFound
  <1>2. QED
    BY <1>1, SearchBeyond, FirstFound, StuckAtSecond, PTL
-----------------------------------------------------------------------------
(* What the super I/O proofs need of the types.                            *)
SioTypes ==
  /\ board \in {"alex", "lumpy"}
  /\ chip.port \in {0, 46, 78}
  /\ mode \in BOOLEAN /\ in_sio_cfgmode \in BOOLEAN /\ late \in BOOLEAN
  /\ cmd \in {"none", "version", "exit"}
  /\ job \in {"none", "version", "exit"}
  /\ sio_pc \in PCs
  /\ port_try \in {1, 2}

(* The flag of a process that has found the chip is the chip's mode, and   *)
(* its two copies of the port are the chip's.                              *)
Found ==
  {"detect", "select", "restore", "command", "clear", "send", "wait",
   "unwedge", "unwedge_send", "unwedge_wait"}

ModeInv ==
  /\ mode => chip.port # 0
  /\ sio_pc = "probe" =>
       /\ ~in_sio_cfgmode
       /\ port_try = 2 => chip.port # 46
  /\ sio_pc \in Found =>
       /\ mode = in_sio_cfgmode
       /\ port_internal = chip.port /\ chip.port # 0
  /\ sio_pc \in {"detect", "select", "restore"} => mode
  /\ sio_pc \in Found \ {"detect"} =>
       ec_port = chip.port /\ chip.id \in DetectedIds
  /\ NoChipMissed
  /\ ConfigLeft
  /\ ReadInMode

(* Only between two steps is another logical device selected.              *)
LdnInv ==
  /\ sio_pc = "restore" => ldn = "mbx" /\ ldn_orig = ldn_start
  /\ sio_pc \notin {"restore", "off"} => ldn = ldn_start
  /\ SelectionRestored

(* Where the text that ends the pass-through mode may be in the mailbox,   *)
(* and whose answer a process without a wait that gave up is looking at.   *)
MailboxInv ==
  /\ VersionTrue
  /\ sio_pc \in {"send", "wait"} => mbx_data # "End_Mode"
  /\ sio_pc \in {"wait", "unwedge_wait"} /\ cmd = "none" => job = "none"
  /\ board = "lumpy" =>
       /\ job # "exit" /\ cmd # "exit"
       /\ sio_pc \notin {"unwedge", "unwedge_send", "unwedge_wait"}
  /\ ~late =>
       /\ sio_pc \in {"probe", "detect", "select", "restore", "unwedge",
                      "unwedge_send", "unwedge_wait"} =>
            tries = 0 /\ mbx_version = "unread"
       /\ sio_pc \in {"command", "clear", "send", "wait"} =>
            job # "exit" /\ cmd # "exit"
       /\ sio_pc = "wait" /\ cmd = "none" => mbx_data = "version"

SioInv == SioTypes /\ ModeInv /\ LdnInv /\ MailboxInv

LEMMA SioTypesStep == SioTypes /\ [SioNext]_sioVars => SioTypes'
  <1> SUFFICES ASSUME SioTypes, [SioNext]_sioVars PROVE SioTypes'
    OBVIOUS
  <1> USE DEF SioTypes, PCs, machine, chipVars, mailbox, statics, sioLocals,
        sioHistory
  <1>1. CASE UNCHANGED sioVars
    BY <1>1 DEF sioVars
  <1>2. CASE SioStart
    BY <1>2 DEF SioStart, FreshStatics
  <1>3. CASE Probe
    BY <1>3 DEF Probe, Entered
  <1>4. CASE Detect \/ SelectLdn \/ RestoreLdn
    BY <1>4 DEF Detect, SelectLdn, RestoreLdn
  <1>5. CASE SioName
    BY <1>5 DEF SioName, Entered
  <1>6. CASE Destroy
    BY <1>6 DEF Destroy, Exited
  <1>7. CASE FwVersion
    BY <1>7 DEF FwVersion
  <1>13. CASE Clear \/ Send
    BY <1>13 DEF Clear, Send
  <1>14. CASE Unwedge \/ UnwedgeSend
    BY <1>14 DEF Unwedge, UnwedgeSend
  <1>15. CASE SioKilled
    BY <1>15 DEF SioKilled
  <1>8. CASE Answered
    BY <1>8 DEF Answered, AfterTry, NextTry
  <1>9. CASE MbxPoll
    BY <1>9 DEF MbxPoll
  <1>10. CASE GivesUp
    BY <1>10 DEF GivesUp, AfterTry, NextTry
  <1>11. CASE MbxTakes \/ MbxAnswers
    BY <1>11 DEF MbxTakes, MbxAnswers
  <1>12. QED
    BY <1>1, <1>2, <1>3, <1>4, <1>5, <1>6, <1>7, <1>8, <1>9, <1>10, <1>11,
       <1>13, <1>14, <1>15
       DEF SioNext, SioStep

(* Configuration mode and what is read in it.                              *)
LEMMA ModeStep ==
  SioTypes /\ ModeInv /\ LdnInv /\ [SioNext]_sioVars => ModeInv'
  <1> SUFFICES ASSUME SioTypes, ModeInv, LdnInv, [SioNext]_sioVars
               PROVE  ModeInv'
    OBVIOUS
  <1> USE SuperIoAssumption DEF SioTypes, ModeInv, NoChipMissed, ConfigLeft,
        ReadInMode, Found, machine, chipVars, statics, ports, Entered, Exited
  <1>1. CASE UNCHANGED sioVars
    <2>1. UNCHANGED <<machine, chipVars, statics, ended>>
      BY <1>1 DEF sioVars, sioHistory
    <2>2. UNCHANGED <<sio_pc, port_try>>
      BY <1>1 DEF sioVars, sioLocals
    <2>3. QED
      BY <2>1, <2>2
  <1>2. CASE SioStart
    <2>1. ~sio'.done
      BY <1>2 DEF SioStart, FreshStatics, NoId
    <2>2. QED
      BY <1>2, <2>1 DEF SioStart, FreshStatics
  <1>3. CASE Probe
    <2>1. UNCHANGED <<machine, mbx_idx, sio, ended, ec_port>>
      BY <1>3 DEF Probe, sioHistory
    <2>2. ReadInMode'
      BY <2>1
    <2>3. CASE chip.port = ports[port_try]
      <3>1. /\ chip.port # 0 /\ Entered(ports[port_try])
        BY <1>3, <2>3 DEF Probe
      <3>2. /\ sio_pc' = "detect" /\ mode' = TRUE
            /\ in_sio_cfgmode' = TRUE /\ port_internal' = chip.port
        BY <1>3, <2>3, <3>1 DEF Probe
      <3>3. QED
        BY <2>1, <2>2, <3>1, <3>2
    <2>4. CASE chip.port # ports[port_try]
      BY <1>3, <2>1, <2>2, <2>4 DEF Probe
    <2>5. QED
      BY <2>3, <2>4
  <1>4. CASE Detect
    BY <1>4 DEF Detect
  <1>5. CASE SelectLdn \/ RestoreLdn
    BY <1>5 DEF SelectLdn, RestoreLdn, LdnInv
  <1>6. CASE SioName
    <2>1. /\ mode = in_sio_cfgmode /\ port_internal = chip.port
          /\ chip.port # 0 /\ Entered(port_internal)
      BY <1>6 DEF SioName
    <2>2. ReadInMode'
      BY <1>6, <2>1 DEF SioName, Unknown
    <2>3. mode' = in_sio_cfgmode'
      BY <1>6, <2>1 DEF SioName
    <2>4. QED
      BY <1>6, <2>1, <2>2, <2>3 DEF SioName
  <1>7. CASE Destroy
    BY <1>7 DEF Destroy
  <1>8. CASE \/ FwVersion \/ Clear \/ Send \/ Unwedge \/ UnwedgeSend
             \/ Answered \/ MbxPoll \/ GivesUp
    <2>1. UNCHANGED <<machine, chipVars, statics, ended>>
      BY <1>8 DEF FwVersion, Clear, Send, Unwedge, UnwedgeSend, Answered,
         MbxPoll, GivesUp, sioHistory
    <2>2. /\ sio_pc \in Found \ {"detect", "select", "restore"}
          /\ sio_pc' \in Found \ {"detect", "select", "restore"}
      BY <1>8 DEF FwVersion, Clear, Send, Unwedge, UnwedgeSend, Answered,
         MbxPoll, GivesUp, AfterTry
    <2>3. QED
      BY <2>1, <2>2
  <1>9. CASE MbxTakes \/ MbxAnswers
    <2>1. UNCHANGED <<machine, chipVars, sio_pc, statics, port_try, ended>>
      BY <1>9 DEF MbxTakes, MbxAnswers, sioLocals, sioHistory
    <2>2. QED
      BY <2>1
  <1>10. CASE SioKilled
    BY <1>10 DEF SioKilled
  <1>11. QED
    BY <1>1, <1>2, <1>3, <1>4, <1>5, <1>6, <1>7, <1>8, <1>9, <1>10
       DEF SioNext, SioStep

(* The logical device.                                                     *)
LEMMA LdnStep == LdnInv /\ [SioNext]_sioVars => LdnInv'
  <1> SUFFICES ASSUME LdnInv, [SioNext]_sioVars PROVE LdnInv'
    OBVIOUS
  <1> USE DEF LdnInv, SelectionRestored, chipVars
  <1>1. CASE UNCHANGED sioVars
    BY <1>1 DEF sioVars, sioLocals, sioHistory
  <1>2. CASE SioStart
    BY <1>2 DEF SioStart
  <1>3. CASE Probe \/ Detect
    BY <1>3 DEF Probe, Detect, sioLocals, sioHistory
  <1>4. CASE SelectLdn \/ RestoreLdn
    BY <1>4 DEF SelectLdn, RestoreLdn, sioLocals, sioHistory
  <1>5. CASE SioName \/ Destroy
    BY <1>5 DEF SioName, Destroy, sioLocals, sioHistory
  <1>6. CASE \/ FwVersion \/ Clear \/ Send \/ Unwedge \/ UnwedgeSend
             \/ Answered \/ MbxPoll \/ GivesUp
    <2>1. UNCHANGED <<ldn, ldn_start>>
      BY <1>6 DEF FwVersion, Clear, Send, Unwedge, UnwedgeSend, Answered,
         MbxPoll, GivesUp, sioHistory
    <2>2. sio_pc \notin {"restore", "off"} /\ sio_pc' \notin {"restore", "off"}
      BY <1>6 DEF FwVersion, Clear, Send, Unwedge, UnwedgeSend, Answered,
         MbxPoll, GivesUp, AfterTry
    <2>3. QED
      BY <2>1, <2>2
  <1>7. CASE MbxTakes \/ MbxAnswers
    BY <1>7 DEF MbxTakes, MbxAnswers, sioLocals, sioHistory
  <1>8. CASE SioKilled
    BY <1>8 DEF SioKilled
  <1>9. QED
    BY <1>1, <1>2, <1>3, <1>4, <1>5, <1>6, <1>7, <1>8 DEF SioNext, SioStep

(* The mailbox.                                                            *)
LEMMA MailboxStep ==
  SioTypes /\ MailboxInv /\ [SioNext]_sioVars => MailboxInv'
  <1> SUFFICES ASSUME SioTypes, MailboxInv, [SioNext]_sioVars
               PROVE  MailboxInv'
    OBVIOUS
  <1> USE DEF SioTypes, MailboxInv, VersionTrue, machine, mailbox, sioLocals,
        sioHistory
  <1>1. CASE UNCHANGED sioVars
    BY <1>1 DEF sioVars
  <1>2. CASE SioStart
    BY <1>2 DEF SioStart
  <1>3. CASE Probe \/ Detect
    BY <1>3 DEF Probe, Detect
  <1>4. CASE SelectLdn \/ RestoreLdn
    BY <1>4 DEF SelectLdn, RestoreLdn
  <1>5. CASE SioName \/ Destroy
    BY <1>5 DEF SioName, Destroy
  <1>6. CASE FwVersion
    BY <1>6 DEF FwVersion
  <1>7. CASE Clear
    BY <1>7 DEF Clear
  <1>8. CASE Send
    BY <1>8 DEF Send
  <1>9. CASE Unwedge \/ UnwedgeSend
    BY <1>9 DEF Unwedge, UnwedgeSend
  <1>10. CASE Answered
    BY <1>10 DEF Answered, AfterTry, NextTry
  <1>11. CASE MbxPoll
    BY <1>11 DEF MbxPoll
  <1>12. CASE GivesUp
    BY <1>12 DEF GivesUp, AfterTry, NextTry
  <1>13. CASE MbxTakes
    BY <1>13 DEF MbxTakes
  <1>14. CASE MbxAnswers
    BY <1>14 DEF MbxAnswers
  <1>15. CASE SioKilled
    BY <1>15 DEF SioKilled
  <1>16. QED
    BY <1>1, <1>2, <1>3, <1>4, <1>5, <1>6, <1>7, <1>8, <1>9, <1>10, <1>11,
       <1>12, <1>13, <1>14, <1>15 DEF SioNext, SioStep

(* The inductive invariant.                                                *)
LEMMA SioInvariant == SioSpec => []SioInv
  <1>1. SioInit => SioInv
    <2> SUFFICES ASSUME SioInit PROVE SioInv
      OBVIOUS
    <2>1. SioTypes
      BY SuperIoAssumption DEF SioInit, SioTypes, PCs
    <2>2. ModeInv
      BY DEF SioInit, ModeInv, NoChipMissed, ConfigLeft, ReadInMode, Found,
         NoId
    <2>3. LdnInv
      BY DEF SioInit, LdnInv, SelectionRestored
    <2>4. MailboxInv
      BY DEF SioInit, MailboxInv, VersionTrue
    <2>5. QED
      BY <2>1, <2>2, <2>3, <2>4 DEF SioInv
  <1>2. SioInv /\ [SioNext]_sioVars => SioInv'
    BY SioTypesStep, ModeStep, LdnStep, MailboxStep DEF SioInv
  <1>3. QED
    BY <1>1, <1>2, PTL DEF SioSpec

(* The types of all variables, in groups: the chip and its mailbox, ...    *)
ChipTypes ==
  /\ board \in Boards /\ chip \in Chips
  /\ mode \in BOOLEAN /\ ldn \in {"other", "mbx"}
  /\ ldn_orig \in {"other", "mbx"} /\ ldn_start \in {"other", "mbx"}
  /\ cmd \in {"none", "version", "exit"}
  /\ mbx_data \in {"clear", "version", "End_Mode", "result"}
  /\ job \in {"none", "version", "exit"}
  /\ passthru \in BOOLEAN

LEMMA ChipTypesStep == ChipTypes /\ [SioNext]_sioVars => ChipTypes'
  <1> SUFFICES ASSUME ChipTypes, [SioNext]_sioVars PROVE ChipTypes'
    OBVIOUS
  <1> USE DEF ChipTypes, machine, chipVars, mailbox, statics,
        sioLocals, sioHistory
  <1>1. CASE UNCHANGED sioVars
    BY <1>1 DEF sioVars
  <1>2. CASE SioStart
    BY <1>2 DEF SioStart, FreshStatics, NoId
  <1>3. CASE Probe
    BY <1>3 DEF Probe, Entered, ports
  <1>4. CASE Detect \/ SelectLdn \/ RestoreLdn
    BY <1>4 DEF Detect, SelectLdn, RestoreLdn
  <1>5. CASE SioName \/ Destroy
    BY <1>5 DEF SioName, Destroy, Entered, Exited
  <1>6. CASE FwVersion \/ Clear \/ Send \/ Unwedge \/ UnwedgeSend
    BY <1>6 DEF FwVersion, Clear, Send, Unwedge, UnwedgeSend
  <1>7. CASE Answered
    BY <1>7 DEF Answered, AfterTry, NextTry
  <1>8. CASE MbxPoll
    BY <1>8 DEF MbxPoll
  <1>9. CASE GivesUp
    BY <1>9 DEF GivesUp, AfterTry, NextTry
  <1>10. CASE MbxTakes \/ MbxAnswers \/ SioKilled
    BY <1>10 DEF MbxTakes, MbxAnswers, SioKilled
  <1>11. QED
    BY <1>1, <1>2, <1>3, <1>4, <1>5, <1>6, <1>7, <1>8, <1>9, <1>10
       DEF SioNext, SioStep

(* ... the static variables of mosys, ...                                  *)
StaticTypes ==
  /\ in_sio_cfgmode \in BOOLEAN
  /\ port_try \in {1, 2}
  /\ port_internal \in {0, 46, 78} /\ ec_port \in {0, 46, 78}
  /\ mbx_idx \in {"unset", "mailbox", "garbage"}
  /\ sio \in [done : BOOLEAN, id : superio_ids \cup {Unknown}]

LEMMA StaticTypesStep == StaticTypes /\ [SioNext]_sioVars => StaticTypes'
  <1> SUFFICES ASSUME StaticTypes, [SioNext]_sioVars PROVE StaticTypes'
    OBVIOUS
  <1> USE DEF StaticTypes, machine, chipVars, mailbox, statics,
        sioLocals, sioHistory
  <1>1. CASE UNCHANGED sioVars
    BY <1>1 DEF sioVars
  <1>2. CASE SioStart
    BY <1>2 DEF SioStart, FreshStatics, NoId
  <1>3. CASE Probe
    BY <1>3 DEF Probe, Entered, ports
  <1>4. CASE Detect \/ SelectLdn \/ RestoreLdn
    BY <1>4 DEF Detect, SelectLdn, RestoreLdn
  <1>5. CASE SioName
    <2>1. sio' \in [done : BOOLEAN, id : superio_ids \cup {Unknown}]
      BY <1>5 DEF SioName
    <2>2. in_sio_cfgmode' \in BOOLEAN
      BY <1>5 DEF SioName
    <2>3. UNCHANGED <<port_try, port_internal, ec_port, mbx_idx>>
      BY <1>5 DEF SioName
    <2>4. QED
      BY <2>1, <2>2, <2>3
  <1>6. CASE FwVersion \/ Clear \/ Send \/ Unwedge \/ UnwedgeSend
    <2>1. UNCHANGED <<statics, port_try>>
      BY <1>6 DEF FwVersion, Clear, Send, Unwedge, UnwedgeSend
    <2>2. QED
      BY <2>1
  <1>7. CASE Answered
    BY <1>7 DEF Answered, AfterTry, NextTry
  <1>8. CASE MbxPoll
    BY <1>8 DEF MbxPoll
  <1>9. CASE GivesUp
    BY <1>9 DEF GivesUp, AfterTry, NextTry
  <1>10. CASE MbxTakes \/ MbxAnswers \/ SioKilled
    BY <1>10 DEF MbxTakes, MbxAnswers, SioKilled
  <1>11. CASE Destroy
    BY <1>11 DEF Destroy, Exited
  <1>12. QED
    BY <1>1, <1>2, <1>3, <1>4, <1>5, <1>6, <1>7, <1>8, <1>9, <1>10, <1>11
       DEF SioNext, SioStep

(* ... what a process has come to, ...                                     *)
ResultTypes ==
  /\ mbx_version \in {"unread", "", "version", "End"}
  /\ ended \in {"exit", "killed"}
  /\ late \in BOOLEAN

LEMMA ResultTypesStep == ResultTypes /\ [SioNext]_sioVars => ResultTypes'
  <1> SUFFICES ASSUME ResultTypes, [SioNext]_sioVars PROVE ResultTypes'
    OBVIOUS
  <1> USE DEF ResultTypes, machine, chipVars, mailbox, statics,
        sioLocals, sioHistory
  <1>1. CASE UNCHANGED sioVars
    BY <1>1 DEF sioVars
  <1>2. CASE SioStart
    BY <1>2 DEF SioStart, FreshStatics, NoId
  <1>3. CASE Probe
    BY <1>3 DEF Probe, Entered, ports
  <1>4. CASE Detect \/ SelectLdn \/ RestoreLdn
    BY <1>4 DEF Detect, SelectLdn, RestoreLdn
  <1>5. CASE SioName \/ Destroy
    BY <1>5 DEF SioName, Destroy, Entered, Exited
  <1>6. CASE FwVersion \/ Clear \/ Send \/ Unwedge \/ UnwedgeSend
    BY <1>6 DEF FwVersion, Clear, Send, Unwedge, UnwedgeSend
  <1>7. CASE Answered
    BY <1>7 DEF Answered, AfterTry, NextTry
  <1>8. CASE MbxPoll
    BY <1>8 DEF MbxPoll
  <1>9. CASE GivesUp
    BY <1>9 DEF GivesUp, AfterTry, NextTry
  <1>10. CASE MbxTakes \/ MbxAnswers \/ SioKilled
    BY <1>10 DEF MbxTakes, MbxAnswers, SioKilled
  <1>11. QED
    BY <1>1, <1>2, <1>3, <1>4, <1>5, <1>6, <1>7, <1>8, <1>9, <1>10
       DEF SioNext, SioStep

(* ... and what is counted.                                                *)
CountTypes ==
  /\ polls \in 0 .. MaxPolls
  /\ tries \in 0 .. 3
  /\ runs \in 0 .. MaxRuns

LEMMA CountTypesStep == CountTypes /\ [SioNext]_sioVars => CountTypes'
  <1> SUFFICES ASSUME CountTypes, [SioNext]_sioVars PROVE CountTypes'
    OBVIOUS
  <1> DEFINE counts == <<polls, tries, runs>>
  <1> USE DEF CountTypes
  <1>0. MaxPolls \in Nat /\ MaxRuns \in Nat
    BY SuperIoAssumption
  <1>1. CASE UNCHANGED counts
    BY <1>1
  <1>2. CASE SioStart
    BY <1>0, <1>2 DEF SioStart
  <1>3. CASE Destroy \/ SioKilled
    BY <1>3 DEF Destroy, SioKilled, sioLocals
  <1>4. CASE FwVersion \/ Clear \/ Send \/ UnwedgeSend
    <2>1. runs' = runs /\ polls' \in {polls, 0} /\ tries' \in {tries, 1}
      BY <1>4 DEF FwVersion, Clear, Send, UnwedgeSend, sioHistory
    <2>2. QED
      BY <1>0, <2>1
  <1>5. CASE Answered \/ GivesUp
    <2>1. UNCHANGED <<polls, runs>>
      BY <1>5 DEF Answered, GivesUp, sioHistory
    <2>2. UNCHANGED tries \/ NextTry
      BY <1>5 DEF Answered, GivesUp
    <2>3. tries' \in 0 .. 3
      BY <2>2 DEF NextTry
    <2>4. QED
      BY <2>1, <2>3
  <1>6. CASE MbxPoll
    <2>1. UNCHANGED <<tries, runs>>
      BY <1>6 DEF MbxPoll, sioHistory
    <2>2. polls < MaxPolls /\ polls' = polls + 1
      BY <1>6 DEF MbxPoll
    <2>3. QED
      BY <1>0, <2>1, <2>2
  <1>7. CASE \/ UNCHANGED sioVars \/ Probe \/ Detect \/ SelectLdn \/ RestoreLdn
             \/ SioName \/ Unwedge \/ MbxTakes \/ MbxAnswers
    <2>1. UNCHANGED counts
      BY <1>7 DEF Probe, Detect, SelectLdn, RestoreLdn, SioName, Unwedge,
         MbxTakes, MbxAnswers, sioLocals, sioHistory, sioVars
    <2>2. QED
      BY <1>1, <2>1
  <1>9. QED
    BY <1>2, <1>3, <1>4, <1>5, <1>6, <1>7 DEF SioNext, SioStep

(* The variables of the super I/O, of the EC and of mosys keep their types *)
(* and bounds.                                                             *)
THEOREM SioTypeCorrect == SioSpec => []SioTypeOK
  <1>1. SioInit => ChipTypes /\ StaticTypes /\ ResultTypes /\ CountTypes
    <2> SUFFICES ASSUME SioInit
                 PROVE  ChipTypes /\ StaticTypes /\ ResultTypes /\ CountTypes
      OBVIOUS
    <2>1. MaxPolls \in Nat /\ MaxRuns \in Nat
      BY SuperIoAssumption
    <2>2. ChipTypes
      BY DEF SioInit, ChipTypes
    <2>3. StaticTypes
      BY DEF SioInit, StaticTypes, NoId
    <2>4. CountTypes
      BY <2>1 DEF SioInit, CountTypes
    <2>5. ResultTypes
      BY DEF SioInit, ResultTypes
    <2>6. QED
      BY <2>2, <2>3, <2>4, <2>5
  <1>2. SioTypes /\ ChipTypes /\ StaticTypes /\ ResultTypes /\ CountTypes
          => SioTypeOK
    BY DEF SioTypes, ChipTypes, StaticTypes, ResultTypes, CountTypes,
       SioTypeOK
  <1>3. SioInv => SioTypes
    BY DEF SioInv
  <1>4. QED
    BY <1>1, <1>2, <1>3, SioInvariant, ChipTypesStep, StaticTypesStep,
       ResultTypesStep, CountTypesStep, PTL DEF SioSpec

(* A process that ends leaves configuration mode.                          *)
THEOREM ModeLeft == SioSpec => []ConfigLeft
  BY SioInvariant, PTL DEF SioInv, ModeInv

(* A chip that mosys knows is found behind either port.                    *)
THEOREM ChipFound == SioSpec => []NoChipMissed
  BY SioInvariant, PTL DEF SioInv, ModeInv

(* The selected logical device is given back.                              *)
THEOREM LdnGivenBack == SioSpec => []SelectionRestored
  BY SioInvariant, PTL DEF SioInv, LdnInv

(* Configuration registers are read in configuration mode only.            *)
THEOREM ReadsMeanSomething == SioSpec => []ReadInMode
  BY SioInvariant, PTL DEF SioInv, ModeInv

(* What a process does to the chip, for any chips, polls and processes.    *)
THEOREM ChipGivenBack == SioSpec => []ChipKept
  <1>1. NoChipMissed /\ ReadInMode /\ ConfigLeft /\ SelectionRestored
          => ChipKept
    BY DEF ChipKept
  <1>2. QED
    BY <1>1, ModeLeft, ChipFound, LdnGivenBack, ReadsMeanSomething, PTL

(* No answer but the EC's version is ever taken for its version.           *)
THEOREM TrueVersion == SioSpec => []VersionTrue
  BY SioInvariant, PTL DEF SioInv, MailboxInv
-----------------------------------------------------------------------------
(* A board has at least one strap pin.                                     *)
LEMMA PinsAreSeq ==
  ASSUME wiring \in Wirings
  PROVE  /\ wiring.pins \in Seq(LevelsWired) /\ Len(wiring.pins) \in Nat
         /\ Len(wiring.pins) > 0
         /\ Pins = 1 .. Len(wiring.pins)
         /\ \A p \in Pins : wiring.pins[p] \in LevelsWired
         /\ wiring.pull \in Pulls
  BY StrapsAssumption DEF Pins

(* Every configuration is a number.                                        *)
LEMMA ConfigIsNumber ==
  ASSUME NEW w \in Wirings, NEW values
  PROVE  board_config(w.board, values) \in Int
  <1>1. \A row \in id_map(w.board) : row[2] \in Int
    <2>1. \A row \in snow_id_map : row[2] \in Int
      BY DEF snow_id_map, Reserved
    <2>2. \A row \in spring_id_map : row[2] \in Int
      BY DEF spring_id_map
    <2>3. \A row \in skate_id_map : row[2] \in Int
      BY DEF skate_id_map
    <2>4. \A row \in peach_pit_id_map : row[2] \in Int
      BY DEF peach_pit_id_map
    <2>5. \A row \in peach_kirby_id_map : row[2] \in Int
      BY DEF peach_kirby_id_map, Reserved
    <2>6. \A row \in peach_pi_id_map : row[2] \in Int
      BY DEF peach_pi_id_map
    <2>7. w.board \in {"Snow", "Spring", "Skate", "Pit", "Kirby", "Pi"}
      BY StrapsAssumption
    <2>8. QED
      BY <2>1, <2>2, <2>3, <2>4, <2>5, <2>6, <2>7 DEF id_map
  <1>2. UnknownConfig \in Int /\ Reserved \in Int
    BY DEF UnknownConfig, Reserved
  <1>3. QED
    BY <1>1, <1>2 DEF board_config

(* What the return of exynos_read_gpio_mvl() does to the types.            *)
LEMMA ReturnsTypes ==
  ASSUME StrapsTypeOK, NEW value \in {0, 1, Float, Err}, Returns(value),
         pud' \in [Pins -> Pulls], abandoned' \subseteq Pins
  PROVE  StrapsTypeOK'
  <1>1. wiring' = wiring /\ Pins' = Pins
    BY DEF Returns, Pins
  <1>2. config' \in Int
    BY ConfigIsNumber DEF Returns, StrapsTypeOK
  <1>3. pin' \in Pins
    BY PinsAreSeq DEF Returns, StrapsTypeOK
  <1>4. levels' \in Seq({0, 1, Float, Err})
    BY DEF Returns, StrapsTypeOK
  <1>5. QED
    BY <1>1, <1>2, <1>3, <1>4 DEF Returns, StrapsTypeOK

LEMMA LevelIsBit == \A p, pull : Level(p, pull) \subseteq {0, 1}
  BY DEF Level

LEMMA StrapsTypeInit == StrapsInit => StrapsTypeOK
  <1> SUFFICES ASSUME StrapsInit PROVE StrapsTypeOK
    OBVIOUS
  <1>1. levels \in Seq({0, 1, Float, Err})
    BY DEF StrapsInit
  <1>2. /\ wiring.pull \in Pulls /\ 1 \in Pins
        /\ pud \in [Pins -> Pulls] /\ pud_orig \in [Pins -> Pulls]
    BY PinsAreSeq DEF StrapsInit
  <1>3. /\ wiring \in Wirings /\ mvl_pc = "idle" /\ pin = 1 /\ vpu = 0
        /\ failing \in BOOLEAN /\ abandoned = {}
    BY Zenon DEF StrapsInit
  <1>4. config \in Int
    BY DEF StrapsInit, UnknownConfig
  <1>5. QED
    BY <1>1, <1>2, <1>3, <1>4 DEF StrapsTypeOK

LEMMA StrapsTypeStep ==
  StrapsTypeOK /\ [StrapsNext]_strapsVars => StrapsTypeOK'
  <1> SUFFICES ASSUME StrapsTypeOK, [StrapsNext]_strapsVars
               PROVE  StrapsTypeOK'
    OBVIOUS
  <1> USE DEF Pulls, Up, Down, None
  <1>0. /\ Pins = 1 .. Len(wiring.pins) /\ 1 \in Pins /\ pin \in Pins
        /\ (wiring' = wiring => Pins' = Pins)
    BY PinsAreSeq DEF StrapsTypeOK, Pins
  <1>1. CASE StrapsStart
    <2>1. levels' \in Seq({0, 1, Float, Err}) /\ config' \in Int
      BY <1>1 DEF StrapsStart, UnknownConfig
    <2>2. QED
      BY <1>0, <1>1, <2>1 DEF StrapsStart, StrapsTypeOK
  <1>2. CASE PullUp
    BY <1>0, <1>2 DEF PullUp, StrapsTypeOK
  <1>3. CASE PullDown
    BY <1>0, <1>3, LevelIsBit DEF PullDown, StrapsTypeOK
  <1>4. CASE Restore
    <2>1. PICK value \in {0, 1, Float, Err} : Returns(value)
      BY <1>4, LevelIsBit DEF Restore, StrapsTypeOK
    <2>2. pud' = pud_orig /\ abandoned' = abandoned
      BY <1>4 DEF Restore
    <2>3. QED
      BY <2>1, <2>2, ReturnsTypes DEF StrapsTypeOK
  <1>5. CASE Invalid \/ ReadFails
    <2>1. Returns(Err) /\ pud' = pud /\ Abandons
      BY <1>5 DEF Invalid, ReadFails
    <2>2. abandoned' \subseteq Pins
      BY <1>0, <2>1 DEF Abandons, StrapsTypeOK
    <2>3. QED
      BY <2>1, <2>2, ReturnsTypes DEF StrapsTypeOK
  <1>6. CASE StrapsKilled
    BY <1>0, <1>6 DEF StrapsKilled, Abandons, StrapsTypeOK
  <1>7. CASE UNCHANGED strapsVars
    BY <1>7 DEF strapsVars, StrapsTypeOK, Pins
  <1>8. QED
    BY <1>1, <1>2, <1>3, <1>4, <1>5, <1>6, <1>7
       DEF StrapsNext, StrapsStep
-----------------------------------------------------------------------------
(* The register that will be written back is as the firmware left it, but  *)
(* for pins that were abandoned.                                           *)
PullsInv ==
  /\ PullsKept
  /\ HalfWay =>
       \A p \in Pins : pud_orig[p] # wiring.pull => p \in abandoned

LEMMA PullsStep ==
  StrapsTypeOK /\ PullsInv /\ [StrapsNext]_strapsVars => PullsInv'
  <1> SUFFICES ASSUME StrapsTypeOK, PullsInv, [StrapsNext]_strapsVars
               PROVE  PullsInv'
    OBVIOUS
  <1> USE DEF PullsInv, PullsKept, HalfWay
  <1>0. wiring' = wiring /\ Pins' = Pins
    BY DEF StrapsNext, StrapsStep, StrapsStart, PullUp, PullDown, Restore,
           Invalid, ReadFails, StrapsKilled, Returns, strapsVars, Pins
  <1>1. CASE StrapsStart
    BY <1>0, <1>1 DEF StrapsStart
  <1>2. CASE PullUp
    BY <1>0, <1>2 DEF PullUp, StrapsTypeOK
  <1>3. CASE PullDown
    BY <1>0, <1>3 DEF PullDown, StrapsTypeOK
  <1>4. CASE Restore
    <2>1. pud' = pud_orig /\ mvl_pc = "down" /\ abandoned' = abandoned
      BY <1>4 DEF Restore
    <2>2. mvl_pc' \in {"con", "known"}
      BY <1>4 DEF Restore, Returns
    <2>3. QED
      BY <1>0, <2>1, <2>2
  <1>5. CASE Invalid \/ ReadFails
    <2>1. Returns(Err) /\ pud' = pud /\ Abandons
      BY <1>5 DEF Invalid, ReadFails
    <2>2. mvl_pc' \in {"con", "known"}
      BY <2>1 DEF Returns
    <2>3. QED
      BY <1>0, <2>1, <2>2 DEF Abandons
  <1>6. CASE StrapsKilled
    BY <1>0, <1>6 DEF StrapsKilled, Abandons
  <1>7. CASE UNCHANGED strapsVars
    BY <1>0, <1>7 DEF strapsVars
  <1>8. QED
    BY <1>1, <1>2, <1>3, <1>4, <1>5, <1>6, <1>7
       DEF StrapsNext, StrapsStep
-----------------------------------------------------------------------------
(* A process that reads has one level for each pin before, each of them    *)
(* one that the pin may show or an error, and the pull it has asked for.   *)
LevelsInv ==
  /\ mvl_pc # "idle" =>
       /\ Len(levels) = IF mvl_pc = "known" THEN Len(wiring.pins) ELSE pin - 1
       /\ \A k \in DOMAIN levels : levels[k] \in Seen(k) \cup {Err}
       /\ failing <=> \E k \in DOMAIN levels : levels[k] = Err
  /\ HalfWay => wiring.pins[pin] # Output
  /\ mvl_pc = "up" => pud[pin] = Up
  /\ mvl_pc = "down" => pud[pin] = Down /\ vpu \in Level(pin, Up)
  /\ mvl_pc = "known" => config = board_config(wiring.board, levels)

LEMMA ReturnsLevels ==
  ASSUME StrapsTypeOK, LevelsInv, mvl_pc \in {"con", "up", "down"},
         NEW value \in {0, 1, Float, Err}, value \in Seen(pin) \cup {Err},
         Returns(value)
  PROVE  LevelsInv'
  <1>0. /\ wiring' = wiring /\ Pins' = Pins /\ \A p : Seen(p)' = Seen(p)
        /\ mvl_pc' \in {"con", "known"}
    BY DEF Returns, Pins, Seen
  <1>1. /\ Pins = 1 .. Len(wiring.pins) /\ Len(wiring.pins) \in Nat
        /\ pin \in Nat /\ pin <= Len(wiring.pins)
    BY PinsAreSeq DEF StrapsTypeOK
  <1>2. /\ levels \in Seq({0, 1, Float, Err}) /\ Len(levels) = pin - 1
        /\ levels' = Append(levels, value)
    BY DEF StrapsTypeOK, LevelsInv, Returns
  <1>3. /\ Len(levels') = pin /\ DOMAIN levels' = 1 .. pin
        /\ levels'[pin] = value
        /\ \A k \in 1 .. pin - 1 : levels'[k] = levels[k]
        /\ DOMAIN levels = 1 .. pin - 1
    BY <1>1, <1>2
  <1>4. \A k \in DOMAIN levels' : levels'[k] \in Seen(k) \cup {Err}
    BY <1>1, <1>3 DEF LevelsInv
  <1>5. failing' <=> \E k \in DOMAIN levels' : levels'[k] = Err
    <2>1. failing' = (failing \/ value = Err)
      BY DEF Returns
    <2>2. failing <=> \E k \in 1 .. pin - 1 : levels[k] = Err
      BY <1>3 DEF LevelsInv
    <2>3. 1 .. pin = (1 .. pin - 1) \cup {pin}
      BY <1>1, PinsAreSeq DEF StrapsTypeOK
    <2>4. (\E k \in 1 .. pin : levels'[k] = Err)
            <=> ((\E k \in 1 .. pin - 1 : levels'[k] = Err)
                   \/ levels'[pin] = Err)
      BY <2>3
    <2>5. QED
      BY <1>3, <2>1, <2>2, <2>4
  <1>6. Len(levels') = IF mvl_pc' = "known" THEN Len(wiring.pins)
                                            ELSE pin' - 1
    BY <1>1, <1>3 DEF Returns
  <1>7. mvl_pc' = "known" => config' = board_config(wiring.board, levels')
    BY <1>2 DEF Returns
  <1>8. QED
    BY <1>0, <1>4, <1>5, <1>6, <1>7 DEF LevelsInv, HalfWay

LEMMA LevelsStep ==
  StrapsTypeOK /\ LevelsInv /\ [StrapsNext]_strapsVars => LevelsInv'
  <1> SUFFICES ASSUME StrapsTypeOK, LevelsInv, [StrapsNext]_strapsVars
               PROVE  LevelsInv'
    OBVIOUS
  <1>0. wiring' = wiring /\ Pins' = Pins /\ (\A p : Seen(p)' = Seen(p))
        /\ \A p, pull : Level(p, pull)' = Level(p, pull)
    BY DEF StrapsNext, StrapsStep, StrapsStart, PullUp, PullDown, Restore,
           Invalid, ReadFails, StrapsKilled, Returns, strapsVars, Pins, Seen, Level
  <1>1. CASE StrapsStart
    BY <1>0, <1>1 DEF StrapsStart, LevelsInv, HalfWay
  <1>2. CASE PullUp
    BY <1>0, <1>2 DEF PullUp, LevelsInv, HalfWay, StrapsTypeOK
  <1>3. CASE PullDown
    BY <1>0, <1>3 DEF PullDown, LevelsInv, HalfWay, StrapsTypeOK
  <1>4. CASE Restore
    <2>1. PICK vpd \in Level(pin, pud[pin]) :
            /\ ~ (vpu = 0 /\ vpd = 1)
            /\ \E value \in {IF vpu = vpd THEN vpu ELSE Float, Err} :
                 Returns(value)
      BY <1>4 DEF Restore
    <2>2. PICK value \in {IF vpu = vpd THEN vpu ELSE Float, Err} :
            Returns(value)
      BY <2>1
    <2>3. /\ mvl_pc = "down" /\ pud[pin] = Down /\ vpu \in Level(pin, Up)
          /\ wiring.pins[pin] # Output
          /\ wiring.pins[pin] \in LevelsWired
      BY <1>4, PinsAreSeq DEF Restore, LevelsInv, HalfWay, StrapsTypeOK
    <2>4. vpd \in {0, 1} /\ vpu \in {0, 1}
      BY <2>1, <2>3, LevelIsBit
    <2>5. value \in Seen(pin) \cup {Err}
      BY <2>1, <2>2, <2>3, <2>4
         DEF Level, Seen, LevelsWired, Float, Noise, Output, Up, Down
    <2>6. value \in {0, 1, Float, Err}
      BY <2>2, <2>4
    <2>7. QED
      BY <2>2, <2>3, <2>5, <2>6, ReturnsLevels
  <1>5. CASE Invalid \/ ReadFails
    <2>1. Returns(Err) /\ mvl_pc \in {"con", "up", "down"}
      BY <1>5 DEF Invalid, ReadFails
    <2>2. QED
      BY <2>1, ReturnsLevels
  <1>6. CASE StrapsKilled
    BY <1>0, <1>6 DEF StrapsKilled, LevelsInv, HalfWay
  <1>7. CASE UNCHANGED strapsVars
    BY <1>0, <1>7 DEF strapsVars, LevelsInv, HalfWay
  <1>8. QED
    BY <1>1, <1>2, <1>3, <1>4, <1>5, <1>6, <1>7
       DEF StrapsNext, StrapsStep

StrapsInv == StrapsTypeOK /\ PullsInv /\ LevelsInv

LEMMA StrapsInvariant == StrapsSpec => []StrapsInv
  <1>1. StrapsInit => StrapsInv
    <2> SUFFICES ASSUME StrapsInit PROVE StrapsInv
      OBVIOUS
    <2>1. StrapsTypeOK
      BY StrapsTypeInit
    <2>2. PullsInv
      BY DEF StrapsInit, PullsInv, PullsKept, HalfWay
    <2>3. LevelsInv
      BY DEF StrapsInit, LevelsInv, HalfWay
    <2>4. QED
      BY <2>1, <2>2, <2>3 DEF StrapsInv
  <1>2. StrapsInv /\ [StrapsNext]_strapsVars => StrapsInv'
    BY StrapsTypeStep, PullsStep, LevelsStep DEF StrapsInv
  <1>3. QED
    BY <1>1, <1>2, PTL DEF StrapsSpec

(* The variables of the reading of the straps keep their types.            *)
THEOREM StrapsTypeCorrect == StrapsSpec => []StrapsTypeOK
  BY StrapsInvariant, PTL DEF StrapsInv

(* Only abandoned pins and the pin that is read have another pull than the *)
(* firmware gave them.                                                     *)
THEOREM PullsGivenBack == StrapsSpec => []PullsKept
  BY StrapsInvariant, PTL DEF StrapsInv, PullsInv

(* No board is taken for another one, however many processes were killed   *)
(* while they read its straps.                                             *)
THEOREM TrueBoard == StrapsSpec => []BoardTrue
  <1>1. StrapsInv => BoardTrue
    <2> SUFFICES ASSUME StrapsInv, mvl_pc = "known"
                 PROVE  \/ failing /\ config = UnknownConfig
                        \/ /\ ~failing
                           /\ \E values \in [Pins -> {0, 1, Float}] :
                                /\ \A p \in Pins : values[p] \in Seen(p)
                                /\ config
                                     = board_config(wiring.board, values)
      BY DEF BoardTrue
    <2>1. /\ levels \in Seq({0, 1, Float, Err}) /\ DOMAIN levels = Pins
          /\ config = board_config(wiring.board, levels)
          /\ \A k \in DOMAIN levels : levels[k] \in Seen(k) \cup {Err}
          /\ failing <=> \E k \in DOMAIN levels : levels[k] = Err
      BY PinsAreSeq DEF StrapsInv, StrapsTypeOK, LevelsInv
    <2>2. CASE failing
      BY <2>1, <2>2 DEF board_config
    <2>3. CASE ~failing
      <3>1. levels \in [Pins -> {0, 1, Float}]
        BY <2>1, <2>3
      <3>2. QED
        BY <2>1, <2>3, <3>1
    <2>4. QED
      BY <2>2, <2>3
  <1>2. QED
    BY <1>1, StrapsInvariant, PTL

(* A Peach has the ranks that its options say.                             *)
THEOREM RanksAreOptions == StrapsSpec => []RanksOfConfig
  <1>1. ASSUME NEW b \in {"Pit", "Pi"}, NEW values,
               board_config(b, values) # UnknownConfig
        PROVE  \E row \in id_map(b) : board_config(b, values) = row[2]
    <2>1. b \notin {"Spring", "Skate"}
      OBVIOUS
    <2>2. QED
      BY <1>1, <2>1 DEF board_config
  <1>2. \A row \in peach_pit_id_map :
          IF row[2] % 10 \in {2, 3, 6, 7}
          THEN row[2] \in TwoRanks \ OneRank
          ELSE row[2] \in OneRank \ TwoRanks
    BY DEF peach_pit_id_map, TwoRanks, OneRank
  <1>3. \A row \in peach_pi_id_map :
          IF row[2] % 10 \in {2, 3, 6, 7}
          THEN row[2] \in TwoRanks \ OneRank
          ELSE row[2] \in OneRank \ TwoRanks
    BY DEF peach_pi_id_map, TwoRanks, OneRank
  <1>4. id_map("Pit") = peach_pit_id_map /\ id_map("Pi") = peach_pi_id_map
    BY DEF id_map
  <1>5. StrapsInv => RanksOfConfig
    <2> SUFFICES ASSUME StrapsInv, mvl_pc = "known", config # UnknownConfig,
                        wiring.board \in {"Pit", "Pi"}
                 PROVE  IF config % 10 \in {2, 3, 6, 7}
                        THEN config \in TwoRanks \ OneRank
                        ELSE config \in OneRank \ TwoRanks
      BY DEF RanksOfConfig
    <2>1. config = board_config(wiring.board, levels)
      BY DEF StrapsInv, LevelsInv
    <2>2. PICK row \in id_map(wiring.board) : config = row[2]
      BY <1>1, <2>1
    <2>3. QED
      BY <1>2, <1>3, <1>4, <2>2
  <1>6. QED
    BY <1>5, StrapsInvariant, PTL

(* Board, ranks and pulls are right for any wirings and deaths.            *)
THEOREM StrapsRead == StrapsSpec => []StrapsTrue
  <1>1. BoardTrue /\ PullsKept /\ RanksOfConfig => StrapsTrue
    BY DEF StrapsTrue
  <1>2. QED
    BY <1>1, TrueBoard, PullsGivenBack, RanksAreOptions, PTL
-----------------------------------------------------------------------------
(* Sets of numbers have least elements, for the selections by Min.         *)
LEMMA LeastElement ==
  ASSUME NEW S \in SUBSET Nat, S # {}
  PROVE  \E x \in S : \A y \in S : x <= y
  <1>1. PICK x \in S : \A y \in S : ~ (<<y, x>> \in OpToRel(<, Nat))
    BY NatLessThanWellFounded, WFMin
  <1>2. ASSUME NEW y \in S, y < x PROVE FALSE
    <2> DEFINE pair == <<y, x>>
    <2>1. pair \in Nat \X Nat /\ pair[1] < pair[2]
      BY <1>2
    <2> HIDE DEF pair
    <2>2. pair \in OpToRel(<, Nat)
      BY <2>1 DEF OpToRel
    <2>3. QED
      BY <1>1, <2>2 DEF pair
  <1>3. QED
    BY <1>2

LEMMA MinOfNats ==
  ASSUME NEW S \in SUBSET Nat, S # {}
  PROVE  Min(S) \in S /\ \A y \in S : Min(S) <= y
  BY LeastElement DEF Min
-----------------------------------------------------------------------------
(* Registers wrap.                                                         *)
LEMMA RegsWrap ==
  ASSUME NEW n \in Nat
  PROVE  n % NREG \in Regs
  BY I2cHandlesAssumption DEF Regs

(* A read in progress goes to the descriptor of the device asked for.      *)
ReadInv ==
  i2c_pc = "read" =>
    /\ request.dev \in I2cDevices
    /\ request.length \in 1 .. SPD_MAX_LENGTH
    /\ read <= request.length
    /\ fd \in DOMAIN slave /\ slave[fd] = request.dev

I2cInv == /\ I2cTypeOK /\ NoDescriptorLost /\ ReadInv /\ BytesOfDevice
          /\ ShortOnlyIfBroken

Full == Len(i2c_handles) >= I2C_HANDLE_MAX
FdsOf(handles) == {handles[k].fd : k \in 1 .. Len(handles)}

(* There is a descriptor for the next handle as long as there is room for  *)
(* it in the table.                                                        *)
LEMMA FdIsFree ==
  ASSUME I2cTypeOK, NoDescriptorLost, ~Full
  PROVE  FreeFd \in Fds /\ FreeFd \notin DOMAIN slave
  <1> DEFINE M == Len(i2c_handles)
             F == Fds \ DOMAIN slave
  <1>1. /\ M \in Nat /\ M < I2C_HANDLE_MAX /\ I2C_HANDLE_MAX \in Nat
    <2>1. i2c_handles \in Seq([dev : I2cDevices, fd : Fds])
      BY DEF I2cTypeOK
    <2>2. M \in Nat
      BY <2>1
    <2>3. ~(M >= I2C_HANDLE_MAX) /\ I2C_HANDLE_MAX \in Nat
      BY I2cHandlesAssumption DEF Full
    <2> HIDE DEF M
    <2>4. QED
      BY <2>2, <2>3
  <1>2. F # {}
    <2> SUFFICES ASSUME Fds \subseteq DOMAIN slave PROVE FALSE
      OBVIOUS
    <2> DEFINE g == [f \in Fds |-> CHOOSE k \in 1 .. M : i2c_handles[k].fd = f]
    <2>1. \A f \in Fds : \E k \in 1 .. M : i2c_handles[k].fd = f
      BY DEF NoDescriptorLost
    <2>2. g \in [Fds -> 1 .. M] /\ \A f \in Fds : i2c_handles[g[f]].fd = f
      BY <2>1
    <2>3. /\ IsFiniteSet(Fds) /\ Cardinality(Fds) = I2C_HANDLE_MAX + 1
      BY <1>1, FS_Interval DEF Fds
    <2>4. /\ IsFiniteSet(1 .. M) /\ Cardinality(1 .. M) = M
      <3> HIDE DEF M
      <3>1. /\ IsFiniteSet(1 .. M)
            /\ Cardinality(1 .. M) = IF 1 > M THEN 0 ELSE M - 1 + 1
        BY <1>1, FS_Interval
      <3>2. QED
        BY <1>1, <3>1
    <2> HIDE DEF g
    <2>5. \E x, y \in Fds : x # y /\ g[x] = g[y]
      BY <1>1, <2>2, <2>3, <2>4, FS_PigeonHole
    <2>6. QED
      BY <2>2, <2>5
  <1>3. F \in SUBSET Nat
    BY <1>1 DEF Fds
  <1>4. PICK f \in F : \A y \in F : f <= y
    BY <1>2, <1>3, LeastElement
  <1>5. /\ f \in Fds /\ f \notin DOMAIN slave
        /\ \A e \in Fds : e < f => e \in DOMAIN slave
    BY <1>1, <1>4 DEF Fds
  <1>6. QED
    BY <1>5 DEF FreeFd

(* i2c_open_dev() returns no handle, or one whose descriptor is open and   *)
(* that of the device; the descriptors that were open stay what they are.  *)
LEMMA Opens ==
  ASSUME I2cTypeOK, NoDescriptorLost, NEW dev \in I2cDevices,
         NEW h \in Handles, OpenDev(dev, h)
  PROVE  /\ i2c_handles' \in Seq([dev : I2cDevices, fd : Fds])
         /\ Len(i2c_handles') <= I2C_HANDLE_MAX
         /\ DOMAIN slave' \subseteq Fds
         /\ \A f \in DOMAIN slave' : slave'[f] \in I2cDevices
         /\ NoDescriptorLost'
         /\ h # 0 => /\ i2c_handles'[h].fd \in DOMAIN slave'
                     /\ i2c_handles'[h].fd \in Fds
                     /\ slave'[i2c_handles'[h].fd] = dev
  <1> DEFINE M == Len(i2c_handles)
             S == {k \in 1 .. M : IsHandleOf(i2c_handles[k], dev)}
  <1>1. /\ M \in Nat /\ I2C_HANDLE_MAX \in Nat /\ M <= I2C_HANDLE_MAX
        /\ i2c_handles \in Seq([dev : I2cDevices, fd : Fds])
        /\ DOMAIN slave \subseteq Fds
        /\ \A f \in DOMAIN slave : slave[f] \in I2cDevices
    BY I2cHandlesAssumption DEF I2cTypeOK
  <1>2. CASE h = 0 /\ UNCHANGED <<slave, i2c_handles>>
    BY <1>1, <1>2 DEF NoDescriptorLost
  <1>3. CASE /\ S # {} /\ UNCHANGED <<slave, i2c_handles>>
             /\ h = SelectInSeq(i2c_handles, LAMBDA e : IsHandleOf(e, dev))
    <2>1. S \in SUBSET Nat
      BY <1>1
    <2>2. h = Min(S)
      BY <1>3 DEF SelectInSeq
    <2>3. h \in S
      BY <1>3, <2>1, <2>2, MinOfNats
    <2>4. h \in 1 .. M /\ i2c_handles[h].dev = dev
      BY <2>3 DEF IsHandleOf
    <2>5. /\ i2c_handles[h].fd \in DOMAIN slave
          /\ slave[i2c_handles[h].fd] = dev
      BY <2>4 DEF NoDescriptorLost
    <2>6. NoDescriptorLost'
      BY <1>3 DEF NoDescriptorLost
    <2>7. QED
      BY <1>1, <1>3, <2>5, <2>6
  <1>4. CASE /\ ~Full /\ S = {}
             /\ slave' = WithFd(FreeFd, dev)
             /\ i2c_handles' =
                  Append(i2c_handles, [dev |-> dev, fd |-> FreeFd])
             /\ h = Len(i2c_handles')
    <2> DEFINE new == FreeFd
               H == i2c_handles'
    <2>1. new \in Fds /\ new \notin DOMAIN slave
      BY <1>4, FdIsFree
    <2> HIDE DEF new
    <2>2. /\ H \in Seq([dev : I2cDevices, fd : Fds]) /\ Len(H) = M + 1
          /\ \A k \in 1 .. M : H[k] = i2c_handles[k]
          /\ H[M + 1] = [dev |-> dev, fd |-> new]
      BY <1>1, <1>4, <2>1 DEF new
    <2>3. /\ DOMAIN slave' = DOMAIN slave \cup {new}
          /\ slave'[new] = dev
          /\ \A f \in DOMAIN slave : slave'[f] = slave[f]
      BY <1>4, <2>1 DEF WithFd, new
    <2>4. /\ DOMAIN slave = {i2c_handles[k].fd : k \in 1 .. M}
          /\ \A k \in 1 .. M : slave[i2c_handles[k].fd] = i2c_handles[k].dev
          /\ \A k, l \in 1 .. M :
               i2c_handles[k].dev = i2c_handles[l].dev => k = l
      BY DEF NoDescriptorLost
    <2>5. \A k \in 1 .. M : i2c_handles[k].dev # dev
      BY <1>4 DEF IsHandleOf
    <2>6. \A k \in 1 .. M + 1 : k \in 1 .. M \/ k = M + 1
      BY <1>1
    <2> HIDE DEF H
    <2>7. {H[k].fd : k \in 1 .. M + 1} = DOMAIN slave'
      <3>1. {H[k].fd : k \in 1 .. M + 1} = {H[k].fd : k \in 1 .. M} \cup {new}
        BY <1>1, <2>2, <2>6
      <3>2. {H[k].fd : k \in 1 .. M} = DOMAIN slave
        BY <2>2, <2>4
      <3>3. QED
        BY <2>3, <3>1, <3>2
    <2>8. \A k \in 1 .. M + 1 : slave'[H[k].fd] = H[k].dev
      <3>1. ASSUME NEW k \in 1 .. M
            PROVE  /\ i2c_handles[k].fd \in DOMAIN slave
                   /\ slave[i2c_handles[k].fd] = i2c_handles[k].dev
        BY <2>4
      <3>2. ASSUME NEW k \in 1 .. M
            PROVE  slave'[H[k].fd] = H[k].dev
        BY <2>2, <2>3, <3>1
      <3>3. slave'[H[M + 1].fd] = H[M + 1].dev
        BY <2>2, <2>3
      <3>4. QED
        BY <2>6, <3>2, <3>3
    <2>9. \A k, l \in 1 .. M + 1 : H[k].dev = H[l].dev => k = l
      BY <2>2, <2>4, <2>5, <2>6
    <2>10. NoDescriptorLost'
      BY <2>2, <2>7, <2>8, <2>9 DEF NoDescriptorLost, H
    <2>11. Len(H) <= I2C_HANDLE_MAX /\ h = M + 1
      BY <1>1, <1>4, <2>2 DEF Full, H
    <2>12. QED
      BY <1>1, <2>1, <2>2, <2>3, <2>10, <2>11 DEF H
  <1>5. QED
    BY <1>2, <1>3, <1>4 DEF OpenDev, OpenFails, Full
-----------------------------------------------------------------------------
LEMMA I2cInitInv == I2cInit => I2cInv
  <1> SUFFICES ASSUME I2cInit PROVE I2cInv
    OBVIOUS
  <1>1. Len(i2c_handles) = 0 /\ DOMAIN slave = {}
        /\ i2c_handles \in Seq([dev : I2cDevices, fd : Fds])
    BY DEF I2cInit
  <1>2. 0 \in Regs /\ 0 \in Lengths /\ SPD_MAX_LENGTH \in Nat
        /\ I2C_HANDLE_MAX \in Nat
    BY I2cHandlesAssumption DEF Regs, Lengths
  <1>3. I2cTypeOK
    BY <1>1, <1>2 DEF I2cInit, I2cTypeOK, NoRequest
  <1>4. NoDescriptorLost
    BY <1>1 DEF NoDescriptorLost
  <1>5. ReadInv /\ BytesOfDevice /\ ShortOnlyIfBroken
    BY DEF I2cInit, ReadInv, BytesOfDevice, ShortOnlyIfBroken
  <1>6. QED
    BY <1>3, <1>4, <1>5 DEF I2cInv

(* What the loop of smbus_read_reg() leaves alone.                         *)
Same == UNCHANGED <<devices, i2c_handles, slave, request, fd>>

LEMMA SameKeeps ==
  ASSUME I2cTypeOK, NoDescriptorLost, Same,
         read_words' \in BOOLEAN, i2c_pc' \in {"idle", "read", "closed"},
         read' \in 0 .. SPD_MAX_LENGTH,
         bytes' \in [Buffer -> (I2cDevices \X Regs) \cup {Zero}],
         result' \in -1 .. SPD_MAX_LENGTH
  PROVE  I2cTypeOK' /\ NoDescriptorLost'
  BY DEF I2cTypeOK, NoDescriptorLost, Same, devices

LEMMA TransferStep ==
  ASSUME I2cInv, NEW dev \in I2cDevices, Transfer(dev)
  PROVE  I2cInv'
  <1>1. PICK h \in Handles : OpenDev(dev, h)
    BY DEF Transfer
  <1>2. /\ i2c_pc = "idle"
        /\ UNCHANGED <<words, broken, read_words, i2c_pc, request, fd, read,
                       bytes, result>>
    BY DEF Transfer, devices
  <1>3. I2cTypeOK' /\ NoDescriptorLost'
    BY <1>1, <1>2, Opens DEF I2cInv, I2cTypeOK
  <1>4. ReadInv' /\ BytesOfDevice' /\ ShortOnlyIfBroken'
    BY <1>2 DEF I2cInv, ReadInv, BytesOfDevice, ShortOnlyIfBroken
  <1>5. QED
    BY <1>3, <1>4 DEF I2cInv

LEMMA ReadRegStep ==
  ASSUME I2cInv, NEW dev \in I2cDevices, NEW reg \in Regs,
         NEW length \in Lengths, ReadReg(dev, reg, length)
  PROVE  I2cInv'
  <1>1. /\ i2c_pc = "idle" /\ read' = 0
        /\ request' = [dev |-> dev, reg |-> reg, length |-> length]
        /\ UNCHANGED <<words, broken, read_words>>
    BY DEF ReadReg, devices
  <1>2. /\ I2cTypeOK /\ NoDescriptorLost
        /\ SPD_MAX_LENGTH \in Nat /\ length \in Nat
    BY I2cHandlesAssumption DEF I2cInv, Lengths
  <1>3. CASE /\ result' = -1
             /\ UNCHANGED <<i2c_pc, fd, bytes>>
             /\ \/ UNCHANGED <<i2c_handles, slave>>
                \/ \E h \in Handles : OpenDev(dev, h)
    <2>1. I2cTypeOK' /\ NoDescriptorLost'
      <3>1. CASE UNCHANGED <<i2c_handles, slave>>
        <4>1. request' \in [dev : I2cDevices \cup {NoDevice}, reg : Regs,
                            length : Lengths]
          BY <1>1
        <4>2. -1 \in -1 .. SPD_MAX_LENGTH /\ 0 \in 0 .. SPD_MAX_LENGTH
          BY <1>2
        <4>3. NoDescriptorLost'
          BY <1>2, <3>1 DEF NoDescriptorLost
        <4>4. UNCHANGED <<words, broken, read_words, i2c_pc, fd, bytes,
                          i2c_handles, slave>>
              /\ read' = 0 /\ result' = -1
          BY <1>1, <1>3, <3>1
        <4>5. I2cTypeOK'
          BY <1>2, <4>1, <4>2, <4>4 DEF I2cTypeOK
        <4>6. QED
          BY <4>3, <4>5
      <3>2. CASE \E h \in Handles : OpenDev(dev, h)
        <4>1. /\ i2c_handles' \in Seq([dev : I2cDevices, fd : Fds])
              /\ Len(i2c_handles') <= I2C_HANDLE_MAX
              /\ DOMAIN slave' \subseteq Fds
              /\ \A f \in DOMAIN slave' : slave'[f] \in I2cDevices
              /\ NoDescriptorLost'
          BY <1>2, <3>2, Opens
        <4>2. request' \in [dev : I2cDevices \cup {NoDevice}, reg : Regs,
                            length : Lengths]
          BY <1>1
        <4>3. -1 \in -1 .. SPD_MAX_LENGTH /\ 0 \in 0 .. SPD_MAX_LENGTH
          BY <1>2
        <4>4. QED
          BY <1>1, <1>2, <1>3, <4>1, <4>2, <4>3 DEF I2cTypeOK
      <3>3. QED
        BY <1>3, <3>1, <3>2
    <2>2. ReadInv' /\ BytesOfDevice' /\ ShortOnlyIfBroken'
      BY <1>1, <1>2, <1>3 DEF ReadInv, BytesOfDevice, ShortOnlyIfBroken
    <2>3. QED
      BY <2>1, <2>2 DEF I2cInv
  <1>4. ASSUME NEW h \in Handles, OpenDev(dev, h), h # 0,
               length \in 1 .. SPD_MAX_LENGTH, i2c_pc' = "read",
               fd' = i2c_handles'[h].fd, UNCHANGED result,
               bytes' = [k \in Buffer |-> IF k < length THEN Zero
                                          ELSE bytes[k]]
        PROVE  I2cInv'
    <2>1. /\ fd' \in DOMAIN slave' /\ fd' \in Fds
          /\ slave'[fd'] = dev /\ NoDescriptorLost'
          /\ i2c_handles' \in Seq([dev : I2cDevices, fd : Fds])
          /\ Len(i2c_handles') <= I2C_HANDLE_MAX
          /\ DOMAIN slave' \subseteq Fds
          /\ \A f \in DOMAIN slave' : slave'[f] \in I2cDevices
      BY <1>2, <1>4, Opens
    <2>2. bytes' \in [Buffer -> (I2cDevices \X Regs) \cup {Zero}]
      BY <1>2, <1>4 DEF I2cTypeOK
    <2>3. I2cTypeOK'
      BY <1>1, <1>2, <1>4, <2>1, <2>2 DEF I2cTypeOK
    <2>4. ReadInv'
      BY <1>1, <1>2, <1>4, <2>1 DEF ReadInv
    <2>5. BytesOfDevice'
      BY <1>1, <1>2, <1>4 DEF BytesOfDevice, Buffer
    <2>6. ShortOnlyIfBroken'
      BY <1>4 DEF ShortOnlyIfBroken
    <2>7. QED
      BY <2>1, <2>3, <2>4, <2>5, <2>6 DEF I2cInv
  <1>5. QED
    BY <1>3, <1>4 DEF ReadReg

LEMMA ReadWordStep ==
  ASSUME I2cInv, ReadWord
  PROVE  I2cInv'
  <1>1. /\ i2c_pc = "read" /\ read + 1 < request.length /\ read' = read + 2
        /\ bytes' = [bytes EXCEPT ![read] = Value(read),
                                  ![read + 1] = Value(read + 1)]
        /\ Same /\ UNCHANGED <<read_words, i2c_pc, result>>
    BY DEF I2cInv, I2cTypeOK, ReadInv, ReadWord, UsesWords, Same, devices
  <1>2. /\ request.length \in 1 .. SPD_MAX_LENGTH /\ read \in Nat
        /\ request.reg \in Nat /\ SPD_MAX_LENGTH \in Nat
        /\ slave[fd] = request.dev /\ request.dev \in I2cDevices
        /\ bytes \in [Buffer -> (I2cDevices \X Regs) \cup {Zero}]
    BY <1>1, I2cHandlesAssumption DEF I2cInv, I2cTypeOK, ReadInv, Regs
  <1>3. \A n \in Nat :
          Value(n) = <<request.dev, (request.reg + n) % NREG>>
            /\ Value(n) \in I2cDevices \X Regs
    BY <1>2, RegsWrap DEF Value, Register
  <1>4. /\ bytes' \in [Buffer -> (I2cDevices \X Regs) \cup {Zero}]
        /\ \A k \in Buffer : bytes'[k] = IF k \in {read, read + 1}
                                         THEN Value(k) ELSE bytes[k]
    <2> DEFINE once == [bytes EXCEPT ![read] = Value(read)]
               twice == [once EXCEPT ![read + 1] = Value(read + 1)]
    <2>1. read \in Buffer /\ read + 1 \in Buffer /\ read + 1 # read
      BY <1>1, <1>2 DEF Buffer
    <2>2. Value(read) \in I2cDevices \X Regs
          /\ Value(read + 1) \in I2cDevices \X Regs
      BY <1>2, <1>3
    <2>3. /\ once \in [Buffer -> (I2cDevices \X Regs) \cup {Zero}]
          /\ \A k \in Buffer : once[k] = IF k = read THEN Value(k)
                                         ELSE bytes[k]
      BY <1>2, <2>1, <2>2
    <2> HIDE DEF once
    <2>4. /\ twice \in [Buffer -> (I2cDevices \X Regs) \cup {Zero}]
          /\ \A k \in Buffer : twice[k] = IF k = read + 1 THEN Value(k)
                                          ELSE once[k]
      BY <2>1, <2>2, <2>3
    <2>5. bytes' = twice
      BY <1>1 DEF once
    <2>6. QED
      BY <2>3, <2>4, <2>5
  <1>5. I2cTypeOK' /\ NoDescriptorLost'
    BY <1>1, <1>2, <1>4, SameKeeps DEF I2cInv, I2cTypeOK
  <1>6. ReadInv' /\ ShortOnlyIfBroken'
    BY <1>1, <1>2 DEF I2cInv, ReadInv, ShortOnlyIfBroken, Same
  <1>7. BytesOfDevice'
    <2> SUFFICES ASSUME NEW k \in 0 .. request.length - 1
                 PROVE  bytes'[k] =
                          IF k < read + 2
                          THEN <<request.dev, (request.reg + k) % NREG>>
                          ELSE Zero
      BY <1>1 DEF BytesOfDevice, Same
    <2>1. bytes[k] = IF k < read
                     THEN <<request.dev, (request.reg + k) % NREG>>
                     ELSE Zero
      BY <1>1 DEF I2cInv, BytesOfDevice
    <2>2. k \in Buffer /\ k \in Nat
      BY <1>2 DEF Buffer
    <2>3. k < read + 2 <=> k < read \/ k \in {read, read + 1}
      BY <1>2, <2>2
    <2>4. QED
      BY <1>2, <1>3, <1>4, <2>1, <2>2, <2>3
  <1>8. QED
    BY <1>5, <1>6, <1>7 DEF I2cInv

LEMMA ReadByteStep ==
  ASSUME I2cInv, ReadByte
  PROVE  I2cInv'
  <1>1. /\ i2c_pc = "read" /\ read < request.length /\ read' = read + 1
        /\ bytes' = [bytes EXCEPT ![read] = Value(read)]
        /\ Same /\ UNCHANGED <<read_words, i2c_pc, result>>
    BY DEF ReadByte, Same
  <1>2. /\ request.length \in 1 .. SPD_MAX_LENGTH /\ read \in Nat
        /\ request.reg \in Nat /\ SPD_MAX_LENGTH \in Nat
        /\ slave[fd] = request.dev /\ request.dev \in I2cDevices
        /\ bytes \in [Buffer -> (I2cDevices \X Regs) \cup {Zero}]
    BY <1>1, I2cHandlesAssumption DEF I2cInv, I2cTypeOK, ReadInv, Regs
  <1>3. /\ Value(read) = <<request.dev, (request.reg + read) % NREG>>
        /\ Value(read) \in I2cDevices \X Regs
    BY <1>2, RegsWrap DEF Value, Register
  <1>4. /\ bytes' \in [Buffer -> (I2cDevices \X Regs) \cup {Zero}]
        /\ \A k \in Buffer : bytes'[k] = IF k = read THEN Value(k)
                                         ELSE bytes[k]
    BY <1>1, <1>2, <1>3 DEF Buffer
  <1>5. I2cTypeOK' /\ NoDescriptorLost'
    BY <1>1, <1>2, <1>4, SameKeeps DEF I2cInv, I2cTypeOK
  <1>6. ReadInv' /\ ShortOnlyIfBroken'
    BY <1>1, <1>2 DEF I2cInv, ReadInv, ShortOnlyIfBroken, Same
  <1>7. BytesOfDevice'
    <2> SUFFICES ASSUME NEW k \in 0 .. request.length - 1
                 PROVE  bytes'[k] =
                          IF k < read + 1
                          THEN <<request.dev, (request.reg + k) % NREG>>
                          ELSE Zero
      BY <1>1 DEF BytesOfDevice, Same
    <2>1. bytes[k] = IF k < read
                     THEN <<request.dev, (request.reg + k) % NREG>>
                     ELSE Zero
      BY <1>1 DEF I2cInv, BytesOfDevice
    <2>2. k \in Buffer /\ k \in Nat
      BY <1>2 DEF Buffer
    <2>3. k < read + 1 <=> k < read \/ k = read
      BY <1>2, <2>2
    <2>4. QED
      BY <1>2, <1>3, <1>4, <2>1, <2>2, <2>3
  <1>8. QED
    BY <1>5, <1>6, <1>7 DEF I2cInv

LEMMA OtherReadStep ==
  ASSUME I2cInv, WordFails \/ ReadReturns
  PROVE  I2cInv'
  <1>1. i2c_pc = "read" /\ Same /\ UNCHANGED <<read, bytes>>
    BY DEF WordFails, ReadReturns, Same
  <1>2. /\ request.length \in 1 .. SPD_MAX_LENGTH
        /\ read \in 0 .. SPD_MAX_LENGTH /\ read <= request.length
        /\ slave[fd] = request.dev
    BY <1>1 DEF I2cInv, I2cTypeOK, ReadInv
  <1>3. I2cTypeOK' /\ NoDescriptorLost'
    <2>1. I2cTypeOK /\ NoDescriptorLost
      BY DEF I2cInv
    <2>2. /\ read_words' \in BOOLEAN
          /\ i2c_pc' \in {"idle", "read", "closed"}
      BY <1>1, <2>1 DEF I2cTypeOK, WordFails, ReadReturns
    <2>3. result' \in -1 .. SPD_MAX_LENGTH
      BY <1>2, <2>1, I2cHandlesAssumption DEF I2cTypeOK, WordFails, ReadReturns
    <2>4. /\ read' \in 0 .. SPD_MAX_LENGTH
          /\ bytes' \in [Buffer -> (I2cDevices \X Regs) \cup {Zero}]
      BY <1>1, <2>1 DEF I2cTypeOK
    <2>5. QED
      BY <1>1, <2>1, <2>2, <2>3, <2>4, SameKeeps
  <1>4. ReadInv' /\ BytesOfDevice'
    BY <1>1 DEF I2cInv, ReadInv, BytesOfDevice, Same
  <1>5. ShortOnlyIfBroken'
    <2>1. CASE WordFails
      BY <1>1, <2>1 DEF WordFails, ShortOnlyIfBroken
    <2>2. CASE ReadReturns
      <3>1. /\ i2c_pc' = "idle" /\ result' = read
            /\ read < request.length => ~Answers(read)
        BY <2>2 DEF ReadReturns
      <3>2. Answers(read) <=>
              (request.reg + read) % NREG \notin broken[request.dev]
        BY <1>2 DEF Answers, Register
      <3>3. QED
        BY <1>1, <1>2, <3>1, <3>2 DEF ShortOnlyIfBroken, Same, devices
    <2>3. QED
      BY <2>1, <2>2
  <1>6. QED
    BY <1>3, <1>4, <1>5 DEF I2cInv

LEMMA CloseStep ==
  ASSUME I2cInv, Close
  PROVE  I2cInv'
  <1>1. /\ i2c_handles' = <<>> /\ i2c_pc' = "closed"
        /\ DOMAIN slave' = {} 
        /\ UNCHANGED <<words, broken, read_words, request, fd, read, bytes,
                       result>>
    BY DEF I2cInv, NoDescriptorLost, Close, devices
  <1>2. /\ Len(<<>>) = 0 /\ <<>> \in Seq([dev : I2cDevices, fd : Fds])
        /\ I2C_HANDLE_MAX \in Nat
    BY I2cHandlesAssumption
  <1>3. I2cTypeOK' /\ NoDescriptorLost'
    BY <1>1, <1>2 DEF I2cInv, I2cTypeOK, NoDescriptorLost
  <1>4. ReadInv' /\ BytesOfDevice' /\ ShortOnlyIfBroken'
    BY <1>1 DEF ReadInv, BytesOfDevice, ShortOnlyIfBroken
  <1>5. QED
    BY <1>3, <1>4 DEF I2cInv

LEMMA I2cInvariant == I2cSpec => []I2cInv
  <1>1. I2cInv /\ [I2cNext]_i2cVars => I2cInv'
    <2> SUFFICES ASSUME I2cInv, [I2cNext]_i2cVars PROVE I2cInv'
      OBVIOUS
    <2>1. CASE UNCHANGED i2cVars
      BY <2>1 DEF i2cVars, I2cInv, I2cTypeOK, NoDescriptorLost, ReadInv,
                  BytesOfDevice, ShortOnlyIfBroken
    <2>2. QED
      BY <2>1, TransferStep, ReadRegStep, ReadWordStep, ReadByteStep,
         OtherReadStep, CloseStep DEF I2cNext, I2cStep
  <1>2. QED
    BY <1>1, I2cInitInv, PTL DEF I2cSpec

(* For any devices, registers, lengths and size of the table: a read goes  *)
(* to the device asked for, its bytes are that device's in order, it is    *)
(* short only at a register that does not answer, and every open           *)
(* descriptor is that of the one handle of its device.                     *)
THEOREM I2cReads == I2cSpec => []ReadsOfDevice
  <1>1. I2cInv => ReadsOfDevice
    BY DEF I2cInv, ReadsOfDevice
  <1>2. QED
    BY <1>1, I2cInvariant, PTL
=============================================================================
