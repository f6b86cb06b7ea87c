------------------------------ MODULE SpdRead ------------------------------
(***************************************************************************)
(* The memory commands (core/command/memory_spd.c) on boards whose memory  *)
(* is soldered: the contents of its SPD are a blob in the firmware, which  *)
(* flashrom reads once for a process.  Link, the Slippys and the Rambis    *)
(* choose the entry by strap pins; Samus, Auron, Glados, Strago and Cyan   *)
(* by the part number that SMBIOS gives for the DIMM.                      *)
(*                                                                         *)
(* An entry of the blob is its number.  The boards that read the SPD by    *)
(* I2C are users of I2cHandles, those with a table in mosys of Straps.     *)
(***************************************************************************)
EXTENDS Integers, Sequences, SequencesExt

CONSTANTS
  SpdBoards,  \* [name |-> its name, version |-> the EC's board version,
              \*  strap |-> its memory straps,
              \*  parts |-> part number of each memory device in SMBIOS,
              \*  blob |-> part number of each entry of spd.bin,
              \*  fmap |-> regions listed in the FMAP]
  Requests,   \* [pass |-> first pass, what |-> "print" or "dump",
              \*  arg |-> the DIMM asked for, or NoArg]
  MaxFailed   \* bound: reads, of anything, that fail

NoArg == -1
LastPass == 4

(* A dump needs a DIMM; pass 0 is the check that print all makes of one.   *)
ASSUME SpdAssumption ==
  /\ \A b \in SpdBoards :
       /\ b.strap \in Nat /\ b.version \in Nat
       /\ Len(b.parts) \in Nat /\ Len(b.blob) \in Nat
  /\ \A r \in Requests :
       /\ r.arg \in Nat \cup {NoArg} /\ r.what \in {"print", "dump"}
       /\ r.pass \in IF r.arg = NoArg THEN {1, LastPass} ELSE {0, LastPass}
       /\ r.what = "dump" => r.arg # NoArg /\ r.pass = LastPass
  /\ MaxFailed \in Nat

VARIABLES
  spdboard,   \* the board
  asked,      \* the command
  spd_pc,     \* what the process does next
  pass,       \* 1 to 4: type, id, geometry, timings
  dimm,       \* the DIMM it prints
  last_dimm,  \* how many it has counted
  half,       \* the read callback is asked for the "header" or the "rest"
  fw,         \* first_run and bootblock, or fw_size and fw_buf
  printed,    \* history: <<pass, dimm, entry>>
  flashroms,  \* history: how often flashrom was run
  failed      \* history: the reads that failed

spdVars == <<spdboard, asked, spd_pc, pass, dimm, last_dimm, half, fw,
             printed, flashroms, failed>>

Parts == {"Samus", "Auron", "Glados", "Strago", "Cyan"}
Regions == <<"COREBOOT", "BOOT_STUB">>
ByPart == spdboard.name \in Parts
Failing == -1
Nothing == "nothing"
-----------------------------------------------------------------------------
(* The straps, or an error, with which a board has one DIMM and not two.   *)
OneDimm(name, rev) ==
  CASE name = "Falco" -> {3, 4, 5, 7}
    [] name \in {"Peppy", "Leon"} -> 4 .. 7
    [] name = "Wolf" -> 3 .. 7
    [] name = "Banjo" -> {0, 2, 4}
    [] name = "Candy" -> {3, 4, 5, 8, 9, 11}
    [] name \in {"Clapper", "Orco"} -> {4, 5, 7}
    [] name \in {"Expresso", "Rambi"} ->
         IF rev < 1 THEN {4, 5} ELSE (-1 .. 7) \ {4, 5}
    [] name = "Glimmer" -> {5, 8, 9, 10}
    [] name = "Enguarde" -> {4, 7}
    [] name = "Gnawty" -> {3, 4, 5, 8}
    [] name = "Heli" -> {3, 4, 5}
    [] name \in {"Kip", "Quawks", "Squawks", "Winky"} -> 4 .. 7
    [] name = "Swanky" -> (-1 .. 7) \ {2, 3, 6}
    [] OTHER -> {}

AsksEc == spdboard.name \in {"Expresso", "Rambi"}

(* Link and the boards without a name of their own do not look.            *)
CountsByStraps == ~ByPart /\ OneDimm(spdboard.name, spdboard.version) # {}

dimm_count(index) ==
  IF ByPart
  THEN Len(spdboard.parts)
  ELSE IF index \in OneDimm(spdboard.name, spdboard.version) THEN 1 ELSE 2

(* What dimm_count() returns: it takes straps that cannot be read for any  *)
(* other straps, and fails without the EC's version.                       *)
Counts(fails) ==
  CASE fails = "straps_counted" -> dimm_count(Failing)
    [] fails = "ec" -> -1
    [] OTHER -> dimm_count(spdboard.strap)

CountReads ==
  (IF CountsByStraps THEN {"straps_counted"} ELSE {})
    \cup (IF AsksEc THEN {"ec"} ELSE {})

(* External: one of these reads fails, or none does.                       *)
Reads(kinds) == {Nothing} \cup kinds
Note(fails) ==
  /\ failed' = IF fails = Nothing THEN failed ELSE Append(failed, fails)
  /\ Len(failed') <= MaxFailed \* the bound

SpdInit ==
  /\ spdboard \in SpdBoards
  /\ asked \in Requests
  /\ spd_pc = IF asked.what = "dump" THEN "read" ELSE "count"
  /\ pass = asked.pass
  /\ dimm = IF asked.arg = NoArg THEN 0 ELSE asked.arg
  /\ last_dimm = 0
  /\ half = "header"
  /\ fw = "none"
  /\ printed = <<>>
  /\ flashroms = 0
  /\ failed = <<>>
-----------------------------------------------------------------------------
(* After the last DIMM of a pass comes the next pass.                      *)
NextPass ==
  /\ spd_pc' = IF pass = LastPass THEN "ended" ELSE "count"
  /\ pass' = IF pass = LastPass THEN pass ELSE pass + 1
  /\ dimm' = IF asked.arg = NoArg THEN 0 ELSE asked.arg

(* Mutant: the last DIMM is left out.                                      *)
NextDimm_LastLeftOut ==
  IF asked.arg = NoArg /\ dimm + 1 < last_dimm - 1
  THEN dimm' = dimm + 1 /\ spd_pc' = "read" /\ UNCHANGED pass
  ELSE NextPass

(* The loop, whose body comes before its condition.                        *)
NextDimm ==
  IF asked.arg = NoArg /\ dimm + 1 < last_dimm
  THEN dimm' = dimm + 1 /\ spd_pc' = "read" /\ UNCHANGED pass
  ELSE NextPass

(* A DIMM that is out of range ends the pass; in the check of print all,   *)
(* the command.                                                            *)
CountDimms ==
  /\ spd_pc = "count"
  /\ \E fails \in Reads(CountReads) :
       /\ last_dimm' = Counts(fails)
       /\ Note(fails)
  /\ IF asked.arg # NoArg /\ asked.arg > last_dimm' - 1
     THEN IF pass = 0
          THEN spd_pc' = "ended" /\ UNCHANGED <<pass, dimm>>
          ELSE NextPass
     ELSE IF pass = 0
          THEN NextPass
          ELSE spd_pc' = "read" /\ UNCHANGED <<pass, dimm>>
  /\ half' = "header"
  /\ UNCHANGED <<spdboard, asked, fw, printed, flashroms>>

(* The read callback fails, and so does new_spd_device(): the DIMM is left *)
(* out.                                                                    *)
CallFails == half' = "header" /\ NextDimm /\ UNCHANGED printed

(* The read callback returns what was asked for.                           *)
CallSucceeds(entry) ==
  IF half = "header"
  THEN /\ half' = "rest" /\ spd_pc' = "read"
       /\ UNCHANGED <<pass, dimm, printed>>
  ELSE /\ half' = "header" /\ NextDimm
       /\ printed' = Append(printed, <<pass, dimm, entry>>)

Static == <<spdboard, asked, last_dimm>>
SkipTo(pc) == spd_pc' = pc /\ UNCHANGED <<pass, dimm, half, printed>>

(* Mutant: the flag is cleared when flashrom has succeeded.                *)
Flashrom_FlagLate ==
  /\ spd_pc = "flashrom"
  /\ flashroms' = flashroms + 1
  /\ \E fails \in Reads({"flashrom"}) :
       /\ Note(fails)
       /\ IF fails = Nothing THEN fw' = "firmware" /\ SkipTo("find")
                             ELSE fw' = "none" /\ CallFails
  /\ UNCHANGED Static

(* The firmware is read into the buffer; first_run is already cleared.     *)
Flashrom ==
  /\ spd_pc = "flashrom"
  /\ flashroms' = flashroms + 1
  /\ \E fails \in Reads({"flashrom"}) :
       /\ Note(fails)
       /\ IF fails = Nothing THEN fw' = "firmware" /\ SkipTo("find")
                             ELSE UNCHANGED fw /\ CallFails
  /\ UNCHANGED Static

(* link_, slippy_ and rambi_spd_read_cbfs() up to flashrom_read().         *)
ReadByStraps ==
  /\ spd_pc = "read" /\ ~ByPart
  /\ \E fails \in Reads(CountReads) :
       /\ Note(fails)
       /\ IF Counts(fails) < 0 \/ dimm > Counts(fails)
          THEN CallFails /\ UNCHANGED fw
          ELSE /\ SkipTo(IF fw = "none" THEN "flashrom" ELSE "find")
               /\ fw' = IF fw = "none" THEN "unread" ELSE fw
  /\ UNCHANGED <<Static, flashroms>>

(* Mutant: straps that cannot be read are taken for 0.                     *)
FindByStraps_Zero ==
  /\ spd_pc = "find" /\ ~ByPart
  /\ fw = "firmware"
  /\ \E fails \in Reads({"straps"}) :
       /\ Note(fails)
       /\ CallSucceeds(IF fails = Nothing THEN spdboard.strap ELSE 0)
  /\ UNCHANGED <<Static, fw, flashroms>>

(* The blob is looked for, then the straps are read.  The header of a      *)
(* buffer that was never filled is somewhere outside of it.                *)
FindByStraps ==
  /\ spd_pc = "find" /\ ~ByPart
  /\ \/ /\ fw = "firmware"
        /\ \E fails \in Reads({"straps"}) :
             /\ Note(fails)
             /\ IF fails = Nothing THEN CallSucceeds(spdboard.strap)
                                   ELSE CallFails
     \/ fw = "unread" /\ SkipTo("crashed") /\ UNCHANGED failed
     \/ fw = "unread" /\ CallFails /\ UNCHANGED failed
  /\ UNCHANGED <<Static, fw, flashroms>>

(* samus_spd_read() and its copies, up to the reading of the firmware.     *)
ReadByPart ==
  /\ spd_pc = "read" /\ ByPart
  /\ IF dimm >= Len(spdboard.parts) \/ fw = "failed"
     THEN CallFails
     ELSE SkipTo(IF fw = "none" THEN "fmap" ELSE "find")
  /\ UNCHANGED <<Static, fw, flashroms, failed>>

(* The FMAP tells which region there is; without one, both are tried.  If  *)
(* it lists neither, the size of the FMAP is returned for success.         *)
Fmap ==
  /\ spd_pc = "fmap"
  /\ flashroms' = flashroms + 1
  /\ \E fails \in Reads({"fmap"}) :
       /\ Note(fails)
       /\ IF fails = Nothing /\ spdboard.fmap = {}
          THEN fw' = "null" /\ SkipTo("find")
          ELSE SkipTo(IF fails = Nothing THEN "region" ELSE Regions[1])
               /\ UNCHANGED fw
  /\ UNCHANGED Static

(* Mutant: fw_size is unsigned, so that no failure is seen.                *)
Region_SizeUnsigned ==
  /\ spd_pc \in {"region", Regions[2]}
  /\ flashroms' = flashroms + 1
  /\ \E fails \in Reads({"region"}) :
       /\ Note(fails)
       /\ fw' = IF fails = Nothing THEN "firmware" ELSE "null"
       /\ SkipTo("find")
  /\ UNCHANGED Static

(* The region listed, or the last one that is tried.                       *)
Region ==
  /\ spd_pc \in {"region", Regions[2]}
  /\ flashroms' = flashroms + 1
  /\ \E fails \in Reads({"region"}) :
       /\ Note(fails)
       /\ IF fails = Nothing THEN fw' = "firmware" /\ SkipTo("find")
                             ELSE fw' = "failed" /\ CallFails
  /\ UNCHANGED Static

FirstRegion ==
  /\ spd_pc = Regions[1]
  /\ flashroms' = flashroms + 1
  /\ \E fails \in Reads({"region"}) :
       /\ Note(fails)
       /\ IF fails = Nothing THEN fw' = "firmware" /\ SkipTo("find")
                             ELSE UNCHANGED fw /\ SkipTo(Regions[2])
  /\ UNCHANGED Static

(* The first entry of the part, counted from 0, or -1.                     *)
EntryOf(part) == SelectInSeq(spdboard.blob, LAMBDA p : p = part) - 1

FindByPart ==
  /\ spd_pc = "find" /\ ByPart
  /\ \/ /\ fw = "firmware"
        /\ \E fails \in Reads({"smbios"}) :
             /\ Note(fails)
             /\ LET entry == EntryOf(spdboard.parts[dimm + 1])
                IN IF fails = Nothing /\ entry >= 0 THEN CallSucceeds(entry)
                                                    ELSE CallFails
     \/ fw = "null" /\ SkipTo("crashed") /\ UNCHANGED failed
  /\ UNCHANGED <<Static, fw, flashroms>>

SpdNext ==
  \/ CountDimms
  \/ ReadByStraps \/ Flashrom \/ FindByStraps
  \/ ReadByPart \/ Fmap \/ FirstRegion \/ Region \/ FindByPart

SpdSpec == SpdInit /\ [][SpdNext]_spdVars
-----------------------------------------------------------------------------
SpdTypeOK ==
  /\ spdboard \in SpdBoards /\ asked \in Requests
  /\ spd_pc \in {"count", "read", "flashrom", "fmap", "region", "find",
                 "ended", "crashed", Regions[1], Regions[2]}
  /\ pass \in 0 .. LastPass /\ dimm \in Nat /\ last_dimm \in Int
  /\ half \in {"header", "rest"}
  /\ fw \in {"none", "unread", "firmware", "failed", "null"}
  /\ printed \in Seq((1 .. LastPass) \X Nat \X Nat)
  /\ flashroms \in Nat
  /\ failed \in Seq({"straps_counted", "ec", "straps", "flashrom", "fmap",
                     "region", "smbios"})

FitsDimm(d, entry) ==
  IF ByPart THEN spdboard.blob[entry + 1] = spdboard.parts[d + 1]
            ELSE entry = spdboard.strap
Fitted == dimm_count(spdboard.strap)
Failure(kinds) == \E k \in DOMAIN failed : failed[k] \in kinds

(* What is printed of a DIMM is what the firmware has for it, whatever     *)
(* failed before.  A DIMM that is not there is only printed if the straps  *)
(* could not be read when the DIMMs were counted, or, on the boards with   *)
(* straps, if the one after the last is dumped (slippy_spd_read_cbfs).     *)
SpdTrue ==
  \A k \in DOMAIN printed :
    LET d == printed[k][2]
    IN /\ FitsDimm(d, printed[k][3])
       /\ \/ d < Fitted
          \/ Failure({"straps_counted"})
          \/ ~ByPart /\ asked.what = "dump" /\ d = Fitted

(* A print without an argument and without a failing read prints, in each  *)
(* pass, each DIMM that the firmware knows once and in order               *)
(* (memory_spd_print_all_cmd).                                             *)
AllPrinted ==
  spd_pc = "ended" /\ failed = <<>> /\ asked.arg = NoArg =>
    LET known == {d \in 0 .. Fitted - 1 :
                    ~ByPart \/ EntryOf(spdboard.parts[d + 1]) >= 0}
    IN /\ {<<p[1], p[2]>> : p \in Range(printed)}
            = (asked.pass .. LastPass) \X known
       /\ \A j, k \in DOMAIN printed : j < k =>
            \/ printed[j][1] < printed[k][1]
            \/ printed[j][1] = printed[k][1] /\ printed[j][2] < printed[k][2]

(* The process only crashes after flashrom has failed, on a board with     *)
(* straps, or with an FMAP that lists neither region, on the others.  A    *)
(* failure that comes later is survived (flashrom_read_host_firmware_region*)
(* and the first_run of the boards).                                       *)
CrashExplained ==
  spd_pc = "crashed" =>
    /\ printed = <<>>
    /\ IF ByPart THEN spdboard.fmap = {} /\ flashroms = 1
                 ELSE Failure({"flashrom"})

(* Flashrom, which takes seconds, is not run again for the next DIMM or    *)
(* pass, even after it has failed.                                         *)
FlashromOnce == flashroms <= IF ByPart THEN 3 ELSE 1

(* The memory commands print nothing but what the firmware knows of the    *)
(* DIMMs; what fails stops them, or is asked for again, only as said above.*)
SpdPrinted == SpdTrue /\ CrashExplained /\ FlashromOnce

(* The command ends, also where only a DIMM that fails ends the loop.      *)
SpdEnds == <>(spd_pc \in {"ended", "crashed"})
=============================================================================
