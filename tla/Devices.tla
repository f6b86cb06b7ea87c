------------------------------ MODULE Devices ------------------------------
(***************************************************************************)
(* The devices below the platform interface that one process drives with   *)
(* nobody else in the way: a command of a board uses one of them.  Each has*)
(* a module of its own; here they share the states, so that they can be    *)
(* checked together.  What a command does not use stays as it was.         *)
(***************************************************************************)
EXTENDS SuperIo, EcRam, VpdSearch, TableIter, I2cHandles, Straps,
  SpdRead, EcTransport

VARIABLE device   \* the one in use

devicesVars ==
  <<device, sioVars, ramVars, vpdVars, tablesVars, i2cVars, strapsVars,
    spdVars, ecTransportVars>>

(* A device that is not in use is in one of its initial states.            *)
Some(S) == CHOOSE x \in S : TRUE

DevicesInit ==
  /\ device \in {"sio", "ram", "vpd", "tables", "i2c", "straps", "spd",
                "ec"}
  /\ device # "sio" =>
       board = Some(Boards) /\ chip = Some(Chips) /\ passthru = FALSE
  /\ device # "ram" =>
       timeout = Some(Timeouts) /\ obf = Empty /\ begin = 0
  /\ device # "vpd" => region = [p \in Places |-> Other]
  /\ device # "tables" => tables = Some(Lists)
  /\ device # "i2c" =>
       words = {} /\ broken = [d \in I2cDevices |-> {}]
  /\ device # "straps" => wiring = Some(Wirings)
  /\ device # "spd" => spdboard = Some(SpdBoards) /\ asked = Some(Requests)
  /\ device # "ec" =>
       transport = Some(Transports) /\ ec_context = Some(Contexts)
  /\ SioInit /\ RamInit /\ VpdInit /\ TablesInit
  /\ I2cInit /\ StrapsInit /\ SpdInit /\ EcInit
  /\ device # "tables" => table_length = Len(memory)

DevicesNext ==
  \/ /\ device = "sio" /\ SioNext
     /\ UNCHANGED <<device, ramVars, vpdVars, tablesVars,
                    i2cVars, strapsVars, spdVars,
                    ecTransportVars>>
  \/ /\ device = "ram" /\ RamNext
     /\ UNCHANGED <<device, sioVars, vpdVars, tablesVars,
                    i2cVars, strapsVars, spdVars,
                    ecTransportVars>>
  \/ /\ device = "vpd" /\ VpdNext
     /\ UNCHANGED <<device, sioVars, ramVars, tablesVars,
                    i2cVars, strapsVars, spdVars,
                    ecTransportVars>>
  \/ /\ device = "tables" /\ TablesNext
     /\ UNCHANGED <<device, sioVars, ramVars, vpdVars,
                    i2cVars, strapsVars, spdVars,
                    ecTransportVars>>
  \/ /\ device = "i2c" /\ I2cNext
     /\ UNCHANGED <<device, sioVars, ramVars, vpdVars,
                    tablesVars, strapsVars, spdVars,
                    ecTransportVars>>
  \/ /\ device = "straps" /\ StrapsNext
     /\ UNCHANGED <<device, sioVars, ramVars, vpdVars,
                    tablesVars, i2cVars, spdVars,
                    ecTransportVars>>
  \/ /\ device = "spd" /\ SpdNext
     /\ UNCHANGED <<device, sioVars, ramVars, vpdVars,
                    tablesVars, i2cVars, strapsVars,
                    ecTransportVars>>
  \/ /\ device = "ec" /\ EcNext
     /\ UNCHANGED <<device, sioVars, ramVars, vpdVars,
                    tablesVars, i2cVars, strapsVars, spdVars>>

(* The process runs: it takes the steps that its code takes by itself.     *)
(* Nobody has to start or kill it, and nothing is asked of the firmware or *)
(* of the hardware.                                                        *)
DevicesSpec ==
  /\ DevicesInit /\ [][DevicesNext]_devicesVars
  /\ WF_sioVars(device = "sio" /\ SioStep)
  /\ WF_ramVars(device = "ram" /\ RamStep)
  /\ WF_vpdVars(device = "vpd" /\ VpdStep)
  /\ WF_tablesVars(device = "tables" /\ TablesStep)
  /\ WF_i2cVars(device = "i2c" /\ I2cStep)
  /\ WF_strapsVars(device = "straps" /\ StrapsStep)
  /\ WF_spdVars(device = "spd" /\ SpdNext)
  /\ WF_ecTransportVars(device = "ec" /\ I2cReceives)
-----------------------------------------------------------------------------
(* What each device promises of the end of a call, for the one in use.     *)
CommandsReturn ==
  /\ device = "sio" => SioReturns
  /\ device = "tables" => FindReturns
  /\ device = "i2c" => ReadRegReturns
  /\ device = "straps" => StrapsReturn
  /\ device = "spd" => SpdEnds
  /\ device = "ec" => (ec_pc = "sent" ~> ec_pc # "sent")

(* The calls to six of the devices end whatever the device does.  The two  *)
(* others may keep a command for ever: i8042_poll_csr() looks past its     *)
(* timeout, so that the EC has to read and to answer in the end, and the   *)
(* search for the VPD repeats itself where two entry points are in the way *)
(* of the first usable one (read_ecram, vpd_itr_setup).                    *)
CommandsEnd ==
  /\ CommandsReturn
  /\ device = "ram" => VersionRead
  /\ device = "vpd" => SearchEnds
=============================================================================
