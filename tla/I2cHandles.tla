----------------------------- MODULE I2cHandles -----------------------------
(***************************************************************************)
(* intf/i2c.c: how a mosys process opens I2C devices, keeps their handles  *)
(* until the end, and reads registers, two at a time until a device has    *)
(* refused that once.                                                      *)
(*                                                                         *)
(* The value of register r of a device d is represented by <<d, r>>.       *)
(***************************************************************************)
EXTENDS Integers, Sequences, SequencesExt

CONSTANTS
  I2cDevices,      \* [bus |-> b, addr |-> a]
  NREG,            \* registers of a device; their numbers wrap
  SPD_MAX_LENGTH,  \* the longest read
  I2C_HANDLE_MAX,  \* the size of the table of handles
  BrokenSets       \* sets of registers that a device may fail to answer for

ASSUME I2cHandlesAssumption ==
  /\ NREG \in Nat \ {0}
  /\ SPD_MAX_LENGTH \in Nat
  /\ I2C_HANDLE_MAX \in Nat
  /\ BrokenSets \subseteq SUBSET (0 .. NREG - 1)

VARIABLES
  words,        \* the devices that answer to word reads
  broken,       \* the registers each of them does not answer for
  i2c_handles,  \* sequence of [dev, fd]; i2c_handle_num is its length
  slave,        \* the open descriptors, each with its slave device
  read_words,   \* static variable of smbus_read_reg()
  i2c_pc,
  request,      \* the arguments of the last smbus_read_reg()
  fd,           \* its descriptor
  read,         \* its local i: bytes read so far
  bytes,        \* the caller's buffer
  result        \* what it returned

i2cVars == <<words, broken, i2c_handles, slave, read_words, i2c_pc, request,
             fd, read, bytes, result>>
devices == <<words, broken>>

Regs == 0 .. NREG - 1
Lengths == 0 .. SPD_MAX_LENGTH + 1
Buffer == 0 .. SPD_MAX_LENGTH - 1
NoDevice == [bus |-> -1, addr |-> -1]
Zero == <<NoDevice, 0>>
NoRequest == [dev |-> NoDevice, reg |-> 0, length |-> 0]

I2cInit ==
  /\ words \in SUBSET I2cDevices
  /\ broken \in [I2cDevices -> BrokenSets]
  /\ i2c_handles = <<>>
  /\ slave = <<>>
  /\ read_words = TRUE
  /\ i2c_pc = "idle"
  /\ request = NoRequest
  /\ fd = 0
  /\ read = 0
  /\ bytes = [k \in Buffer |-> Zero]
  /\ result = 0
-----------------------------------------------------------------------------
(* External: open() returns the lowest descriptor that is free.            *)
Fds == 1 .. I2C_HANDLE_MAX + 1
FreeFd == CHOOSE f \in Fds : /\ f \notin DOMAIN slave
                             /\ \A g \in Fds : g < f => g \in DOMAIN slave
WithFd(f, dev) == [g \in DOMAIN slave \cup {f} |->
                     IF g = f THEN dev ELSE slave[g]]

(* Mutant: a handle is looked up by its bus alone.                         *)
IsHandleOf_BusOnly(handle, dev) == handle.dev.bus = dev.bus

IsHandleOf(handle, dev) == handle.dev = dev

(* Mutant: the descriptor stays open when the slave address is refused.    *)
OpenFails_FdKept(dev) ==
  /\ \/ UNCHANGED slave
     \/ DOMAIN slave # Fds /\ slave' = WithFd(FreeFd, dev)
  /\ UNCHANGED i2c_handles

(* open() fails, or the slave address is refused and the descriptor closed.*)
OpenFails(dev) == UNCHANGED <<slave, i2c_handles>>

(* i2c_open_dev(): h is the handle it returns, 0 for none.  A full table   *)
(* refuses also a device that is in it.                                    *)
OpenDev(dev, h) ==
  IF Len(i2c_handles) >= I2C_HANDLE_MAX
  THEN h = 0 /\ UNCHANGED <<slave, i2c_handles>>
  ELSE IF \E k \in 1 .. Len(i2c_handles) : IsHandleOf(i2c_handles[k], dev)
  THEN /\ h = SelectInSeq(i2c_handles, LAMBDA e : IsHandleOf(e, dev))
       /\ UNCHANGED <<slave, i2c_handles>>
  ELSE \/ h = 0 /\ OpenFails(dev)
       \/ /\ slave' = WithFd(FreeFd, dev)
          /\ i2c_handles' = Append(i2c_handles, [dev |-> dev, fd |-> FreeFd])
          /\ h = Len(i2c_handles')

Handles == 0 .. I2C_HANDLE_MAX

(* i2c_transfer(), and the other operations, which differ only in what they*)
(* then do with the descriptor.                                            *)
Transfer(dev) ==
  /\ i2c_pc = "idle"
  /\ \E h \in Handles : OpenDev(dev, h)
  /\ UNCHANGED <<devices, read_words, i2c_pc, request, fd, read, bytes,
                 result>>

(* smbus_read_reg() up to its loop.  The buffer of a read that is refused  *)
(* is not touched.                                                         *)
ReadReg(dev, reg, length) ==
  /\ i2c_pc = "idle"
  /\ request' = [dev |-> dev, reg |-> reg, length |-> length]
  /\ read' = 0
  /\ \/ /\ length \notin 1 .. SPD_MAX_LENGTH
        /\ result' = -1
        /\ UNCHANGED <<i2c_handles, slave, i2c_pc, fd, bytes>>
     \/ /\ length \in 1 .. SPD_MAX_LENGTH
        /\ \E h \in Handles :
             /\ OpenDev(dev, h)
             /\ IF h = 0
                THEN result' = -1 /\ UNCHANGED <<i2c_pc, fd, bytes>>
                ELSE /\ i2c_pc' = "read"
                     /\ fd' = i2c_handles'[h].fd
                     /\ bytes' = [k \in Buffer |-> IF k < length THEN Zero
                                                   ELSE bytes[k]]
                     /\ UNCHANGED result
  /\ UNCHANGED <<devices, read_words>>

(* External: the device behind the descriptor answers for its n-th register*)
(* after the one asked for.                                                *)
Register(n) == (request.reg + n) % NREG
Answers(n) == Register(n) \notin broken[slave[fd]]
Value(n) == <<slave[fd], Register(n)>>

UsesWords == read_words /\ read < request.length - 1
WordWorks == slave[fd] \in words /\ Answers(read) /\ Answers(read + 1)

ReadWord ==
  /\ i2c_pc = "read" /\ read < request.length
  /\ UsesWords /\ WordWorks
  /\ bytes' = [bytes EXCEPT ![read] = Value(read),
                            ![read + 1] = Value(read + 1)]
  /\ read' = read + 2
  /\ UNCHANGED <<devices, i2c_handles, slave, read_words, i2c_pc, request, fd,
                 result>>

(* Mutant: a word that cannot be read ends the read.                       *)
WordFails_Ends ==
  /\ i2c_pc = "read" /\ read < request.length
  /\ UsesWords /\ ~WordWorks
  /\ read_words' = FALSE
  /\ i2c_pc' = "idle" /\ result' = read
  /\ UNCHANGED <<devices, i2c_handles, slave, request, fd, read, bytes>>

(* "try again with byte read", and from now on always.                     *)
WordFails ==
  /\ i2c_pc = "read" /\ read < request.length
  /\ UsesWords /\ ~WordWorks
  /\ read_words' = FALSE
  /\ UNCHANGED <<devices, i2c_handles, slave, i2c_pc, request, fd, read, bytes,
                 result>>

ReadByte ==
  /\ i2c_pc = "read" /\ read < request.length
  /\ ~UsesWords /\ Answers(read)
  /\ bytes' = [bytes EXCEPT ![read] = Value(read)]
  /\ read' = read + 1
  /\ UNCHANGED <<devices, i2c_handles, slave, read_words, i2c_pc, request, fd,
                 result>>

(* The loop has reached the length, or a byte cannot be read.              *)
ReadReturns ==
  /\ i2c_pc = "read"
  /\ read < request.length => ~UsesWords /\ ~Answers(read)
  /\ i2c_pc' = "idle" /\ result' = read
  /\ UNCHANGED <<devices, i2c_handles, slave, read_words, request, fd, read,
                 bytes>>

(* i2c_close_dev(), at the end of the process.                             *)
Close ==
  /\ i2c_pc = "idle"
  /\ slave' = [f \in DOMAIN slave \
                      {i2c_handles[k].fd : k \in 1 .. Len(i2c_handles)} |->
                 slave[f]]
  /\ i2c_handles' = <<>>
  /\ i2c_pc' = "closed"
  /\ UNCHANGED <<devices, read_words, request, fd, read, bytes, result>>

I2cStep == ReadWord \/ WordFails \/ ReadByte \/ ReadReturns

I2cNext ==
  \/ \E dev \in I2cDevices :
       \/ Transfer(dev)
       \/ \E reg \in Regs, length \in Lengths : ReadReg(dev, reg, length)
  \/ I2cStep
  \/ Close

I2cSpec == I2cInit /\ [][I2cNext]_i2cVars
-----------------------------------------------------------------------------
I2cTypeOK ==
  /\ words \subseteq I2cDevices
  /\ broken \in [I2cDevices -> BrokenSets]
  /\ i2c_handles \in Seq([dev : I2cDevices, fd : Fds])
  /\ Len(i2c_handles) <= I2C_HANDLE_MAX
  /\ DOMAIN slave \subseteq Fds
  /\ \A f \in DOMAIN slave : slave[f] \in I2cDevices
  /\ read_words \in BOOLEAN
  /\ i2c_pc \in {"idle", "read", "closed"}
  /\ request \in [dev : I2cDevices \cup {NoDevice}, reg : Regs,
                  length : Lengths]
  /\ fd \in Fds \cup {0}
  /\ read \in 0 .. SPD_MAX_LENGTH
  /\ bytes \in [Buffer -> (I2cDevices \X Regs) \cup {Zero}]
  /\ result \in -1 .. SPD_MAX_LENGTH

(* Whatever devices and lengths were read before, words or bytes: what has *)
(* been read is the asked device's, in order, and the rest of the asked    *)
(* length is zero.                                                         *)
BytesOfDevice ==
  i2c_pc = "read" =>
    \A k \in 0 .. request.length - 1 :
      bytes[k] = IF k < read
                 THEN <<request.dev, (request.reg + k) % NREG>>
                 ELSE Zero

(* A read is short only when the register it stops at does not answer:     *)
(* devices that refuse words are read to the end.                          *)
ShortOnlyIfBroken ==
  i2c_pc = "idle" /\ result \in 0 .. request.length - 1 /\ request # NoRequest
    => (request.reg + result) % NREG \in broken[request.dev]

(* Every open descriptor is that of the one handle of its device, so that  *)
(* none is left open at the end and none is opened for each access.        *)
NoDescriptorLost ==
  /\ DOMAIN slave = {i2c_handles[k].fd : k \in 1 .. Len(i2c_handles)}
  /\ \A k \in 1 .. Len(i2c_handles) :
       slave[i2c_handles[k].fd] = i2c_handles[k].dev
  /\ \A k, l \in 1 .. Len(i2c_handles) :
       i2c_handles[k].dev = i2c_handles[l].dev => k = l

(* smbus_read_reg() returns the registers of the device up to the first    *)
(* that it does not answer for, through the one handle of that device.     *)
ReadsOfDevice ==
  I2cTypeOK /\ BytesOfDevice /\ ShortOnlyIfBroken /\ NoDescriptorLost

(* A read ends, whatever the device does not answer for.                   *)
ReadRegReturns == i2c_pc = "read" ~> i2c_pc = "idle"
=============================================================================
