-------------------------- MODULE MosysMainProofs --------------------------
(***************************************************************************)
(* For every list of well-formed boards, whatever an uninitialized int     *)
(* holds and whatever the transports return: mosys only runs a command on  *)
(* the right board and under the lock, reports its failure and takes       *)
(* everything down.                                                        *)
(***************************************************************************)
EXTENDS MosysMain, TLAPS

-----------------------------------------------------------------------------
(* The inductive invariant.                                                *)

NoTwice(s) == \A i, j \in DOMAIN s : s[i] = s[j] => i = j

\* What is given to the process does not change.
Given == list \in Builds /\ forced \in BOOLEAN

\* From its discovery on the board is one of the list, and the right one.
Located ==
  /\ pc \in {"setup", "post", "ready", "destroy"} \/ saved =>
       idx \in 1 .. Len(list)
  /\ pc \in {"setup", "post", "ready"} => Matches

\* Where the lock is held, and where it is not.
Locking ==
  /\ pc \in {"probe", "setup", "post", "ready"} => locked \/ forced
  /\ pc \in {"lock", "exit", "end"} => ~locked

\* What has not happened yet.
Early ==
  /\ pc \in {"lock", "probe", "setup", "post", "ready"} => ~saved
  /\ pc # "end" => status = Running
  /\ pc \in {"lock", "probe", "setup"} => fds = {} /\ dtor = {} /\ found = {}
  /\ pc \in {"post", "ready"} => roots = "set"

\* How far the set-up of the board has come: the devices not yet set up are
\* still there and closed, the others have what a command needs of them.
SettingUp ==
  pc \in {"setup", "post"} =>
    /\ NoTwice(todo)
    /\ Range(todo) \subseteq cb \ fds
    /\ Range(intf.devs) \cap cb \subseteq priv \cup Range(todo)
    /\ Range(intf.devs) \cap cb \subseteq cmd \cup {"ec"} \cup Range(todo)
    /\ vboot = intf.vboot
    /\ pc = "setup" \/ intf.post # "dev" =>
         todo = intf.devs /\ cb = intf.cb /\ fds = {}
    /\ intf.post = "lpc" => priv = {"ec"} /\ cmd = {"ec"}

\* A device that is open still has its callbacks, so that destroy finds it.
Handles == pc \in {"post", "ready", "destroy"} => fds \subseteq cb

\* What the teardown of a command has done, up to the end.
Done ==
  saved /\ pc \in {"unlock", "exit", "end"} /\ status \notin {Crash, Abort} =>
    roots = "freed" /\ fds \cap intf.closes = {}

IInv == /\ TypeOK /\ Given /\ Located /\ Locking /\ Early /\ SettingUp
        /\ Handles /\ ReadyForCommand /\ Done /\ StatusTells

-----------------------------------------------------------------------------
(* Facts about the data.                                                   *)

\* Setting up the first device of the list takes exactly it off the list.
LEMMA HeadAndTail ==
  ASSUME NEW s \in Seq(Devices), s # << >>, NoTwice(s)
  PROVE  /\ Head(s) \in Range(s) /\ Head(s) \in Devices
         /\ Tail(s) \in Seq(Devices) /\ NoTwice(Tail(s))
         /\ Range(Tail(s)) = Range(s) \ {Head(s)}
<1>1. /\ Len(s) \in Nat /\ Len(s) > 0 /\ DOMAIN s = 1 .. Len(s)
      /\ Head(s) = s[1]
  OBVIOUS
<1>2. /\ DOMAIN Tail(s) = 1 .. Len(s) - 1
      /\ \A i \in 1 .. Len(s) - 1 : Tail(s)[i] = s[i + 1]
      /\ Tail(s) \in Seq(Devices)
  OBVIOUS
<1>3. Head(s) \in Range(s) /\ Head(s) \in Devices
  BY <1>1 DEF Range
<1>4. NoTwice(Tail(s))
  BY <1>1, <1>2 DEF NoTwice
<1>5. Range(Tail(s)) \subseteq Range(s) \ {Head(s)}
  <2>1. ASSUME NEW i \in 1 .. Len(s) - 1
        PROVE  Tail(s)[i] \in Range(s) \ {Head(s)}
    <3>1. i + 1 \in DOMAIN s /\ i + 1 # 1 /\ 1 \in DOMAIN s
      BY <1>1
    <3> QED BY <1>1, <1>2, <3>1 DEF NoTwice, Range
  <2> QED BY <1>2, <2>1 DEF Range
<1>6. Range(s) \ {Head(s)} \subseteq Range(Tail(s))
  <2>1. ASSUME NEW i \in 1 .. Len(s), s[i] # Head(s)
        PROVE  s[i] \in Range(Tail(s))
    <3>1. i - 1 \in 1 .. Len(s) - 1 /\ (i - 1) + 1 = i
      BY <1>1, <2>1
    <3>2. Tail(s)[i - 1] = s[i]
      BY <1>2, <3>1
    <3> QED BY <1>2, <3>1, <3>2 DEF Range
  <2> QED BY <1>1, <2>1 DEF Range
<1> QED BY <1>2, <1>3, <1>4, <1>5, <1>6

\* The board that was found is a well-formed one.
LEMMA BoardFound ==
  ASSUME Given, idx \in 1 .. Len(list)
  PROVE  intf \in PlatformIntf /\ WellFormed(intf)
<1>1. list \in Seq(PlatformIntf) /\ idx \in DOMAIN list
  BY BuildsAssumption DEF Given
<1> QED BY <1>1, BuildsAssumption DEF Given, intf

\* No failure ends in exit status 0, and no success in another one.
LEMMA StatusOfResult ==
  ASSUME NEW r \in {0} \cup CommandRcs \cup {-1},
         NEW e \in {0, ENOSYS, EINVAL, EIO}
  PROVE  ExitStatus(r, e) = 0 <=> r = 0
<1>1. r = 0 \/ r \in -14 .. -1 \/ r \in -1014 .. -1001
  BY MosysMainAssumption
<1> QED BY <1>1 DEF ExitStatus, ENOSYS, EINVAL, EIO

\* What exit() keeps is a byte.
LEMMA StatusIsByte ==
  ASSUME NEW r \in Int, NEW e \in Int
  PROVE  ExitStatus(r, e) \in 0 .. 255
BY DEF ExitStatus

-----------------------------------------------------------------------------
(* The initial states.                                                     *)

LEMMA InitIInv == Init => IInv
<1> SUFFICES ASSUME Init PROVE IInv
  OBVIOUS
<1>1. Given
  BY DEF Init, Given
<1>2. list \in Seq(PlatformIntf) /\ Len(list) \in Nat
  BY <1>1, BuildsAssumption DEF Given
<1>3. TypeOK
  <2>1. locked \in BOOLEAN /\ full \in BOOLEAN /\ saved \in BOOLEAN
    BY DEF Init
  <2>2. todo \in Seq(Devices)
    BY DEF Init
  <2> QED BY <1>2, <2>1, <2>2 DEF Init, TypeOK, PCs
<1>4. /\ Located /\ Locking /\ Early /\ SettingUp /\ Handles
      /\ ReadyForCommand /\ Done /\ StatusTells
  BY DEF Init, Located, Locking, Early, SettingUp, Handles,
         ReadyForCommand, Done, StatusTells
<1> QED BY <1>1, <1>3, <1>4 DEF IInv

-----------------------------------------------------------------------------
(* The search for the platform.                                            *)

LEMMA SearchStep ==
  ASSUME IInv, Lock \/ NextBoard \/ NotFound
  PROVE  IInv'
<1>1. Given'
  BY DEF IInv, Given, Lock, NextBoard, NotFound, given
<1>2. list \in Seq(PlatformIntf) /\ Len(list) \in Nat
  BY BuildsAssumption DEF IInv, Given
<1>3. TypeOK'
  <2> USE DEF IInv, TypeOK, Lock, NextBoard, NotFound, given, board, devs,
              result
  <2>1. locked' \in BOOLEAN /\ full' \in BOOLEAN /\ saved' \in BOOLEAN
    OBVIOUS
  <2>2. todo' \in Seq(Devices)
    OBVIOUS
  <2>3. idx' \in 1 .. Len(list') + 1
    BY <1>2
  <2>4. /\ pc' \in PCs /\ rc' \in {0} \cup CommandRcs \cup {-1}
        /\ UNCHANGED <<roots, cb, priv, cmd, found, fds, dtor, vboot, asked,
                       errsv, status>>
    BY DEF PCs
  <2> HIDE DEF Lock, NextBoard, NotFound
  <2> QED BY <2>1, <2>2, <2>3, <2>4
<1>4. Located' /\ Locking' /\ Early'
  BY DEF IInv, TypeOK, Located, Locking, Early, Lock, NextBoard, NotFound,
         given, board, devs, result
<1>5. pc' \in {"probe", "unlock", "exit"} /\ ~saved'
  BY DEF IInv, Early, Lock, NextBoard, NotFound, result
<1>6. SettingUp' /\ Handles' /\ ReadyForCommand' /\ Done' /\ StatusTells'
  BY <1>5 DEF SettingUp, Handles, ReadyForCommand, Done, StatusTells
<1> QED BY <1>1, <1>3, <1>4, <1>6 DEF IInv

LEMMA FoundStep ==
  ASSUME IInv, Found
  PROVE  IInv'
<1> USE DEF IInv, Found
<1>1. Given' /\ intf' = intf
  BY DEF Given, given, intf
<1>2. idx \in 1 .. Len(list)
  BY BuildsAssumption DEF TypeOK, Given
<1>3. intf \in PlatformIntf /\ WellFormed(intf)
  BY <1>2, BoardFound
<1>4. TypeOK'
  <2> USE DEF TypeOK, given, result
  <2>1. locked' \in BOOLEAN /\ full' \in BOOLEAN /\ saved' \in BOOLEAN
    OBVIOUS
  <2>2. todo' \in Seq(Devices) /\ cb' \subseteq Devices \cup {"legacy_ec"}
        /\ vboot' \in {"none", "ec", "flash", "fdt", "variant"}
    BY <1>3 DEF PlatformIntf
  <2> QED BY <1>2, <2>1, <2>2 DEF PCs, Early, Devices
<1>5. Located' /\ Locking' /\ Early'
  BY <1>1, <1>2 DEF Located, Matches, Locking, Early, given, result
<1>6. SettingUp'
  BY <1>1, <1>3 DEF SettingUp, WellFormed, NoTwice, Early
<1>7. pc' = "setup" /\ ~saved'
  BY DEF Early, result
<1>8. Handles' /\ ReadyForCommand' /\ Done' /\ StatusTells'
  BY <1>7 DEF Handles, ReadyForCommand, Done, StatusTells
<1> QED BY <1>1, <1>4, <1>5, <1>6, <1>8

-----------------------------------------------------------------------------
(* The set-up of the board.                                                *)

\* What no step of a set-up touches.
LEMMA SameBoard ==
  ASSUME IInv, pc \in {"setup", "post", "ready"}, UNCHANGED <<given, board>>
  PROVE  /\ Given' /\ intf' = intf
         /\ intf \in PlatformIntf /\ WellFormed(intf)
         /\ list' = list /\ forced' = forced /\ full' = full
         /\ idx' = idx /\ idx \in 1 .. Len(list)
         /\ Matches' /\ ~saved /\ status = Running
<1>1. idx \in 1 .. Len(list) /\ ~saved /\ status = Running /\ Matches
  BY DEF IInv, Located, Early
<1>2. intf \in PlatformIntf /\ WellFormed(intf)
  BY <1>1, BoardFound DEF IInv
<1>3. Given' /\ intf' = intf
  BY DEF IInv, Given, given, board, intf
<1> QED BY <1>1, <1>2, <1>3 DEF given, board, Matches

\* A step to the command has only to show what a command needs.
LEMMA ReachesCommand ==
  ASSUME IInv, pc \in {"setup", "post"}, pc' = "ready",
         UNCHANGED <<given, board, locked, saved, status>>,
         TypeOK', ReadyForCommand', roots' = "set", fds' \subseteq cb'
  PROVE  IInv'
<1>1. /\ Given' /\ list' = list /\ forced' = forced /\ idx' = idx
      /\ idx \in 1 .. Len(list) /\ Matches' /\ ~saved /\ status = Running
  BY SameBoard
<1>2. Located' /\ Locking' /\ Early'
  BY <1>1 DEF IInv, Located, Locking, Early
<1>3. SettingUp' /\ Handles' /\ Done' /\ StatusTells'
  BY <1>1 DEF SettingUp, Handles, Done, StatusTells
<1> QED BY <1>1, <1>2, <1>3 DEF IInv

\* A set-up that fails leaves nothing to show but the types.
LEMMA SetupFailsStep ==
  ASSUME IInv, pc \in {"setup", "post"}, SetupFails,
         UNCHANGED <<given, board, saved, status>>, TypeOK'
  PROVE  IInv'
<1>1. /\ Given' /\ list' = list /\ forced' = forced /\ idx' = idx
      /\ idx \in 1 .. Len(list) /\ ~saved /\ status = Running
  BY SameBoard
<1>2. Located' /\ Locking' /\ Early'
  BY <1>1 DEF SetupFails, IInv, Located, Locking, Early
<1>3. SettingUp' /\ Handles' /\ ReadyForCommand' /\ Done' /\ StatusTells'
  BY <1>1 DEF SetupFails, SettingUp, Handles, ReadyForCommand, Done,
              StatusTells
<1> QED BY <1>1, <1>2, <1>3 DEF IInv

LEMMA OpSetupStep ==
  ASSUME IInv, OpSetup
  PROVE  IInv'
<1> USE DEF OpSetup, devs, result
<1>1. /\ intf' = intf /\ WellFormed(intf) /\ ~saved /\ status = Running
      /\ Given' /\ list' = list /\ forced' = forced /\ full' = full
      /\ idx' = idx /\ idx \in 1 .. Len(list) /\ Matches'
  BY SameBoard
<1>2. TypeOK'
  <2>1. locked' \in BOOLEAN /\ full' \in BOOLEAN /\ saved' \in BOOLEAN
    BY <1>1 DEF IInv, TypeOK
  <2>2. todo' \in Seq(Devices)
    BY DEF IInv, TypeOK
  <2> QED BY <1>1, <2>1, <2>2 DEF IInv, TypeOK, PCs
<1>3. CASE intf.post = "none"
  <2>1. todo = << >> /\ "ec" \notin cb /\ ~intf.must /\ vboot = intf.vboot
        /\ intf.devs = << >> /\ intf.vboot \notin {"fdt", "variant"}
        /\ fds = {}
    BY <1>1, <1>3 DEF IInv, SettingUp, WellFormed
  <2>2. Range(intf.devs) = {}
    BY <2>1 DEF Range
  <2>3. pc' = "ready" /\ roots' = "set" /\ (locked \/ forced)
    BY <1>3 DEF IInv, Locking
  <2>4. vboot \in {"none", "ec", "flash"}
    BY <2>1 DEF IInv, TypeOK
  <2>5. ReadyForCommand'
    BY <1>1, <2>1, <2>2, <2>3, <2>4 DEF ReadyForCommand, Matches
  <2> QED BY <1>2, <2>1, <2>3, <2>5, ReachesCommand
<1>4. CASE intf.post # "none"
  <2>1. Located' /\ Locking' /\ Early' /\ Handles'
    BY <1>1, <1>4 DEF IInv, Located, Locking, Early, Handles
  <2>2. SettingUp'
    BY <1>1, <1>4 DEF IInv, SettingUp
  <2>3. ReadyForCommand' /\ Done' /\ StatusTells'
    BY <1>1, <1>4 DEF ReadyForCommand, Done, StatusTells
  <2> QED BY <1>1, <1>2, <2>1, <2>2, <2>3 DEF IInv
<1> QED BY <1>3, <1>4

LEMMA FailureSteps ==
  ASSUME IInv, OpSetupFails \/ PostFails
  PROVE  IInv'
<1>1. /\ pc \in {"setup", "post"} /\ SetupFails
      /\ UNCHANGED <<given, locked, board, todo, cb, sub, priv, cmd, found,
                     dtor, vboot, asked, errsv, saved, status>>
      /\ fds' \subseteq fds /\ roots' \in {roots, "freed"}
  BY DEF OpSetupFails, PostFails, DestroyBoard, intf_op_destroy
<1>2. TypeOK'
  <2>1. locked' \in BOOLEAN /\ full' \in BOOLEAN /\ saved' \in BOOLEAN
    BY <1>1 DEF IInv, TypeOK, board
  <2>2. todo' \in Seq(Devices) /\ idx' \in 1 .. Len(list') + 1
    BY <1>1 DEF IInv, TypeOK, board, given
  <2>3. pc' \in PCs /\ rc' \in {0} \cup CommandRcs \cup {-1}
    BY <1>1 DEF SetupFails, PCs
  <2> QED BY <1>1, <2>1, <2>2, <2>3 DEF IInv, TypeOK
<1> QED BY <1>1, <1>2, SetupFailsStep

\* Dropping a device, failing to open it and opening it all take the first
\* device off the list and say what becomes of it.
LEMMA DeviceStep ==
  ASSUME IInv, DropDevice \/ OpenFails \/ OpenDevice
  PROVE  IInv'
<1> DEFINE d == Head(todo)
<1>1. /\ pc = "post" /\ pc' = "post" /\ intf.post = "dev" /\ todo # << >>
      /\ todo' = Tail(todo)
      /\ UNCHANGED <<given, locked, board, roots, vboot, result>>
  BY DEF DropDevice, OpenFails, OpenDevice
<1>2. /\ intf' = intf /\ Given' /\ list' = list /\ forced' = forced
      /\ full' = full /\ idx' = idx /\ idx \in 1 .. Len(list) /\ Matches'
      /\ ~saved /\ ~saved' /\ status' = Running
  BY <1>1, SameBoard DEF result
<1>3. todo \in Seq(Devices) /\ NoTwice(todo)
  BY <1>1 DEF IInv, TypeOK, SettingUp
<1>4. /\ d \in Range(todo) /\ d \in Devices
      /\ Tail(todo) \in Seq(Devices) /\ NoTwice(Tail(todo))
      /\ Range(Tail(todo)) = Range(todo) \ {d}
  BY <1>1, <1>3, HeadAndTail
<1>5. \* what becomes of d
      /\ cb' \subseteq cb /\ cb \ {d} \subseteq cb'
      /\ priv \subseteq priv' /\ priv' \subseteq priv \cup {d}
      /\ cmd \subseteq cmd'
      /\ fds' = fds \/ (fds' = fds \cup {d} /\ cb' = cb)
      /\ d \in cb' => d \in priv' /\ d \in cmd' \cup {"ec"}
  BY DEF DropDevice, OpenFails, OpenDevice
<1>6. TypeOK'
  <2>1. locked' \in BOOLEAN /\ full' \in BOOLEAN /\ saved' \in BOOLEAN
    BY <1>1, <1>2 DEF IInv, TypeOK, result
  <2>2. todo' \in Seq(Devices) /\ idx' \in 1 .. Len(list') + 1
    BY <1>1, <1>2, <1>4 DEF IInv, TypeOK
  <2>3. /\ cb' \subseteq Devices \cup {"legacy_ec"}
        /\ priv' \subseteq Devices
    BY <1>4, <1>5 DEF IInv, TypeOK
  <2>4. /\ cmd' \subseteq priv' /\ found' \subseteq cmd'
        /\ fds' \subseteq dtor' /\ dtor' \subseteq cmd'
    BY DEF IInv, TypeOK, DropDevice, OpenFails, OpenDevice
  <2> QED BY <1>1, <1>2, <2>1, <2>2, <2>3, <2>4 DEF IInv, TypeOK, PCs, result
<1>7. Located' /\ Locking' /\ Early'
  BY <1>1, <1>2 DEF IInv, Located, Locking, Early
<1>8. SettingUp'
  <2>1. /\ Range(todo) \subseteq cb \ fds
        /\ Range(intf.devs) \cap cb \subseteq priv \cup Range(todo)
        /\ Range(intf.devs) \cap cb \subseteq cmd \cup {"ec"} \cup Range(todo)
        /\ vboot = intf.vboot
    BY <1>1 DEF IInv, SettingUp
  <2>2. Range(Tail(todo)) \subseteq cb' \ fds'
    BY <1>4, <1>5, <2>1
  <2>3. /\ Range(intf.devs) \cap cb' \subseteq priv' \cup Range(Tail(todo))
        /\ Range(intf.devs) \cap cb'
             \subseteq cmd' \cup {"ec"} \cup Range(Tail(todo))
    BY <1>4, <1>5, <2>1
  <2> QED BY <1>1, <1>2, <1>4, <2>1, <2>2, <2>3 DEF SettingUp
<1>9. Handles'
  BY <1>1, <1>4, <1>5 DEF IInv, Handles, SettingUp
<1>10. ReadyForCommand' /\ Done' /\ StatusTells'
  BY <1>1, <1>2 DEF ReadyForCommand, Done, StatusTells
<1> QED BY <1>2, <1>6, <1>7, <1>8, <1>9, <1>10 DEF IInv

LEMMA PostDoneStep ==
  ASSUME IInv, PostDone
  PROVE  IInv'
<1> USE DEF PostDone, result
<1>1. /\ intf' = intf /\ WellFormed(intf) /\ ~saved /\ status = Running
      /\ list' = list /\ forced' = forced /\ full' = full
      /\ idx' = idx /\ idx \in 1 .. Len(list) /\ Matches'
  BY SameBoard
<1>2. vboot' \in {"none", "ec", "flash"}
  BY DEF IInv, TypeOK
<1>3. TypeOK'
  <2>1. locked' \in BOOLEAN /\ full' \in BOOLEAN /\ saved' \in BOOLEAN
    BY <1>1 DEF IInv, TypeOK
  <2>2. todo' \in Seq(Devices) /\ idx' \in 1 .. Len(list') + 1
    BY <1>1 DEF IInv, TypeOK
  <2> QED BY <1>2, <2>1, <2>2 DEF IInv, TypeOK, PCs
<1>4. /\ locked \/ forced
      /\ roots = "set" /\ fds \subseteq cb
      /\ Range(intf.devs) \cap cb \subseteq priv \cup Range(todo)
      /\ Range(intf.devs) \cap cb \subseteq cmd \cup {"ec"} \cup Range(todo)
  BY DEF IInv, Locking, Early, Handles, SettingUp
<1>5. Range(todo) = {} /\ ~intf.must
  BY <1>1 DEF Range, WellFormed
<1>6. ReadyForCommand'
  BY <1>1, <1>2, <1>4, <1>5 DEF ReadyForCommand, Matches
<1> QED BY <1>3, <1>4, <1>6, ReachesCommand

LEMMA OtherPostStep ==
  ASSUME IInv, PostLpc \/ PostI2c \/ PostLegacy
  PROVE  IInv'
<1> USE DEF devs, result
<1>1. /\ pc = "post" /\ intf.post \in {"lpc", "dev_i2c", "legacy"}
      /\ UNCHANGED <<given, locked, board, roots, cb, sub, vboot, asked,
                     errsv, saved, status>>
  BY DEF PostLpc, PostI2c, PostLegacy
<1>2. /\ intf' = intf /\ WellFormed(intf) /\ ~saved /\ status = Running
      /\ list' = list /\ forced' = forced /\ full' = full
      /\ idx' = idx /\ idx \in 1 .. Len(list) /\ Matches'
  BY <1>1, SameBoard
<1>3. /\ todo = intf.devs /\ cb = intf.cb /\ fds = {} /\ vboot = intf.vboot
      /\ intf.post = "lpc" => priv = {"ec"} /\ cmd = {"ec"}
      /\ locked \/ forced
      /\ roots = "set"
  BY <1>1 DEF IInv, SettingUp, Locking, Early
<1>4. vboot \in {"none", "ec", "flash"}
  BY <1>1, <1>2, <1>3 DEF IInv, TypeOK, WellFormed
<1>5. /\ intf.post \in {"lpc", "dev_i2c"} => Range(intf.devs) = {"ec"}
      /\ intf.post = "legacy" => Range(intf.devs) = {} /\ intf.devs = << >>
      /\ Range(intf.devs) \subseteq cb
      /\ intf.post = "legacy" => "ec" \notin cb
      /\ intf.post = "lpc" => ~intf.must
  <2>1. Range(<<"ec">>) = {"ec"} /\ Range(<< >>) = {}
    BY DEF Range
  <2> QED BY <1>1, <1>2, <1>3, <2>1 DEF WellFormed
<1>6. TypeOK'
  <2>1. locked' \in BOOLEAN /\ full' \in BOOLEAN /\ saved' \in BOOLEAN
    BY <1>1, <1>2 DEF IInv, TypeOK
  <2>2. todo' \in Seq(Devices) /\ idx' \in 1 .. Len(list') + 1
    <3>1. todo' = todo \/ todo' = << >>
      BY DEF PostLpc, PostI2c, PostLegacy
    <3>2. todo \in Seq(Devices) /\ << >> \in Seq(Devices)
      BY DEF IInv, TypeOK
    <3>3. idx' \in 1 .. Len(list') + 1
      BY <1>2 DEF IInv, TypeOK
    <3> QED BY <3>1, <3>2, <3>3
  <2>3. pc' \in PCs /\ rc' \in {0} \cup CommandRcs \cup {-1}
    BY DEF IInv, TypeOK, PCs, PostLpc, PostI2c, PostLegacy, SetupFails
  <2>4. /\ cmd' \subseteq priv' /\ priv' \subseteq Devices
        /\ found' \subseteq cmd' /\ fds' \subseteq dtor' /\ dtor' \subseteq cmd'
    BY <1>3 DEF IInv, TypeOK, PostLpc, PostI2c, PostLegacy, Devices
  <2> QED BY <1>1, <2>1, <2>2, <2>3, <2>4 DEF IInv, TypeOK
<1>7. fds' \subseteq cb'
  BY <1>1, <1>3, <1>5 DEF PostLpc, PostI2c, PostLegacy
<1>8. CASE pc' = "ready"
  <2>1. /\ todo' = << >>
        /\ Range(intf.devs) \cap cb' \subseteq priv'
        /\ Range(intf.devs) \cap cb' \subseteq cmd' \cup {"ec"}
        /\ intf.must /\ "ec" \in cb' => "ec" \in found'
    BY <1>1, <1>3, <1>5, <1>8 DEF PostLpc, PostI2c, PostLegacy, SetupFails
  <2>2. ReadyForCommand'
    BY <1>1, <1>2, <1>3, <1>4, <2>1 DEF ReadyForCommand, Matches
  <2> QED BY <1>1, <1>3, <1>6, <1>7, <1>8, <2>2, ReachesCommand
<1>9. CASE pc' # "ready"
  <2>1. SetupFails
    BY <1>9 DEF PostLpc, PostI2c, PostLegacy
  <2> QED BY <1>1, <1>6, <2>1, SetupFailsStep
<1> QED BY <1>8, <1>9

-----------------------------------------------------------------------------
(* The command.                                                            *)

\* How a command ends: with a result, or with a signal.
CommandEnds ==
  /\ pc = "ready" /\ asked' \subseteq Devices
  /\ \/ /\ pc' = "destroy" /\ status' = status
        /\ locked' = locked \/ locked' = FALSE
        /\ saved' \in BOOLEAN
        /\ rc' \in {0} \cup CommandRcs \cup {-1}
        /\ errsv' \in {0, ENOSYS, EINVAL, EIO}
     \/ /\ pc' = "end" /\ status' \in {Crash, Abort} /\ locked' = FALSE
        /\ UNCHANGED <<rc, errsv, saved>>

LEMMA AskEnds ==
  ASSUME IInv, pc = "ready", NEW d \in Devices,
         NEW Results \in SUBSET ({0} \cup CommandRcs \cup {-1}),
         Ask(d, Results)
  PROVE  CommandEnds
<1>1. asked' \subseteq Devices
  BY DEF IInv, TypeOK, Ask
<1>2. CASE d \in cmd
  BY <1>1, <1>2 DEF Ask, Finish, CommandEnds
<1>3. CASE d \notin cmd
  BY <1>1, <1>3 DEF Ask, Killed, CommandEnds
<1> QED BY <1>2, <1>3

\* A result without a device.
LEMMA FinishEnds ==
  ASSUME IInv, pc = "ready", UNCHANGED asked,
         locked' = locked \/ locked' = FALSE,
         Finish(0, 0) \/ Finish(-1, 0) \/ Finish(-1, EINVAL)
           \/ Finish(-1, ENOSYS) \/ Finish(-1, EIO) \/ Finish(0, EIO)
  PROVE  CommandEnds
BY DEF IInv, TypeOK, Finish, CommandEnds

LEMMA EveryCommandEnds ==
  ASSUME IInv,
         ShowTree \/ NotSupported \/ SubMenu \/ Info \/ Chip \/ Vboot \/ Version
  PROVE  CommandEnds /\ KeepsBoard
<1>1. KeepsBoard /\ pc = "ready"
  BY DEF ShowTree, NotSupported, SubMenu, Info, Chip, Vboot, Version
<1>2. CASE ShowTree
  BY <1>2 DEF IInv, TypeOK, ShowTree, CommandEnds
<1>3. CASE NotSupported \/ SubMenu
  BY <1>3, FinishEnds DEF NotSupported, SubMenu
<1>4. CASE Info
  <2>1. PICK d \in sub \cap Devices :
          \/ Ask(d, {0})
          \/ (Finish(0, EIO) \/ Finish(-1, ENOSYS))
               /\ UNCHANGED <<locked, asked>>
    BY <1>4 DEF Info
  <2> QED BY <1>1, <2>1, AskEnds, FinishEnds
<1>5. CASE Chip
  <2>1. \/ Ask("ec", {0} \cup CommandRcs)
        \/ Finish(-1, 0) /\ UNCHANGED <<locked, asked>>
    BY <1>5 DEF Chip
  <2>2. "ec" \in Devices
    BY DEF Devices
  <2> QED BY <1>1, <2>1, <2>2, AskEnds, FinishEnds
<1>6. CASE Vboot
  <2>1. \/ Ask("ec", {0, -1})
        \/ /\ Finish(-1, ENOSYS) \/ Finish(0, 0) \/ Finish(-1, EIO)
           /\ asked' = asked /\ (locked' = locked \/ locked' = FALSE)
    BY <1>6 DEF Vboot
  <2>2. "ec" \in Devices
    BY DEF Devices
  <2> QED BY <1>1, <2>1, <2>2, AskEnds, FinishEnds
<1>7. CASE Version
  <2>1. \/ Ask("ec", {0})
        \/ (Finish(0, 0) \/ Finish(-1, EIO)) /\ UNCHANGED <<locked, asked>>
    BY <1>7 DEF Version
  <2>2. "ec" \in Devices
    BY DEF Devices
  <2> QED BY <1>1, <2>1, <2>2, AskEnds, FinishEnds
<1> QED BY <1>1, <1>2, <1>3, <1>4, <1>5, <1>6, <1>7

LEMMA CommandStep ==
  ASSUME IInv, CommandEnds, KeepsBoard
  PROVE  IInv'
<1> USE DEF KeepsBoard, devs
<1>1. /\ Given' /\ intf' = intf /\ list' = list /\ forced' = forced
      /\ idx' = idx /\ idx \in 1 .. Len(list) /\ ~saved /\ status = Running
  BY SameBoard DEF CommandEnds
<1>2. TypeOK'
  <2>1. locked' \in BOOLEAN /\ full' \in BOOLEAN /\ saved' \in BOOLEAN
    BY <1>1 DEF IInv, TypeOK, CommandEnds, board
  <2>2. todo' \in Seq(Devices)
    BY DEF IInv, TypeOK
  <2>3. idx' \in 1 .. Len(list') + 1
    BY <1>1 DEF IInv, TypeOK
  <2>4. /\ pc' \in PCs /\ asked' \subseteq Devices
        /\ rc' \in {0} \cup CommandRcs \cup {-1}
        /\ errsv' \in {0, ENOSYS, EINVAL, EIO}
        /\ status' \in 0..255 \cup {Running, Crash, Abort}
    BY DEF IInv, TypeOK, CommandEnds, PCs
  <2> QED BY <2>1, <2>2, <2>3, <2>4 DEF IInv, TypeOK
<1>3. Located' /\ Locking' /\ Early'
  BY <1>1 DEF IInv, CommandEnds, Located, Locking, Early
<1>4. Handles'
  BY DEF IInv, CommandEnds, Handles
<1>5. SettingUp' /\ ReadyForCommand' /\ Done' /\ StatusTells'
  BY <1>1 DEF CommandEnds, SettingUp, ReadyForCommand, Done, StatusTells
<1> QED BY <1>1, <1>2, <1>3, <1>4, <1>5 DEF IInv

-----------------------------------------------------------------------------
(* The end.                                                                *)

LEMMA DestroyStep ==
  ASSUME IInv, Destroy
  PROVE  IInv'
<1>1. /\ pc = "destroy" /\ idx \in 1 .. Len(list) /\ status = Running
      /\ UNCHANGED <<given, board, todo, cb, sub, priv, cmd, found, dtor,
                     vboot, asked, rc, errsv, saved>>
      /\ fds' \subseteq fds /\ fds \subseteq cb \cap dtor
  BY DEF IInv, TypeOK, Located, Early, Handles, Destroy, DestroyBoard
<1>2. Given' /\ intf' = intf /\ list' = list /\ forced' = forced /\ idx' = idx
  BY <1>1 DEF IInv, Given, given, board, intf
<1>3. \/ /\ pc' = "unlock" /\ locked' = locked /\ status' = status
         /\ roots' = "freed" /\ fds' \cap intf.closes = {}
      \/ /\ pc' = "end" /\ status' = Crash /\ locked' = FALSE
         /\ roots' = roots /\ fds' = fds
  BY <1>1 DEF Destroy, DestroyBoard, intf_op_destroy, Killed
<1>4. TypeOK'
  <2>1. locked' \in BOOLEAN /\ full' \in BOOLEAN /\ saved' \in BOOLEAN
    BY <1>1, <1>3 DEF IInv, TypeOK, board
  <2>2. todo' \in Seq(Devices)
    BY <1>1 DEF IInv, TypeOK
  <2>3. idx' \in 1 .. Len(list') + 1
    BY <1>2 DEF IInv, TypeOK
  <2>4. /\ pc' \in PCs /\ status' \in 0..255 \cup {Running, Crash, Abort}
        /\ roots' \in {"unset", "set", "freed"} /\ fds' \subseteq dtor'
    BY <1>1, <1>3 DEF IInv, TypeOK, PCs
  <2> QED BY <1>1, <2>1, <2>2, <2>3, <2>4 DEF IInv, TypeOK
<1>5. Located' /\ Locking' /\ Early'
  BY <1>1, <1>2, <1>3 DEF IInv, Located, Locking, Early
<1>6. Done'
  BY <1>2, <1>3 DEF Done
<1>7. SettingUp' /\ Handles' /\ ReadyForCommand' /\ StatusTells'
  BY <1>3 DEF SettingUp, Handles, ReadyForCommand, StatusTells
<1> QED BY <1>2, <1>4, <1>5, <1>6, <1>7 DEF IInv

LEMMA UnlockStep ==
  ASSUME IInv, Unlock
  PROVE  IInv'
<1> USE DEF Unlock, devs, result
<1>1. Given' /\ intf' = intf /\ list' = list /\ forced' = forced /\ idx' = idx
  BY DEF IInv, Given, given, board, intf
<1>2. TypeOK'
  <2>1. locked' \in BOOLEAN /\ full' \in BOOLEAN /\ saved' \in BOOLEAN
    BY DEF IInv, TypeOK, board
  <2>2. todo' \in Seq(Devices)
    BY DEF IInv, TypeOK
  <2>3. idx' \in 1 .. Len(list') + 1
    BY <1>1 DEF IInv, TypeOK
  <2> QED BY <2>1, <2>2, <2>3 DEF IInv, TypeOK, PCs
<1>3. Located' /\ Locking' /\ Early' /\ Done'
  BY <1>1 DEF IInv, Located, Locking, Early, Done
<1>4. SettingUp' /\ Handles' /\ ReadyForCommand' /\ StatusTells'
  BY DEF SettingUp, Handles, ReadyForCommand, StatusTells
<1> QED BY <1>1, <1>2, <1>3, <1>4 DEF IInv

LEMMA ExitStep ==
  ASSUME IInv, Exit
  PROVE  IInv'
<1>1. /\ pc = "exit" /\ pc' = "end"
      /\ UNCHANGED <<given, locked, board, roots, todo, devs, asked, rc,
                     errsv, saved>>
  BY DEF Exit
<1>2. PICK e \in (IF saved THEN {errsv} ELSE Garbage) :
        status' = ExitStatus(rc, e)
  BY DEF Exit
<1>3. Given' /\ intf' = intf /\ list' = list /\ forced' = forced /\ idx' = idx
  BY <1>1 DEF IInv, Given, given, board, intf
<1>4. e \in Int /\ rc \in Int /\ rc \in {0} \cup CommandRcs \cup {-1}
      /\ errsv \in {0, ENOSYS, EINVAL, EIO}
  BY <1>2, MosysMainAssumption DEF IInv, TypeOK, ENOSYS, EINVAL, EIO
<1>5. status' \in 0 .. 255
  BY <1>2, <1>4, StatusIsByte
<1>6. TypeOK'
  <2>1. locked' \in BOOLEAN /\ full' \in BOOLEAN /\ saved' \in BOOLEAN
    BY <1>1 DEF IInv, TypeOK, board
  <2>2. todo' \in Seq(Devices)
    BY <1>1 DEF IInv, TypeOK
  <2>3. idx' \in 1 .. Len(list') + 1
    BY <1>3 DEF IInv, TypeOK
  <2> QED BY <1>1, <1>5, <2>1, <2>2, <2>3 DEF IInv, TypeOK, PCs, devs
<1>7. StatusTells'
  <2>1. saved => e = errsv
    BY <1>2
  <2> QED BY <1>1, <1>2, <1>4, <2>1, StatusOfResult DEF StatusTells
<1>8. Located' /\ Locking' /\ Early'
  BY <1>1, <1>3 DEF IInv, Located, Locking, Early
<1>9. Done'
  <2>1. status = Running /\ Running \notin {Crash, Abort}
    BY <1>1 DEF IInv, Early, Running, Crash, Abort
  <2> QED BY <1>1, <1>3, <2>1 DEF IInv, Done, devs
<1>10. SettingUp' /\ Handles' /\ ReadyForCommand'
  BY <1>1 DEF SettingUp, Handles, ReadyForCommand
<1> QED BY <1>3, <1>6, <1>7, <1>8, <1>9, <1>10 DEF IInv

-----------------------------------------------------------------------------
(* Every step.                                                            *)

LEMMA NextIInv == IInv /\ [Next]_vars => IInv'
<1> SUFFICES ASSUME IInv, [Next]_vars PROVE IInv'
  OBVIOUS
<1>1. CASE Lock \/ NextBoard \/ NotFound
  BY <1>1, SearchStep
<1>2. CASE Found
  BY <1>2, FoundStep
<1>3. CASE OpSetup
  BY <1>3, OpSetupStep
<1>4. CASE OpSetupFails \/ PostFails
  BY <1>4, FailureSteps
<1>5. CASE DropDevice \/ OpenFails \/ OpenDevice
  BY <1>5, DeviceStep
<1>6. CASE PostDone
  BY <1>6, PostDoneStep
<1>7. CASE PostLpc \/ PostI2c \/ PostLegacy
  BY <1>7, OtherPostStep
<1>8. CASE \/ ShowTree \/ NotSupported \/ SubMenu \/ Info \/ Chip \/ Vboot
           \/ Version
  BY <1>8, EveryCommandEnds, CommandStep
<1>9. CASE Destroy
  BY <1>9, DestroyStep
<1>10. CASE Unlock
  BY <1>10, UnlockStep
<1>11. CASE Exit
  BY <1>11, ExitStep
<1>12. CASE UNCHANGED vars
  BY <1>12 DEF vars, IInv, TypeOK, Given, Located, Matches, Locking, Early,
               SettingUp, Handles, ReadyForCommand, Done, StatusTells, intf
<1> QED BY <1>1, <1>2, <1>3, <1>4, <1>5, <1>6, <1>7, <1>8, <1>9, <1>10,
           <1>11, <1>12 DEF Next

LEMMA Invariance == Spec => []IInv
BY InitIInv, NextIInv, PTL DEF Spec

-----------------------------------------------------------------------------
(* Signals.                                                                *)

\* Why each callback without a transport is without one: it belongs to a
\* device that could not be opened, or that the variant is not to have.
Explained ==
  /\ pc \in {"setup", "post", "ready", "destroy"} =>
       cb \subseteq intf.cb /\ (intf.cb \ cb) \cap cmd = {}
  /\ pc \in {"setup", "post", "ready"} =>
       \A d \in cb : Dropped(d) => d \in Range(todo)
  /\ pc \in {"setup", "post"} /\ intf.post = "dev" => Range(todo) \cap cmd = {}
  /\ pc = "ready" /\ vboot = "ec" => "ec" \in intf.cb /\ ~Dropped("ec")

SInv == IInv /\ Explained /\ SignalNeedsMissingDevice

\* Before a board is found, and after it is gone, there is nothing to show.
LEMMA NoBoardExplained ==
  ASSUME pc' \in {"lock", "probe", "unlock", "exit", "end"},
         status' \in 0..255 \cup {Running}
  PROVE  Explained' /\ SignalNeedsMissingDevice'
BY DEF Explained, SignalNeedsMissingDevice, Running, Crash, Abort

LEMMA SearchExplained ==
  ASSUME SInv, \/ Lock \/ NextBoard \/ NotFound \/ OpSetupFails \/ PostFails
               \/ Unlock \/ Exit
  PROVE  Explained' /\ SignalNeedsMissingDevice'
<1>1. CASE Lock \/ NextBoard \/ NotFound \/ OpSetupFails \/ PostFails \/ Unlock
  <2>1. pc' \in {"lock", "probe", "unlock", "exit"} /\ status' = Running
    BY <1>1 DEF SInv, IInv, Early, Lock, NextBoard, NotFound, OpSetupFails,
                PostFails, Unlock, SetupFails, result
  <2> QED BY <2>1, NoBoardExplained
<1>2. CASE Exit
  <2>1. PICK e \in (IF saved THEN {errsv} ELSE Garbage) :
          status' = ExitStatus(rc, e)
    BY <1>2 DEF Exit
  <2>2. errsv \in Int /\ rc \in Int
    BY MosysMainAssumption DEF SInv, IInv, TypeOK, ENOSYS, EINVAL, EIO
  <2>3. e \in Int
    BY <2>1, <2>2, MosysMainAssumption
  <2> QED BY <1>2, <2>1, <2>2, <2>3, StatusIsByte, NoBoardExplained DEF Exit
<1> QED BY <1>1, <1>2

LEMMA FoundExplained ==
  ASSUME SInv, Found
  PROVE  Explained' /\ SignalNeedsMissingDevice'
<1>1. idx \in 1 .. Len(list)
  BY BuildsAssumption DEF SInv, IInv, TypeOK, Given, Found
<1>2. WellFormed(intf)
  BY <1>1, BoardFound DEF SInv, IInv
<1>3. intf' = intf /\ status' = Running /\ pc' = "setup"
  BY DEF SInv, IInv, Early, Found, given, result, intf
<1>4. cb' = intf.cb /\ todo' = intf.devs
      /\ (intf.post = "dev" => cmd' = {})
  BY DEF Found
<1>5. Explained'
  BY <1>2, <1>3, <1>4 DEF Explained, WellFormed, Dropped
<1> QED BY <1>3, <1>5 DEF SignalNeedsMissingDevice, Running, Crash, Abort

\* The steps of a set-up that leave the callbacks alone.
LEMMA PostExplained ==
  ASSUME SInv, OpSetup \/ PostDone \/ PostLpc \/ PostI2c \/ PostLegacy
  PROVE  Explained' /\ SignalNeedsMissingDevice'
<1> USE DEF devs, result
<1>1. /\ pc \in {"setup", "post"} /\ UNCHANGED <<given, board, status, cb>>
      /\ pc' \in {"post", "ready", "unlock"}
  BY DEF OpSetup, PostDone, PostLpc, PostI2c, PostLegacy, SetupFails
<1>2. /\ intf' = intf /\ WellFormed(intf) /\ full' = full /\ status' = Running
  BY <1>1, SameBoard DEF SInv
<1>3. /\ vboot = intf.vboot /\ cb \subseteq intf.cb
      /\ (intf.cb \ cb) \cap cmd = {}
      /\ \A d \in cb : Dropped(d) => d \in Range(todo)
      /\ intf.post = "dev" => Range(todo) \cap cmd = {}
      /\ intf.post # "dev" => cb = intf.cb
  BY <1>1 DEF SInv, IInv, SettingUp, Explained
<1>4. \A d : Dropped(d)' <=> Dropped(d)
  BY <1>2 DEF Dropped
<1>5. (intf.cb \ cb) \cap cmd' = {}
  BY <1>3 DEF OpSetup, PostDone, PostLpc, PostI2c, PostLegacy
<1>6. \A d \in cb : Dropped(d) => d \in Range(todo')
  <2>1. todo' = todo \/ intf.post # "dev"
    BY DEF OpSetup, PostDone, PostLpc, PostI2c, PostLegacy
  <2>2. intf.post # "dev" => \A d : ~Dropped(d)
    BY <1>2 DEF WellFormed, Dropped
  <2> QED BY <1>3, <2>1, <2>2
<1>7. pc' = "post" => cmd' = cmd /\ todo' = todo
  BY DEF OpSetup, PostDone, PostLpc, PostI2c, PostLegacy, SetupFails
<1>8. vboot' = "ec" => "ec" \in intf.cb /\ ~Dropped("ec")
  <2>1. vboot' = "ec" => \/ intf.vboot \in {"ec", "fdt"}
                         \/ intf.vboot = "variant" /\ full
    BY <1>3 DEF OpSetup, PostDone, PostLpc, PostI2c, PostLegacy
  <2> QED BY <1>2, <2>1 DEF WellFormed, Dropped
<1>9. Explained'
  BY <1>1, <1>2, <1>3, <1>4, <1>5, <1>6, <1>7, <1>8 DEF Explained
<1> QED BY <1>2, <1>9 DEF SignalNeedsMissingDevice, Running, Crash, Abort

LEMMA DeviceExplained ==
  ASSUME SInv, DropDevice \/ OpenFails \/ OpenDevice
  PROVE  Explained' /\ SignalNeedsMissingDevice'
<1> DEFINE h == Head(todo)
<1>1. /\ pc = "post" /\ pc' = "post" /\ intf.post = "dev" /\ todo # << >>
      /\ todo' = Tail(todo) /\ UNCHANGED <<given, board, result>>
  BY DEF DropDevice, OpenFails, OpenDevice
<1>2. intf' = intf /\ full' = full /\ status' = Running
  BY <1>1, SameBoard DEF SInv, result
<1>3. todo \in Seq(Devices) /\ NoTwice(todo) /\ Range(todo) \subseteq cb
  BY <1>1 DEF SInv, IInv, TypeOK, SettingUp
<1>4. h \in Range(todo) /\ Range(todo') = Range(todo) \ {h}
  BY <1>1, <1>3, HeadAndTail
<1>5. /\ cb \subseteq intf.cb /\ (intf.cb \ cb) \cap cmd = {}
      /\ \A d \in cb : Dropped(d) => d \in Range(todo)
      /\ Range(todo) \cap cmd = {}
  BY <1>1 DEF SInv, Explained
<1>6. \/ cb' \subseteq cb /\ cb \ {h} \subseteq cb' /\ cmd' = cmd
      \/ cb' = cb /\ cmd' = cmd \cup {h}
  BY DEF DropDevice, OpenFails, OpenDevice
<1>7. h \in cb' => ~Dropped(h)
  BY DEF DropDevice, OpenFails, OpenDevice
<1>8. \A d : Dropped(d)' <=> Dropped(d)
  BY <1>2 DEF Dropped
<1>9. cb' \subseteq intf.cb /\ (intf.cb \ cb') \cap cmd' = {}
  BY <1>3, <1>4, <1>5, <1>6
<1>10. \A d \in cb' : Dropped(d) => d \in Range(todo')
  BY <1>4, <1>5, <1>6, <1>7
<1>11. Range(todo') \cap cmd' = {}
  BY <1>4, <1>5, <1>6
<1>12. Explained'
  BY <1>1, <1>2, <1>8, <1>9, <1>10, <1>11 DEF Explained
<1> QED BY <1>2, <1>12 DEF SignalNeedsMissingDevice, Running, Crash, Abort

\* A handler that asks a device of the variant ends with a result, or the
\* device is the one that explains the signal.
LEMMA AskExplained ==
  ASSUME SInv, pc = "ready", KeepsBoard, NEW d, NEW Results, Ask(d, Results),
         d \in intf.cb, ~Dropped(d)
  PROVE  Explained' /\ SignalNeedsMissingDevice'
<1> USE DEF KeepsBoard, devs
<1>1. intf' = intf /\ full' = full /\ status = Running
  BY SameBoard DEF SInv
<1>2. CASE d \in cmd
  <2>1. pc' = "destroy" /\ status' = Running
    BY <1>1, <1>2 DEF Ask, Finish
  <2> QED BY <1>1, <2>1 DEF SInv, Explained, SignalNeedsMissingDevice, Running,
                            Crash, Abort
<1>3. CASE d \notin cmd
  <2>1. pc' = "end" /\ cmd' = cmd /\ ~Dropped(d)'
    BY <1>1, <1>3 DEF Ask, Killed, Dropped
  <2> QED BY <1>1, <1>3, <2>1 DEF Explained, SignalNeedsMissingDevice
<1> QED BY <1>2, <1>3

\* A command that asks no device ends with a result.
LEMMA ResultExplained ==
  ASSUME SInv, pc = "ready", pc' = "destroy", status' = status, KeepsBoard
  PROVE  Explained' /\ SignalNeedsMissingDevice'
<1>1. intf' = intf /\ status = Running
  BY SameBoard DEF SInv, KeepsBoard
<1> QED BY <1>1 DEF SInv, Explained, SignalNeedsMissingDevice, Running, Crash,
                    Abort, KeepsBoard, devs

LEMMA CommandExplained ==
  ASSUME SInv,
         ShowTree \/ NotSupported \/ SubMenu \/ Info \/ Chip \/ Vboot \/ Version
  PROVE  Explained' /\ SignalNeedsMissingDevice'
<1>1. pc = "ready" /\ KeepsBoard
  BY DEF ShowTree, NotSupported, SubMenu, Info, Chip, Vboot, Version
<1>2. WellFormed(intf)
  BY <1>1, SameBoard DEF SInv, KeepsBoard
<1>3. Range(todo) = {}
  BY <1>1 DEF SInv, IInv, ReadyForCommand, Range
<1>4. \A d \in cb : d \in intf.cb /\ ~Dropped(d)
  BY <1>1, <1>3 DEF SInv, Explained
<1>5. CASE ShowTree \/ NotSupported \/ SubMenu
  BY <1>1, <1>5, ResultExplained DEF ShowTree, NotSupported, SubMenu, Finish
<1>6. CASE Info
  <2>1. \/ \E d \in cb : Ask(d, {0})
        \/ Finish(0, EIO) \/ Finish(-1, ENOSYS)
    BY <1>6 DEF Info
  <2> QED BY <1>1, <1>4, <2>1, AskExplained, ResultExplained DEF Finish
<1>7. CASE Chip
  BY <1>1, <1>4, <1>7, AskExplained, ResultExplained DEF Chip, Finish
<1>8. CASE Vboot
  <2>1. vboot = "ec" => "ec" \in intf.cb /\ ~Dropped("ec")
    BY <1>1 DEF SInv, Explained
  <2>2. \/ vboot = "ec" /\ Ask("ec", {0, -1})
        \/ \E r, e : Finish(r, e)
    BY <1>8 DEF Vboot
  <2> QED BY <1>1, <2>1, <2>2, AskExplained, ResultExplained DEF Finish
<1>9. CASE Version
  <2>1. intf.version = "ec" => "ec" \in intf.cb /\ ~Dropped("ec")
    BY <1>2 DEF WellFormed, Dropped
  <2>2. \/ intf.version = "ec" /\ Ask("ec", {0})
        \/ \E r, e : Finish(r, e)
    BY <1>9 DEF Version
  <2> QED BY <1>1, <2>1, <2>2, AskExplained, ResultExplained DEF Finish
<1> QED BY <1>5, <1>6, <1>7, <1>8, <1>9

LEMMA DestroyExplained ==
  ASSUME SInv, Destroy
  PROVE  Explained' /\ SignalNeedsMissingDevice'
<1>1. /\ pc = "destroy" /\ status = Running
      /\ UNCHANGED <<given, board, cb, cmd>>
  BY DEF SInv, IInv, Early, Destroy
<1>2. intf' = intf /\ full' = full /\ WellFormed(intf)
  BY <1>1, BoardFound DEF SInv, IInv, Located, given, board, intf
<1>3. CASE NullDestroy
  <2>1. PICK d \in intf.closes : d \notin cb
    BY <1>3 DEF NullDestroy
  <2>2. d \in intf.cb /\ d \notin intf.optional
    BY <1>2, <1>3, <2>1 DEF NullDestroy, WellFormed
  <2>3. d \notin cmd
    BY <1>1, <2>1, <2>2 DEF SInv, Explained
  <2>4. pc' = "end" /\ cmd' = cmd /\ ~Dropped(d)'
    BY <1>1, <1>2, <1>3, <2>2 DEF Destroy, Killed, Dropped
  <2> QED BY <1>2, <2>2, <2>3, <2>4 DEF Explained, SignalNeedsMissingDevice
<1>4. CASE ~NullDestroy
  BY <1>1, <1>4, NoBoardExplained DEF Destroy
<1> QED BY <1>3, <1>4

LEMMA SInvariance == Spec => []SInv
<1>1. Init => SInv
  <2> SUFFICES ASSUME Init PROVE Explained /\ SignalNeedsMissingDevice
    BY InitIInv DEF SInv
  <2> QED BY DEF Init, Explained, SignalNeedsMissingDevice, Running, Crash,
                 Abort
<1>2. SInv /\ [Next]_vars => SInv'
  <2> SUFFICES ASSUME SInv, [Next]_vars
               PROVE  Explained' /\ SignalNeedsMissingDevice'
    BY NextIInv DEF SInv
  <2>1. CASE UNCHANGED vars
    BY <2>1 DEF vars, SInv, Explained, SignalNeedsMissingDevice, Dropped, intf
  <2> QED BY <2>1, SearchExplained, FoundExplained, PostExplained,
             DeviceExplained, CommandExplained, DestroyExplained DEF Next
<1> QED BY <1>1, <1>2, PTL DEF Spec

-----------------------------------------------------------------------------
(* The theorems.                                                           *)

\* Every variable keeps its type; in particular a device is only open, or
\* known to have answered, while its callbacks have a transport.
THEOREM TypeCorrect == Spec => []TypeOK
<1>1. IInv => TypeOK
  BY DEF IInv
<1> QED BY <1>1, Invariance, PTL

\* mosys_platform_setup() hands the command the right board, under the lock
\* and with each of its devices probed or gone, for any list of boards.
THEOREM CommandsAreReady == Spec => []ReadyForCommand
<1>1. IInv => ReadyForCommand
  BY DEF IInv
<1> QED BY <1>1, Invariance, PTL

\* The exit status of mosys_main() tells success from failure, whatever
\* errno was left behind and whichever result code an EC returned.
THEOREM ExitStatusTells == Spec => []StatusTells
<1>1. IInv => StatusTells
  BY DEF IInv
<1> QED BY <1>1, Invariance, PTL

\* A process that comes to its end has given the lock back and, after a
\* command, has closed what the board closes.
THEOREM TeardownComplete == Spec => []TornDown
<1>1. IInv => TornDown
  BY DEF IInv, TornDown, Locking, Done
<1> QED BY <1>1, Invariance, PTL

\* No device is opened, probed or asked without the lock, unless -f says so.
THEOREM DevicesLocked == Spec => DevicesUnderLock
<1> DEFINE Touches == ~(fds' \cup found' \cup asked'
                          \subseteq fds \cup found \cup asked)
<1>1. IInv /\ [Next]_vars => [Touches => locked \/ forced]_vars
  <2> SUFFICES ASSUME IInv, Next PROVE Touches => locked \/ forced
    BY DEF vars
  <2>1. CASE pc \in {"post", "ready"}
    BY <2>1 DEF IInv, Locking
  <2>2. CASE Lock \/ NextBoard \/ NotFound \/ Found
    BY <2>2 DEF Lock, NextBoard, NotFound, Found, devs, result
  <2>3. CASE OpSetup \/ OpSetupFails
    BY <2>3 DEF OpSetup, OpSetupFails, DestroyBoard, devs, result
  <2>4. CASE Destroy \/ Unlock \/ Exit
    BY <2>4 DEF Destroy, Unlock, Exit, DestroyBoard, devs, result
  <2>5. \/ pc \in {"post", "ready"}
        \/ Lock \/ NextBoard \/ NotFound \/ Found
        \/ OpSetup \/ OpSetupFails
        \/ Destroy \/ Unlock \/ Exit
    BY DEF Next, DropDevice, OpenFails, OpenDevice, PostDone, PostLpc,
           PostI2c, PostLegacy, PostFails, ShowTree, NotSupported, SubMenu,
           Info, Chip, Vboot, Version
  <2> QED BY <2>1, <2>2, <2>3, <2>4, <2>5
<1> QED BY <1>1, Invariance, PTL DEF Spec, DevicesUnderLock

\* Only a device that the variant should have and that has no transport can
\* bring mosys down: not the set-up, a command or the teardown of a board
\* whose devices are all there, nor of a variant that has fewer of them.
THEOREM SignalsExplained == Spec => []SignalNeedsMissingDevice
<1>1. SInv => SignalNeedsMissingDevice
  BY DEF SInv
<1> QED BY <1>1, SInvariance, PTL
=============================================================================
