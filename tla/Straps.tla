------------------------------- MODULE Straps -------------------------------
(***************************************************************************)
(* How the Exynos boards (platform/daisy, spring, skate, peach) find out   *)
(* which revision they run on: exynos_read_gpio_mvl() of                   *)
(* drivers/samsung/gpio.c reads each strap pin twice, with the internal    *)
(* pull-up and with the pull-down, and gives the pulls back; a table then  *)
(* names the configuration, which decides how much memory is reported.     *)
(*                                                                         *)
(* Processes follow each other (the big lock is held), and any of them may *)
(* be killed in the middle of a pin.                                       *)
(***************************************************************************)
EXTENDS Integers, Sequences, FiniteSets, SequencesExt

CONSTANTS
  Wirings,       \* [board |-> b, pins |-> what each strap pin is wired to,
                 \*  pull |-> the pull that the firmware gave them]
  MaxAbandoned   \* bound: pins that are abandoned half-way

Float == 2      \* written Z in the tables
Noise == 3
Output == 4
None == 0
Down == 1
Up == 3
Pulls == {None, Down, Up}
LevelsWired == {0, 1, Float, Noise, Output}

ASSUME StrapsAssumption ==
  /\ \A w \in Wirings :
       /\ w.board \in {"Snow", "Spring", "Skate", "Pit", "Kirby", "Pi"}
       /\ w.pins \in Seq(LevelsWired) /\ Len(w.pins) > 0
       /\ w.pull \in Pulls
  /\ MaxAbandoned \in Nat

VARIABLES
  wiring,     \* of this board
  pud,        \* the register of pulls: one for each pin
  mvl_pc,     \* where exynos_read_gpio_mvl() is
  pin,        \* the pin it reads
  pud_orig,   \* its local variables
  vpu,
  levels,     \* what it returned for the pins before
  config,     \* the board's configuration
  failing,    \* history: some read failed in this process
  abandoned   \* history: pins whose pull was not given back

strapsVars == <<wiring, pud, mvl_pc, pin, pud_orig, vpu, levels,
                config, failing, abandoned>>

Err == -1
UnknownConfig == -1
Reserved == -2

Pins == DOMAIN wiring.pins
-----------------------------------------------------------------------------
(* The strappings of a row in the order in which they are read, as decimal *)
(* digits with 2 for Z, and the configuration.  A configuration of Peach   *)
(* REV_x_y is 10 * x + y; those of the other boards are numbered as in     *)
(* their enumerations.                                                     *)
snow_id_map ==
  {<<00, 10>>, <<01, 11>>, <<10, 2>>, <<11, 3>>, <<02, 4>>, <<12, 6>>,
   <<20, 8>>, <<22, 9>>, <<21, Reserved>>}

(* Spring's rows that are not reserved, ID by ID; all others are.          *)
spring_id_map ==
  {<<002, 0>>, <<102, 2>>, <<212, 1>>, <<012, 4>>, <<112, 3>>, <<220, 6>>,
   <<020, 5>>, <<120, 8>>, <<200, 7>>, <<000, 10>>, <<100, 9>>, <<210, 12>>,
   <<010, 11>>}

skate_id_map ==
  {<<000, 0>>, <<001, 1>>, <<002, 2>>, <<010, 3>>, <<011, 4>>, <<012, 5>>,
   <<020, 6>>, <<021, 7>>, <<022, 8>>, <<100, 9>>, <<101, 10>>, <<102, 11>>,
   <<110, 12>>, <<111, 13>>, <<112, 14>>}

peach_pit_id_map ==
  {<<0000, 0>>, <<0022, 30>>, <<0110, 40>>, <<0121, 50>>, <<0202, 60>>,
   <<0220, 70>>, <<0222, 72>>, <<1122, 90>>, <<1201, 92>>, <<1221, 100>>,
   <<2000, 102>>, <<2020, 110>>, <<2022, 112>>, <<2112, 120>>, <<2121, 122>>,
   <<2211, 130>>, <<2212, 131>>, <<2220, 132>>, <<2221, 133>>, <<0010, 140>>,
   <<0011, 141>>, <<0012, 142>>, <<0020, 143>>, <<0100, 150>>, <<0101, 151>>,
   <<0102, 152>>, <<0111, 153>>, <<0201, 160>>, <<0210, 161>>, <<0211, 162>>,
   <<0212, 163>>}

(* PROTO0, PROTO1, EVT, DVT, PVT and MP are 201 to 206.                    *)
peach_kirby_id_map ==
  {<<0000, 201>>, <<0001, 202>>, <<0002, 203>>, <<0010, 204>>, <<0011, 205>>,
   <<0012, 206>>, <<0020, Reserved>>, <<0021, Reserved>>, <<0022, Reserved>>}

peach_pi_id_map ==
  {<<1120, 84>>, <<1212, 94>>, <<2011, 106>>, <<2110, 116>>, <<2202, 126>>,
   <<2222, 134>>, <<0000, 135>>, <<0001, 136>>, <<0002, 137>>, <<0021, 144>>,
   <<1012, 145>>, <<1020, 146>>, <<1021, 147>>, <<0112, 154>>, <<0120, 155>>,
   <<0122, 156>>, <<0200, 157>>, <<0221, 164>>, <<1000, 165>>, <<1001, 166>>,
   <<1002, 167>>}

id_map(board) ==
  CASE board = "Snow" -> snow_id_map
    [] board = "Spring" -> spring_id_map
    [] board = "Skate" -> skate_id_map
    [] board = "Pit" -> peach_pit_id_map
    [] board = "Kirby" -> peach_kirby_id_map
    [] board = "Pi" -> peach_pi_id_map

Digits(values) == FoldLeft(LAMBDA n, v : 10 * n + v, 0, values)

(* No row has an error for a strapping; Spring and Skate have one for      *)
(* each of the other strappings.                                           *)
board_config(board, values) ==
  LET rows == {row \in id_map(board) : row[1] = Digits(values)}
      others == IF board \in {"Spring", "Skate"} THEN Reserved
                                              ELSE UnknownConfig
  IN IF Err \in {values[k] : k \in DOMAIN values}
     THEN UnknownConfig
     ELSE IF rows = {} THEN others ELSE (CHOOSE row \in rows : TRUE)[2]

(* Mutant: a configuration with two ranks is left out.                     *)
TwoRanks_OneMissing ==
  {72, 92, 102, 112, 122, 132, 142, 143, 152, 153, 162, 163,
   106, 116, 126, 136, 137, 146, 147, 156, 157, 166, 167}

(* The configurations of Peach for which spd_read() reports two ranks, and *)
(* those for which it reports one; it fails for any other.                 *)
OneRank ==
  {0, 30, 40, 50, 60, 70, 90, 100, 110, 120, 130, 131, 140, 141, 150, 151,
   160, 161, 84, 94, 134, 135, 144, 145, 154, 155, 164, 165}
TwoRanks ==
  {72, 92, 102, 112, 122, 132, 133, 142, 143, 152, 153, 162, 163,
   106, 116, 126, 136, 137, 146, 147, 156, 157, 166, 167}
-----------------------------------------------------------------------------
StrapsInit ==
  /\ wiring \in Wirings
  /\ pud = [p \in Pins |-> wiring.pull]
  /\ mvl_pc = "idle"
  /\ pin = 1
  /\ pud_orig = pud
  /\ vpu = 0
  /\ levels = <<>>
  /\ config = UnknownConfig
  /\ failing = FALSE
  /\ abandoned = {}

(* External: the level of a pin while a pull is on.                        *)
Level(p, pull) ==
  CASE wiring.pins[p] \in {0, 1} -> {wiring.pins[p]}
    [] wiring.pins[p] = Float -> {IF pull = Up THEN 1 ELSE 0}
    [] OTHER -> {0, 1}

(* get_board_config() of a new process begins with the first pin.          *)
StrapsStart ==
  /\ mvl_pc \in {"idle", "known"}
  /\ mvl_pc' = "con"
  /\ pin' = 1
  /\ levels' = <<>>
  /\ config' = UnknownConfig
  /\ failing' = FALSE
  /\ UNCHANGED <<wiring, pud, pud_orig, vpu, abandoned>>

(* exynos_read_gpio_mvl() returns; its caller goes on with the next pin,   *)
(* or looks for the row.                                                   *)
Returns(value) ==
  /\ levels' = Append(levels, value)
  /\ failing' = (failing \/ value = Err)
  /\ IF pin = Len(wiring.pins)
     THEN /\ config' = board_config(wiring.board, Append(levels, value))
          /\ mvl_pc' = "known"
          /\ pin' = pin
     ELSE /\ pin' = pin + 1
          /\ mvl_pc' = "con"
          /\ UNCHANGED config
  /\ UNCHANGED <<wiring, pud_orig, vpu>>

HalfWay == mvl_pc \in {"up", "down"}

(* The pin is left with the pull it has.                                   *)
Abandons ==
  /\ abandoned' = IF HalfWay THEN abandoned \cup {pin} ELSE abandoned
  /\ Cardinality(abandoned') <= MaxAbandoned \* the bound

(* The pin must be an input.  It is pulled up.                             *)
PullUp ==
  /\ mvl_pc = "con"
  /\ wiring.pins[pin] # Output
  /\ pud_orig' = pud
  /\ pud' = [pud EXCEPT ![pin] = Up]
  /\ mvl_pc' = "up"
  /\ UNCHANGED <<wiring, pin, vpu, levels, config, failing,
                 abandoned>>

(* Mutant: both bits are left set when the bit of the pull-down is set.    *)
PullDown_NotCleared ==
  /\ mvl_pc = "up"
  /\ vpu' \in Level(pin, Up)
  /\ mvl_pc' = "down"
  /\ UNCHANGED <<wiring, pud, pin, pud_orig, levels, config, failing,
                 abandoned>>

(* The level is read, then the pin is pulled down.                         *)
PullDown ==
  /\ mvl_pc = "up"
  /\ vpu' \in Level(pin, pud[pin])
  /\ pud' = [pud EXCEPT ![pin] = Down]
  /\ mvl_pc' = "down"
  /\ UNCHANGED <<wiring, pin, pud_orig, levels, config, failing,
                 abandoned>>

(* Mutant: the pull is switched off in the end.                            *)
Restore_NoPull ==
  /\ mvl_pc = "down"
  /\ \E vpd \in Level(pin, pud[pin]) :
       /\ ~ (vpu = 0 /\ vpd = 1)
       /\ pud' = [pud EXCEPT ![pin] = None]
       /\ \E value \in {IF vpu = vpd THEN vpu ELSE Float, Err} :
            Returns(value)
  /\ UNCHANGED abandoned

(* The level is read again and the register written as it was.  The sleep  *)
(* after that may fail.                                                    *)
Restore ==
  /\ mvl_pc = "down"
  /\ \E vpd \in Level(pin, pud[pin]) :
       /\ ~ (vpu = 0 /\ vpd = 1)
       /\ pud' = pud_orig
       /\ \E value \in {IF vpu = vpd THEN vpu ELSE Float, Err} :
            Returns(value)
  /\ UNCHANGED abandoned

(* A level against both pulls is not a level of a strap.                   *)
Invalid ==
  /\ mvl_pc = "down"
  /\ vpu = 0 /\ 1 \in Level(pin, pud[pin])
  /\ Abandons
  /\ Returns(Err)
  /\ UNCHANGED pud

(* The pin is an output, or an access to the registers or a sleep fails.   *)
ReadFails ==
  /\ mvl_pc \in {"con", "up", "down"}
  /\ Abandons
  /\ Returns(Err)
  /\ UNCHANGED pud

(* External: the process is killed.                                        *)
StrapsKilled ==
  /\ mvl_pc \in {"con", "up", "down"}
  /\ Abandons
  /\ mvl_pc' = "idle"
  /\ UNCHANGED <<wiring, pud, pin, pud_orig, vpu, levels, config,
                 failing>>

StrapsStep == PullUp \/ PullDown \/ Restore \/ Invalid \/ ReadFails

StrapsNext == StrapsStart \/ StrapsStep \/ StrapsKilled

StrapsSpec == StrapsInit /\ [][StrapsNext]_strapsVars
-----------------------------------------------------------------------------
StrapsTypeOK ==
  /\ wiring \in Wirings
  /\ pud \in [Pins -> Pulls]
  /\ pud_orig \in [Pins -> Pulls]
  /\ mvl_pc \in {"idle", "con", "up", "down", "known"}
  /\ pin \in Pins
  /\ vpu \in {0, 1}
  /\ levels \in Seq({0, 1, Float, Err})
  /\ config \in Int
  /\ failing \in BOOLEAN
  /\ abandoned \subseteq Pins

(* The wirings that a reading of this board may have seen: an output is    *)
(* never read, a pin with noise may have any level.                        *)
Seen(p) ==
  CASE wiring.pins[p] = Output -> {Err}
    [] wiring.pins[p] = Noise -> {0, 1, Float, Err}
    [] OTHER -> {wiring.pins[p]}

(* Whatever pulls a process that was killed has left behind, a board is    *)
(* taken for the one its straps say, or, if a read failed, for unknown:    *)
(* never for another one (exynos_read_gpio_mvl).                           *)
BoardTrue ==
  mvl_pc = "known" =>
    \/ failing /\ config = UnknownConfig
    \/ /\ ~failing
       /\ \E values \in [Pins -> {0, 1, Float}] :
            /\ \A p \in Pins : values[p] \in Seen(p)
            /\ config = board_config(wiring.board, values)

(* The only pins whose pull is not what the firmware set are the one that  *)
(* is being read and those at which a process was killed or failed; a      *)
(* process that writes the whole register for its pin disturbs no other.   *)
PullsKept ==
  \A p \in Pins :
    pud[p] # wiring.pull => p \in abandoned \/ (HalfWay /\ p = pin)

(* A Peach whose straps are known reports two ranks for the options with   *)
(* 4 GB, 2, 3, 6 and 7, and one for the others; only a Kirby reports none  *)
(* (spd_read, platform/peach/memory.c:169).                                *)
RanksOfConfig ==
  (mvl_pc = "known" /\ config # UnknownConfig
     /\ wiring.board \in {"Pit", "Pi"}) =>
    IF config % 10 \in {2, 3, 6, 7}
    THEN config \in TwoRanks \ OneRank
    ELSE config \in OneRank \ TwoRanks

(* A process learns the board it runs on, and its ranks, or that it failed,*)
(* and leaves the pins to the next one (exynos_read_gpio_mvl).             *)
StrapsTrue == BoardTrue /\ PullsKept /\ RanksOfConfig

(* The board is found out, or not: a reading of the straps ends.           *)
StrapsReturn ==
  mvl_pc \in {"con", "up", "down"} ~> mvl_pc \in {"idle", "known"}
=============================================================================
