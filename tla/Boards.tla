------------------------------- MODULE Boards -------------------------------
(***************************************************************************)
(* The platform interfaces of platform/<board>/<board>.c, one record per   *)
(* board, cut down to what mosys_main and the EC-related commands see:     *)
(*                                                                         *)
(*   name      the board, and the name -p accepts for it (see by_name)     *)
(*   by_name   strlfind finds the name in the board's id_list              *)
(*   post      what setup_post does: "none" (no such callback), "dev"      *)
(*             (each of devs through its /dev node), "lpc" (the EC over    *)
(*             port I/O), "dev_i2c" (the EC through /dev, then raw I2C),   *)
(*             "legacy" (EEPROM, VPD and an EC or super I/O chip)          *)
(*   must      setup_post fails unless that EC or chip is found            *)
(*   devs      the devices setup_post sets up, in this order               *)
(*   cb        the device callbacks present in the board's platform_cb     *)
(*   optional  devices dropped, with their command, on some variants       *)
(*   config    setup_post fails when the board configuration is unknown    *)
(*   closes    the devices whose destroy callback the board's destroy runs *)
(*   tested    the board's destroy tests the device pointer first          *)
(*   vboot     the medium behind nvram->vboot_read: "none", "ec", "flash", *)
(*             "fdt" (chosen by the device tree), "variant" (by has_ec)    *)
(*   version   sys->version asks the EC ("ec") or something else ("other") *)
(*   sub       the top-level commands, of those the model looks at         *)
(***************************************************************************)
EXTENDS Sequences

\* A board with no setup_post, no EC and no vboot callback.
LOCAL Plain ==
  [name |-> "", by_name |-> FALSE, post |-> "none", must |-> FALSE, devs |-> << >>,
   cb |-> {}, optional |-> {}, config |-> FALSE, closes |-> {}, tested |-> FALSE,
   vboot |-> "none", version |-> "other", sub |-> {"nvram", "platform"}]

\* A board found by name whose setup_post only arranges port I/O parts.
LOCAL Legacy(name) ==
  [Plain EXCEPT !.name = name, !.by_name = TRUE, !.post = "legacy"]

LOCAL LegacyWithEc(name) ==
  [Legacy(name) EXCEPT !.cb = {"legacy_ec"}, !.sub = @ \cup {"ec"}]

\* A board with a CrOS EC reached through the kernel driver.
LOCAL DevEc(name) ==
  [Plain EXCEPT !.name = name, !.post = "dev", !.devs = <<"ec">>,
                !.cb = {"ec"}, !.sub = @ \cup {"ec"}]

\* A board with a CrOS EC reached over the LPC bus.
LOCAL LpcEc(name) == [DevEc(name) EXCEPT !.post = "lpc"]

\* A board whose CrOS EC must answer, through /dev or else through raw I2C.
LOCAL I2cEc(name) ==
  [DevEc(name) EXCEPT !.by_name = TRUE, !.post = "dev_i2c", !.must = TRUE,
                       !.vboot = "ec"]

-----------------------------------------------------------------------------
(* The boards of an x86 build.                                             *)

platform_alex == LegacyWithEc("alex")

platform_auron == [DevEc("auron") EXCEPT !.cb = {"ec", "pd"}]

platform_beltino == [Plain EXCEPT !.name = "beltino"]

platform_butterfly == [LegacyWithEc("butterfly") EXCEPT !.must = TRUE]

platform_cyan == [DevEc("cyan") EXCEPT !.version = "ec"]

\* PD and fingerprint callbacks and commands, but only the EC is set up.
platform_fizz ==
  [DevEc("fizz") EXCEPT !.cb = {"ec", "pd", "fp"}, !.vboot = "flash",
                        !.version = "ec", !.sub = @ \cup {"pd", "fp"}]

platform_glados ==
  [DevEc("glados") EXCEPT !.devs = <<"ec", "pd", "fp">>,
                          !.cb = {"ec", "pd", "fp"}, !.vboot = "flash",
                          !.version = "ec", !.sub = @ \cup {"pd", "fp"}]

platform_kiev == [Legacy("kiev") EXCEPT !.must = TRUE]

platform_link == [LpcEc("link") EXCEPT !.by_name = TRUE]

platform_lumpy == [LegacyWithEc("lumpy") EXCEPT !.must = TRUE]

platform_mario == LegacyWithEc("mario")

platform_parrot == LegacyWithEc("parrot")

platform_rambi == LpcEc("rambi")

\* The pd command without PD callbacks: only "pd chip" has something to ask.
platform_reef ==
  [DevEc("reef") EXCEPT !.vboot = "flash", !.sub = @ \cup {"pd"}]

platform_samus ==
  [DevEc("samus") EXCEPT !.devs = <<"ec", "pd">>, !.cb = {"ec", "pd"},
                         !.closes = {"ec", "pd"}, !.sub = @ \cup {"pd"}]

platform_slippy == LpcEc("slippy")

platform_stout == LegacyWithEc("stout")

platform_strago == [DevEc("strago") EXCEPT !.version = "ec"]

platform_stumpy == [Legacy("stumpy") EXCEPT !.must = TRUE]

platform_z600 ==
  [Plain EXCEPT !.name = "z600", !.by_name = TRUE, !.sub = {"platform"}]

platform_zgb == [LegacyWithEc("zgb") EXCEPT !.must = TRUE]

-----------------------------------------------------------------------------
(* The boards of an ARM build.                                             *)

platform_cyclone == [Plain EXCEPT !.name = "cyclone", !.vboot = "flash"]

platform_daisy == I2cEc("daisy")

platform_gru ==
  [DevEc("gru") EXCEPT !.optional = {"ec"}, !.closes = {"ec"},
                       !.tested = TRUE, !.vboot = "flash"]

platform_nyan ==
  [DevEc("nyan") EXCEPT !.by_name = TRUE, !.closes = {"ec"}, !.vboot = "ec"]

platform_oak ==
  [DevEc("oak") EXCEPT !.by_name = TRUE, !.devs = <<"ec", "pd">>,
                       !.cb = {"ec", "pd"}, !.optional = {"pd"},
                       !.closes = {"ec"}, !.tested = TRUE, !.vboot = "fdt",
                       !.sub = @ \cup {"pd"}]

platform_peach ==
  [DevEc("peach") EXCEPT !.by_name = TRUE, !.config = TRUE,
                         !.closes = {"ec"}, !.vboot = "ec"]

platform_pinky ==
  [DevEc("pinky") EXCEPT !.optional = {"ec"}, !.closes = {"ec"},
                         !.tested = TRUE, !.vboot = "variant"]

platform_skate == [I2cEc("skate") EXCEPT !.config = TRUE]

platform_smaug ==
  [DevEc("smaug") EXCEPT !.by_name = TRUE, !.closes = {"ec"},
                         !.vboot = "flash"]

platform_spring == [I2cEc("spring") EXCEPT !.config = TRUE]

platform_storm == [Plain EXCEPT !.name = "storm", !.vboot = "flash"]

-----------------------------------------------------------------------------
\* platform_intf_list as the configuration of each architecture fills it.
platform_intf_list_x86 ==
  <<platform_alex, platform_auron, platform_beltino, platform_butterfly,
    platform_cyan, platform_fizz, platform_glados, platform_link,
    platform_lumpy, platform_mario, platform_parrot, platform_rambi,
    platform_reef, platform_samus, platform_slippy, platform_stout,
    platform_strago, platform_stumpy, platform_z600, platform_zgb,
    platform_kiev>>

platform_intf_list_arm ==
  <<platform_cyclone, platform_daisy, platform_gru, platform_nyan,
    platform_oak, platform_peach, platform_pinky, platform_skate,
    platform_smaug, platform_spring, platform_storm>>
=============================================================================
