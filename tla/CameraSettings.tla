--------------------------- MODULE CameraSettings ---------------------------
(***************************************************************************)
(* How class Camera configures the sensor: init() from the identification  *)
(* of the chip on, and the settings.  Each of them is a row of register    *)
(* accesses through the port that I2CBus implements; the sensor may refuse *)
(* any of them, and no caller looks at the result.  Several settings share *)
(* registers, and the lists that set a resolution write some of them too,  *)
(* so what is in force depends on the calls that went before.              *)
(*                                                                         *)
(* Of the lists in ov5642_regs.h the model has, in their order, the writes *)
(* to the registers that the properties read and that a setting or another *)
(* list writes differently.  Windows, timings, clocks and the like, which  *)
(* each list sets for itself, are left out; no property reads them.        *)
(***************************************************************************)
EXTENDS Integers, Sequences

CONSTANTS
  Resolutions,  (* widths, of 320, 640, 1024, 1280, 1600, 2048, 2592   *)
  Levels,       (* levels of saturation and brightness, in -4..4       *)
  Effects,      (* special effects                                     *)
  Sharpness,    (* types of sharpness                                  *)
  MaxCalls,     (* bound: number of calls                              *)
  MaxRefused    (* bound: accesses that the sensor refuses             *)

Formats == {"JPEG", "BMP"}   (* init() treats RAW as it treats BMP *)
Tint == [bluish |-> <<\ha0, \h40>>, greenish |-> <<\h60, \h60>>, reddish |-> <<\h80, \hc0>>,
         bw |-> <<\h80, \h80>>, sepia |-> <<\h40, \ha0>>]
AutoSharpness == [auto |-> <<0, \h0c, \h40>>, auto_1 |-> <<4, \h18, \h20>>, auto_2 |-> <<8, \h30, \h10>>]
ManualSharpness == [manual_off |-> 0, manual_1 |-> 4, manual_2 |-> 8, manual_3 |-> \h0c,
           manual_4 |-> \h0f, manual_5 |-> \h1f]

ASSUME CameraSettingsAssumption ==
  /\ Resolutions \subseteq {320, 640, 1024, 1280, 1600, 2048, 2592}
  /\ Levels \subseteq -4..4
  /\ Effects \subseteq DOMAIN Tint \cup {"negative", "normal"}
  /\ Sharpness \subseteq DOMAIN AutoSharpness \cup DOMAIN ManualSharpness
  /\ MaxCalls \in Nat /\ MaxRefused \in Nat

VARIABLES
  format,    (* this->format                                              *)
  phase, due,  (* where the driver is, the register accesses it does next *)
  vid, pid,  (* init()'s copies of the chip id                            *)
  reg_val,   (* init()'s variable for registers that it changes           *)
  regs,      (* the sensor's registers                                    *)
  call,      (* the call under way or the last one                        *)
  clean,     (* history: none of its accesses has been refused            *)
  calls, refused,  (* how many there were                                 *)
  stands,    (* history: the settings that should be in force             *)
  kept       (* history: the format that should be in force, or "none"    *)

settingsVars ==
  <<format, phase, due, vid, pid, reg_val, regs, call, clean, calls, refused, stands, kept>>

Registers ==
  {\h3621, \h3808, \h3809, \h380a, \h380b, \h3818, \h4300, \h4407, \h4713,
   \h5001, \h5002, \h501f, \h530a, \h530c, \h530d, \h5312, \h531e, \h531f,
   \h5580, \h5583, \h5584, \h5585, \h5586, \h5589, \h558a}
Default == [r \in Registers |-> 0]
SYSTEM  == \h3008

wr(reg, val)   == <<"W", reg, val>>
rd(reg)        == <<"R", reg, 0>>
WOr(reg, val)  == <<"or", reg, val>>    (* writes reg_val with bits set     *)
WAnd(reg, val) == <<"and", reg, val>>   (* writes reg_val with bits cleared *)

Size(w, h) == <<wr(\h3808, w \div 256), wr(\h3809, w % 256),
                wr(\h380a, h \div 256), wr(\h380b, h % 256)>>
-----------------------------------------------------------------------------
(* The register lists. *)

(* Six of the seven lists for resolutions turn the special digital effects *)
(* off with 5001; that for 2048x1536 has compression registers instead.    *)
ov5642(w) ==
  Size(w, (3 * w) \div 4) \o
  IF w # 2048 THEN <<wr(\h5001, \h7f)>>
  ELSE <<wr(\h3818, \ha8), wr(\h4300, \h32), wr(\h4713, \h02), wr(\h3818, \hc8), wr(\h501f, \h00),
         wr(\h5002, \he0), wr(\h3818, \ha8), wr(\h3621, \h10)>>

Saturated(val) == <<wr(\h5583, val), wr(\h5584, val), wr(\h5580, \h02)>>

OV5642_QVGA_Preview ==
  <<wr(SYSTEM, \h82), wr(\h3621, \h09), wr(\h5001, \hff)>> \o Size(640, 480)
    \o <<wr(\h501f, \h00), wr(\h4300, \h30), wr(\h3818, \hc1), wr(\h3621, \h87),
         wr(\h530c, \h00), wr(\h530d, \h0c)>>
    \o Saturated(\h40) \o Size(320, 240) \o <<wr(\h5001, \hff)>> \o Saturated(\h50)
    \o <<wr(\h530c, \h00), wr(\h530d, \h10)>>

OV5642_JPEG_Capture_QSXGA ==
  <<wr(\h3621, \h27)>> \o Size(2592, 1944)
    \o <<wr(\h3818, \hc8), wr(\h4713, \h03), wr(\h5001, \h4f), wr(\h4407, \h08)>>
-----------------------------------------------------------------------------
(* The accesses of each call. *)

ForFormat ==
  IF format = "JPEG"
  THEN OV5642_JPEG_Capture_QSXGA \o ov5642(320)
         \o <<wr(\h3818, \ha8), wr(\h3621, \h10), wr(\h4407, \h04)>>
  ELSE <<wr(\h5002, \hf8), wr(\h501f, \h01), wr(\h4300, \h61),
         rd(\h3818), WOr(\h3818, \h60), rd(\h3621), WAnd(\h3621, \hdf)>>

configureFormatFirst ==
  <<wr(SYSTEM, \h80)>> \o ForFormat \o OV5642_QVGA_Preview \o ov5642(320)

configure ==
  <<wr(SYSTEM, \h80)>> \o OV5642_QVGA_Preview \o ForFormat \o ov5642(320)

setResolution(w) == ov5642(w)

setColorSaturation(n) ==
  LET val == \h40 + 16 * n
  IN  <<wr(\h5001, \hff), wr(\h5583, val), wr(\h5584, val), wr(\h5580, \h02)>>

Magnitude(n) == IF n < 0 THEN -n ELSE n

setBrightnessUnsigned(n) ==
  <<wr(\h5001, \hff), wr(\h5589, 16 * Magnitude(n)), wr(\h5580, \h04)>>
    \o IF n < 0 THEN <<wr(\h558a, \h08)>> ELSE <<>>

setBrightness(n) ==
  <<wr(\h5001, \hff), wr(\h5589, 16 * Magnitude(n)), wr(\h5580, \h04),
    wr(\h558a, IF n < 0 THEN \h08 ELSE \h00)>>

setSpecialEffect(e) ==
  IF e = "normal" THEN <<wr(\h5001, \h7f), wr(\h5580, \h00)>>
  ELSE IF e = "negative" THEN <<wr(\h5001, \hff), wr(\h5580, \h40)>>
  ELSE <<wr(\h5001, \hff), wr(\h5580, \h18), wr(\h5585, Tint[e][1]), wr(\h5586, Tint[e][2])>>

setSharpnessType(s) ==
  IF s \in DOMAIN AutoSharpness
  THEN <<wr(\h530a, \h00), wr(\h530c, AutoSharpness[s][1]), wr(\h530d, AutoSharpness[s][2]),
         wr(\h5312, AutoSharpness[s][3])>>
  ELSE <<wr(\h530a, \h08), wr(\h531e, ManualSharpness[s]), wr(\h531f, ManualSharpness[s])>>

Calls ==
  [op : {"resolution"}, arg : Resolutions] \cup [op : {"saturation", "brightness"}, arg : Levels]
    \cup [op : {"effect"}, arg : Effects] \cup [op : {"sharpness"}, arg : Sharpness]

Accesses(c) ==
  CASE c.op = "resolution" -> setResolution(c.arg)
    [] c.op = "saturation" -> setColorSaturation(c.arg)
    [] c.op = "brightness" -> setBrightness(c.arg)
    [] c.op = "effect"     -> setSpecialEffect(c.arg)
    [] c.op = "sharpness"  -> setSharpnessType(c.arg)
-----------------------------------------------------------------------------
NoCall == [op |-> "none", arg |-> 0]
InInit == [op |-> "init", arg |-> 0]

(* The sensor has been switched on.  A later init() stands also for one of *)
(* a new run, which finds the settings of the last.                        *)
SettingsInit ==
  /\ format = "JPEG" /\ phase = "off" /\ due = <<>>
  /\ vid = 0 /\ pid = 0 /\ reg_val = 0
  /\ regs = Default
  /\ call = NoCall /\ clean = TRUE /\ calls = 0 /\ refused = 0
  /\ stands = {} /\ kept = "none"

setImageFormat ==
  /\ phase \in {"off", "ready"} /\ calls < MaxCalls
  /\ \E f \in Formats \ {format} : format' = f
  /\ calls' = calls + 1
  /\ UNCHANGED <<phase, due, vid, pid, reg_val, regs, call, clean, refused, stands, kept>>

init ==
  /\ phase \in {"off", "ready"} /\ calls < MaxCalls
  /\ phase' = "identify" /\ calls' = calls + 1
  /\ vid' = 0 /\ pid' = 0
  /\ call' = InInit
  /\ UNCHANGED <<format, due, reg_val, regs, clean, refused, stands, kept>>

(* A round of the loop: either read may be refused, and leaves its         *)
(* variable as it was.  reg_val has no value yet.                          *)
IdentifyChip ==
  /\ phase = "identify"
  /\ vid' \in {vid, \h56} /\ pid' \in {pid, \h42}
  /\ \/ /\ vid' = \h56 /\ pid' = \h42
        /\ phase' = "busy" /\ due' = configure /\ clean' = TRUE
        /\ reg_val' \in {0, 255}
     \/ /\ vid' # \h56 \/ pid' # \h42
        /\ UNCHANGED <<phase, due, clean, reg_val>>
  /\ UNCHANGED <<format, regs, call, calls, refused, stands, kept>>

Set(c) ==
  /\ phase = "ready" /\ calls < MaxCalls
  /\ phase' = "busy" /\ due' = Accesses(c)
  /\ call' = c /\ clean' = TRUE /\ calls' = calls + 1
  /\ UNCHANGED <<format, vid, pid, reg_val, regs, refused, stands, kept>>

(* wrSensorReg16_8 and rdSensorReg16_8.  Bit 7 of SYSTEM resets the sensor. *)
AfterWrite(reg, val) == IF reg = SYSTEM THEN Default ELSE [regs EXCEPT ![reg] = val]

(* The bits of a byte, by their weights.                                   *)
Bit(v, weight) == (v \div weight) % 2
Byte(on(_)) ==
  LET bit(weight) == IF on(weight) THEN weight ELSE 0
  IN  bit(1) + bit(2) + bit(4) + bit(8) + bit(16) + bit(32) + bit(64) + bit(128)
BitOr(v, m)  == Byte(LAMBDA weight : Bit(v, weight) = 1 \/ Bit(m, weight) = 1)
BitAnd(v, m) == Byte(LAMBDA weight : Bit(v, weight) = 1 /\ Bit(m, weight) = 1)

NewValue(access) ==
  CASE access[1] = "W"   -> access[3]
    [] access[1] = "or"  -> BitOr(reg_val, access[3])
    [] access[1] = "and" -> BitAnd(reg_val, access[3])

Access ==
  /\ phase = "busy" /\ due # <<>> /\ due' = Tail(due)
  /\ LET access == Head(due)
     IN  \/ /\ access[1] = "R" /\ reg_val' = regs[access[2]]
            /\ UNCHANGED <<regs, clean, refused>>
         \/ /\ access[1] # "R" /\ regs' = AfterWrite(access[2], NewValue(access))
            /\ UNCHANGED <<reg_val, clean, refused>>
         \/ /\ refused < MaxRefused /\ refused' = refused + 1
            /\ clean' = FALSE /\ UNCHANGED <<reg_val, regs>>
  /\ UNCHANGED <<format, phase, vid, pid, call, calls, stands, kept>>

(* The settings that a call puts an end to: those of its kind; the three   *)
(* that use the special digital effects exclude each other, and changing   *)
(* the resolution turns them off, except to 2048x1536.                     *)
Tones == {"saturation", "brightness", "effect"}
Undoes(c, d) ==
  \/ c.op = "init" \/ c.op = d.op
  \/ c.op \in Tones /\ d.op \in Tones
  \/ c.op = "resolution" /\ c.arg # 2048 /\ d.op \in Tones

ReturnSetting ==
  /\ phase = "busy" /\ due = <<>> /\ phase' = "ready"
  /\ LET made == IF call = InInit THEN [op |-> "resolution", arg |-> 320] ELSE call
     IN  stands' = {d \in stands : ~Undoes(call, d)} \cup {c \in {made} : clean}
  /\ kept' = IF call = InInit THEN IF clean THEN format ELSE "none"
             ELSE IF call = [op |-> "resolution", arg |-> 2048] THEN "none" ELSE kept
  /\ UNCHANGED <<format, due, vid, pid, reg_val, regs, call, clean, calls, refused>>

SettingsNext ==
  \/ setImageFormat \/ init \/ IdentifyChip \/ Access \/ ReturnSetting
  \/ \E c \in Calls : Set(c)

SettingsSpec == SettingsInit /\ [][SettingsNext]_settingsVars
-----------------------------------------------------------------------------
(* Properties *)

(* What it takes of the registers rs for a setting to show in the picture. *)
EffectsOn(rs) == rs[\h5001] >= 128

Shows(d, rs) ==
  CASE d.op = "resolution" ->
         /\ 256 * rs[\h3808] + rs[\h3809] = d.arg
         /\ 4 * (256 * rs[\h380a] + rs[\h380b]) = 3 * d.arg
    [] d.op = "saturation" ->
         /\ EffectsOn(rs) /\ rs[\h5580] = \h02
         /\ rs[\h5583] = \h40 + 16 * d.arg /\ rs[\h5584] = rs[\h5583]
    [] d.op = "brightness" ->
         /\ EffectsOn(rs) /\ rs[\h5580] = \h04
         /\ rs[\h5589] = 16 * Magnitude(d.arg) /\ (rs[\h558a] = \h08) = (d.arg < 0)
    [] d.op = "effect" /\ d.arg = "normal" -> ~EffectsOn(rs) /\ rs[\h5580] = 0
    [] d.op = "effect" /\ d.arg = "negative" -> EffectsOn(rs) /\ rs[\h5580] = \h40
    [] d.op = "effect" /\ d.arg \in DOMAIN Tint ->
         EffectsOn(rs) /\ rs[\h5580] = \h18 /\ <<rs[\h5585], rs[\h5586]>> = Tint[d.arg]
    [] d.op = "sharpness" /\ d.arg \in DOMAIN AutoSharpness ->
         rs[\h530a] = 0 /\ <<rs[\h530c], rs[\h530d], rs[\h5312]>> = AutoSharpness[d.arg]
    [] d.op = "sharpness" /\ d.arg \in DOMAIN ManualSharpness ->
         rs[\h530a] = \h08 /\ rs[\h531e] = ManualSharpness[d.arg] /\ rs[\h531f] = ManualSharpness[d.arg]

InForce(d) == Shows(d, regs)

(* A setting whose accesses were all taken is in force, whatever calls and *)
(* refused accesses went before it, and stays in force until a call that   *)
(* Undoes names: no other setting, and no refused access, disturbs it.     *)
SettingsInForce == phase = "ready" => \A d \in stands : InForce(d)

(* After an init() none of whose accesses was refused the sensor delivers  *)
(* the format set before it, whatever was set earlier, and no call but     *)
(* setResolution(RES_2048x1536) changes that.                              *)
FormatKept ==
  phase = "ready" =>
    /\ kept = "JPEG" =>
         /\ regs[\h4300] = \h30 /\ regs[\h501f] = 0 /\ regs[\h4407] = 4 /\ regs[\h4713] = 3
         /\ regs[\h3818] = \ha8 /\ regs[\h3621] = \h10
    /\ kept = "BMP" =>
         /\ regs[\h4300] = \h61 /\ regs[\h501f] = 1 /\ regs[\h5002] = \hf8
         /\ regs[\h3818] = \he1 /\ regs[\h3621] = \h87
=============================================================================
