------------------------------ MODULE Decoders ------------------------------
(***************************************************************************)
(* The decoders of pi/src/obd_commands.py for Ford's own PIDs, as pure     *)
(* functions of a frame.  A frame is a sequence of bytes; data[i] of the   *)
(* source is Byte(data, i).  A value with a fraction is kept as the        *)
(* integer that the source divides, before it rounds.                      *)
(***************************************************************************)
EXTENDS Integers, Sequences

Null  == 2^20   \* None: no value; the collector stores NULL
Bytes == 0..255

Byte(data, i) == data[i + 1]
Word(hi, lo)  == hi * 256 + lo

Words == 256 * 256   \* 65536; the numbers of two bytes are written byte by byte

\* Mutant: the smallest negative word is taken for a positive one.
LateSign(hi, lo) == IF Word(hi, lo) > Word(128, 0) THEN Word(hi, lo) - Words ELSE Word(hi, lo)

S8(b)       == IF b > 127 THEN b - 256 ELSE b
S16(hi, lo) == IF Word(hi, lo) > Word(127, 255) THEN Word(hi, lo) - Words ELSE Word(hi, lo)

TCM_PARK_STATE == 70   \* 0x46

\* n_data of each PID.
DataBytes == [oil_pressure_kpa |-> 2, knock_retard_deg |-> 2, boost_psi |-> 2, cac_temp_c |-> 1,
              wastegate_pct |-> 2, vct_intake_deg |-> 4, vct_exhaust_deg |-> 2, trans_temp_c |-> 2,
              trans_gear |-> 1, tcc_ratio |-> 1, trans_line_pressure_kpa |-> 2]
Pids22 == DOMAIN DataBytes

tcm_drive_value(a, value) == IF a = TCM_PARK_STATE THEN Null ELSE value

\* The formula of each PID; a and b are its first two data bytes.
Formula(pid, data) ==
    LET a == Byte(data, 4)
        b == Byte(data, 5) IN
    CASE pid = "cac_temp_c"       -> S8(a)
      [] pid = "trans_gear"       -> IF a \in 1..8 THEN a ELSE Null
      [] pid = "tcc_ratio"        -> tcm_drive_value(a, a)
      [] pid = "knock_retard_deg" -> 256 * S8(a) + b
      [] pid = "vct_intake_deg"   -> S16(Byte(data, 6), Byte(data, 7))
      [] pid = "vct_exhaust_deg"  -> Word(a, b) - Word(114, 103)   \* 29287
      [] pid = "trans_temp_c"     -> S16(a, b)
      [] OTHER                    -> Word(a, b)

\* The decoder that _mode22 makes: a positive answer that is long enough.
Mode22(pid, data) ==
    IF Len(data) < 4 + DataBytes[pid] \/ Byte(data, 1) # 98
    THEN Null
    ELSE Formula(pid, data)

\* _mode06_misfire.
Mode06(data) ==
    IF Len(data) < 8 \/ Byte(data, 2) # 70 \/ Byte(data, 4) # 11
    THEN Null
    ELSE Word(Byte(data, 6), Byte(data, 7))

-----------------------------------------------------------------------------
\* A frame with the given data bytes, cut off after n bytes.
Frame(mode, body, n) == SubSeq(<<8, mode, 0, 0>> \o body, 1, n)

Edges  == {0, 1, 8, 9, TCM_PARK_STATE, 127, 128, 255}
Bodies == {<<a, b, c, b>> : a \in Edges, b \in Edges, c \in Edges}

\* Every two bytes are the two's complement word they stand for.
SignedWords ==
    \A hi, lo \in Bytes :
        /\ S16(hi, lo) \in -Word(128, 0)..Word(127, 255)
        /\ Word(hi, lo) - S16(hi, lo) \in {0, Words}
        /\ S8(hi) \in -128..127 /\ hi - S8(hi) \in {0, 256}

\* What two bytes stand for, signed or not.
WordValues == -Word(128, 0)..Word(255, 255)

\* The values of a sensor: what the gearbox sends in Park is no gear and no ratio.
ValuesOf(pid) ==
    CASE pid = "trans_gear" -> 1..8
      [] pid = "tcc_ratio"  -> Bytes \ {TCM_PARK_STATE}
      [] pid = "cac_temp_c" -> -128..127
      [] OTHER              -> WordValues

\* A frame of any length and kind decodes to a number the sensor has or to NULL,
\* without reading past its end.
FramesDecode ==
    /\ \A pid \in Pids22, body \in Bodies, n \in 0..8, mode \in {98, 127} :
          LET value == Mode22(pid, Frame(mode, body, n)) IN
          \/ value = Null
          \/ /\ mode = 98 /\ n >= 4 + DataBytes[pid]
             /\ value \in ValuesOf(pid)
    /\ \A body \in Bodies, n \in 0..8 : Mode06(Frame(70, body, n)) = Null
    /\ \A a, b \in Edges, n \in 0..8 :
          Mode06(SubSeq(<<16, 37, 70, 162, 11, 36, a, b>>, 1, n))
              = IF n = 8 THEN Word(a, b) ELSE Null
=============================================================================
