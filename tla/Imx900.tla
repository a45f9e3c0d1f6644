------------------------------- MODULE Imx900 -------------------------------
(***************************************************************************)
(* The IMX900 driver: its modes and its bounds. Three bit depths of five   *)
(* modes each; what a mode needs depends on whether the sensor is a colour *)
(* one (IMX900_COLOR), which chromacity_mode reads from it. Shutter modes  *)
(* take the place of the sync modes of the other drivers.                  *)
(***************************************************************************)
EXTENDS ImxSensor

\* The mode types: 1/2 subsampling and the binning crop share most settings.
Halved(kind) == kind \in {"sub2", "bin_crop"}

imx900_adjust_hmax_register(bits, kind, colour) ==
    CASE bits = 12 -> IF Halved(kind) /\ ~colour THEN 305 ELSE 610
      [] bits = 10 /\ Halved(kind) -> IF colour THEN 364 ELSE 216
      [] bits = 10 /\ ~Halved(kind) -> IF kind = "roi" THEN 378 ELSE 499
      [] bits = 8 /\ Halved(kind) -> IF colour THEN 338 ELSE 240
      [] bits = 8 /\ ~Halved(kind) -> 412

imx900_adjust_min_shs_length(bits, kind, colour) ==
    CASE bits = 12 -> IF Halved(kind) /\ ~colour THEN 102 ELSE 51
      [] bits = 10 /\ Halved(kind) -> IF colour THEN 85 ELSE 142
      [] bits = 10 /\ ~Halved(kind) -> IF kind = "roi" THEN 82 ELSE 62
      [] bits = 8 /\ Halved(kind) -> IF colour THEN 92 ELSE 128
      [] bits = 8 /\ ~Halved(kind) -> 75

imx900_adjust_min_frame_length_delta(bits, kind, colour) ==
    LET deltas == CASE bits = 12 -> <<137, 137, IF colour THEN 115 ELSE 200, 115>>
                    [] bits = 10 -> <<155, 186, IF colour THEN 169 ELSE 264, 133>>
                    [] bits = 8 -> <<175, 175, IF colour THEN 181 ELSE 242, 153>>
    IN  deltas[CASE kind = "all_pixel" -> 1 [] kind = "roi" -> 2
                 [] Halved(kind) -> 3 [] kind = "sub10" -> 4]

\* In Mbit/s; set_data_rate writes the table of that name.
imx900_adjust_link_frequency(bits, kind, colour) ==
    CASE bits = 12 \/ (kind = "sub2" /\ colour) -> 1485
      [] bits = 10 /\ kind = "sub2" /\ ~colour -> 1188
      [] bits = 10 /\ kind \in {"roi", "bin_crop"} -> 1188
      [] OTHER -> 891

imx900_set_mode_additional(kind, colour) ==
    CASE kind \in {"all_pixel", "roi"} -> "allPixel_roi"
      [] kind = "sub10" -> "sub10"
      [] Halved(kind) -> IF colour THEN "subg2_color" ELSE "sub2_binning_mono"

\* The rate in the name of the table written: a binning crop takes that of
\* the subsampled mode, whatever its link frequency.
imx900_set_dep_registers(bits, kind, colour) ==
    imx900_adjust_link_frequency(bits, IF Halved(kind) THEN "sub2" ELSE kind, colour)

\* ADBIT_MONOSEL
imx900_set_pixel_format(bits, colour) ==
    (CASE bits = 12 -> 17 [] bits = 10 -> 1 [] bits = 8 -> 33)
    + (IF colour THEN 0 ELSE 4)

\* A mode, with what set_limits and set_mode make of it.
imx900_mode(bits, kind, width, height, colour) ==
    LET hmax == imx900_adjust_hmax_register(bits, kind, colour)
        delta == imx900_adjust_min_frame_length_delta(bits, kind, colour)
    IN  [width |-> width, height |-> height, hmax |-> hmax, delta |-> delta,
         frame |-> height + delta,
         shutter |-> imx900_adjust_min_shs_length(bits, kind, colour),
         tables |-> <<bits, kind, hmax, imx900_adjust_link_frequency(bits, kind, colour),
                      imx900_set_mode_additional(kind, colour),
                      imx900_set_dep_registers(bits, kind, colour),
                      imx900_set_pixel_format(bits, colour)>>]

\* modes_12bit, modes_10bit and modes_8bit.
imx900_modes(bits, colour) ==
    LET sizes == << <<"all_pixel", 2064, 1552>>, <<"roi", 1920, 1080>>,
                    <<"sub2", 1032, 776>>, <<"sub10", 2064, 154>>,
                    <<"bin_crop", 1024, 720>> >>
    IN  [i \in 1..5 |->
            imx900_mode(bits, sizes[i][1], sizes[i][2], sizes[i][3], colour)]

imx900_codes(colour) ==
    IF colour THEN <<"SRGGB12", "SRGGB10", "SRGGB8">> ELSE <<"Y12", "Y10", "Y8">>

\* What there is for the codes: a of the first, b of the second, c of the third.
PerCode(colour, a, b, c) ==
    IF colour THEN [SRGGB12 |-> a, SRGGB10 |-> b, SRGGB8 |-> c]
    ELSE [Y12 |-> a, Y10 |-> b, Y8 |-> c]

imx900_declared(colour) ==
    LET bits == PerCode(colour, 12, 10, 8)
    IN  [f \in DOMAIN bits |-> imx900_modes(bits[f], colour)]

imx900_get_mode_table(colour) == imx900_declared(colour)

\* update_blklvl_range and set_blklvl.
imx900_blklvl(colour) ==
    PerCode(colour, [max |-> 4095, default |-> 240, unit |-> 1],
                    [max |-> 1023, default |-> 60, unit |-> 1],
                    [max |-> 255, default |-> 15, unit |-> 1])

\* set_shutter_mode: TRIGMODE, the low bits of VINT_EN (the mode adds others),
\* and the mode taken in place of one the operation mode does not support.
imx900_shutter_modes == <<"normal", "sequential", "fast">>
imx900_set_shutter_mode(op, shutter) ==
    CASE shutter = "normal" -> [register |-> 0, vint |-> 2, taken |-> "normal"]
      [] op = Master /\ shutter = "fast" -> [register |-> 10, vint |-> 0, taken |-> "fast"]
      [] op = Slave /\ shutter = "sequential" ->
            [register |-> 9, vint |-> 1, taken |-> "sequential"]
      [] OTHER -> [register |-> 0, vint |-> 0, taken |-> "normal"]

imx900_driver(colour) ==
    [codes |-> imx900_codes(colour),
     modes |-> imx900_get_mode_table(colour),
     declared |-> imx900_declared(colour),
     black |-> imx900_blklvl(colour),
     minLines |-> 1,           \* IMX900_MIN_INTEGRATION_LINES
     highGain |-> 30,          \* IMX900_CONVERSION_ANA_GAIN_MIN
     maxGain |-> 480,          \* IMX900_ANA_GAIN_MAX
     even |-> FALSE,
     syncs |-> imx900_shutter_modes,
     trigger |-> [op \in {Master, Slave}, sync \in {"normal", "sequential", "fast"} |->
                     imx900_set_shutter_mode(op, sync)],
     extmode |-> [normal |-> Unset, sequential |-> Unset, fast |-> Unset]]

-----------------------------------------------------------------------------
\* The handlers: those of ImxSensor, on this driver's chip.
imx900_here == chip \in {"imx900", "imx900mono"}

imx900_init_controls == imx900_here /\ init_controls
imx900_probe == Init /\ imx900_init_controls

imx900_set_exposure == imx900_here /\ set_control("exposure")
imx900_update_frame_rate == imx900_here /\ set_control("rate")
imx900_adjust_gain_range ==
    imx900_here /\ (set_control("gain") \/ set_control("conversion"))
imx900_set_blklvl == imx900_here /\ set_control("black")
imx900_set_operation_mode == imx900_here /\ set_triggering
imx900_set_ctrl ==
    imx900_set_exposure \/ imx900_update_frame_rate \/ imx900_adjust_gain_range
    \/ imx900_set_blklvl \/ imx900_set_operation_mode
imx900_write_hold_reg == imx900_here /\ write_hold_reg

imx900_set_pad_format == imx900_here /\ set_pad_format

imx900_start_streaming == imx900_here /\ (StreamOn \/ StreamOnFails)
imx900_stop_streaming == imx900_here /\ StreamOff
imx900_set_stream ==
    (imx900_here /\ StreamOnWaits) \/ imx900_start_streaming \/ imx900_stop_streaming

imx900_power_off == imx900_here /\ (RuntimeSuspendBegins \/ PowerOff)
imx900_resume == imx900_here /\ (SystemSleep \/ SystemSleepFails)

imx900_next ==
    imx900_set_ctrl \/ imx900_write_hold_reg \/ imx900_set_pad_format
    \/ imx900_set_stream \/ imx900_power_off \/ imx900_resume
=============================================================================
