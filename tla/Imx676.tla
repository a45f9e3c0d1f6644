------------------------------- MODULE Imx676 -------------------------------
(***************************************************************************)
(* The IMX676 driver: its modes and its bounds. A colour sensor with two   *)
(* bit depths; two modes of 12 bit bins 2x2, which doubles its             *)
(* shortest frame; XVS and XHS are driven for an internal sync.            *)
(***************************************************************************)
EXTENDS ImxSensor

\* set_hmax_register and set_data_rate: DATARATE_SEL of a link frequency.
imx676_datarate(linkfreq) ==
    CASE linkfreq = 1440 -> 3
      [] linkfreq = 891 -> 5
      [] linkfreq = 720 -> 6
      [] linkfreq = 594 -> 7

\* A mode, with what set_limits and adjust_exposure_range make of it.
imx676_mode(bits, width, height, hmax, linkfreq, binning) ==
    [width |-> width, height |-> height, hmax |-> hmax,
     delta |-> 72,            \* IMX676_MIN_FRAME_LENGTH_DELTA
     frame |-> (IF binning THEN height * 2 ELSE height) + 72,
     shutter |-> 8,           \* IMX676_MIN_SHR0_LENGTH
     tables |-> <<bits, width, height, hmax, imx676_datarate(linkfreq)>>]

imx676_modes_12bit ==
    << imx676_mode(12, 3552, 3556, 1256, 720, FALSE),
       imx676_mode(12, 3552, 2160, 1256, 720, FALSE),
       imx676_mode(12, 1776, 1778, 628, 891, TRUE),
       imx676_mode(12, 1768, 1080, 628, 1440, TRUE) >>

imx676_modes_10bit ==
    << imx676_mode(10, 3552, 3556, 1256, 594, FALSE),
       imx676_mode(10, 3552, 2160, 1256, 594, FALSE) >>

imx676_get_mode_table == [SRGGB12 |-> imx676_modes_12bit, SRGGB10 |-> imx676_modes_10bit]

\* update_blklvl_range and set_blklvl.
imx676_blklvl == [SRGGB12 |-> [max |-> 4095, default |-> 200, unit |-> 4],
                 SRGGB10 |-> [max |-> 1023, default |-> 50, unit |-> 1]]

\* configure_triggering_pins: XVS_XHS_DRV.
imx676_syncs == <<"none", "internal", "external">>
imx676_triggering ==
    [op \in {Master, Slave}, sync \in {"none", "internal", "external"} |->
        [register |-> IF op = Master /\ sync = "internal" THEN 0 ELSE 15,
         vint |-> Unset, taken |-> sync]]

imx676_driver ==
    [codes |-> <<"SRGGB12", "SRGGB10">>,
     modes |-> imx676_get_mode_table,
     declared |-> [SRGGB12 |-> imx676_modes_12bit, SRGGB10 |-> imx676_modes_10bit],
     black |-> imx676_blklvl,
     minLines |-> 2,           \* IMX676_MIN_INTEGRATION_LINES
     highGain |-> 34,          \* IMX676_CONVERSION_ANA_GAIN_MIN
     maxGain |-> 240,          \* IMX676_ANA_GAIN_MAX
     even |-> TRUE,            \* update_frame_rate rounds up to even lengths
     syncs |-> imx676_syncs, trigger |-> imx676_triggering,
     extmode |-> [none |-> 0, internal |-> 0, external |-> 1]]

-----------------------------------------------------------------------------
\* The handlers: those of ImxSensor, on this driver's chip.
imx676_here == chip = "imx676"

imx676_init_controls == imx676_here /\ init_controls
imx676_probe == Init /\ imx676_init_controls

imx676_set_exposure == imx676_here /\ set_control("exposure")
imx676_update_frame_rate == imx676_here /\ set_control("rate")
imx676_adjust_gain_range ==
    imx676_here /\ (set_control("gain") \/ set_control("conversion"))
imx676_set_blklvl == imx676_here /\ set_control("black")
imx676_set_operation_mode == imx676_here /\ set_triggering
imx676_set_ctrl ==
    imx676_set_exposure \/ imx676_update_frame_rate \/ imx676_adjust_gain_range
    \/ imx676_set_blklvl \/ imx676_set_operation_mode
imx676_write_hold_reg == imx676_here /\ write_hold_reg

imx676_set_pad_format == imx676_here /\ set_pad_format

imx676_start_streaming == imx676_here /\ (StreamOn \/ StreamOnFails)
imx676_stop_streaming == imx676_here /\ StreamOff
imx676_set_stream ==
    (imx676_here /\ StreamOnWaits) \/ imx676_start_streaming \/ imx676_stop_streaming

imx676_power_off == imx676_here /\ (RuntimeSuspendBegins \/ PowerOff)
imx676_resume == imx676_here /\ (SystemSleep \/ SystemSleepFails)

imx676_next ==
    imx676_set_ctrl \/ imx676_write_hold_reg \/ imx676_set_pad_format
    \/ imx676_set_stream \/ imx676_power_off \/ imx676_resume
=============================================================================
