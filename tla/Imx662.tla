------------------------------- MODULE Imx662 -------------------------------
(***************************************************************************)
(* The IMX662 driver: its modes and its bounds. A colour sensor with two   *)
(* bit depths; one mode of 12 bit bins 2x2, which doubles its              *)
(* shortest frame; XVS and XHS are driven for an internal sync.            *)
(***************************************************************************)
EXTENDS ImxSensor

\* set_hmax_register and set_data_rate: DATARATE_SEL of a link frequency.
imx662_datarate(linkfreq) ==
    CASE linkfreq = 720 -> 6
      [] linkfreq = 594 -> 7

\* A mode, with what set_limits and adjust_exposure_range make of it.
imx662_mode(bits, width, height, hmax, linkfreq, binning) ==
    [width |-> width, height |-> height, hmax |-> hmax,
     delta |-> 70,            \* IMX662_MIN_FRAME_LENGTH_DELTA
     frame |-> (IF binning THEN height * 2 ELSE height) + 70,
     shutter |-> 4,           \* IMX662_MIN_SHR0_LENGTH
     tables |-> <<bits, width, height, hmax, imx662_datarate(linkfreq)>>]

imx662_modes_12bit ==
    << imx662_mode(12, 1920, 1080, 990, 594, FALSE),
       imx662_mode(12, 1280, 720, 990, 594, FALSE),
       imx662_mode(12, 640, 480, 990, 594, FALSE),
       imx662_mode(12, 968, 550, 990, 594, TRUE) >>

imx662_modes_10bit ==
    << imx662_mode(10, 1920, 1080, 660, 720, FALSE),
       imx662_mode(10, 1280, 720, 660, 720, FALSE),
       imx662_mode(10, 640, 480, 660, 720, FALSE) >>

imx662_get_mode_table == [SRGGB12 |-> imx662_modes_12bit, SRGGB10 |-> imx662_modes_10bit]

\* update_blklvl_range and set_blklvl.
imx662_blklvl == [SRGGB12 |-> [max |-> 4095, default |-> 200, unit |-> 4],
                 SRGGB10 |-> [max |-> 1023, default |-> 50, unit |-> 1]]

\* configure_triggering_pins: XVS_XHS_DRV.
imx662_syncs == <<"none", "internal", "external">>
imx662_triggering ==
    [op \in {Master, Slave}, sync \in {"none", "internal", "external"} |->
        [register |-> IF op = Master /\ sync = "internal" THEN 0 ELSE 15,
         vint |-> Unset, taken |-> sync]]

imx662_driver ==
    [codes |-> <<"SRGGB12", "SRGGB10">>,
     modes |-> imx662_get_mode_table,
     declared |-> [SRGGB12 |-> imx662_modes_12bit, SRGGB10 |-> imx662_modes_10bit],
     black |-> imx662_blklvl,
     minLines |-> 1,           \* IMX662_MIN_INTEGRATION_LINES
     highGain |-> 34,          \* IMX662_CONVERSION_ANA_GAIN_MIN
     maxGain |-> 240,          \* IMX662_ANA_GAIN_MAX
     even |-> TRUE,            \* update_frame_rate rounds up to even lengths
     syncs |-> imx662_syncs, trigger |-> imx662_triggering,
     extmode |-> [none |-> 0, internal |-> 0, external |-> 1]]

-----------------------------------------------------------------------------
\* The handlers: those of ImxSensor, on this driver's chip.
imx662_here == chip = "imx662"

imx662_init_controls == imx662_here /\ init_controls
imx662_probe == Init /\ imx662_init_controls

imx662_set_exposure == imx662_here /\ set_control("exposure")
imx662_update_frame_rate == imx662_here /\ set_control("rate")
imx662_adjust_gain_range ==
    imx662_here /\ (set_control("gain") \/ set_control("conversion"))
imx662_set_blklvl == imx662_here /\ set_control("black")
imx662_set_operation_mode == imx662_here /\ set_triggering
imx662_set_ctrl ==
    imx662_set_exposure \/ imx662_update_frame_rate \/ imx662_adjust_gain_range
    \/ imx662_set_blklvl \/ imx662_set_operation_mode
imx662_write_hold_reg == imx662_here /\ write_hold_reg

imx662_set_pad_format == imx662_here /\ set_pad_format

imx662_start_streaming == imx662_here /\ (StreamOn \/ StreamOnFails)
imx662_stop_streaming == imx662_here /\ StreamOff
imx662_set_stream ==
    (imx662_here /\ StreamOnWaits) \/ imx662_start_streaming \/ imx662_stop_streaming

imx662_power_off == imx662_here /\ (RuntimeSuspendBegins \/ PowerOff)
imx662_resume == imx662_here /\ (SystemSleep \/ SystemSleepFails)

imx662_next ==
    imx662_set_ctrl \/ imx662_write_hold_reg \/ imx662_set_pad_format
    \/ imx662_set_stream \/ imx662_power_off \/ imx662_resume
=============================================================================
