------------------------------- MODULE Imx678 -------------------------------
(***************************************************************************)
(* The IMX678 driver: its modes and its bounds. A colour sensor with two   *)
(* bit depths; one mode of 12 bit bins 2x2, which doubles its              *)
(* shortest frame; XVS and XHS are driven for an internal sync.            *)
(***************************************************************************)
EXTENDS ImxSensor

\* set_hmax_register and set_data_rate: DATARATE_SEL of a link frequency.
imx678_datarate(linkfreq) ==
    CASE linkfreq = 1440 -> 3
      [] linkfreq = 1188 -> 4
      [] linkfreq = 891 -> 5

\* A mode, with what set_limits and adjust_exposure_range make of it.
imx678_mode(bits, width, height, hmax, linkfreq, binning) ==
    [width |-> width, height |-> height, hmax |-> hmax,
     delta |-> 70,            \* IMX678_MIN_FRAME_LENGTH_DELTA
     frame |-> (IF binning THEN height * 2 ELSE height) + 70,
     shutter |-> 3,           \* IMX678_MIN_SHR0_LENGTH
     tables |-> <<bits, width, height, hmax, imx678_datarate(linkfreq)>>]

imx678_modes_12bit ==
    << imx678_mode(12, 3856, 2180, 1100, 1188, FALSE),
       imx678_mode(12, 2608, 1964, 660, 1440, FALSE),
       imx678_mode(12, 1920, 1080, 660, 1440, FALSE),
       imx678_mode(12, 1928, 1090, 550, 1440, TRUE) >>

imx678_modes_10bit ==
    << imx678_mode(10, 3856, 2180, 1100, 891, FALSE),
       imx678_mode(10, 2608, 1964, 660, 1440, FALSE),
       imx678_mode(10, 1920, 1080, 550, 1440, FALSE) >>

imx678_get_mode_table == [SRGGB12 |-> imx678_modes_12bit, SRGGB10 |-> imx678_modes_10bit]

\* update_blklvl_range and set_blklvl.
imx678_blklvl == [SRGGB12 |-> [max |-> 4095, default |-> 200, unit |-> 4],
                 SRGGB10 |-> [max |-> 1023, default |-> 50, unit |-> 1]]

\* configure_triggering_pins: XVS_XHS_DRV.
imx678_syncs == <<"none", "internal", "external">>
imx678_triggering ==
    [op \in {Master, Slave}, sync \in {"none", "internal", "external"} |->
        [register |-> IF op = Master /\ sync = "internal" THEN 0 ELSE 15,
         vint |-> Unset, taken |-> sync]]

imx678_driver ==
    [codes |-> <<"SRGGB12", "SRGGB10">>,
     modes |-> imx678_get_mode_table,
     declared |-> [SRGGB12 |-> imx678_modes_12bit, SRGGB10 |-> imx678_modes_10bit],
     black |-> imx678_blklvl,
     minLines |-> 1,           \* IMX678_MIN_INTEGRATION_LINES
     highGain |-> 34,          \* IMX678_CONVERSION_ANA_GAIN_MIN
     maxGain |-> 240,          \* IMX678_ANA_GAIN_MAX
     even |-> TRUE,            \* update_frame_rate rounds up to even lengths
     syncs |-> imx678_syncs, trigger |-> imx678_triggering,
     extmode |-> [none |-> 0, internal |-> 0, external |-> 1]]

-----------------------------------------------------------------------------
\* The handlers: those of ImxSensor, on this driver's chip.
imx678_here == chip = "imx678"

imx678_init_controls == imx678_here /\ init_controls
imx678_probe == Init /\ imx678_init_controls

imx678_set_exposure == imx678_here /\ set_control("exposure")
imx678_update_frame_rate == imx678_here /\ set_control("rate")
imx678_adjust_gain_range ==
    imx678_here /\ (set_control("gain") \/ set_control("conversion"))
imx678_set_blklvl == imx678_here /\ set_control("black")
imx678_set_operation_mode == imx678_here /\ set_triggering
imx678_set_ctrl ==
    imx678_set_exposure \/ imx678_update_frame_rate \/ imx678_adjust_gain_range
    \/ imx678_set_blklvl \/ imx678_set_operation_mode
imx678_write_hold_reg == imx678_here /\ write_hold_reg

imx678_set_pad_format == imx678_here /\ set_pad_format

imx678_start_streaming == imx678_here /\ (StreamOn \/ StreamOnFails)
imx678_stop_streaming == imx678_here /\ StreamOff
imx678_set_stream ==
    (imx678_here /\ StreamOnWaits) \/ imx678_start_streaming \/ imx678_stop_streaming

imx678_power_off == imx678_here /\ (RuntimeSuspendBegins \/ PowerOff)
imx678_resume == imx678_here /\ (SystemSleep \/ SystemSleepFails)

imx678_next ==
    imx678_set_ctrl \/ imx678_write_hold_reg \/ imx678_set_pad_format
    \/ imx678_set_stream \/ imx678_power_off \/ imx678_resume
=============================================================================
