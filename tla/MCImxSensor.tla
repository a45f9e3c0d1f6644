---------------------------- MODULE MCImxSensor ----------------------------
\* The four drivers, the IMX900's as a colour and as a monochrome sensor.
EXTENDS Imx662, Imx676, Imx678, Imx900

AllDrivers ==
    [imx662 |-> imx662_driver, imx676 |-> imx676_driver, imx678 |-> imx678_driver,
     imx900 |-> imx900_driver(TRUE), imx900mono |-> imx900_driver(FALSE)]

\* By way of AllDrivers, which TLC evaluates once.
MCDrivers == AllDrivers

MCInit == imx662_probe \/ imx676_probe \/ imx678_probe \/ imx900_probe

MCNext == imx662_next \/ imx676_next \/ imx678_next \/ imx900_next

MCSpec == MCInit /\ [][MCNext]_vars
=============================================================================
