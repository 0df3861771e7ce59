-------------------------------- MODULE Ospi --------------------------------
(***************************************************************************)
(* The flash chip behind port/stm32l4s5/b_l4s5i_ospi_drv.c, and the steps  *)
(* in which BSP_OSPI_PageProgram and BSP_OSPI_SectorErase have it do a     *)
(* job: enable writing, send the command and its data, wait until the chip *)
(* is ready.                                                               *)
(*                                                                         *)
(* A chip at work answers nothing but the status read, and starts no job   *)
(* unless writing is enabled.                                              *)
(***************************************************************************)
EXTENDS Sequences

VARIABLES
    phase,    \* which step the driver is at
    wel,      \* the chip's write enable latch
    busy      \* the job it is doing (WIP), <<>> if none

ospiVars == <<phase, wel, busy>>

NoJob == <<>>

OspiInit == phase = "wren" /\ wel = FALSE /\ busy = NoJob

\* ospi_write_enable
Enabled == wel \/ busy = NoJob

WriteEnable ==
    /\ phase = "wren"
    /\ wel' = Enabled
    /\ phase' = "command"
    /\ UNCHANGED busy

Started(job) == IF wel /\ busy = NoJob THEN job ELSE busy

SendCommand(job) ==
    /\ phase = "command"
    /\ busy' = Started(job)
    /\ phase' = "wait"
    /\ UNCHANGED wel

\* Faulty: the end of the job is not waited for.
WaitReady_NotAtAll == phase = "wait" /\ phase' = "wren" /\ UNCHANGED <<wel, busy>>

\* ospi_wait_ready; the time-outs are longer than any job.
WaitReady ==
    /\ phase = "wait" /\ busy = NoJob
    /\ phase' = "wren"
    /\ UNCHANGED <<wel, busy>>

\* A step of the bus fails, before or after it has had its effect, or with a
\* part of the data sent; the function returns false.
StepFails(job, part) ==
    /\ phase' = "wren"
    /\ \/ phase = "wren" /\ wel' \in {wel, Enabled} /\ UNCHANGED busy
       \/ phase = "command" /\ busy' \in {busy, Started(job), Started(part)} /\ UNCHANGED wel
       \/ phase = "wait" /\ UNCHANGED <<wel, busy>>

JobDone == busy # NoJob /\ busy' = NoJob /\ wel' = FALSE /\ UNCHANGED phase

\* The processor is reset, the chip goes on.
DriverReset == phase' = "wren" /\ UNCHANGED <<wel, busy>>

\* Power is lost.
PowerOff == phase' = "wren" /\ wel' = FALSE /\ busy' = NoJob
=============================================================================
