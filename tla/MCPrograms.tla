------------------------------ MODULE MCPrograms ------------------------------
(***************************************************************************)
(* Instance of Programs for TLC: all samples, and the caller.              *)
(***************************************************************************)
EXTENDS Programs

Everyone == InC \cup InCpp \cup {"caller"}

\* (set_sensor_time_stamp, which he may call as well, leaves time stamp mode)
Repertoire == {"stop_measurement", "laser_on", "product_type", "start_time_stamp_mode"}
=============================================================================
