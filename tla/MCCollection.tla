----------------------------- MODULE MCCollection -----------------------------
(* Tables for Collection: a small one with every kind of entry, and the real one. *)
EXTENDS Collection

SmallObdTier == <<1, 1, 2, 2, 3, 3>>
SmallInterval == <<2, 0, 1, 0, 3, 2>>

\* obdData[]: speed, RPM, throttle, load | fuel pressure, timing | coolant, intake.
RealObdTier == <<1, 1, 1, 1, 2, 2, 3, 3>>

\* UDS_DID_TABLE[], in its order: baseline, temperatures, pressures, air and fuel,
\* mechanical, DPF, SCR.
RealInterval ==
     <<10, 1, 1, 1, 10, 10, 10, 10, 10, 60>>
  \o <<0, 10, 10, 10, 10, 10, 60, 10>>
  \o <<10, 10, 0, 10, 10, 10, 10, 10>>
  \o <<0, 10, 10, 0, 60>>
  \o <<0, 60, 10, 10, 10, 10, 10>>
  \o <<60, 10, 10, 60, 60, 60>>
  \o <<1, 1, 60, 10, 60, 60, 10>>

=============================================================================
