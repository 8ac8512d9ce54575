------------------------------ MODULE MCPacket ------------------------------
\* Elements of the types processOBD(), processUDS(), processGPS() and processMEMS() add,
\* with the longest text: "300:255,", "300:65535,", "300:-123456.78,", three of "-12.34", and
\* the value of four bytes that a DID may have, "300:-2147483648.00,".
EXTENDS Packet

RecordElements ==
  {[bytes |-> 1, text |-> 8], [bytes |-> 2, text |-> 10], [bytes |-> 4, text |-> 15],
   [bytes |-> 4, text |-> 19], [bytes |-> 12, text |-> 24]}

=============================================================================
